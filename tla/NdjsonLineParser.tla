-------------------------- MODULE NdjsonLineParser --------------------------
(***************************************************************************)
(* ParseNdjsonLine: the classification of one line of the feed into a      *)
(* keepalive, an event of one of four shapes, or a parse error.  A line is *)
(* described by what the parser looks at, in the order it looks at it.     *)
(***************************************************************************)
EXTENDS CcsData

CONSTANT NullRev  \* the revision of an object decoded from an empty document

ASSUME NullRevAssumption == NullRev \in Revs

DataShapes == {"missing", "null", "object", "array", "scalar"}

(* root: "blank" once trailing white space is trimmed, "malformed" when    *)
(* json::parse throws a parse_error, "overflow" when it throws out_of_range*)
(* for a number no double holds, "scalar" when the root is no object.      *)
Line == [root  : {"blank", "malformed", "overflow", "scalar", "object"},
         bytes : Nat,
         type  : Types \cup {UnknownType, None, NotString},
         id    : Keys \cup {None, NotString},
         token : Tokens \cup {None, NotString},
         data  : DataShapes,
         docs  : Seq(Doc)]

LineErrors == {"kLineTooLong", "kMalformedJson", "kNonObjectRoot",
               "kMissingType", "kInvalidTypeField", "kMissingData",
               "kInvalidTokenType", "kInvalidIdType"}

ASSUME ErrorAssumption == None \notin LineErrors

(* The first check the line fails, as the diagnostic code ConsumeLine      *)
(* derives from the error message, or None.  A message about the shape of  *)
(* "data" matches no known text and is reported as kMalformedJson.         *)
LineError(line, max_line_bytes) ==
    IF line.bytes > max_line_bytes  THEN "kLineTooLong"
    ELSE IF line.root = "malformed" THEN "kMalformedJson"
    ELSE IF line.root = "scalar"    THEN "kNonObjectRoot"
    ELSE IF line.type = None        THEN "kMissingType"
    ELSE IF line.type = NotString   THEN "kInvalidTypeField"
    ELSE IF line.data = "missing"   THEN "kMissingData"
    ELSE IF line.token = NotString  THEN "kInvalidTokenType"
    ELSE IF line.id = NotString     THEN "kInvalidIdType"
    ELSE IF \/ line.data = "scalar"
            \/ line.id # None /\ line.data = "array" THEN "kMalformedJson"
    ELSE None

IsKeepalive(line) == line.root = "blank"

(* Only parse_error is caught: any other exception leaves the parser.      *)
Escapes(line, max_line_bytes) ==
    line.root = "overflow" /\ line.bytes <= max_line_bytes

ShapeOf(line) ==
    IF line.id # None
    THEN IF line.data = "null" THEN "delete" ELSE "single"
    ELSE IF line.data = "array" THEN "collection" ELSE "singleton"

(* The event of a line that passed every check.  Null data, of a delete or *)
(* of an event without id, becomes an empty document.                      *)
EventOf(line, line_no) ==
    [type |-> line.type, id |-> line.id, shape |-> ShapeOf(line),
     token |-> line.token, line_no |-> line_no,
     docs |-> IF line.data = "null" THEN <<EmptyDoc(NullRev)>> ELSE line.docs]

=============================================================================
