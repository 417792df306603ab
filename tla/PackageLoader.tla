---------------------------- MODULE PackageLoader ----------------------------
(***************************************************************************)
(* PackageParser::ParsePackageDirectory: the directory's own event feed is *)
(* parsed if it has one; otherwise a feed is written out of its endpoint   *)
(* files, each pasted into one line, and parsed as a stream.               *)
(***************************************************************************)
EXTENDS StreamParser

CONSTANT Packages  \* what the path may name

(* The text of an endpoint file: the JSON value it holds, "missing" if it  *)
(* holds none, the bytes of the line it is pasted into, and whether a      *)
(* number no double holds is met on that line before it stops being JSON.  *)
(* rest has the lines of the pasted text behind its first line break: none *)
(* of them is an event, for no object of the API has both a type and a     *)
(* data member.                                                            *)
Content == [data : DataShapes, docs : Seq(Doc), bytes : Nat,
            overflow : BOOLEAN, rest : Seq(Line)]

FileStates == {"absent", "unreadable", "readable"}

File == [state : FileStates, content : Content]

Package == [is_directory : BOOLEAN,
            feed         : [state : FileStates, lines : Seq(Lines)],
            file         : [{"contest"} \cup CollectionTypes -> File]]

(* The files read besides contest.json: one for every type of collection.  *)
EndpointTypes ==
    {"judgement-types", "languages", "problems", "groups", "organizations",
     "teams", "persons", "accounts", "submissions", "judgements", "runs",
     "clarifications", "awards", "commentary"}

ASSUME PackageAssumption ==
    /\ CollectionTypes \subseteq EndpointTypes
    /\ Packages \subseteq Package
    /\ \A package \in Packages, type \in {"contest"} \cup CollectionTypes :
           LET content == package.file[type].content
           IN  /\ content.data = "object" => Len(content.docs) = 1
               /\ content.bytes > 0
               /\ \A i \in DOMAIN content.rest :
                      /\ WellFormed(content.rest[i])
                      /\ \/ IsKeepalive(content.rest[i])
                         \/ LineError(content.rest[i],
                                      content.rest[i].bytes) # None

VARIABLE package  \* the package parsed, or None

packageVars == <<allVars, package>>

-----------------------------------------------------------------------------
(* {"type":"state","data":{}}                                              *)
StateLine ==
    [root |-> "object", bytes |-> 1, type |-> "state", id |-> None,
     token |-> None, data |-> "object", docs |-> <<EmptyDoc(NullRev)>>]

(* The line a file is pasted into.  A line break anywhere in the text, the *)
(* one at its end too, cuts it off before its closing brace.               *)
FirstLine(type, content) ==
    [root  |-> IF content.overflow THEN "overflow"
               ELSE IF content.data = "missing" \/ content.rest # <<>>
               THEN "malformed" ELSE "object",
     bytes |-> content.bytes, type |-> type, id |-> None, token |-> None,
     data  |-> content.data, docs |-> content.docs]

Pasted(type, content) == <<FirstLine(type, content)>> \o content.rest

FileLines(p, type) ==
    IF type \in DOMAIN p.file /\ p.file[type].state = "readable"
    THEN Pasted(type, p.file[type].content) ELSE <<>>

(* The order in which they are read.                                       *)
EndpointLines(p) ==
    FileLines(p, "judgement-types") \o FileLines(p, "languages")
        \o FileLines(p, "problems") \o FileLines(p, "groups")
        \o FileLines(p, "organizations") \o FileLines(p, "teams")
        \o FileLines(p, "persons") \o FileLines(p, "accounts")
        \o FileLines(p, "submissions") \o FileLines(p, "judgements")
        \o FileLines(p, "runs") \o FileLines(p, "clarifications")
        \o FileLines(p, "awards") \o FileLines(p, "commentary")

(* A slip: the contest is written behind the objects that depend on it.    *)
ContestLast(p) == <<StateLine>> \o EndpointLines(p) \o FileLines(p, "contest")

SyntheticFeed(p) ==
    <<StateLine>> \o FileLines(p, "contest") \o EndpointLines(p)

(* Files may vanish or turn unreadable between the look and the opening:   *)
(* an endpoint file is then passed over, an event feed is an error.        *)
ParsePackageDirectory(p) ==
    /\ package' = p
    /\ IF ~p.is_directory
       THEN FailToOpen("kInvalidArgument")
       ELSE IF p.feed.state = "readable"   THEN Open(p.feed.lines)
       ELSE IF p.feed.state = "unreadable" THEN FailToOpen("kNotFound")
       ELSE IF p.file["contest"].state = "absent" THEN FailToOpen("kNotFound")
       ELSE Open(SyntheticFeed(p))

PackageInit == ParserInit /\ package = None

PackageNext ==
    \/ ParserNext /\ UNCHANGED package
    \/ \E p \in Packages : ParsePackageDirectory(p)

PackageSpec == PackageInit /\ [][PackageNext]_packageVars

-----------------------------------------------------------------------------
(* The file reaches the parser as one line within the limit.               *)
Whole(file) ==
    /\ file.state = "readable"
    /\ file.content.rest = <<>>
    /\ ~file.content.overflow
    /\ file.content.bytes <= options.max_line_bytes

(* What readers should find of a type whose file is whole.                 *)
Held(type, content) ==
    LET obj == DecodeObject(resolved_version, type,
                   IF content.data = "null" THEN EmptyDoc(NullRev)
                   ELSE content.docs[1])
    IN  CASE content.data \in {"object", "null"} ->
                 [id \in Keys |-> IF type \in SingletonTypes \/ id = obj.id
                                  THEN obj ELSE None]
          [] /\ content.data = "array" /\ type \in CollectionTypes
             /\ CollectionDecodes(content.docs) ->
                 Store!CollectionOf(DecodeCollection(resolved_version, type,
                                                     content.docs))
          [] OTHER -> [id \in Keys |-> None]

(* A package without an event feed is parsed to what its files hold, under *)
(* the version its contest speaks for.  A file that is broken over lines,  *)
(* too long or no JSON costs its own objects and no other file's, and an   *)
(* error is reported for every such file, unless the errors of one file    *)
(* stop the parser before it has come to the rest.                         *)
PackageIsItsFiles ==
    pc = "done" /\ result = "kOk" /\ package # None =>
        LET p    == package
            lost == {t \in DOMAIN p.file : /\ p.file[t].state = "readable"
                                           /\ \/ ~Whole(p.file[t])
                                              \/ p.file[t].content.data = "missing"}
        IN  p.feed.state = "absent" /\ taken = Len(input) =>
                /\ \A type \in DOMAIN p.file :
                       View[type] = IF Whole(p.file[type])
                                    THEN Held(type, p.file[type].content)
                                    ELSE [id \in Keys |-> None]
                /\ Cardinality(Reported("error")) >= Cardinality(lost)

=============================================================================
