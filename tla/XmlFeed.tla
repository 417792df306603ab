------------------------------- MODULE XmlFeed -------------------------------
(***************************************************************************)
(* XmlFeedParser: an XML document read as a list of operations, or, when   *)
(* it has none, as a flat list of objects.  Neither the policies nor the   *)
(* limits of the options are looked at, no observer is told and no event   *)
(* is logged.                                                              *)
(***************************************************************************)
EXTENDS VersionProfile, SequencesExt

CONSTANTS
    Documents,   \* the documents that may be read
    XmlVersions  \* the versions a caller may ask for

(* An element of the document as a JSON object: doc for all but a penalty, *)
(* which is a child element or an attribute of either name, a number or a  *)
(* RELTIME.                                                                *)
Penalty == [name : {"penalty", "penalty_time"}, attribute : BOOLEAN,
            reltime : BOOLEAN]

XmlObject == [doc : Doc, penalty : Penalty \cup {None}]

(* kTypeMappings: the names of objects are those of their types in the     *)
(* singular.                                                               *)
FindMapping(name) ==
    CASE name \in {"contest", "info"}                   -> "contest"
      [] name \in {"judgement-type", "judgement_type"} -> "judgement-types"
      [] name = "language"      -> "languages"
      [] name = "problem"       -> "problems"
      [] name = "group"         -> "groups"
      [] name = "organization"  -> "organizations"
      [] name = "team"          -> "teams"
      [] name = "submission"    -> "submissions"
      [] name = "judgement"     -> "judgements"
      [] name = "run"           -> "runs"
      [] name = "clarification" -> "clarifications"
      [] name = "award"         -> "awards"
      [] name = "state"         -> "state"
      [] OTHER                  -> None

(* A child of the root.  plural says that an s follows the name.  op and   *)
(* type are its children of these names, or None; object is its data child *)
(* if it has one, else what the element itself holds besides op and type;  *)
(* inner are its children taken as objects.                                *)
Element == [name : STRING, plural : BOOLEAN, op : STRING \cup {None},
            type : STRING \cup {None}, object : XmlObject,
            inner : Seq(XmlObject)]

ASSUME XmlAssumption ==
    /\ None # "kOk"
    /\ XmlVersions \subseteq Versions \cup {"kAuto"}
    /\ Documents \subseteq Seq(Element)
    /\ \A children \in Documents : \A i \in DOMAIN children :
           {FindMapping(children[i].name), FindMapping(children[i].type)}
               \subseteq Types \cup {None}

VARIABLES
    version,           \* ParseOptions.version
    document,          \* the children of the root
    at,                \* how many of them the current loop has looked at
    inner,             \* how many objects of the next one have been taken
    pc,                \* which loop it is
    found_op_events,
    diagnostics,
    counted,           \* the local event_count
    status,            \* of the StatusOr returned, None while reading
    singletons, collections, event_count, mirror

objectVars == <<singletons, collections, event_count, mirror>>
vars == <<version, document, at, inner, pc, found_op_events, diagnostics,
          counted, status, objectVars>>

Store == INSTANCE ContestStore
             WITH Objects <- Object, LogEvents <- {}, Diagnostics <- {},
                  event_log <- <<>>, heard <- <<>>

resolved_version == IF version = "kAuto" THEN "2023-06" ELSE version

Init ==
    /\ version \in XmlVersions
    /\ document = <<>>
    /\ at = 0
    /\ inner = 0
    /\ pc = "loading"
    /\ found_op_events = FALSE
    /\ diagnostics = <<>>
    /\ counted = 0
    /\ status = None
    /\ Store!Init

-----------------------------------------------------------------------------
Load(children) ==
    /\ pc = "loading"
    /\ document' = children
    /\ pc' = "operations"
    /\ UNCHANGED <<version, at, inner, found_op_events, diagnostics, counted,
                   status, objectVars>>

(* The file cannot be read, is no XML, or has no root.                     *)
FailToLoad ==
    /\ pc = "loading"
    /\ pc' = "done"
    /\ status' = "kParseError"
    /\ UNCHANGED <<version, document, at, inner, found_op_events, diagnostics,
                   counted, objectVars>>

(* XmlNodeToJson and NormalizeLegacyFields.  Attributes and penalty_time   *)
(* stay strings, which must then be a RELTIME; a penalty may be a number.  *)
ToJson(type, object) ==
    LET penalty == object.penalty
    IN  IF type # "contest" \/ penalty = None THEN object.doc
        ELSE IF penalty.reltime
        THEN [object.doc EXCEPT !.members = @ \cup {"penalty_reltime"}]
        ELSE IF penalty.name = "penalty" /\ ~penalty.attribute
        THEN [object.doc EXCEPT !.members = @ \cup {"penalty_minutes"}]
        ELSE [object.doc EXCEPT !.warns = @ + 1]

(* A decoder never fails on an object.  Its warnings are kept past any cap *)
(* and stand here as one; their line is the number of the object.          *)
Apply(type, object) ==
    LET doc == ToJson(type, object)
        obj == DecodeObject(resolved_version, type, doc)
    IN  /\ diagnostics' = IF doc.warns > 0
                          THEN Append(diagnostics, [code |-> "kInvalidTime",
                                                    line_no |-> counted])
                          ELSE diagnostics
        /\ IF type \in SingletonTypes
           THEN Store!ApplySingletonUpdate(type, obj)
           ELSE Store!ApplyUpsert(type, obj.id, obj)

IsOpBasedEvent(element) ==
    /\ element.name = "event" /\ ~element.plural
    /\ element.op # None \/ element.type # None

(* A child of the root that is no operation is passed over at first.       *)
PassOver ==
    /\ pc = "operations"
    /\ at < Len(document)
    /\ ~IsOpBasedEvent(document[at + 1])
    /\ at' = at + 1
    /\ UNCHANGED <<version, document, inner, pc, found_op_events, diagnostics,
                   counted, status, objectVars>>

(* What every operation does.                                              *)
Operation(event) ==
    /\ pc = "operations"
    /\ at < Len(document)
    /\ event = document[at + 1]
    /\ IsOpBasedEvent(event)
    /\ at' = at + 1
    /\ found_op_events' = TRUE
    /\ UNCHANGED <<version, document, inner, pc, status>>

(* Slips: only operations of a known type make the document a list of      *)
(* them; an operation of an unknown type is counted.                       *)
UnknownIsNoOperation(event) ==
    /\ pc = "operations"
    /\ at < Len(document)
    /\ event = document[at + 1]
    /\ IsOpBasedEvent(event)
    /\ FindMapping(event.type) = None
    /\ at' = at + 1
    /\ diagnostics' = Append(diagnostics, [code |-> "kUnknownEventType",
                                           line_no |-> 0])
    /\ UNCHANGED <<version, document, inner, pc, found_op_events, counted,
                   status, objectVars>>

UnknownIsCounted(event) ==
    /\ Operation(event)
    /\ FindMapping(event.type) = None
    /\ diagnostics' = Append(diagnostics, [code |-> "kUnknownEventType",
                                           line_no |-> 0])
    /\ counted' = counted + 1
    /\ UNCHANGED objectVars

(* The plural names of the API itself are unknown here.                    *)
ReportUnknownType(event) ==
    /\ Operation(event)
    /\ FindMapping(event.type) = None
    /\ diagnostics' = Append(diagnostics, [code |-> "kUnknownEventType",
                                           line_no |-> 0])
    /\ UNCHANGED <<counted, objectVars>>

(* A delete without an id deletes nothing and is counted.                  *)
Delete(event) ==
    LET id == event.object.doc.id
    IN  /\ Operation(event)
        /\ FindMapping(event.type) # None
        /\ event.op = "delete"
        /\ IF id = None THEN UNCHANGED objectVars
           ELSE Store!ApplyDelete(FindMapping(event.type), id)
        /\ counted' = counted + 1
        /\ UNCHANGED diagnostics

(* Any other op creates or updates, a missing one too.                     *)
Upsert(event) ==
    /\ Operation(event)
    /\ FindMapping(event.type) # None
    /\ event.op # "delete"
    /\ Apply(FindMapping(event.type), event.object)
    /\ counted' = counted + 1

EndOfOperations ==
    /\ pc = "operations"
    /\ at = Len(document)
    /\ IF found_op_events
       THEN pc' = "done" /\ status' = "kOk" /\ UNCHANGED at
       ELSE pc' = "flat" /\ at' = 0 /\ UNCHANGED status
    /\ UNCHANGED <<version, document, inner, found_op_events, diagnostics,
                   counted, objectVars>>

(* The objects a child of the root stands for: itself, or, under a plural  *)
(* name, each of its children, whatever that child's name.                 *)
FlatObjects(element) ==
    LET type == FindMapping(element.name)
    IN  IF type = None THEN <<>>
        ELSE IF element.plural
        THEN [i \in DOMAIN element.inner |->
                 [type |-> type, object |-> element.inner[i]]]
        ELSE <<[type |-> type, object |-> element.object]>>

ApplyFlat ==
    /\ pc = "flat"
    /\ at < Len(document)
    /\ LET objects == FlatObjects(document[at + 1])
       IN  /\ inner < Len(objects)
           /\ Apply(objects[inner + 1].type, objects[inner + 1].object)
    /\ inner' = inner + 1
    /\ counted' = counted + 1
    /\ UNCHANGED <<version, document, at, pc, found_op_events, status>>

NextChild ==
    /\ pc = "flat"
    /\ at < Len(document)
    /\ inner = Len(FlatObjects(document[at + 1]))
    /\ at' = at + 1
    /\ inner' = 0
    /\ UNCHANGED <<version, document, pc, found_op_events, diagnostics,
                   counted, status, objectVars>>

(* A document in which nothing is recognised is a success without objects. *)
EndOfFlat ==
    /\ pc = "flat"
    /\ at = Len(document)
    /\ pc' = "done"
    /\ status' = "kOk"
    /\ UNCHANGED <<version, document, at, inner, found_op_events, diagnostics,
                   counted, objectVars>>

Next ==
    \/ \E children \in Documents : Load(children)
    \/ FailToLoad
    \/ PassOver
    \/ \E event \in ToSet(document) :
           ReportUnknownType(event) \/ Delete(event) \/ Upsert(event)
    \/ EndOfOperations
    \/ ApplyFlat
    \/ NextChild
    \/ EndOfFlat

Spec == Init /\ [][Next]_vars

-----------------------------------------------------------------------------
(* Where the document has operations.                                      *)
Operations == {i \in DOMAIN document : IsOpBasedEvent(document[i])}

Unknown == {i \in Operations : FindMapping(document[i].type) = None}

(* Where the document says something: at its operations of a known type if *)
(* it has any operation at all, at its flat objects if not.  A place is a  *)
(* child of the root and one of its objects.                               *)
Words ==
    IF Operations # {} THEN (Operations \ Unknown) \X {1}
    ELSE UNION {{i} \X DOMAIN FlatObjects(document[i]) : i \in DOMAIN document}

Before(p, q) == p[1] < q[1] \/ (p[1] = q[1] /\ p[2] < q[2])

(* What it says there.                                                     *)
Word(p) ==
    LET child == document[p[1]]
        flat  == FlatObjects(child)[p[2]]
    IN  IF Operations # {}
        THEN [type   |-> FindMapping(child.type),
              delete |-> child.op = "delete",
              doc    |-> ToJson(FindMapping(child.type), child.object)]
        ELSE [type   |-> flat.type,
              delete |-> FALSE,
              doc    |-> ToJson(flat.type, flat.object)]

Pointless(word) == word.delete /\ word.doc.id = None

(* A word about (type, id).  An object without an id is one with id "".    *)
About(word, type, id) ==
    /\ word.type = type
    /\ ~Pointless(word)
    /\ \/ type \in SingletonTypes
       \/ DecodeObject(resolved_version, type, word.doc).id = id

Says(word) ==
    IF word.delete THEN None
    ELSE DecodeObject(resolved_version, word.type, word.doc)

(* The object is what the last of some words about it says.                *)
StandsFor(words, type, id) ==
    LET about == {p \in words : About(Word(p), type, id)}
    IN  \/ about = {} /\ Store!GetObject(type, id) = None
        \/ \E p \in about : /\ \A q \in about \ {p} : Before(q, p)
                            /\ Store!GetObject(type, id) = Says(Word(p))

(* Every object is what the last word about it says, under the version the *)
(* caller asked for or the older one.  A single operation, even one of an  *)
(* unknown type, silences every flat object of the document.               *)
LastWordStands ==
    status = "kOk" =>
        \A type \in Types, id \in Keys : StandsFor(Words, type, id)

(* The diagnostics with a code; and the number of a word, as decoders are  *)
(* told it for the line of their warnings.                                 *)
Coded(code) == {i \in DOMAIN diagnostics : diagnostics[i].code = code}

NumberOf(p) == Cardinality({q \in Words : Before(q, p)})

Warns(word) == word.doc.warns > 0 /\ ~word.delete

(* Nothing is lost from the counts: an operation is counted or reported,   *)
(* a flat object is counted; the store counts the same but for deletes     *)
(* that name nothing; and the lines of the decoders' warnings are the      *)
(* numbers of the words that warn, in their order.                         *)
EveryWordIsAccountedFor ==
    status = "kOk" =>
        /\ counted = Cardinality(Words)
        /\ Cardinality(Coded("kUnknownEventType")) = Cardinality(Unknown)
        /\ event_count =
               counted - Cardinality({p \in Words : Pointless(Word(p))})
        /\ {diagnostics[i].line_no : i \in Coded("kInvalidTime")} =
               {NumberOf(p) : p \in {q \in Words : Warns(Word(q))}}
        /\ \A i, j \in Coded("kInvalidTime") :
               i < j => diagnostics[i].line_no < diagnostics[j].line_no

=============================================================================
