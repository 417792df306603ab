--------------------------- MODULE SessionProofs ---------------------------
(***************************************************************************)
(* Theorems about a streaming session, for every feed, every set of        *)
(* options and every bound on the number of lines: its types, observers,   *)
(* log and diagnostics; what the log tells of the version, of the end of   *)
(* updates and of all the objects; what the diagnostics tell of the run    *)
(* of errors and of the counts; and what applications make of a session:   *)
(* the restoration of a checkpoint from the log, the parsing of a whole    *)
(* stream, and that of a package made of files.                            *)
(***************************************************************************)
EXTENDS SessionProperties, CheckpointedSession, PackageLoader,
        SequenceTheorems, FiniteSetTheorems, WellFoundedInduction, TLAPS

StoreProofs == INSTANCE ContestStoreProofs
                   WITH Objects <- Object, LogEvents <- Event,
                        Diagnostics <- Diagnostic

-----------------------------------------------------------------------------
(* The store's lemmas, said of the session's store                         *)

LEMMA StoreAssumed == StoreProofs!StoreAssumption
BY DataAssumption, ObjectAssumption
   DEF StoreProofs!StoreAssumption, SingletonTypes, Object

LEMMA SameObjects ==
    /\ Store!ObjectsOK <=> StoreProofs!ObjectsOK
    /\ View = StoreProofs!View
    /\ Types = StoreProofs!Types
BY DEF Store!ObjectsOK, StoreProofs!ObjectsOK, View, Store!View,
       StoreProofs!View, Store!GetObject, StoreProofs!GetObject,
       Types, Store!Types, StoreProofs!Types, SingletonTypes,
       Store!SingletonTypes, StoreProofs!SingletonTypes

LEMMA SameObjectsNext ==
    /\ Store!ObjectsOK' <=> StoreProofs!ObjectsOK'
    /\ View' = StoreProofs!View'
BY DEF Store!ObjectsOK, StoreProofs!ObjectsOK, View, Store!View,
       StoreProofs!View, Store!GetObject, StoreProofs!GetObject,
       Store!Types, StoreProofs!Types,
       Store!SingletonTypes, StoreProofs!SingletonTypes

LEMMA StoreUpsert ==
    ASSUME Store!ObjectsOK, NEW type \in Types, NEW id \in Keys,
           NEW obj \in Object, Store!ApplyUpsert(type, id, obj)
    PROVE  Store!ObjectsOK' /\ (ObserverAgrees => ObserverAgrees')
<1>1. StoreProofs!ApplyUpsert(type, id, obj)
  BY DEF Store!ApplyUpsert, StoreProofs!ApplyUpsert, Store!Mirrored,
         StoreProofs!Mirrored, Store!SingletonTypes,
         StoreProofs!SingletonTypes
<1> QED
  BY <1>1, StoreAssumed, SameObjects, SameObjectsNext,
     StoreProofs!ApplyUpsertType, StoreProofs!ApplyUpsertAgrees
     DEF ObserverAgrees

LEMMA StoreDelete ==
    ASSUME Store!ObjectsOK, NEW type \in Types, NEW id \in Keys,
           Store!ApplyDelete(type, id)
    PROVE  Store!ObjectsOK' /\ (ObserverAgrees => ObserverAgrees')
<1>1. StoreProofs!ApplyDelete(type, id)
  BY DEF Store!ApplyDelete, StoreProofs!ApplyDelete, Store!Mirrored,
         StoreProofs!Mirrored, Store!SingletonTypes,
         StoreProofs!SingletonTypes
<1> QED
  BY <1>1, StoreAssumed, SameObjects, SameObjectsNext,
     StoreProofs!ApplyDeleteType, StoreProofs!ApplyDeleteAgrees
     DEF ObserverAgrees

LEMMA StoreReplace ==
    ASSUME Store!ObjectsOK, NEW type \in Types, NEW objs \in Seq(Object),
           Store!ApplyCollectionReplace(type, objs)
    PROVE  Store!ObjectsOK' /\ (ObserverAgrees => ObserverAgrees')
<1>1. StoreProofs!ApplyCollectionReplace(type, objs)
  BY DEF Store!ApplyCollectionReplace, StoreProofs!ApplyCollectionReplace,
         Store!Mirrored, StoreProofs!Mirrored, Store!SingletonTypes,
         StoreProofs!SingletonTypes, Store!CollectionOf,
         StoreProofs!CollectionOf
<1> QED
  BY <1>1, StoreAssumed, SameObjects, SameObjectsNext,
     StoreProofs!ApplyCollectionReplaceType,
     StoreProofs!ApplyCollectionReplaceAgrees
     DEF ObserverAgrees

-----------------------------------------------------------------------------
(* What readers see of the store's calls                                   *)

LEMMA FeedTypes ==
    /\ SingletonTypes \subseteq Types /\ CollectionTypes \subseteq Types
    /\ \A t \in Types : t \in CollectionTypes <=> t \notin SingletonTypes
    /\ StoreProofs!SingletonTypes = SingletonTypes
    /\ Feed!Table!Types = Types
BY DataAssumption DEF Types, SingletonTypes, StoreProofs!SingletonTypes,
                      Feed!Table!Types

LEMMA SeenType ==
    ASSUME Store!ObjectsOK
    PROVE  View \in [Types -> [Keys -> Object \cup {None}]]
BY StoreAssumed, SameObjects, StoreProofs!ViewType

LEMMA SameView ==
    ASSUME UNCHANGED objectVars
    PROVE  UNCHANGED View
BY DEF objectVars, View, Store!View, Store!GetObject

(* An upsert is seen under its id, or under every id for a singleton.      *)
LEMMA SeenUpsert ==
    ASSUME Store!ObjectsOK, NEW type \in Types, NEW id \in Keys,
           NEW obj \in Object, Store!ApplyUpsert(type, id, obj)
    PROVE  View' = IF type \in SingletonTypes
                   THEN [View EXCEPT ![type] = [k \in Keys |-> obj]]
                   ELSE [View EXCEPT ![type] = [@ EXCEPT ![id] = obj]]
<1>0. StoreProofs!ObjectsOK /\ type \in StoreProofs!Types
  BY SameObjects
<1>1. CASE type \in SingletonTypes
  <2>1. /\ singletons' = [singletons EXCEPT ![type] = obj]
        /\ UNCHANGED collections
    BY <1>1 DEF Store!ApplyUpsert, Store!SingletonTypes, SingletonTypes
  <2> QED
    BY <1>0, <1>1, <2>1, FeedTypes, StoreAssumed, SameObjects,
       SameObjectsNext, StoreProofs!SingletonSeen
<1>2. CASE type \notin SingletonTypes
  <2>1. /\ collections' = [collections EXCEPT
                               ![type] = [@ EXCEPT ![id] = obj]]
        /\ UNCHANGED singletons
    BY <1>2 DEF Store!ApplyUpsert, Store!SingletonTypes, SingletonTypes
  <2>2. type \in StoreProofs!Types \ StoreProofs!SingletonTypes
    BY <1>0, <1>2, FeedTypes
  <2>3. StoreProofs!View' = [StoreProofs!View EXCEPT
                                 ![type] = [@ EXCEPT ![id] = obj]]
    BY <1>0, <2>1, <2>2, StoreAssumed, StoreProofs!EntrySeen
  <2> QED
    BY <1>2, <2>3, SameObjects, SameObjectsNext
<1> QED
  BY <1>1, <1>2

(* A delete of what is not there leaves everything as it was.              *)
LEMMA SeenDelete ==
    ASSUME Store!ObjectsOK, NEW type \in Types, NEW id \in Keys,
           Store!ApplyDelete(type, id)
    PROVE  View' = IF type \in SingletonTypes
                   THEN [View EXCEPT ![type] = [k \in Keys |-> None]]
                   ELSE IF View[type][id] = None THEN View
                   ELSE [View EXCEPT ![type] = [@ EXCEPT ![id] = None]]
<1>0. StoreProofs!ObjectsOK /\ type \in StoreProofs!Types
  BY SameObjects
<1>1. CASE type \in SingletonTypes
  <2>1. /\ singletons' = [singletons EXCEPT ![type] = None]
        /\ UNCHANGED collections
    BY <1>1 DEF Store!ApplyDelete, Store!SingletonTypes, SingletonTypes
  <2> QED
    BY <1>0, <1>1, <2>1, FeedTypes, StoreAssumed, SameObjects,
       SameObjectsNext, StoreProofs!SingletonSeen
<1>2. type \notin SingletonTypes => View[type][id] = collections[type][id]
  BY DEF View, Store!View, Store!GetObject, Store!Types, Types,
         Store!SingletonTypes, SingletonTypes
<1>3. CASE type \notin SingletonTypes /\ collections[type][id] = None
  <2>1. UNCHANGED View
    BY <1>3 DEF Store!ApplyDelete, Store!SingletonTypes, SingletonTypes,
                View, Store!View, Store!GetObject
  <2> QED
    BY <1>2, <1>3, <2>1
<1>4. CASE type \notin SingletonTypes /\ collections[type][id] # None
  <2>1. /\ collections' = [collections EXCEPT
                               ![type] = [@ EXCEPT ![id] = None]]
        /\ UNCHANGED singletons
    BY <1>4 DEF Store!ApplyDelete, Store!SingletonTypes, SingletonTypes
  <2>2. type \in StoreProofs!Types \ StoreProofs!SingletonTypes
    BY <1>0, <1>4, FeedTypes
  <2>3. StoreProofs!View' = [StoreProofs!View EXCEPT
                                 ![type] = [@ EXCEPT ![id] = None]]
    BY <1>0, <2>1, <2>2, StoreAssumed, StoreProofs!EntrySeen
  <2>4. View' = [View EXCEPT ![type] = [@ EXCEPT ![id] = None]]
    BY <2>3, SameObjects, SameObjectsNext
  <2> QED
    BY <1>2, <1>4, <2>4
<1> QED
  BY <1>1, <1>3, <1>4

(* A replacement is seen as a whole, and not at all for a singleton type.  *)
LEMMA SeenReplacement ==
    ASSUME Store!ObjectsOK, NEW type \in Types, NEW objs \in Seq(Object),
           Store!ApplyCollectionReplace(type, objs)
    PROVE  /\ StoreProofs!CollectionOf(objs) \in [Keys -> Object \cup {None}]
           /\ View' = IF type \in SingletonTypes THEN View
                      ELSE [View EXCEPT
                                ![type] = StoreProofs!CollectionOf(objs)]
<1> DEFINE row == StoreProofs!CollectionOf(objs)
<1>0. StoreProofs!ObjectsOK /\ type \in StoreProofs!Types
  BY SameObjects
<1>1. /\ collections' = [collections EXCEPT ![type] = row]
      /\ UNCHANGED singletons
  BY DEF Store!ApplyCollectionReplace, Store!CollectionOf,
         StoreProofs!CollectionOf
<1>2. row \in [Keys -> Object \cup {None}]
  BY StoreAssumed, StoreProofs!CollectionOfType
<1> SUFFICES View' = IF type \in SingletonTypes THEN View
                     ELSE [View EXCEPT ![type] = row]
  BY <1>2
<1> HIDE DEF row
<1> QED
  BY <1>0, <1>1, <1>2, FeedTypes, StoreAssumed, SameObjects,
     SameObjectsNext, StoreProofs!ReplacementSeen

-----------------------------------------------------------------------------
(* Data                                                                    *)

(* A decoded document is an object.                                        *)
LEMMA DecodeObjectType ==
    ASSUME NEW version, NEW type, NEW doc \in Doc
    PROVE  DecodeObject(version, type, doc) \in Object
<1>1. ClarificationMembers(version, doc.members) \in SUBSET VersionMembers
  BY DEF ClarificationMembers, Doc
<1> QED
  BY <1>1 DEF DecodeObject, Object, Doc, Keys

(* The lines a feed of any kind may have: those of Lines and more.         *)
FeedLines == {line \in Line : WellFormed(line)}

Passes(line, max_line_bytes) ==
    /\ ~IsKeepalive(line)
    /\ ~Escapes(line, max_line_bytes)
    /\ LineError(line, max_line_bytes) = None

(* A line that passed every check yields an event of the shape its members *)
(* call for, with the document that shape needs.                           *)
LEMMA EventOfType ==
    ASSUME NEW line \in FeedLines, NEW line_no \in Nat,
           NEW max_line_bytes \in Nat, Passes(line, max_line_bytes)
    PROVE  LET event == EventOf(line, line_no)
           IN  /\ event \in Event
               /\ event.line_no = line_no
               /\ event.shape \in {"single", "singleton"} =>
                      Len(event.docs) = 1
               /\ event.shape \in {"delete", "single"} => event.id \in Keys
<1>1. line \in Line /\ WellFormed(line)
  BY DEF FeedLines
<1>2. /\ line.type \in Types \cup {UnknownType}
      /\ line.token \in Tokens \cup {None}
      /\ line.id \in Keys \cup {None}
      /\ line.data \in {"null", "object", "array"}
      /\ line.id # None => line.data # "array"
  BY <1>1, ErrorAssumption
     DEF Passes, LineError, LineErrors, IsKeepalive, Line, DataShapes
<1>3. EmptyDoc(NullRev) \in Doc
  BY NullRevAssumption DEF EmptyDoc, Doc
<1>4. <<EmptyDoc(NullRev)>> \in Seq(Doc) /\ Len(<<EmptyDoc(NullRev)>>) = 1
  BY <1>3
<1>5. line.docs \in Seq(Doc)
  BY <1>1 DEF Line
<1>6. ShapeOf(line) \in Shapes
  BY DEF ShapeOf, Shapes
<1>7. EventOf(line, line_no) \in Event
  BY <1>2, <1>4, <1>5, <1>6 DEF EventOf, Event
<1> QED
  BY <1>1, <1>2, <1>4, <1>7 DEF EventOf, ShapeOf, WellFormed

(* The events ApplyEvent is given: every line that passes the checks.      *)
Parsed(event) ==
    /\ event \in Event
    /\ event.line_no = cursor.line_no + 1
    /\ event.shape \in {"single", "singleton"} => Len(event.docs) = 1
    /\ event.shape \in {"delete", "single"} => event.id \in Keys

LEMMA DecodeCollectionType ==
    ASSUME NEW version, NEW type, NEW docs \in Seq(Doc)
    PROVE  DecodeCollection(version, type, docs) \in Seq(Object)
<1>1. docs \in [1..Len(docs) -> Doc] /\ Len(docs) \in Nat
  OBVIOUS
<1>2. DecodeCollection(version, type, docs) \in [1..Len(docs) -> Object]
  BY <1>1, DecodeObjectType DEF DecodeCollection
<1> QED
  BY <1>1, <1>2

LEMMA DiagnosticType ==
    ASSUME NEW code \in Codes, NEW line_no \in Nat
    PROVE  /\ Error(code, line_no) \in Diagnostic
           /\ Warning(code, line_no) \in Diagnostic
BY DEF Error, Warning, Diagnostic

(* The warnings of a sequence of documents are finitely many.              *)
LEMMA WarningsAreFinite ==
    ASSUME NEW docs \in Seq(Doc)
    PROVE  WarningsOf(docs) \in Nat
<1> DEFINE D == DOMAIN docs
           Of(d) == {d} \X (1..docs[d].warns)
           parts == {Of(d) : d \in D}
<1>1. IsFiniteSet(D)
  <2>1. D = 1..Len(docs) /\ Len(docs) \in Nat
    OBVIOUS
  <2> QED
    BY <2>1, FS_Interval
<1>2. ASSUME NEW d \in D
      PROVE  IsFiniteSet(Of(d))
  <2>1. docs[d] \in Doc
    OBVIOUS
  <2> DEFINE n == docs[d].warns
  <2>2. n \in Nat
    BY <2>1 DEF Doc
  <2>3. IsFiniteSet({d})
    BY FS_Singleton
  <2> HIDE DEF n
  <2>4. IsFiniteSet(1..n)
    BY <2>2, FS_Interval
  <2>5. IsFiniteSet({d} \X (1..n))
    BY <2>3, <2>4, FS_Product
  <2> QED
    BY <2>5 DEF n
<1>3. IsFiniteSet(parts)
  <2>1. [d \in D |-> Of(d)] \in Surjection(D, parts)
    BY DEF Surjection
  <2> HIDE DEF D, parts
  <2> QED
    BY <1>1, <2>1, FS_Surjection
<1>4. \A part \in parts : IsFiniteSet(part)
  BY <1>2
<1>5. WarningsOf(docs) = Cardinality(UNION parts)
  BY DEF WarningsOf
<1> HIDE DEF parts
<1> QED
  BY <1>3, <1>4, <1>5, FS_UNION, FS_CardinalityType

LEMMA DecoderWarningsType ==
    ASSUME NEW event \in Event
    PROVE  DecoderWarnings(event) \in Seq(Diagnostic)
<1>1. event.docs \in Seq(Doc) /\ event.line_no \in Nat
  BY DEF Event
<1>2. WarningsOf(event.docs) \in Nat
  BY <1>1, WarningsAreFinite
<1>3. Warning("kInvalidTime", event.line_no) \in Diagnostic
  BY <1>1, DiagnosticType DEF Codes
<1> QED
  BY <1>2, <1>3 DEF DecoderWarnings

-----------------------------------------------------------------------------
(* The parts of an action                                                  *)

LEMMA OptionsType ==
    ASSUME TypeOK
    PROVE  /\ options.max_diagnostics \in Nat
           /\ options.max_consecutive_errors \in Nat
           /\ options.max_line_bytes \in Nat
           /\ options.version \in Versions \cup {"kAuto"}
BY SessionAssumption DEF TypeOK, Options

LEMMA AddDiagnosticsType ==
    ASSUME TypeOK, NEW diags \in Seq(Diagnostic), AddDiagnostics(diags)
    PROVE  heard' \in Seq(Diagnostic) /\ diagnostics' \in Seq(Diagnostic)
<1>1. heard' = heard \o diags /\ diagnostics' = Capped(diagnostics \o diags)
  BY DEF AddDiagnostics, Store!NotifyDiagnostics
<1>2. heard \in Seq(Diagnostic) /\ diagnostics \o diags \in Seq(Diagnostic)
  BY DEF TypeOK, Store!TypeOK
<1>3. Capped(diagnostics \o diags) \in Seq(Diagnostic)
  BY <1>2, OptionsType DEF Capped
<1> QED
  BY <1>1, <1>2, <1>3

LEMMA ReturnErrorType ==
    ASSUME TypeOK, ReturnError("kParseError")
    PROVE  consecutive_errors' \in Nat /\ returned' \in Statuses
BY DEF TypeOK, ReturnError, Statuses

LEMMA ReturnOkType ==
    ASSUME ReturnOk
    PROVE  consecutive_errors' \in Nat /\ returned' \in Statuses
BY DEF ReturnOk, Statuses

Cursors == [line_no : Nat, event_count : Nat,
            last_token : Tokens \cup {None}, last_event_id : Keys \cup {None},
            end_of_updates : BOOLEAN]

LEMMA AdvanceCursorType ==
    ASSUME TypeOK, NEW event, Parsed(event), NEW eou \in BOOLEAN,
           AdvanceCursor(event, eou)
    PROVE  cursor' \in Cursors /\ cursor'.line_no = cursor.line_no + 1
<1>1. cursor \in Cursors
  BY DEF TypeOK, Cursors
<1>2. /\ event.token \in Tokens \cup {None} /\ event.id \in Keys \cup {None}
      /\ event.line_no \in Nat /\ event.line_no = cursor.line_no + 1
  BY DEF Parsed, Event
<1>3. (cursor.end_of_updates \/ eou) \in BOOLEAN
  OBVIOUS
<1> QED
  BY <1>1, <1>2, <1>3 DEF AdvanceCursor, Cursors

LEMMA VersionForType ==
    ASSUME TypeOK, NEW event
    PROVE  VersionFor(event) \in Versions
<1>1. VersionEvidence(event) \in Versions \cup {None}
  BY DEF VersionEvidence, Versions
<1> QED
  BY <1>1 DEF VersionFor, Detects, TypeOK

LEMMA BeginType ==
    ASSUME TypeOK, NEW event \in Event, Begin(event)
    PROVE  /\ resolved_version' \in Versions
           /\ version_detected' \in BOOLEAN
           /\ event_log' \in Seq(Event)
           /\ options' \in OptionSet
           /\ finished' \in BOOLEAN
<1>1. resolved_version' \in Versions
  BY VersionForType DEF Begin
<1>2. version_detected' \in BOOLEAN
  BY DEF Begin
<1>3. event_log \in Seq(Event)
  BY DEF TypeOK, Store!TypeOK
<1>4. event_log' \in Seq(Event)
  BY <1>3 DEF Begin, Store!RecordEvent
<1> QED
  BY <1>1, <1>2, <1>4 DEF Begin, TypeOK

LEMMA CommitType ==
    ASSUME TypeOK, NEW warnings \in Seq(Diagnostic), Commit(warnings)
    PROVE  /\ consecutive_errors' \in Nat /\ returned' \in Statuses
           /\ heard' \in Seq(Diagnostic) /\ diagnostics' \in Seq(Diagnostic)
BY ReturnOkType, AddDiagnosticsType DEF Commit

LEMMA FailEventType ==
    ASSUME TypeOK, NEW event \in Event, NEW warnings \in Seq(Diagnostic),
           FailEvent(event, warnings)
    PROVE  /\ consecutive_errors' \in Nat /\ returned' \in Statuses
           /\ heard' \in Seq(Diagnostic) /\ diagnostics' \in Seq(Diagnostic)
           /\ Store!ObjectsOK'
<1>1. Error("kInvalidObjectShape", event.line_no) \in Diagnostic
  BY DiagnosticType DEF Event, Codes
<1>2. warnings \o <<Error("kInvalidObjectShape", event.line_no)>>
          \in Seq(Diagnostic)
  BY <1>1
<1>3. Store!ObjectsOK'
  BY DEF FailEvent, objectVars, TypeOK, Store!TypeOK, Store!ObjectsOK
<1> QED
  BY <1>2, <1>3, ReturnErrorType, AddDiagnosticsType DEF FailEvent
-----------------------------------------------------------------------------
(* Types and observers                                                     *)

(* What one line does to the store's objects, whatever it does to the rest.*)
LEMMA ApplyEventObjects ==
    ASSUME TypeOK, NEW event, Parsed(event), ApplyEvent(event)
    PROVE  Store!ObjectsOK' /\ (ObserverAgrees => ObserverAgrees')
<1>0. Store!ObjectsOK /\ event \in Event /\ event.docs \in Seq(Doc)
  BY DEF TypeOK, Store!TypeOK, Parsed, Event
<1>1. ASSUME UNCHANGED objectVars
      PROVE  Store!ObjectsOK' /\ (ObserverAgrees => ObserverAgrees')
  BY <1>0, <1>1 DEF objectVars, Store!ObjectsOK, ObserverAgrees, View,
                    Store!View, Store!GetObject
<1>2. CASE IgnoreUnknownType(event)
  BY <1>1, <1>2 DEF IgnoreUnknownType, FailEvent
<1>3. CASE ApplyDelete(event)
  <2>1. event.type \in Types /\ event.id \in Keys
    BY <1>3 DEF ApplyDelete, Begin, Parsed
  <2> QED
    BY <1>0, <1>3, <2>1, StoreDelete DEF ApplyDelete
<1>4. CASE ApplySingleObject(event)
  <2>1. event.type \in Types /\ event.id \in Keys /\ event.docs[1] \in Doc
    BY <1>0, <1>4 DEF ApplySingleObject, Begin, Parsed
  <2>2. DecodeObject(VersionFor(event), event.type, event.docs[1]) \in Object
    BY <2>1, DecodeObjectType
  <2> QED
    BY <1>0, <1>4, <2>1, <2>2, StoreUpsert DEF ApplySingleObject
<1>5. CASE ApplyCollectionReplace(event)
  <2>1. event.type \in Types
    BY <1>5 DEF ApplyCollectionReplace, Begin
  <2>2. DecodeCollection(VersionFor(event), event.type, event.docs)
            \in Seq(Object)
    BY <1>0, DecodeCollectionType
  <2>3. CASE CollectionDecodes(event.docs)
    BY <1>0, <1>5, <2>1, <2>2, <2>3, StoreReplace DEF ApplyCollectionReplace
  <2>4. CASE ~CollectionDecodes(event.docs)
    BY <1>1, <1>5, <2>4 DEF ApplyCollectionReplace, FailEvent
  <2> QED
    BY <2>3, <2>4
<1>6. CASE ApplySingletonUpdate(event)
  <2> DEFINE obj == DecodeObject(VersionFor(event), event.type, event.docs[1])
  <2>1. event.type \in Types /\ event.docs[1] \in Doc
    BY <1>0, <1>6 DEF ApplySingletonUpdate, Begin, Parsed
  <2>2. obj \in Object
    BY <2>1, DecodeObjectType
  <2>3. obj.id \in Keys
    BY <2>2 DEF Object
  <2>4. Store!ApplyUpsert(event.type, obj.id, obj)
    BY <1>6 DEF ApplySingletonUpdate, Store!ApplySingletonUpdate
  <2> QED
    BY <1>0, <2>1, <2>2, <2>3, <2>4, StoreUpsert
<1> QED
  BY <1>2, <1>3, <1>4, <1>5, <1>6 DEF ApplyEvent

(* What one event does to the session's own variables.                     *)
LEMMA ApplyEventSession ==
    ASSUME TypeOK, NEW event, Parsed(event), ApplyEvent(event)
    PROVE  /\ options' = options /\ finished' = finished
           /\ cursor' \in Cursors /\ cursor'.line_no = cursor.line_no + 1
           /\ resolved_version' \in Versions /\ version_detected' \in BOOLEAN
           /\ event_log' \in {event_log, Append(event_log, event)}
           /\ consecutive_errors' \in Nat /\ returned' \in Statuses
           /\ heard' \in Seq(Diagnostic) /\ diagnostics' \in Seq(Diagnostic)
<1>0. event \in Event /\ event.docs \in Seq(Doc) /\ event.line_no \in Nat
  BY DEF Parsed, Event
<1>1. ASSUME Begin(event)
      PROVE  /\ options' = options /\ finished' = finished
             /\ event_log' \in {event_log, Append(event_log, event)}
             /\ resolved_version' \in Versions
             /\ version_detected' \in BOOLEAN
  BY <1>0, <1>1, BeginType DEF Begin, Store!RecordEvent
<1>2. DecoderWarnings(event) \in Seq(Diagnostic)
  BY <1>0, DecoderWarningsType
<1>3. CASE IgnoreUnknownType(event)
  <2>1. <<Warning("kUnknownEventType", event.line_no)>> \in Seq(Diagnostic)
    <3>1. Warning("kUnknownEventType", event.line_no) \in Diagnostic
      BY <1>0, DiagnosticType DEF Codes
    <3> QED
      BY <3>1
  <2>2. resolved_version' \in Versions /\ version_detected' \in BOOLEAN
    BY <1>3 DEF IgnoreUnknownType, versionVars, TypeOK
  <2>3. cursor' \in Cursors /\ cursor'.line_no = cursor.line_no + 1
    BY <1>3, AdvanceCursorType DEF IgnoreUnknownType
  <2> QED
    BY <1>0, <1>3, <2>1, <2>2, <2>3, FailEventType, CommitType
       DEF IgnoreUnknownType
<1>4. CASE ApplyDelete(event)
  <2>1. (IF Store!GetObject(event.type, event.id) = None
         THEN <<Warning("kDeleteUnknownObject", event.line_no)>>
         ELSE <<>>) \in Seq(Diagnostic)
    <3>1. Warning("kDeleteUnknownObject", event.line_no) \in Diagnostic
      BY <1>0, DiagnosticType DEF Codes
    <3> QED
      BY <3>1
  <2> QED
    BY <1>1, <1>4, <2>1, AdvanceCursorType, CommitType DEF ApplyDelete
<1>5. CASE ApplySingleObject(event)
  BY <1>1, <1>2, <1>5, AdvanceCursorType, CommitType DEF ApplySingleObject
<1>6. CASE ApplyCollectionReplace(event)
  <2>1. <<>> \in Seq(Diagnostic)
    OBVIOUS
  <2> QED
    BY <1>0, <1>1, <1>2, <1>6, <2>1, AdvanceCursorType, CommitType,
       FailEventType DEF ApplyCollectionReplace
<1>7. CASE ApplySingletonUpdate(event)
  <2> DEFINE obj == DecodeObject(VersionFor(event), event.type, event.docs[1])
  <2>1. obj \in Object
    BY <1>0, <1>7, DecodeObjectType DEF ApplySingletonUpdate, Parsed
  <2>2. (event.type = "state" /\ obj.eou) \in BOOLEAN
    BY <2>1 DEF Object
  <2> QED
    BY <1>1, <1>2, <1>7, <2>2, AdvanceCursorType, CommitType
       DEF ApplySingletonUpdate
<1> QED
  BY <1>3, <1>4, <1>5, <1>6, <1>7 DEF ApplyEvent
(* The steps of a session, as the proofs below take them apart; they are   *)
(* also all that the clients of a session make of it.                      *)
SessionStep ==
    \/ KeepAlive
    \/ Throw
    \/ \E code \in LineErrors : RejectLine(code)
    \/ \E event : Parsed(event) /\ ApplyEvent(event)
    \/ ConsumeAfterFinish
    \/ Finish
    \/ UNCHANGED vars

LEMMA PassingLine ==
    ASSUME TypeOK, NEW line \in FeedLines, ConsumeLine(line),
           Passes(line, options.max_line_bytes)
    PROVE  LET event == EventOf(line, cursor.line_no + 1)
           IN  Parsed(event) /\ ApplyEvent(event)
<1>1. cursor.line_no + 1 \in Nat
  BY DEF TypeOK
<1>2. Parsed(EventOf(line, cursor.line_no + 1))
  BY <1>1, EventOfType, OptionsType DEF Parsed
<1> QED
  BY <1>2 DEF ConsumeLine, Passes

LEMMA ConsumeCases ==
    ASSUME TypeOK, NEW line \in FeedLines, ConsumeLine(line)
    PROVE  \/ KeepAlive
           \/ Throw
           \/ \E code \in LineErrors : RejectLine(code)
           \/ /\ Passes(line, options.max_line_bytes)
              /\ Parsed(EventOf(line, cursor.line_no + 1))
              /\ ApplyEvent(EventOf(line, cursor.line_no + 1))
<1> DEFINE error == LineError(line, options.max_line_bytes)
           escapes == Escapes(line, options.max_line_bytes)
<1>1. CASE IsKeepalive(line)
  BY <1>1 DEF ConsumeLine
<1>2. CASE ~IsKeepalive(line) /\ ~escapes /\ error # None
  <2>1. error \in LineErrors
    BY <1>2 DEF LineError, LineErrors
  <2> QED
    BY <1>2, <2>1 DEF ConsumeLine
<1>3. CASE ~IsKeepalive(line) /\ escapes
  BY <1>3 DEF ConsumeLine
<1>4. CASE ~IsKeepalive(line) /\ ~escapes /\ error = None
  BY <1>4, PassingLine DEF Passes
<1> QED
  BY <1>1, <1>2, <1>3, <1>4

LEMMA StepCases ==
    ASSUME TypeOK, [Next]_vars
    PROVE  SessionStep
<1>1. Lines \subseteq FeedLines
  BY SessionAssumption DEF FeedLines
<1>2. ASSUME NEW line \in Lines, ConsumeLine(line)
      PROVE  SessionStep
  BY <1>1, <1>2, ConsumeCases DEF SessionStep
<1> QED
  BY <1>2 DEF Next, SessionStep

LEMMA RejectLineSession ==
    ASSUME TypeOK, NEW code \in LineErrors, RejectLine(code)
    PROVE  /\ UNCHANGED <<options, versionVars, finished, objectVars, event_log>>
           /\ cursor' \in Cursors /\ cursor'.line_no = cursor.line_no + 1
           /\ consecutive_errors' \in Nat /\ returned' \in Statuses
           /\ heard' \in Seq(Diagnostic) /\ diagnostics' \in Seq(Diagnostic)
<1> DEFINE line_no == cursor.line_no + 1
           diags == <<Error(code, line_no)>> \o
                    IF LimitReached
                    THEN <<Error("kMaxConsecutiveErrorsExceeded", line_no)>>
                    ELSE <<>>
<1>1. cursor \in Cursors /\ line_no \in Nat
  BY DEF TypeOK, Cursors
<1>2. /\ Error(code, line_no) \in Diagnostic
      /\ Error("kMaxConsecutiveErrorsExceeded", line_no) \in Diagnostic
  BY <1>1, DiagnosticType DEF Codes
<1>3. diags \in Seq(Diagnostic)
  BY <1>2
<1>4. cursor' = [cursor EXCEPT !.line_no = line_no] /\ AddDiagnostics(diags)
  BY DEF RejectLine
<1>5. cursor' \in Cursors /\ cursor'.line_no = cursor.line_no + 1
  BY <1>1, <1>4 DEF Cursors
<1> QED
  BY <1>3, <1>4, <1>5, ReturnErrorType, AddDiagnosticsType DEF RejectLine

LEMMA KeepAliveSession ==
    ASSUME TypeOK, KeepAlive
    PROVE  cursor' \in Cursors /\ cursor'.line_no = cursor.line_no + 1
<1>1. cursor \in Cursors
  BY DEF TypeOK, Cursors
<1> QED
  BY <1>1 DEF KeepAlive, Cursors

LEMMA ThrowSession ==
    ASSUME TypeOK, Throw
    PROVE  cursor' \in Cursors /\ cursor'.line_no = cursor.line_no + 1
<1>1. cursor \in Cursors
  BY DEF TypeOK, Cursors
<1> QED
  BY <1>1 DEF Throw, Cursors

(* Steps that leave the objects alone keep their types and the agreement.  *)
LEMMA ObjectsKept ==
    ASSUME UNCHANGED objectVars
    PROVE  (Store!ObjectsOK => Store!ObjectsOK')
               /\ (ObserverAgrees => ObserverAgrees')
BY DEF objectVars, Store!ObjectsOK, ObserverAgrees, View, Store!View,
       Store!GetObject

LEMMA TypeKept ==
    ASSUME TypeOK, SessionStep
    PROVE  TypeOK'
<1>0. Store!ObjectsOK /\ event_log \in Seq(Event) /\ heard \in Seq(Diagnostic)
  BY DEF TypeOK, Store!TypeOK
<1>1. CASE KeepAlive
  <2>1. Store!ObjectsOK'
    BY <1>0, <1>1, ObjectsKept DEF KeepAlive, storeVars
  <2> QED
    BY <1>0, <1>1, <2>1, KeepAliveSession, ReturnOkType
       DEF KeepAlive, TypeOK, Store!TypeOK, Cursors, versionVars, storeVars
<1>2. ASSUME NEW code \in LineErrors, RejectLine(code)
      PROVE  TypeOK'
  <2>1. Store!ObjectsOK'
    BY <1>0, <1>2, ObjectsKept, RejectLineSession
  <2> QED
    BY <1>0, <1>2, <2>1, RejectLineSession
       DEF TypeOK, Store!TypeOK, Cursors, versionVars
<1>3. ASSUME NEW event, Parsed(event), ApplyEvent(event)
      PROVE  TypeOK'
  <2>1. Append(event_log, event) \in Seq(Event)
    BY <1>0, <1>3 DEF Parsed
  <2> QED
    BY <1>0, <1>3, <2>1, ApplyEventObjects, ApplyEventSession
       DEF TypeOK, Store!TypeOK, Cursors
<1>4. CASE ConsumeAfterFinish \/ Finish \/ UNCHANGED vars
  <2>1. Store!ObjectsOK'
    BY <1>0, <1>4, ObjectsKept
       DEF ConsumeAfterFinish, Finish, vars, storeVars
  <2> QED
    BY <1>0, <1>4, <2>1
       DEF ConsumeAfterFinish, Finish, vars, sessionVars, storeVars,
           versionVars, TypeOK, Store!TypeOK, Statuses
<1>5. CASE Throw
  <2>1. Store!ObjectsOK'
    BY <1>0, <1>5, ObjectsKept DEF Throw, storeVars
  <2> QED
    BY <1>0, <1>5, <2>1, ThrowSession
       DEF Throw, TypeOK, Store!TypeOK, Cursors, versionVars, storeVars,
           Statuses
<1> QED
  BY <1>1, <1>2, <1>3, <1>4, <1>5 DEF SessionStep

LEMMA TypeStep == TypeOK /\ [Next]_vars => TypeOK'
BY StepCases, TypeKept

LEMMA TypeInit == Init => TypeOK
<1>1. Store!Init => Store!ObjectsOK
  BY DEF Store!Init, Store!ObjectsOK, Store!NoObjects
<1>2. Store!Init => Store!TypeOK
  BY <1>1 DEF Store!Init, Store!TypeOK
<1>3. Init => resolved_version \in Versions
  BY SessionAssumption DEF Init, Options, Versions
<1>4. Init => version_detected \in BOOLEAN
  BY DEF Init
<1>5. Init => cursor \in Cursors
  BY DEF Init, Cursors
<1>6. Init => diagnostics \in Seq(Diagnostic)
  BY DEF Init
<1>7. Init => consecutive_errors \in Nat /\ returned \in Statuses
  BY DEF Init, Statuses
<1>8. Init => finished \in BOOLEAN
  BY Zenon DEF Init
<1> QED
  BY <1>2, <1>3, <1>4, <1>5, <1>6, <1>7, <1>8, Zenon DEF Init, TypeOK, Cursors

(* Every variable of a session keeps its type: the cursor, the kept and    *)
(* the heard diagnostics, the version, the log and the objects.            *)
THEOREM TypeCorrect == Spec => []TypeOK
BY TypeInit, TypeStep, PTL DEF Spec

(* No step of a session changes an object silently.                         *)
LEMMA ObserverStep ==
    ASSUME TypeOK, ObserverAgrees, SessionStep
    PROVE  ObserverAgrees'
<1>1. ASSUME NEW event, Parsed(event), ApplyEvent(event)
      PROVE  ObserverAgrees'
  BY <1>1, ApplyEventObjects
<1>2. CASE \/ KeepAlive \/ Throw \/ ConsumeAfterFinish \/ Finish
           \/ UNCHANGED vars
  BY <1>2, ObjectsKept
     DEF KeepAlive, Throw, ConsumeAfterFinish, Finish, vars, storeVars
<1>3. ASSUME NEW code \in LineErrors, RejectLine(code)
      PROVE  ObserverAgrees'
  BY <1>3, ObjectsKept DEF RejectLine
<1> QED
  BY <1>1, <1>2, <1>3 DEF SessionStep

LEMMA ObserverAtFirst == Init => ObserverAgrees
BY DEF Init, Store!Init, Store!NoObjects, ObserverAgrees, View, Store!View,
       Store!GetObject, Store!Types

(* An observer that acts only on its notifications agrees with the store   *)
(* after every line of every feed.                                         *)
THEOREM ObserverIsTold == Spec => []ObserverAgrees
<1>1. Init => ObserverAgrees
  BY ObserverAtFirst
<1>2. TypeOK /\ ObserverAgrees /\ [Next]_vars => ObserverAgrees'
  BY StepCases, ObserverStep
<1> QED
  BY <1>1, <1>2, TypeCorrect, PTL DEF Spec
-----------------------------------------------------------------------------
(* The log                                                                 *)

(* A step appends to the log the event of its own line, or nothing.        *)
LEMMA LogOrderStep ==
    ASSUME TypeOK, LogInFeedOrder, SessionStep
    PROVE  LogInFeedOrder'
<1>0. cursor.line_no \in Nat /\ event_log \in Seq(Event)
  BY DEF TypeOK, Store!TypeOK
<1>1. ASSUME event_log' = event_log,
             cursor'.line_no \in {cursor.line_no, cursor.line_no + 1}
      PROVE  LogInFeedOrder'
  BY <1>0, <1>1 DEF LogInFeedOrder
<1>2. CASE KeepAlive \/ Throw
  BY <1>1, <1>2, KeepAliveSession, ThrowSession
     DEF KeepAlive, Throw, storeVars
<1>3. ASSUME NEW code \in LineErrors, RejectLine(code)
      PROVE  LogInFeedOrder'
  BY <1>1, <1>3, RejectLineSession
<1>4. ASSUME NEW event, Parsed(event), ApplyEvent(event)
      PROVE  LogInFeedOrder'
  <2>1. cursor'.line_no = cursor.line_no + 1
    BY <1>4, ApplyEventSession
  <2>2. CASE event_log' = event_log
    BY <1>1, <2>1, <2>2
  <2>3. CASE event_log' = Append(event_log, event)
    <3>1. event.line_no = cursor.line_no + 1
      BY <1>4 DEF Parsed
    <3>2. DOMAIN event_log' = 1..(Len(event_log) + 1)
      BY <1>0, <2>3
    <3>3. \A i \in 1..Len(event_log) : event_log'[i] = event_log[i]
      BY <1>0, <2>3
    <3>4. event_log'[Len(event_log) + 1] = event
      BY <1>0, <2>3
    <3>5. \A i \in 1..Len(event_log) :
              event_log[i].line_no \in 1..cursor.line_no
      BY <1>0 DEF LogInFeedOrder
    <3>6. \A i \in DOMAIN event_log' :
              event_log'[i].line_no \in 1..cursor'.line_no
      BY <1>0, <2>1, <3>1, <3>2, <3>3, <3>4, <3>5
    <3>7. ASSUME NEW i \in DOMAIN event_log', NEW j \in DOMAIN event_log',
                 i < j
          PROVE  event_log'[i].line_no < event_log'[j].line_no
      <4>1. CASE j \in 1..Len(event_log)
        BY <1>0, <3>2, <3>3, <3>7, <4>1 DEF LogInFeedOrder
      <4>2. CASE j = Len(event_log) + 1
        <5>1. i \in 1..Len(event_log)
          BY <1>0, <3>2, <3>7, <4>2
        <5>2. event_log'[i].line_no \in 1..cursor.line_no
          BY <3>3, <3>5, <5>1
        <5>3. event_log'[j].line_no = cursor.line_no + 1
          BY <3>1, <3>4, <4>2
        <5> QED
          BY <1>0, <5>2, <5>3
      <4> QED
        BY <1>0, <3>2, <4>1, <4>2
    <3> QED
      BY <3>6, <3>7 DEF LogInFeedOrder
  <2> QED
    BY <1>4, <2>2, <2>3, ApplyEventSession
<1>5. CASE ConsumeAfterFinish \/ Finish \/ UNCHANGED vars
  BY <1>1, <1>5
     DEF ConsumeAfterFinish, Finish, vars, sessionVars, storeVars
<1> QED
  BY <1>2, <1>3, <1>4, <1>5 DEF SessionStep

(* The log keeps the order of the feed, however many of its lines were     *)
(* keepalives, malformed or of an unknown type.                            *)
THEOREM LogKeepsFeedOrder == Spec => []LogInFeedOrder
<1>1. Init => LogInFeedOrder
  BY DEF Init, Store!Init, LogInFeedOrder
<1>2. TypeOK /\ LogInFeedOrder /\ [Next]_vars => LogInFeedOrder'
  BY StepCases, LogOrderStep
<1> QED
  BY <1>1, <1>2, TypeCorrect, PTL DEF Spec

-----------------------------------------------------------------------------
(* Diagnostics and statuses                                                *)

(* Capping what was already capped keeps the first of all diagnostics.     *)
LEMMA AddDiagnosticsKeepsFirst ==
    ASSUME TypeOK, DiagnosticsAreFirstHeard, NEW diags \in Seq(Diagnostic),
           AddDiagnostics(diags), options' = options
    PROVE  DiagnosticsAreFirstHeard'
<1> DEFINE m == options.max_diagnostics
           all == diagnostics \o diags
<1>1. heard' = heard \o diags /\ diagnostics' = Capped(all)
  BY DEF AddDiagnostics, Store!NotifyDiagnostics
<1>2. /\ heard \in Seq(Diagnostic) /\ diagnostics \in Seq(Diagnostic)
      /\ m \in Nat
  BY OptionsType DEF TypeOK, Store!TypeOK
<1>3. all \in Seq(Diagnostic) /\ Len(all) = Len(diagnostics) + Len(diags)
  BY <1>2
<1>4. CASE diagnostics = heard
  <2>1. CASE Len(all) <= m
    <3>1. diagnostics' = all
      BY <1>1, <1>3, <2>1 DEF Capped
    <3> QED
      BY <1>1, <1>3, <1>4, <3>1 DEF DiagnosticsAreFirstHeard
  <2>2. CASE Len(all) > m
    <3>1. diagnostics' = SubSeq(all, 1, m) /\ heard' = all
      BY <1>1, <1>2, <1>3, <1>4, <2>2 DEF Capped
    <3>2. Len(diagnostics') = m /\ \A i \in 1..m : diagnostics'[i] = all[i]
      BY <1>2, <1>3, <2>2, <3>1
    <3>3. DOMAIN diagnostics' = 1..m
      BY <1>2, <1>3, <2>2, <3>1
    <3>4. Len(diagnostics') <= Len(heard')
      BY <1>2, <1>3, <2>2, <3>1, <3>2
    <3>5. \A i \in DOMAIN diagnostics' : diagnostics'[i] = heard'[i]
      BY <3>1, <3>2, <3>3
    <3>6. Len(diagnostics') = options'.max_diagnostics
      BY <3>2
    <3> QED
      BY <3>4, <3>5, <3>6 DEF DiagnosticsAreFirstHeard
  <2> QED
    BY <1>2, <1>3, <2>1, <2>2
<1>5. CASE Len(diagnostics) = m
  <2>1. diagnostics' = diagnostics
    BY <1>1, <1>2, <1>3, <1>5 DEF Capped
  <2>2. /\ Len(heard') = Len(heard) + Len(diags)
        /\ \A i \in 1..Len(heard) : heard'[i] = heard[i]
    BY <1>1, <1>2
  <2>3. DOMAIN diagnostics \subseteq 1..Len(heard)
    BY <1>2 DEF DiagnosticsAreFirstHeard
  <2> QED
    BY <1>2, <1>5, <2>1, <2>2, <2>3 DEF DiagnosticsAreFirstHeard
<1> QED
  BY <1>4, <1>5 DEF DiagnosticsAreFirstHeard
(* Every event ends in one of the two ways a call can end.                 *)
LEMMA ApplyEventEnds ==
    ASSUME TypeOK, NEW event, Parsed(event), ApplyEvent(event)
    PROVE  /\ ReturnOk \/ ReturnError("kParseError")
           /\ \E diags \in Seq(Diagnostic) : AddDiagnostics(diags)
<1>0. event \in Event /\ event.line_no \in Nat
  BY DEF Parsed, Event
<1>1. ASSUME NEW warnings \in Seq(Diagnostic),
             Commit(warnings) \/ FailEvent(event, warnings)
      PROVE  /\ ReturnOk \/ ReturnError("kParseError")
             /\ \E diags \in Seq(Diagnostic) : AddDiagnostics(diags)
  <2>1. Error("kInvalidObjectShape", event.line_no) \in Diagnostic
    BY <1>0, DiagnosticType DEF Codes
  <2>2. warnings \o <<Error("kInvalidObjectShape", event.line_no)>>
            \in Seq(Diagnostic)
    BY <2>1
  <2> QED
    BY <1>1, <2>2 DEF Commit, FailEvent
<1>2. /\ DecoderWarnings(event) \in Seq(Diagnostic)
      /\ <<>> \in Seq(Diagnostic)
  BY <1>0, DecoderWarningsType
<1>3. CASE IgnoreUnknownType(event)
  <2>1. Warning("kUnknownEventType", event.line_no) \in Diagnostic
    BY <1>0, DiagnosticType DEF Codes
  <2>2. <<Warning("kUnknownEventType", event.line_no)>> \in Seq(Diagnostic)
    BY <2>1
  <2> QED
    BY <1>1, <1>3, <2>2 DEF IgnoreUnknownType
<1>4. CASE ApplyDelete(event)
  <2>1. Warning("kDeleteUnknownObject", event.line_no) \in Diagnostic
    BY <1>0, DiagnosticType DEF Codes
  <2>2. <<Warning("kDeleteUnknownObject", event.line_no)>> \in Seq(Diagnostic)
    BY <2>1
  <2> QED
    BY <1>1, <1>2, <1>4, <2>2 DEF ApplyDelete
<1>5. CASE \/ ApplySingleObject(event)
           \/ ApplyCollectionReplace(event)
           \/ ApplySingletonUpdate(event)
  BY <1>1, <1>2, <1>5
     DEF ApplySingleObject, ApplyCollectionReplace, ApplySingletonUpdate
<1> QED
  BY <1>3, <1>4, <1>5 DEF ApplyEvent

LEMMA RejectLineAdds ==
    ASSUME TypeOK, NEW code \in LineErrors, RejectLine(code)
    PROVE  \E diags \in Seq(Diagnostic) : AddDiagnostics(diags)
<1> DEFINE line_no == cursor.line_no + 1
           diags == <<Error(code, line_no)>> \o
                    IF LimitReached
                    THEN <<Error("kMaxConsecutiveErrorsExceeded", line_no)>>
                    ELSE <<>>
<1>1. line_no \in Nat
  BY DEF TypeOK
<1>2. /\ Error(code, line_no) \in Diagnostic
      /\ Error("kMaxConsecutiveErrorsExceeded", line_no) \in Diagnostic
  BY <1>1, DiagnosticType DEF Codes
<1>3. diags \in Seq(Diagnostic)
  BY <1>2
<1> QED
  BY <1>3 DEF RejectLine

(* What a step adds to the diagnostics is the first of what it says.       *)
LEMMA FirstHeardStep ==
    ASSUME TypeOK, DiagnosticsAreFirstHeard, SessionStep
    PROVE  DiagnosticsAreFirstHeard'
<1>1. CASE \/ KeepAlive \/ Throw \/ ConsumeAfterFinish \/ Finish
           \/ UNCHANGED vars
  BY <1>1 DEF KeepAlive, Throw, ConsumeAfterFinish, Finish, vars, sessionVars,
              storeVars, DiagnosticsAreFirstHeard
<1>2. ASSUME NEW code \in LineErrors, RejectLine(code)
      PROVE  DiagnosticsAreFirstHeard'
  BY <1>2, RejectLineAdds, RejectLineSession, AddDiagnosticsKeepsFirst
<1>3. ASSUME NEW event, Parsed(event), ApplyEvent(event)
      PROVE  DiagnosticsAreFirstHeard'
  BY <1>3, ApplyEventEnds, ApplyEventSession, AddDiagnosticsKeepsFirst
<1> QED
  BY <1>1, <1>2, <1>3 DEF SessionStep

(* The session keeps the first max_diagnostics diagnostics its observers   *)
(* heard, for every feed and every cap, zero included.                     *)
THEOREM FirstHeardAreKept == Spec => []DiagnosticsAreFirstHeard
<1>1. Init => DiagnosticsAreFirstHeard
  BY DEF Init, Store!Init, DiagnosticsAreFirstHeard
<1>2. TypeOK /\ DiagnosticsAreFirstHeard /\ [Next]_vars
          => DiagnosticsAreFirstHeard'
  BY StepCases, FirstHeardStep
<1> QED
  BY <1>1, <1>2, TypeCorrect, PTL DEF Spec

LEMMA StatusStep ==
    ASSUME TypeOK, ReturnTellsTheRun, SessionStep
    PROVE  ReturnTellsTheRun'
<1>0. consecutive_errors \in Nat /\ options.max_consecutive_errors \in Nat
  BY OptionsType DEF TypeOK
<1>1. ASSUME ReturnOk \/ ReturnError("kParseError"), options' = options
      PROVE  ReturnTellsTheRun'
  BY <1>0, <1>1
     DEF ReturnOk, ReturnError, LimitReached, ReturnTellsTheRun, Lost
<1>2. CASE KeepAlive
  BY <1>1, <1>2 DEF KeepAlive
<1>3. ASSUME NEW code \in LineErrors, RejectLine(code)
      PROVE  ReturnTellsTheRun'
  BY <1>1, <1>3 DEF RejectLine
<1>4. ASSUME NEW event, Parsed(event), ApplyEvent(event)
      PROVE  ReturnTellsTheRun'
  BY <1>1, <1>4, ApplyEventEnds, ApplyEventSession
<1>5. CASE ConsumeAfterFinish \/ Finish \/ UNCHANGED vars
  BY <1>5 DEF ConsumeAfterFinish, Finish, vars, sessionVars,
              ReturnTellsTheRun, Lost
<1>6. CASE Throw
  BY <1>6 DEF Throw, ReturnTellsTheRun, Lost
<1> QED
  BY <1>2, <1>3, <1>4, <1>5, <1>6 DEF SessionStep

(* The status a call returns is a function of the count of consecutive     *)
(* errors, the limit and the error policy, and of nothing else.            *)
THEOREM StatusTellsTheRun == Spec => []ReturnTellsTheRun
<1>1. Init => ReturnTellsTheRun
  BY DEF Init, ReturnTellsTheRun
<1>2. TypeOK /\ ReturnTellsTheRun /\ [Next]_vars => ReturnTellsTheRun'
  BY StepCases, StatusStep
<1> QED
  BY <1>1, <1>2, TypeCorrect, PTL DEF Spec

-----------------------------------------------------------------------------
(* What readers see of a change, as a change of the feed's table           *)

LEMMA FeedSetSingleton ==
    ASSUME Store!ObjectsOK, NEW t \in SingletonTypes,
           NEW obj \in Object \cup {None}, NEW id \in Keys,
           View' = [View EXCEPT ![t] = [k \in Keys |-> obj]]
    PROVE  Feed!Change
<1>1. View \in [Types -> [Keys -> Object \cup {None}]] /\ t \in Types
  BY SeenType, FeedTypes
<1>2. View'[t] = [k \in Keys |-> obj]
  BY <1>1
<1>3. View'[t][id] = obj
  BY <1>2
<1>4. View' = [View EXCEPT ![t] = View'[t]]
  BY <1>2
<1>5. View'[t] = [i \in Keys |-> View'[t][id]]
  BY <1>2, <1>3
<1>6. View'[t][id] \in Object \cup {None}
  BY <1>3
<1> QED
  BY <1>4, <1>5, <1>6, Zenon
     DEF Feed!Change, Feed!Table!SetSingleton, Feed!Table!OnlyType

LEMMA FeedPut ==
    ASSUME Store!ObjectsOK, NEW t \in CollectionTypes, NEW id \in Keys,
           NEW obj \in Object,
           View' = [View EXCEPT ![t] = [@ EXCEPT ![id] = obj]]
    PROVE  Feed!Change
<1>1. View \in [Types -> [Keys -> Object \cup {None}]] /\ t \in Types
  BY SeenType, FeedTypes
<1>2. View'[t][id] = obj
  BY <1>1
<1>3. View' = [View EXCEPT ![t][id] = View'[t][id]]
  BY <1>2
<1>4. View'[t][id] \in Object
  BY <1>2
<1> QED
  BY <1>3, <1>4, Zenon DEF Feed!Change, Feed!Table!Put

LEMMA FeedRemove ==
    ASSUME Store!ObjectsOK, NEW t \in CollectionTypes, NEW id \in Keys,
           View[t][id] # None,
           View' = [View EXCEPT ![t] = [@ EXCEPT ![id] = None]]
    PROVE  Feed!Change
BY DEF Feed!Change, Feed!Table!Remove

LEMMA FeedReplace ==
    ASSUME Store!ObjectsOK, NEW t \in CollectionTypes,
           NEW row \in [Keys -> Object \cup {None}],
           \A k \in Keys : row[k] # None => row[k].id = k,
           View' = [View EXCEPT ![t] = row]
    PROVE  Feed!Change
<1>1. View \in [Types -> [Keys -> Object \cup {None}]] /\ t \in Types
  BY SeenType, FeedTypes
<1>2. View'[t] = row
  BY <1>1
<1> QED
  BY <1>2 DEF Feed!Change, Feed!Table!Replace, Feed!Table!OnlyType

-----------------------------------------------------------------------------
(* The store's calls, as changes of the feed's table                       *)

LEMMA UpsertChanges ==
    ASSUME Store!ObjectsOK, NEW type \in Types, NEW id \in Keys,
           NEW obj \in Object, Store!ApplyUpsert(type, id, obj)
    PROVE  Feed!Change
<1>1. CASE type \in SingletonTypes
  <2>1. View' = [View EXCEPT ![type] = [k \in Keys |-> obj]]
    BY <1>1, SeenUpsert
  <2> QED
    BY <1>1, <2>1, FeedSetSingleton
<1>2. CASE type \notin SingletonTypes
  <2>1. View' = [View EXCEPT ![type] = [@ EXCEPT ![id] = obj]]
    BY <1>2, SeenUpsert
  <2> QED
    BY <1>2, <2>1, FeedPut, FeedTypes
<1> QED
  BY <1>1, <1>2

LEMMA DeleteChanges ==
    ASSUME Store!ObjectsOK, NEW type \in Types, NEW id \in Keys,
           Store!ApplyDelete(type, id)
    PROVE  Feed!Change \/ UNCHANGED View
<1>1. CASE type \in SingletonTypes
  <2>1. View' = [View EXCEPT ![type] = [k \in Keys |-> None]]
    BY <1>1, SeenDelete
  <2> QED
    BY <1>1, <2>1, FeedSetSingleton
<1>2. CASE type \notin SingletonTypes /\ View[type][id] = None
  BY <1>2, SeenDelete
<1>3. CASE type \notin SingletonTypes /\ View[type][id] # None
  <2>1. View' = [View EXCEPT ![type] = [@ EXCEPT ![id] = None]]
    BY <1>3, SeenDelete
  <2> QED
    BY <1>3, <2>1, FeedRemove, FeedTypes
<1> QED
  BY <1>1, <1>2, <1>3

LEMMA ReplacementChanges ==
    ASSUME Store!ObjectsOK, NEW type \in Types, NEW objs \in Seq(Object),
           Store!ApplyCollectionReplace(type, objs)
    PROVE  Feed!Change \/ UNCHANGED View
<1> DEFINE row == StoreProofs!CollectionOf(objs)
<1>1. /\ row \in [Keys -> Object \cup {None}]
      /\ View' = IF type \in SingletonTypes THEN View
                 ELSE [View EXCEPT ![type] = row]
  BY SeenReplacement
<1>2. \A k \in Keys : row[k] # None => row[k].id = k
  BY StoreAssumed, StoreProofs!CollectionOfType
<1> HIDE DEF row
<1> QED
  BY <1>1, <1>2, FeedReplace, FeedTypes

-----------------------------------------------------------------------------
(* The lines of a feed, as steps of the atomic feed                        *)

(* Only an open session consumes lines.                                    *)
ConsumesOnlyOpen ==
    \/ ~finished /\ ~Lost
    \/ ConsumeAfterFinish \/ Finish \/ UNCHANGED vars

LEMMA ConsumesWhileOpen == [Next]_vars => ConsumesOnlyOpen
BY DEF Next, ConsumeLine, ConsumesOnlyOpen

LEMMA FeedCommits ==
    ASSUME ~finished, ~Lost, UNCHANGED finished, ReturnOk,
           cursor'.line_no = cursor.line_no + 1,
           Feed!Change \/ UNCHANGED View
    PROVE  Feed!Commit
BY DEF Feed!Commit, ReturnOk, Lost

LEMMA FeedDiscards ==
    ASSUME ~finished, ~Lost, UNCHANGED finished, ReturnError("kParseError"),
           cursor'.line_no = cursor.line_no + 1, UNCHANGED objectVars
    PROVE  Feed!Discard
BY SameView DEF Feed!Discard, ReturnError, Lost

LEMMA EventIsFeedStep ==
    ASSUME TypeOK, ~finished, ~Lost,
           NEW event, Parsed(event), ApplyEvent(event)
    PROVE  Feed!Commit \/ Feed!Discard
<1>0. /\ Store!ObjectsOK /\ event \in Event /\ event.docs \in Seq(Doc)
      /\ finished' = finished /\ cursor'.line_no = cursor.line_no + 1
  BY ApplyEventSession DEF TypeOK, Store!TypeOK, Parsed, Event
<1>1. CASE IgnoreUnknownType(event)
  BY <1>0, <1>1, SameView, FeedCommits, FeedDiscards
     DEF IgnoreUnknownType, FailEvent, Commit
<1>2. CASE ApplyDelete(event)
  <2>1. event.type \in Types /\ event.id \in Keys
    BY <1>2 DEF ApplyDelete, Begin, Parsed
  <2> QED
    BY <1>0, <1>2, <2>1, DeleteChanges, FeedCommits DEF ApplyDelete, Commit
<1>3. CASE ApplySingleObject(event)
  <2>1. event.type \in Types /\ event.id \in Keys /\ event.docs[1] \in Doc
    BY <1>0, <1>3 DEF ApplySingleObject, Begin, Parsed
  <2>2. DecodeObject(VersionFor(event), event.type, event.docs[1]) \in Object
    BY <2>1, DecodeObjectType
  <2> QED
    BY <1>0, <1>3, <2>1, <2>2, UpsertChanges, FeedCommits
       DEF ApplySingleObject, Commit
<1>4. CASE ApplyCollectionReplace(event)
  <2>1. event.type \in Types
    BY <1>4 DEF ApplyCollectionReplace, Begin
  <2>2. DecodeCollection(VersionFor(event), event.type, event.docs)
            \in Seq(Object)
    BY <1>0, DecodeCollectionType
  <2>3. CASE CollectionDecodes(event.docs)
    BY <1>0, <1>4, <2>1, <2>2, <2>3, ReplacementChanges, FeedCommits
       DEF ApplyCollectionReplace, Commit
  <2>4. CASE ~CollectionDecodes(event.docs)
    BY <1>0, <1>4, <2>4, FeedDiscards DEF ApplyCollectionReplace, FailEvent
  <2> QED
    BY <2>3, <2>4
<1>5. CASE ApplySingletonUpdate(event)
  <2> DEFINE obj == DecodeObject(VersionFor(event), event.type, event.docs[1])
  <2>1. event.type \in Types /\ event.docs[1] \in Doc
    BY <1>0, <1>5 DEF ApplySingletonUpdate, Begin, Parsed
  <2>2. obj \in Object
    BY <2>1, DecodeObjectType
  <2>3. obj.id \in Keys
    BY <2>2 DEF Object
  <2>4. Store!ApplyUpsert(event.type, obj.id, obj) /\ ReturnOk
    BY <1>5 DEF ApplySingletonUpdate, Store!ApplySingletonUpdate, Commit
  <2> HIDE DEF obj
  <2> QED
    BY <1>0, <2>1, <2>2, <2>3, <2>4, UpsertChanges, FeedCommits
<1> QED
  BY <1>1, <1>2, <1>3, <1>4, <1>5 DEF ApplyEvent

LEMMA StepIsFeedStep ==
    ASSUME TypeOK, SessionStep, ConsumesOnlyOpen
    PROVE  [Feed!Next]_(Feed!vars)
<1>1. CASE ConsumeAfterFinish \/ UNCHANGED vars
  BY <1>1 DEF ConsumeAfterFinish, vars, sessionVars, storeVars, objectVars,
              Feed!vars, View, Store!View, Store!GetObject, Lost
<1>2. CASE Finish
  <2>1. UNCHANGED View
    BY <1>2, SameView DEF Finish, storeVars
  <2> QED
    BY <1>2, <2>1 DEF Finish, Feed!Next, Feed!Close
<1>3. CASE ~finished /\ ~Lost
  <2>1. CASE KeepAlive
    <3>1. UNCHANGED View /\ UNCHANGED finished /\ ReturnOk
      BY <2>1, SameView DEF KeepAlive, storeVars
    <3>2. cursor'.line_no = cursor.line_no + 1
      BY <2>1, KeepAliveSession
    <3> QED
      BY <1>3, <3>1, <3>2, FeedCommits DEF Feed!Next
  <2>2. CASE Throw
    <3>1. /\ UNCHANGED View /\ UNCHANGED consecutive_errors
          /\ returned' = "threw"
      BY <2>2, SameView DEF Throw, storeVars
    <3>2. cursor'.line_no = cursor.line_no + 1
      BY <2>2, ThrowSession
    <3> QED
      BY <1>3, <3>1, <3>2 DEF Feed!Next, Feed!Lose, Lost
  <2>3. ASSUME NEW code \in LineErrors, RejectLine(code)
        PROVE  Feed!Next
    <3>1. /\ UNCHANGED <<finished, objectVars>>
          /\ cursor'.line_no = cursor.line_no + 1
          /\ ReturnError("kParseError")
      BY <2>3, RejectLineSession DEF RejectLine
    <3> QED
      BY <1>3, <3>1, FeedDiscards DEF Feed!Next
  <2>4. ASSUME NEW event, Parsed(event), ApplyEvent(event)
        PROVE  Feed!Next
    BY <1>3, <2>4, EventIsFeedStep DEF Feed!Next
  <2> QED
    BY <1>1, <1>2, <2>1, <2>2, <2>3, <2>4 DEF SessionStep
<1> QED
  BY <1>1, <1>2, <1>3 DEF ConsumesOnlyOpen

LEMMA FeedAtFirst ==
    ASSUME Init
    PROVE  Feed!Init
<1>1. View = Feed!Table!Empty
  BY FeedTypes DEF Init, Store!Init, Store!NoObjects, Feed!Table!Empty,
     View, Store!View, Store!GetObject, Store!Types, Types,
     Store!SingletonTypes, SingletonTypes
<1> QED
  BY <1>1 DEF Init, Feed!Init, Feed!Table!Init, Lost

(* Every line is committed with at most one change of one type's objects,  *)
(* or discarded with none, or costs the caller the session: for every feed *)
(* and all options.                                                        *)
THEOREM SessionIsAtomicFeed == Spec => ImplementsAtomicFeed
<1>1. Init => Feed!Init
  BY FeedAtFirst
<1>2. TypeOK /\ [Next]_vars => [Feed!Next]_(Feed!vars)
  BY StepCases, ConsumesWhileOpen, StepIsFeedStep
<1> QED
  BY <1>1, <1>2, TypeCorrect, PTL DEF Spec, ImplementsAtomicFeed, Feed!Spec

-----------------------------------------------------------------------------
(* What the log tells of the rest of the session                           *)

EndsUpdates(event) ==
    /\ event.type = "state"
    /\ event.shape = "singleton"
    /\ event.docs[1].eou

(* An event either is of an unknown type, and then leaves log, version and *)
(* objects alone, or is begun, and then ends the updates as its shape and  *)
(* data say.                                                               *)
LEMMA EventBegins ==
    ASSUME TypeOK, NEW event, Parsed(event), ApplyEvent(event)
    PROVE  \/ /\ UNCHANGED <<options, versionVars, event_log, objectVars>>
              /\ cursor'.end_of_updates = cursor.end_of_updates
           \/ /\ Begin(event)
              /\ cursor'.end_of_updates =
                     (cursor.end_of_updates \/ EndsUpdates(event))
<1>0. cursor.end_of_updates \in BOOLEAN
  BY DEF TypeOK, Cursors
<1>1. ASSUME NEW ends \in BOOLEAN, AdvanceCursor(event, ends)
      PROVE  cursor'.end_of_updates = (cursor.end_of_updates \/ ends)
  BY <1>1 DEF AdvanceCursor
<1>2. CASE IgnoreUnknownType(event)
  <2>1. cursor'.end_of_updates = (cursor.end_of_updates \/ FALSE)
    BY <1>1, <1>2 DEF IgnoreUnknownType
  <2>2. cursor'.end_of_updates = cursor.end_of_updates
    BY <1>0, <2>1
  <2> QED
    BY <1>2, <2>2 DEF IgnoreUnknownType, FailEvent
<1>3. CASE \/ ApplyDelete(event) \/ ApplySingleObject(event)
           \/ ApplyCollectionReplace(event)
  <2>1. /\ Begin(event)
        /\ AdvanceCursor(event, FALSE)
        /\ event.shape # "singleton"
    BY <1>3 DEF ApplyDelete, ApplySingleObject, ApplyCollectionReplace
  <2>2. cursor'.end_of_updates = (cursor.end_of_updates \/ FALSE)
    BY <1>1, <2>1
  <2>3. EndsUpdates(event) = FALSE
    BY <2>1 DEF EndsUpdates
  <2> QED
    BY <2>1, <2>2, <2>3
<1>4. CASE ApplySingletonUpdate(event)
  <2> DEFINE obj == DecodeObject(VersionFor(event), event.type, event.docs[1])
             ends == event.type = "state" /\ obj.eou
  <2>1. /\ Begin(event)
        /\ AdvanceCursor(event, ends)
        /\ event.shape = "singleton"
    BY <1>4 DEF ApplySingletonUpdate
  <2>2. obj.eou = event.docs[1].eou
    BY DEF DecodeObject
  <2>3. event.docs[1] \in Doc
    <3>1. event.docs \in Seq(Doc) /\ Len(event.docs) = 1
      BY <2>1 DEF Parsed, Event
    <3> QED
      BY <3>1
  <2>4. event.docs[1].eou \in BOOLEAN
    BY <2>3 DEF Doc
  <2>5. ends = EndsUpdates(event)
    BY <2>1, <2>2, <2>4 DEF EndsUpdates
  <2>6. ends \in BOOLEAN
    BY <2>2, <2>4
  <2>7. cursor'.end_of_updates = (cursor.end_of_updates \/ ends)
    BY <1>1, <2>1, <2>6
  <2> QED
    BY <2>1, <2>5, <2>7
<1> QED
  BY <1>2, <1>3, <1>4 DEF ApplyEvent

(* Steps that are no event leave options, log, version and objects alone,  *)
(* and what the cursor says of the end of updates.                         *)
LEMMA OtherStepsKeepLog ==
    ASSUME TypeOK,
           \/ KeepAlive \/ Throw \/ ConsumeAfterFinish \/ Finish
           \/ UNCHANGED vars
           \/ \E code \in LineErrors : RejectLine(code)
    PROVE  /\ UNCHANGED <<options, versionVars, event_log, objectVars>>
           /\ cursor'.end_of_updates = cursor.end_of_updates
<1>1. cursor \in Cursors
  BY DEF TypeOK, Cursors
<1>2. CASE KeepAlive \/ Throw
  BY <1>1, <1>2 DEF KeepAlive, Throw, storeVars, Cursors
<1>3. CASE ConsumeAfterFinish \/ Finish \/ UNCHANGED vars
  BY <1>3 DEF ConsumeAfterFinish, Finish, vars, sessionVars, storeVars
<1>4. ASSUME NEW code \in LineErrors, RejectLine(code)
      PROVE  /\ UNCHANGED <<options, versionVars, event_log, objectVars>>
             /\ cursor'.end_of_updates = cursor.end_of_updates
  BY <1>1, <1>4 DEF RejectLine, Cursors
<1> QED
  BY <1>2, <1>3, <1>4

(* The last entry of a log that has grown by one event is that event.      *)
LEMMA LogGrows ==
    ASSUME NEW log \in Seq(Event), NEW event \in Event
    PROVE  /\ DOMAIN Append(log, event) = DOMAIN log \cup {Len(log) + 1}
           /\ Len(log) + 1 \notin DOMAIN log
           /\ Append(log, event)[Len(log) + 1] = event
           /\ \A i \in DOMAIN log : Append(log, event)[i] = log[i]
           /\ \A i \in DOMAIN log : i \in Nat /\ i <= Len(log)
           /\ Len(log) + 1 \in Nat
OBVIOUS

-----------------------------------------------------------------------------
(* A step ends the updates exactly by logging a state that says so.        *)
LEMMA EndOfUpdatesStep ==
    ASSUME TypeOK, EndOfUpdatesIsKept, SessionStep
    PROVE  EndOfUpdatesIsKept'
<1>1. ASSUME UNCHANGED <<options, event_log>>,
             cursor'.end_of_updates = cursor.end_of_updates
      PROVE  EndOfUpdatesIsKept'
  BY <1>1 DEF EndOfUpdatesIsKept
<1>2. ASSUME NEW event, Parsed(event), ApplyEvent(event), Begin(event),
             cursor'.end_of_updates =
                 (cursor.end_of_updates \/ EndsUpdates(event))
      PROVE  EndOfUpdatesIsKept'
  <2> SUFFICES ASSUME options.keep_event_log
               PROVE  cursor'.end_of_updates =
                          \E i \in DOMAIN event_log' :
                              EndsUpdates(event_log'[i])
    BY <1>2 DEF EndOfUpdatesIsKept, EndsUpdates, Begin
  <2>1. event_log \in Seq(Event) /\ event \in Event
    BY <1>2 DEF TypeOK, Store!TypeOK, Parsed
  <2>2. event_log' = Append(event_log, event)
    BY <1>2 DEF Begin, Store!RecordEvent
  <2>3. cursor.end_of_updates =
            \E i \in DOMAIN event_log : EndsUpdates(event_log[i])
    BY DEF EndOfUpdatesIsKept, EndsUpdates
  <2>4. (\E i \in DOMAIN event_log' : EndsUpdates(event_log'[i]))
            <=> \/ \E i \in DOMAIN event_log : EndsUpdates(event_log[i])
                \/ EndsUpdates(event)
    <3>1. /\ DOMAIN event_log' = DOMAIN event_log \cup {Len(event_log) + 1}
          /\ event_log'[Len(event_log) + 1] = event
          /\ \A i \in DOMAIN event_log : event_log'[i] = event_log[i]
      BY <2>1, <2>2, LogGrows
    <3> QED
      BY <3>1
  <2> QED
    BY <1>2, <2>3, <2>4
<1> QED
  BY <1>1, <1>2, EventBegins, OtherStepsKeepLog
     DEF SessionStep

(* The cursor says that updates have ended exactly when the log has a      *)
(* state, sent without an id, that says so: for every feed, every version  *)
(* and every policy.                                                       *)
THEOREM EndOfUpdatesStays == Spec => []EndOfUpdatesIsKept
<1>1. Init => EndOfUpdatesIsKept
  BY DEF Init, Store!Init, EndOfUpdatesIsKept
<1>2. TypeOK /\ EndOfUpdatesIsKept /\ [Next]_vars => EndOfUpdatesIsKept'
  BY StepCases, EndOfUpdatesStep
<1> QED
  BY <1>1, <1>2, TypeCorrect, PTL DEF Spec

-----------------------------------------------------------------------------
Evidence(log) == {i \in DOMAIN log : VersionEvidence(log[i]) # None}

(* The first event of the log that speaks for a version has decided it.    *)
FirstDecides(log, version) ==
    \E i \in Evidence(log) :
        /\ \A j \in Evidence(log) : i <= j
        /\ version = VersionEvidence(log[i])

LEMMA AutoVersion ==
    ASSUME options.version = "kAuto"
    PROVE  VersionFromFirstEvidence <=>
               (options.keep_event_log =>
                /\ version_detected = (Evidence(event_log) # {})
                /\ \/ Evidence(event_log) = {} /\ resolved_version = "2023-06"
                   \/ FirstDecides(event_log, resolved_version))
BY DEF VersionFromFirstEvidence, Evidence, FirstDecides

LEMMA AutoVersionNext ==
    ASSUME options'.version = "kAuto"
    PROVE  VersionFromFirstEvidence' <=>
               (options'.keep_event_log =>
                /\ version_detected' = (Evidence(event_log') # {})
                /\ \/ Evidence(event_log') = {} /\ resolved_version' = "2023-06"
                   \/ FirstDecides(event_log', resolved_version'))
BY DEF VersionFromFirstEvidence, Evidence, FirstDecides

(* An event that joins the log decides the version or leaves it decided.   *)
LEMMA EvidenceGrows ==
    ASSUME NEW log \in Seq(Event), NEW event \in Event
    PROVE  LET longer == Append(log, event)
               n == Len(log) + 1
           IN  /\ VersionEvidence(event) = None =>
                      /\ Evidence(longer) = Evidence(log)
                      /\ \A version : FirstDecides(log, version) =>
                                          FirstDecides(longer, version)
               /\ VersionEvidence(event) # None =>
                      /\ Evidence(longer) # {}
                      /\ Evidence(log) = {} =>
                             FirstDecides(longer, VersionEvidence(event))
                      /\ \A version : FirstDecides(log, version) =>
                                          FirstDecides(longer, version)
<1> DEFINE longer == Append(log, event)
           n == Len(log) + 1
<1>1. /\ DOMAIN longer = DOMAIN log \cup {n} /\ n \notin DOMAIN log
      /\ longer[n] = event /\ n \in Nat
      /\ \A i \in DOMAIN log : longer[i] = log[i] /\ i \in Nat /\ i <= n
  <2>1. \A i \in DOMAIN log : i \in Nat /\ i <= Len(log) + 1
    BY LogGrows
  <2> QED
    BY <2>1, LogGrows
<1> HIDE DEF longer, n
<1>2. ASSUME VersionEvidence(event) = None
      PROVE  Evidence(longer) = Evidence(log)
  BY <1>1, <1>2 DEF Evidence
<1>3. ASSUME VersionEvidence(event) # None
      PROVE  Evidence(longer) = Evidence(log) \cup {n}
  BY <1>1, <1>3 DEF Evidence
<1>4. \A i \in Evidence(log) : longer[i] = log[i] /\ i \in Nat /\ i <= n
  BY <1>1 DEF Evidence
<1>5. ASSUME NEW version, FirstDecides(log, version)
      PROVE  FirstDecides(longer, version)
  <2>1. PICK i \in Evidence(log) :
            /\ \A j \in Evidence(log) : i <= j
            /\ version = VersionEvidence(log[i])
    BY <1>5 DEF FirstDecides
  <2>2. i \in Evidence(longer) /\ \A j \in Evidence(longer) : i <= j
    BY <1>2, <1>3, <1>4, <2>1
  <2>3. version = VersionEvidence(longer[i])
    BY <1>4, <2>1
  <2> QED
    BY <2>2, <2>3 DEF FirstDecides
<1>6. ASSUME VersionEvidence(event) # None, Evidence(log) = {}
      PROVE  FirstDecides(longer, VersionEvidence(event))
  <2>1. n \in Evidence(longer) /\ \A j \in Evidence(longer) : n <= j
    BY <1>1, <1>3, <1>6
  <2> QED
    BY <1>1, <2>1 DEF FirstDecides
<1> QED
  BY <1>2, <1>3, <1>5, <1>6 DEF longer, n

-----------------------------------------------------------------------------
(* A step takes a version from its event only while none is detected.      *)
LEMMA VersionStep ==
    ASSUME TypeOK, VersionFromFirstEvidence, SessionStep
    PROVE  VersionFromFirstEvidence'
<1>1. ASSUME UNCHANGED <<options, versionVars, event_log>>
      PROVE  VersionFromFirstEvidence'
  BY <1>1 DEF VersionFromFirstEvidence, versionVars
<1>2. ASSUME NEW event, Parsed(event), Begin(event)
      PROVE  VersionFromFirstEvidence'
  <2>1. CASE options.version # "kAuto"
    BY <1>2, <2>1 DEF VersionFromFirstEvidence, Begin, VersionFor, Detects
  <2>2. CASE options.version = "kAuto" /\ ~options.keep_event_log
    BY <1>2, <2>2, AutoVersionNext DEF Begin
  <2>3. CASE options.version = "kAuto" /\ options.keep_event_log
    <3>1. /\ event_log \in Seq(Event) /\ event \in Event
          /\ event_log' = Append(event_log, event) /\ options' = options
      BY <1>2, <2>3 DEF TypeOK, Store!TypeOK, Parsed, Begin,
                        Store!RecordEvent
    <3>2. /\ version_detected = (Evidence(event_log) # {})
          /\ \/ Evidence(event_log) = {} /\ resolved_version = "2023-06"
             \/ FirstDecides(event_log, resolved_version)
      BY <2>3, AutoVersion
    <3>3. /\ version_detected' = (version_detected \/ Detects(event))
          /\ resolved_version' = VersionFor(event)
          /\ Detects(event) <=> ~version_detected
                                /\ VersionEvidence(event) # None
      BY <1>2, <2>3 DEF Begin, Detects
    <3>4. CASE VersionEvidence(event) = None
      <4>1. /\ version_detected' = version_detected
            /\ resolved_version' = resolved_version
        BY <3>2, <3>3, <3>4 DEF VersionFor
      <4> QED
        BY <2>3, <3>1, <3>2, <3>4, <4>1, EvidenceGrows, AutoVersionNext
    <3>5. CASE VersionEvidence(event) # None /\ ~version_detected
      <4>1. /\ version_detected' = TRUE
            /\ resolved_version' = VersionEvidence(event)
            /\ Evidence(event_log) = {}
        BY <3>2, <3>3, <3>5 DEF VersionFor
      <4> QED
        BY <2>3, <3>1, <3>5, <4>1, EvidenceGrows, AutoVersionNext
    <3>6. CASE VersionEvidence(event) # None /\ version_detected
      <4>1. /\ version_detected' = TRUE
            /\ resolved_version' = resolved_version
            /\ FirstDecides(event_log, resolved_version)
        BY <3>2, <3>3, <3>6 DEF VersionFor
      <4> QED
        BY <2>3, <3>1, <3>6, <4>1, EvidenceGrows, AutoVersionNext
    <3> QED
      BY <3>4, <3>5, <3>6
  <2> QED
    BY <2>1, <2>2, <2>3
<1> QED
  BY <1>1, <1>2, EventBegins, OtherStepsKeepLog
     DEF SessionStep

LEMMA VersionAtFirst ==
    ASSUME Init
    PROVE  VersionFromFirstEvidence
<1>1. Evidence(event_log) = {}
  BY DEF Init, Store!Init, Evidence
<1>2. CASE options.version = "kAuto"
  BY <1>1, <1>2, AutoVersion DEF Init
<1>3. CASE options.version # "kAuto"
  BY <1>3 DEF Init, VersionFromFirstEvidence
<1> QED
  BY <1>2, <1>3

(* A session that is to find its version decodes with 2023-06 until the    *)
(* first logged event that speaks for a version, and with that one's for   *)
(* good; a session of an explicit version never leaves it.                 *)
THEOREM FirstEvidenceDecides == Spec => []VersionFromFirstEvidence
<1>1. Init => VersionFromFirstEvidence
  BY VersionAtFirst
<1>2. TypeOK /\ VersionFromFirstEvidence /\ [Next]_vars
          => VersionFromFirstEvidence'
  BY StepCases, VersionStep
<1> QED
  BY <1>1, <1>2, TypeCorrect, PTL DEF Spec

-----------------------------------------------------------------------------
(* Writes and Written, of an event that is decoded under a version         *)

(* A set of numbers that has members has a least one, and a bounded one a  *)
(* greatest.                                                               *)
LEMMA HasFirst ==
    ASSUME NEW S \in SUBSET Nat, S # {}
    PROVE  \E i \in S : \A j \in S : i <= j
<1> DEFINE Rel == {p \in Nat \X Nat : p[1] < p[2]}
<1>1. IsWellFoundedOn(Rel, Nat)
  <2>1. Rel = OpToRel(<, Nat)
    BY DEF OpToRel
  <2> QED
    BY <2>1, NatLessThanWellFounded, Zenon
<1>2. PICK i \in S : \A j \in S : ~(<<j, i>> \in Rel)
  <2> HIDE DEF Rel
  <2> QED
    BY <1>1, WFMin
<1>3. ASSUME NEW j \in S
      PROVE  i <= j
  <2>1. <<j, i>> \in Nat \X Nat /\ <<j, i>>[1] = j /\ <<j, i>>[2] = i
    OBVIOUS
  <2>2. ~(j < i)
    BY <1>2, <2>1
  <2> QED
    BY <2>2
<1> QED
  BY <1>3

LEMMA HasLast ==
    ASSUME NEW n \in Nat, NEW S \in SUBSET (1..n), S # {}
    PROVE  \E i \in S : \A j \in S : j <= i
<1> DEFINE Gaps == {k \in Nat : k <= n /\ n - k \in S}
<1>1. \A j \in S : n - j \in Gaps
  OBVIOUS
<1>2. Gaps \in SUBSET Nat /\ Gaps # {}
  BY <1>1
<1>3. PICK k \in Gaps : \A m \in Gaps : k <= m
  <2> HIDE DEF Gaps
  <2> QED
    BY <1>2, HasFirst
<1> QED
  BY <1>1, <1>3

Named(docs, id) == {d \in DOMAIN docs : docs[d].id = id}

LastOf(S) == CHOOSE d \in S : \A e \in S : e <= d

LEMMA LastOfIs ==
    ASSUME NEW n \in Nat, NEW S \in SUBSET (1..n),
           NEW m \in S, \A j \in S : j <= m
    PROVE  LastOf(S) = m
<1>1. LastOf(S) \in S /\ \A j \in S : j <= LastOf(S)
  BY DEF LastOf
<1>2. LastOf(S) <= m /\ m <= LastOf(S)
  BY <1>1
<1>3. \A i, j \in S : i <= j /\ j <= i => i = j
  OBVIOUS
<1> QED
  BY <1>1, <1>2, <1>3, Zenon

EventWrites(event, type, id) ==
    /\ event.type = type
    /\ \/ type \in SingletonTypes /\ event.shape # "collection"
       \/ /\ type \in CollectionTypes
          /\ \/ event.shape \in {"delete", "single"} /\ event.id = id
             \/ /\ event.shape = "singleton"
                /\ DecodeObject(None, type, event.docs[1]).id = id
             \/ event.shape = "collection" /\ CollectionDecodes(event.docs)

EventWritten(event, version, id) ==
    IF event.shape = "delete" THEN None
    ELSE IF event.shape # "collection"
    THEN DecodeObject(version, event.type, event.docs[1])
    ELSE IF Named(event.docs, id) = {} THEN None
    ELSE DecodeObject(version, event.type,
                      event.docs[LastOf(Named(event.docs, id))])

(* The id of an object does not depend on the version it is decoded under. *)
LEMMA SameId ==
    ASSUME NEW version, NEW type, NEW doc
    PROVE  DecodeObject(version, type, doc).id = DecodeObject(None, type, doc).id
BY DEF DecodeObject

(* What an entry writes depends on its event and on the version it was     *)
(* decoded under, and on nothing else of the state.                        *)
LEMMA LogWrites ==
    ASSUME NEW i, NEW type, NEW id
    PROVE  /\ Writes(i, type, id) <=> EventWrites(event_log[i], type, id)
           /\ Written(i, id) = EventWritten(event_log[i], VersionAt(i), id)
<1>1. Decoded(i, 1).id =
          DecodeObject(None, event_log[i].type, event_log[i].docs[1]).id
  BY SameId DEF Decoded
<1>2. Writes(i, type, id) <=> EventWrites(event_log[i], type, id)
  BY <1>1 DEF Writes, EventWrites
<1>3. Written(i, id) = EventWritten(event_log[i], VersionAt(i), id)
  BY DEF Written, EventWritten, Decoded, Named, LastOf
<1> QED
  BY <1>2, <1>3

LEMMA LogWritesNext ==
    ASSUME NEW i, NEW type, NEW id
    PROVE  /\ Writes(i, type, id)' <=> EventWrites(event_log'[i], type, id)
           /\ Written(i, id)' = EventWritten(event_log'[i], VersionAt(i)', id)
<1>1. Decoded(i, 1)'.id =
          DecodeObject(None, event_log'[i].type, event_log'[i].docs[1]).id
  BY SameId DEF Decoded
<1>2. Writes(i, type, id)' <=> EventWrites(event_log'[i], type, id)
  BY <1>1 DEF Writes, EventWrites
<1>3. Written(i, id)' = EventWritten(event_log'[i], VersionAt(i)', id)
  BY DEF Written, EventWritten, Decoded, Named, LastOf
<1> QED
  BY <1>2, <1>3

-----------------------------------------------------------------------------
(* The version an event of the log was decoded under                       *)

FirstOf(S) == CHOOSE j \in S : \A m \in S : j <= m

Until(log, i) == {j \in 1..i : VersionEvidence(log[j]) # None}

VersionIn(log, version, i) ==
    IF version # "kAuto" THEN version
    ELSE IF Until(log, i) = {} THEN "2023-06"
    ELSE VersionEvidence(log[FirstOf(Until(log, i))])

LEMMA VersionAtIs ==
    ASSUME NEW i
    PROVE  /\ VersionAt(i) = VersionIn(event_log, options.version, i)
           /\ VersionAt(i)' = VersionIn(event_log', options'.version, i)
BY DEF VersionAt, VersionIn, Until, FirstOf

(* Later events do not change it.                                          *)
LEMMA VersionStays ==
    ASSUME NEW log \in Seq(Event), NEW event \in Event, NEW version,
           NEW i \in DOMAIN log
    PROVE  VersionIn(Append(log, event), version, i) = VersionIn(log, version, i)
<1> DEFINE longer == Append(log, event)
<1>1. /\ \A j \in DOMAIN log : longer[j] = log[j]
      /\ \A j \in 1..i : j \in DOMAIN log
  BY LogGrows
<1> HIDE DEF longer
<1>2. Until(longer, i) = Until(log, i)
  BY <1>1 DEF Until
<1>3. ASSUME Until(log, i) # {}
      PROVE  longer[FirstOf(Until(log, i))] = log[FirstOf(Until(log, i))]
  <2>1. PICK k \in Until(log, i) : \A m \in Until(log, i) : k <= m
    <3>1. Until(log, i) \in SUBSET Nat
      BY DEF Until
    <3> QED
      BY <1>3, <3>1, HasFirst
  <2>2. FirstOf(Until(log, i)) \in Until(log, i)
    BY <2>1 DEF FirstOf
  <2> QED
    BY <1>1, <2>2 DEF Until
<1> QED
  BY <1>2, <1>3, Zenon DEF VersionIn, longer

(* The event last logged was decoded under the version now in force.       *)
LEMMA VersionDecided ==
    ASSUME NEW log \in Seq(Event), NEW version,
           \/ Evidence(log) = {} /\ version = "2023-06"
           \/ FirstDecides(log, version)
    PROVE  VersionIn(log, "kAuto", Len(log)) = version
<1>1. Until(log, Len(log)) = Evidence(log)
  BY DEF Until, Evidence
<1>2. CASE Evidence(log) = {}
  BY <1>1, <1>2 DEF VersionIn, FirstDecides
<1>3. CASE Evidence(log) # {}
  <2>1. PICK k \in Evidence(log) : /\ \A j \in Evidence(log) : k <= j
                                   /\ version = VersionEvidence(log[k])
    BY <1>3 DEF FirstDecides
  <2>2. Evidence(log) \subseteq Nat
    BY DEF Evidence
  <2>3. FirstOf(Evidence(log)) = k
    BY <2>1, <2>2 DEF FirstOf
  <2> QED
    BY <1>1, <1>3, <2>1, <2>3 DEF VersionIn
<1> QED
  BY <1>2, <1>3

(* The same, of the state after a step.                                    *)
LEMMA VersionNowNext ==
    ASSUME VersionFromFirstEvidence', options'.keep_event_log,
           event_log' \in Seq(Event)
    PROVE  VersionIn(event_log', options'.version, Len(event_log'))
               = resolved_version'
<1>1. CASE options'.version # "kAuto"
  BY <1>1 DEF VersionFromFirstEvidence, VersionIn
<1>2. CASE options'.version = "kAuto"
  BY <1>2, AutoVersionNext, VersionDecided
<1> QED
  BY <1>1, <1>2

-----------------------------------------------------------------------------
(* What an event makes readers see                                         *)

(* The same as SeenUpsert, SeenDelete and SeenReplacement, id by id.       *)
LEMMA UpsertSets ==
    ASSUME Store!ObjectsOK, NEW type \in Types, NEW id \in Keys,
           NEW obj \in Object, Store!ApplyUpsert(type, id, obj),
           NEW t \in Types, NEW k \in Keys
    PROVE  View'[t][k] = IF t = type /\ (t \in SingletonTypes \/ k = id)
                         THEN obj ELSE View[t][k]
BY SeenType, SeenUpsert

LEMMA DeleteSets ==
    ASSUME Store!ObjectsOK, NEW type \in Types, NEW id \in Keys,
           Store!ApplyDelete(type, id), NEW t \in Types, NEW k \in Keys
    PROVE  View'[t][k] = IF t = type /\ (t \in SingletonTypes \/ k = id)
                         THEN None ELSE View[t][k]
BY SeenType, SeenDelete

LEMMA ReplacementSets ==
    ASSUME Store!ObjectsOK, NEW type \in Types, NEW objs \in Seq(Object),
           Store!ApplyCollectionReplace(type, objs),
           NEW t \in Types, NEW k \in Keys
    PROVE  View'[t][k] = IF t = type /\ t \notin SingletonTypes
                         THEN StoreProofs!CollectionOf(objs)[k]
                         ELSE View[t][k]
BY SeenType, SeenReplacement

(* A collection holds, under every id, the last of its documents that has  *)
(* this id.                                                                *)
LEMMA CollectionHolds ==
    ASSUME NEW docs \in Seq(Doc), CollectionDecodes(docs),
           NEW version, NEW type, type # "state", NEW k \in Keys
    PROVE  StoreProofs!CollectionOf(DecodeCollection(version, type, docs))[k] =
               IF Named(docs, k) = {} THEN None
               ELSE DecodeObject(version, type, docs[LastOf(Named(docs, k))])
<1> DEFINE objs == DecodeCollection(version, type, docs)
           named == Named(docs, k)
           Last(i) == /\ objs[i].id = k
                      /\ \A j \in DOMAIN objs : i < j => objs[j].id # k
<1> SUFFICES StoreProofs!CollectionOf(objs)[k] =
                 IF named = {} THEN None
                 ELSE DecodeObject(version, type, docs[LastOf(named)])
  OBVIOUS
<1>1. /\ DOMAIN objs = DOMAIN docs
      /\ \A i \in DOMAIN docs : objs[i] = DecodeObject(version, type, docs[i])
  BY DEF DecodeCollection
<1>2. ASSUME NEW i \in DOMAIN docs
      PROVE  objs[i].id = docs[i].id
  <2>1. docs[i].id # None
    BY DEF CollectionDecodes
  <2>2. DecodeObject(version, type, docs[i]).id = docs[i].id
    BY <2>1 DEF DecodeObject
  <2> HIDE DEF objs
  <2> QED
    BY <1>1, <2>2
<1>3. StoreProofs!CollectionOf(objs)[k] =
          IF \E i \in DOMAIN objs : Last(i)
          THEN objs[CHOOSE i \in DOMAIN objs : Last(i)] ELSE None
  BY DEF StoreProofs!CollectionOf
<1>4. DOMAIN docs = 1..Len(docs) /\ Len(docs) \in Nat
  OBVIOUS
<1> HIDE DEF objs
<1>5. named \in SUBSET (1..Len(docs))
  BY <1>4 DEF Named
<1>6. \A i \in DOMAIN objs : objs[i].id = k <=> i \in named
  BY <1>1, <1>2 DEF Named
<1>7. named \subseteq DOMAIN objs
  BY <1>1, <1>4, <1>5
<1> HIDE DEF named
<1>8. CASE named = {}
  BY <1>3, <1>6, <1>8
<1>9. CASE named # {}
  <2>1. PICK m \in named : \A j \in named : j <= m
    BY <1>4, <1>5, <1>9, HasLast
  <2>2. Last(m) /\ m \in DOMAIN objs
    BY <1>1, <1>4, <1>5, <1>6, <1>7, <2>1
  <2>3. ASSUME NEW i \in DOMAIN objs, Last(i)
        PROVE  i = m
    BY <1>1, <1>4, <1>5, <1>6, <1>7, <2>1, <2>3
  <2> HIDE DEF Last
  <2>4. (CHOOSE i \in DOMAIN objs : Last(i)) = m
    BY <2>2, <2>3
  <2>5. LastOf(named) = m
    BY <1>4, <1>5, <2>1, LastOfIs
  <2>6. objs[m] = DecodeObject(version, type, docs[m])
    BY <1>1, <2>2
  <2> QED
    BY <1>3, <1>9, <2>2, <2>4, <2>5, <2>6
<1> QED
  BY <1>8, <1>9

(* An event that is begun sets what it writes, and nothing else.           *)
LEMMA EventSets ==
    ASSUME TypeOK, NEW event, Parsed(event), ApplyEvent(event), Begin(event),
           NEW t \in Types, NEW k \in Keys
    PROVE  View'[t][k] = IF EventWrites(event, t, k)
                         THEN EventWritten(event, VersionFor(event), k)
                         ELSE View[t][k]
<1>0. /\ Store!ObjectsOK /\ event \in Event /\ event.docs \in Seq(Doc)
      /\ event.type \in Types
      /\ t \in CollectionTypes <=> t \notin SingletonTypes
  BY FeedTypes DEF TypeOK, Store!TypeOK, Parsed, Event, Begin
<1>1. ~IgnoreUnknownType(event)
  BY <1>0, DataAssumption DEF IgnoreUnknownType
<1>2. CASE ApplyDelete(event)
  <2>1. event.shape = "delete" /\ event.id \in Keys
        /\ Store!ApplyDelete(event.type, event.id)
    BY <1>2 DEF ApplyDelete, Parsed
  <2>2. EventWrites(event, t, k) <=>
            t = event.type /\ (t \in SingletonTypes \/ k = event.id)
    BY <1>0, <2>1 DEF EventWrites
  <2>3. EventWritten(event, VersionFor(event), k) = None
    BY <2>1 DEF EventWritten
  <2> QED
    BY <1>0, <2>1, <2>2, <2>3, DeleteSets
<1>3. CASE ApplySingleObject(event)
  <2> DEFINE obj == DecodeObject(VersionFor(event), event.type, event.docs[1])
  <2>1. /\ event.shape = "single" /\ event.id \in Keys
        /\ event.docs[1] \in Doc
        /\ Store!ApplyUpsert(event.type, event.id, obj)
    BY <1>0, <1>3 DEF ApplySingleObject, Parsed
  <2>2. EventWrites(event, t, k) <=>
            t = event.type /\ (t \in SingletonTypes \/ k = event.id)
    BY <1>0, <2>1 DEF EventWrites
  <2>3. EventWritten(event, VersionFor(event), k) = obj
    BY <2>1 DEF EventWritten
  <2>4. obj \in Object
    BY <2>1, DecodeObjectType
  <2> HIDE DEF obj
  <2> QED
    BY <1>0, <2>1, <2>2, <2>3, <2>4, UpsertSets
<1>4. CASE ApplySingletonUpdate(event)
  <2> DEFINE obj == DecodeObject(VersionFor(event), event.type, event.docs[1])
  <2>1. /\ event.shape = "singleton" /\ event.docs[1] \in Doc
        /\ Store!ApplyUpsert(event.type, obj.id, obj)
    BY <1>0, <1>4 DEF ApplySingletonUpdate, Store!ApplySingletonUpdate, Parsed
  <2>2. obj.id = DecodeObject(None, event.type, event.docs[1]).id
    BY SameId
  <2>3. EventWrites(event, t, k) <=>
            t = event.type /\ (t \in SingletonTypes \/ k = obj.id)
    <3> HIDE DEF obj
    <3> QED
      BY <1>0, <2>1, <2>2 DEF EventWrites
  <2>4. EventWritten(event, VersionFor(event), k) = obj
    BY <2>1 DEF EventWritten
  <2>5. obj \in Object /\ obj.id \in Keys
    BY <2>1, DecodeObjectType DEF Object
  <2> HIDE DEF obj
  <2> QED
    BY <1>0, <2>1, <2>3, <2>4, <2>5, UpsertSets
<1>5. CASE ApplyCollectionReplace(event) /\ CollectionDecodes(event.docs)
  <2> DEFINE objs == DecodeCollection(VersionFor(event), event.type, event.docs)
  <2>1. /\ event.shape = "collection"
        /\ Store!ApplyCollectionReplace(event.type, objs)
    BY <1>5 DEF ApplyCollectionReplace
  <2>2. EventWrites(event, t, k) <=> t = event.type /\ t \notin SingletonTypes
    BY <1>0, <1>5, <2>1 DEF EventWrites
  <2>3. StoreProofs!CollectionOf(objs)[k] =
            EventWritten(event, VersionFor(event), k)
        \/ event.type \in SingletonTypes
    <3>1. event.type # "state" \/ event.type \in SingletonTypes
      BY DEF SingletonTypes
    <3> QED
      BY <1>0, <1>5, <2>1, <3>1, CollectionHolds DEF EventWritten
  <2>4. objs \in Seq(Object)
    BY <1>0, DecodeCollectionType
  <2> HIDE DEF objs
  <2> QED
    BY <1>0, <2>1, <2>2, <2>3, <2>4, ReplacementSets
<1>6. CASE ApplyCollectionReplace(event) /\ ~CollectionDecodes(event.docs)
  <2>1. event.shape = "collection" /\ UNCHANGED objectVars
    BY <1>6 DEF ApplyCollectionReplace, FailEvent
  <2>2. ~EventWrites(event, t, k)
    BY <1>6, <2>1 DEF EventWrites
  <2>3. UNCHANGED View
    BY <2>1, SameView
  <2> QED
    BY <2>2, <2>3
<1> QED
  BY <1>1, <1>2, <1>3, <1>4, <1>5, <1>6 DEF ApplyEvent

-----------------------------------------------------------------------------
Writers(log, t, k) == {i \in DOMAIN log : EventWrites(log[i], t, k)}

(* What is seen is what the last of the writers wrote.                     *)
LastWrite(log, version, t, k, seen) ==
    IF Writers(log, t, k) = {} THEN seen = None
    ELSE \E last \in Writers(log, t, k) :
             /\ \A i \in Writers(log, t, k) : i <= last
             /\ seen = EventWritten(log[last], VersionIn(log, version, last), k)

(* ObjectsFollowLog, in a state and after a step, as a statement about the *)
(* log.                                                                    *)
LEMMA FollowsLog ==
    ObjectsFollowLog <=>
        (options.keep_event_log =>
            \A t \in Types, k \in Keys :
                LastWrite(event_log, options.version, t, k, View[t][k]))
<1>1. ASSUME NEW t \in Types, NEW k \in Keys
      PROVE  {i \in DOMAIN event_log : Writes(i, t, k)}
                 = Writers(event_log, t, k)
  BY LogWrites DEF Writers
<1>2. ASSUME NEW i, NEW k
      PROVE  Written(i, k) = EventWritten(event_log[i],
                 VersionIn(event_log, options.version, i), k)
  BY LogWrites, VersionAtIs
<1> QED
  BY <1>1, <1>2 DEF ObjectsFollowLog, LastWrite

LEMMA FollowsLogNext ==
    ObjectsFollowLog' <=>
        (options'.keep_event_log =>
            \A t \in Types, k \in Keys :
                LastWrite(event_log', options'.version, t, k, View'[t][k]))
<1>1. ASSUME NEW t \in Types, NEW k \in Keys
      PROVE  {i \in DOMAIN event_log' : Writes(i, t, k)'}
                 = Writers(event_log', t, k)
  BY LogWritesNext DEF Writers
<1>2. ASSUME NEW i, NEW k
      PROVE  Written(i, k)' = EventWritten(event_log'[i],
                 VersionIn(event_log', options'.version, i), k)
  BY LogWritesNext, VersionAtIs
<1> QED
  BY <1>1, <1>2 DEF ObjectsFollowLog, LastWrite

(* One more entry decides what is seen, or leaves the decision to the one  *)
(* that had it.                                                            *)
LEMMA LastWriteGrows ==
    ASSUME NEW log \in Seq(Event), NEW event \in Event, NEW version,
           NEW t, NEW k, NEW seen, LastWrite(log, version, t, k, seen)
    PROVE  LET longer == Append(log, event)
           IN  LastWrite(longer, version, t, k,
                   IF EventWrites(event, t, k)
                   THEN EventWritten(event,
                            VersionIn(longer, version, Len(log) + 1), k)
                   ELSE seen)
<1> DEFINE longer == Append(log, event)
           n == Len(log) + 1
<1>1. /\ DOMAIN longer = DOMAIN log \cup {n} /\ n \notin DOMAIN log
      /\ longer[n] = event /\ n \in Nat
      /\ \A i \in DOMAIN log : longer[i] = log[i] /\ i \in Nat /\ i <= n
  <2>1. \A i \in DOMAIN log : i \in Nat /\ i <= Len(log) + 1
    BY LogGrows
  <2> QED
    BY <2>1, LogGrows
<1>2. \A i \in DOMAIN log : VersionIn(longer, version, i)
                                = VersionIn(log, version, i)
  BY VersionStays
<1> HIDE DEF longer, n
<1>3. CASE EventWrites(event, t, k)
  <2>1. /\ n \in Writers(longer, t, k)
        /\ \A i \in Writers(longer, t, k) : i <= n
    BY <1>1, <1>3 DEF Writers
  <2> QED
    BY <1>1, <1>3, <2>1 DEF LastWrite, longer, n
<1>4. CASE ~EventWrites(event, t, k)
  <2>1. Writers(longer, t, k) = Writers(log, t, k)
    BY <1>1, <1>4 DEF Writers
  <2>2. \A i \in Writers(log, t, k) :
            EventWritten(longer[i], VersionIn(longer, version, i), k)
                = EventWritten(log[i], VersionIn(log, version, i), k)
    BY <1>1, <1>2 DEF Writers
  <2>3. LastWrite(longer, version, t, k, seen)
    BY <2>1, <2>2 DEF LastWrite
  <2> QED
    BY <1>4, <2>3 DEF longer
<1> QED
  BY <1>3, <1>4

-----------------------------------------------------------------------------
(* A step writes what its event says, or nothing.                          *)
LEMMA ObjectsStep ==
    ASSUME TypeOK, VersionFromFirstEvidence', ObjectsFollowLog, SessionStep
    PROVE  ObjectsFollowLog'
<1>1. ASSUME UNCHANGED <<options, event_log, objectVars>>
      PROVE  ObjectsFollowLog'
  BY <1>1, SameView, FollowsLog, FollowsLogNext
<1>2. ASSUME NEW event, Parsed(event), ApplyEvent(event), Begin(event)
      PROVE  ObjectsFollowLog'
  <2>1. options' = options
    BY <1>2 DEF Begin
  <2> SUFFICES ASSUME options.keep_event_log,
                      NEW t \in Types, NEW k \in Keys
               PROVE  LastWrite(event_log', options.version, t, k,
                                View'[t][k])
    BY <2>1, FollowsLogNext
  <2>2. /\ event_log \in Seq(Event) /\ event \in Event
        /\ event_log' = Append(event_log, event)
    BY <1>2 DEF TypeOK, Store!TypeOK, Parsed, Begin, Store!RecordEvent
  <2>3. VersionFor(event) =
            VersionIn(event_log', options.version, Len(event_log) + 1)
    <3>1. /\ event_log' \in Seq(Event)
          /\ Len(event_log') = Len(event_log) + 1
      BY <2>2
    <3>2. VersionIn(event_log', options'.version, Len(event_log'))
              = resolved_version'
      BY <2>1, <3>1, VersionNowNext
    <3> QED
      BY <1>2, <2>1, <3>1, <3>2 DEF Begin
  <2>4. View'[t][k] =
            IF EventWrites(event, t, k)
            THEN EventWritten(event,
                     VersionIn(event_log', options.version,
                               Len(event_log) + 1), k)
            ELSE View[t][k]
    BY <1>2, <2>3, EventSets
  <2>5. LastWrite(event_log, options.version, t, k, View[t][k])
    BY FollowsLog
  <2> QED
    BY <2>2, <2>4, <2>5, LastWriteGrows
<1> QED
  BY <1>1, <1>2, EventBegins, OtherStepsKeepLog
     DEF SessionStep

LEMMA ObjectsAtFirst == Init => ObjectsFollowLog
<1> SUFFICES ASSUME Init, NEW t \in Types, NEW k \in Keys
             PROVE  LastWrite(event_log, options.version, t, k, View[t][k])
  BY FollowsLog
<1>1. Writers(event_log, t, k) = {}
  BY DEF Init, Store!Init, Writers
<1>2. View[t][k] = None
  BY DEF Init, Store!Init, Store!NoObjects, View, Store!View,
         Store!GetObject, Store!Types, Types, Store!SingletonTypes,
         SingletonTypes
<1> QED
  BY <1>1, <1>2 DEF LastWrite

(* The objects are what the log says, no more and no less: under every     *)
(* type and id the last logged event that concerns them decides, decoded   *)
(* under the version the log had established by then.                      *)
THEOREM LogDeterminesObjects == Spec => []ObjectsFollowLog
<1>1. Init => ObjectsFollowLog
  BY ObjectsAtFirst
<1>2. TypeOK /\ VersionFromFirstEvidence' /\ ObjectsFollowLog /\ [Next]_vars
          => ObjectsFollowLog'
  BY StepCases, ObjectsStep
<1> QED
  BY <1>1, <1>2, TypeCorrect, FirstEvidenceDecides, PTL DEF Spec

-----------------------------------------------------------------------------
(* What observers hear of line n when it is committed, and when it fails.  *)
Warnings(diags, n) ==
    /\ diags \in Seq(Diagnostic)
    /\ \A i \in DOMAIN diags : /\ diags[i].severity = "warning"
                               /\ diags[i].line_no = n

Failure(diags, n) ==
    /\ diags \in Seq(Diagnostic)
    /\ \A i \in DOMAIN diags : diags[i].line_no = n
    /\ \E i \in DOMAIN diags : diags[i].severity = "error"

LEMMA OneWarning ==
    ASSUME NEW code \in Codes, NEW n \in Nat
    PROVE  Warnings(<<Warning(code, n)>>, n)
<1>1. Warning(code, n) \in Diagnostic
  BY DiagnosticType
<1> QED
  BY <1>1 DEF Warnings, Warning

LEMMA NoWarning == ASSUME NEW n PROVE Warnings(<<>>, n)
BY DEF Warnings

LEMMA DecoderWarns ==
    ASSUME NEW event \in Event
    PROVE  Warnings(DecoderWarnings(event), event.line_no)
<1>1. DecoderWarnings(event) \in Seq(Diagnostic)
  BY DecoderWarningsType
<1>2. \A i \in DOMAIN DecoderWarnings(event) :
          DecoderWarnings(event)[i] = Warning("kInvalidTime", event.line_no)
  BY DEF DecoderWarnings
<1> QED
  BY <1>1, <1>2 DEF Warnings, Warning

LEMMA ErrorJoins ==
    ASSUME NEW n \in Nat, NEW code \in Codes, NEW diags \in Seq(Diagnostic),
           \A i \in DOMAIN diags : diags[i].line_no = n
    PROVE  Failure(diags \o <<Error(code, n)>>, n)
<1> DEFINE all == diags \o <<Error(code, n)>>
<1>1. Error(code, n) \in Diagnostic
  BY DiagnosticType
<1>2. /\ all \in Seq(Diagnostic)
      /\ DOMAIN all = 1..(Len(diags) + 1)
      /\ all[Len(diags) + 1] = Error(code, n)
      /\ \A i \in 1..Len(diags) : all[i] = diags[i] /\ i \in DOMAIN diags
      /\ Len(diags) + 1 \in DOMAIN all
  BY <1>1
<1>3. Error(code, n).line_no = n /\ Error(code, n).severity = "error"
  BY DEF Error
<1>4. \A i \in 1..Len(diags) : all[i].line_no = n
  BY <1>2
<1>5. \A i \in DOMAIN all : i \in 1..Len(diags) \/ i = Len(diags) + 1
  BY <1>1, <1>2
<1> HIDE DEF all
<1>6. \A i \in DOMAIN all : all[i].line_no = n
  BY <1>2, <1>3, <1>4, <1>5
<1>7. \E i \in DOMAIN all : all[i].severity = "error"
  BY <1>2, <1>3
<1> QED
  BY <1>2, <1>6, <1>7 DEF Failure, all

(* A rejected line is reported once, or twice when it reaches the limit.   *)
LEMMA RejectReports ==
    ASSUME TypeOK, NEW code \in LineErrors, RejectLine(code)
    PROVE  /\ ReturnError("kParseError")
           /\ \E diags : /\ Failure(diags, cursor.line_no + 1)
                         /\ AddDiagnostics(diags)
<1> DEFINE n == cursor.line_no + 1
           report == Error(code, n)
           limit == Error("kMaxConsecutiveErrorsExceeded", n)
           tail == IF LimitReached THEN <<limit>> ELSE <<>>
<1>1. n \in Nat /\ report \in Diagnostic /\ limit \in Diagnostic
  <2>1. n \in Nat
    BY DEF TypeOK
  <2> QED
    BY <2>1, DiagnosticType DEF Codes
<1>2. /\ report.line_no = n /\ report.severity = "error"
      /\ limit.line_no = n
  BY DEF Error
<1>3. ReturnError("kParseError") /\ AddDiagnostics(<<report>> \o tail)
  BY DEF RejectLine
<1> HIDE DEF n, report, limit
<1>4. Failure(<<report>> \o tail, n)
  <2>1. CASE LimitReached
    <3>1. tail = <<limit>>
      BY <2>1
    <3>2. Failure(<<report>> \o <<limit>>, n)
      <4>1. /\ <<report>> \in Seq(Diagnostic)
            /\ \A i \in DOMAIN <<report>> : <<report>>[i].line_no = n
        BY <1>1, <1>2
      <4> QED
        BY <1>1, <4>1, ErrorJoins DEF limit, Codes
    <3> HIDE DEF tail
    <3> QED
      BY <3>1, <3>2
  <2>2. CASE ~LimitReached
    <3>1. <<report>> \o tail = <<report>>
      BY <1>1, <2>2
    <3>2. Failure(<<report>>, n)
      BY <1>1, <1>2 DEF Failure
    <3> QED
      BY <3>1, <3>2
  <2> QED
    BY <2>1, <2>2
<1> QED
  BY <1>3, <1>4 DEF n

(* An event is committed with warnings alone, or fails with an error.      *)
LEMMA EventReports ==
    ASSUME TypeOK, NEW event, Parsed(event), ApplyEvent(event)
    PROVE  \E diags :
               /\ AddDiagnostics(diags)
               /\ \/ ReturnOk /\ Warnings(diags, cursor.line_no + 1)
                  \/ /\ ReturnError("kParseError")
                     /\ Failure(diags, cursor.line_no + 1)
<1> DEFINE Goal ==
        \E diags :
            /\ AddDiagnostics(diags)
            /\ \/ ReturnOk /\ Warnings(diags, cursor.line_no + 1)
               \/ /\ ReturnError("kParseError")
                  /\ Failure(diags, cursor.line_no + 1)
<1>0. /\ event \in Event /\ event.line_no \in Nat
      /\ event.line_no = cursor.line_no + 1
      /\ {"kUnknownEventType", "kDeleteUnknownObject",
          "kInvalidObjectShape"} \subseteq Codes
  BY DEF Parsed, Event, Codes
<1>1. ASSUME NEW warnings, Warnings(warnings, event.line_no),
             Commit(warnings) \/ FailEvent(event, warnings)
      PROVE  Goal
  <2>1. Failure(warnings \o <<Error("kInvalidObjectShape", event.line_no)>>,
                event.line_no)
    BY <1>0, <1>1, ErrorJoins DEF Warnings
  <2> QED
    BY <1>0, <1>1, <2>1 DEF Commit, FailEvent
<1> SUFFICES Goal
  OBVIOUS
<1> HIDE DEF Goal
<1>2. CASE IgnoreUnknownType(event)
  <2>1. Warnings(<<Warning("kUnknownEventType", event.line_no)>>,
                 event.line_no)
    BY <1>0, OneWarning
  <2> QED
    BY <1>1, <1>2, <2>1 DEF IgnoreUnknownType
<1>3. CASE ApplyDelete(event)
  <2>1. /\ Warnings(<<Warning("kDeleteUnknownObject", event.line_no)>>,
                    event.line_no)
        /\ Warnings(<<>>, event.line_no)
    BY <1>0, OneWarning, NoWarning
  <2> QED
    BY <1>1, <1>3, <2>1 DEF ApplyDelete
<1>4. CASE \/ ApplySingleObject(event)
           \/ ApplyCollectionReplace(event)
           \/ ApplySingletonUpdate(event)
  <2>1. /\ Warnings(DecoderWarnings(event), event.line_no)
        /\ Warnings(<<>>, event.line_no)
    BY <1>0, DecoderWarns, NoWarning
  <2> QED
    BY <1>1, <1>4, <2>1
       DEF ApplySingleObject, ApplyCollectionReplace, ApplySingletonUpdate
<1> QED
  BY <1>2, <1>3, <1>4 DEF ApplyEvent

-----------------------------------------------------------------------------
(* Nothing is heard of a line that was not consumed.                       *)
HeardOfLinesConsumed ==
    \A i \in DOMAIN heard : heard[i].line_no <= cursor.line_no

LEMMA LinesAreNumbers ==
    ASSUME NEW diags \in Seq(Diagnostic)
    PROVE  \A i \in DOMAIN diags : diags[i].line_no \in Nat
<1>1. \A d \in Diagnostic : d.line_no \in Nat
  BY DEF Diagnostic
<1>2. \A i \in DOMAIN diags : diags[i] \in Diagnostic
  OBVIOUS
<1> QED
  BY <1>1, <1>2

(* What is heard of line n joins what was heard before.                    *)
LEMMA HeardGrows ==
    ASSUME heard \in Seq(Diagnostic), NEW diags \in Seq(Diagnostic), NEW n,
           \A i \in DOMAIN diags : diags[i].line_no = n,
           AddDiagnostics(diags)
    PROVE  /\ \A i \in DOMAIN heard' : \/ heard'[i].line_no = n
                                       \/ \E j \in DOMAIN heard :
                                              heard'[i] = heard[j]
           /\ Reported("error")' =
                  Reported("error") \cup
                      {m \in {n} : \E i \in DOMAIN diags :
                                       diags[i].severity = "error"}
<1> DEFINE k == Len(heard)
<1>1. heard' = heard \o diags
  BY DEF AddDiagnostics, Store!NotifyDiagnostics
<1>2. /\ k \in Nat /\ DOMAIN heard = 1..k /\ Len(diags) \in Nat
      /\ DOMAIN diags = 1..Len(diags)
      /\ DOMAIN heard' = 1..(k + Len(diags))
      /\ \A i \in 1..k : heard'[i] = heard[i]
      /\ \A i \in 1..Len(diags) : heard'[k + i] = diags[i]
  BY <1>1
<1> HIDE DEF k
<1>3. \A i \in DOMAIN heard' : \/ i \in DOMAIN heard
                               \/ i - k \in DOMAIN diags /\ i = k + (i - k)
  BY <1>2
<1>4. /\ \A i \in DOMAIN heard : i \in DOMAIN heard' /\ heard'[i] = heard[i]
      /\ \A i \in DOMAIN diags : /\ k + i \in DOMAIN heard'
                                 /\ heard'[k + i] = diags[i]
  BY <1>2
<1>5. \A i \in DOMAIN heard' : \/ i \in DOMAIN heard /\ heard'[i] = heard[i]
                               \/ \E j \in DOMAIN diags : heard'[i] = diags[j]
  BY <1>3, <1>4
<1>6. Reported("error") =
          {heard[i].line_no : i \in {j \in DOMAIN heard :
                                         heard[j].severity = "error"}}
  BY DEF Reported
<1>7. Reported("error")' =
          {heard'[i].line_no : i \in {j \in DOMAIN heard' :
                                          heard'[j].severity = "error"}}
  BY DEF Reported
<1> QED
  BY <1>4, <1>5, <1>6, <1>7

LEMMA ErrorRunStep ==
    ASSUME TypeOK, HeardOfLinesConsumed, ErrorRunIsReported,
           SessionStep, ~Lost \/ UNCHANGED vars
    PROVE  HeardOfLinesConsumed' /\ ErrorRunIsReported'
<1> DEFINE line == cursor.line_no
           first == line - consecutive_errors
<1>0. /\ line \in Nat /\ consecutive_errors \in Nat
      /\ heard \in Seq(Diagnostic)
  BY DEF TypeOK, Store!TypeOK
<1>1. CASE UNCHANGED vars
  BY <1>1 DEF vars, sessionVars, storeVars, HeardOfLinesConsumed,
              ErrorRunIsReported, Reported, Lost
<1>2. CASE ~Lost
  <2>1. /\ first \in Int /\ first >= 0
        /\ first + 1 .. line \subseteq Reported("error")
        /\ first \notin Reported("error")
    BY <1>0, <1>2 DEF ErrorRunIsReported
  <2>2. CASE ConsumeAfterFinish \/ Finish
    BY <2>1, <2>2
       DEF ConsumeAfterFinish, Finish, storeVars, HeardOfLinesConsumed,
           ErrorRunIsReported, Reported, Lost
  <2>3. CASE Throw
    <3>1. cursor'.line_no = line + 1 /\ heard' = heard /\ Lost'
      BY <2>3, ThrowSession DEF Throw, storeVars, Lost
    <3>2. \A i \in DOMAIN heard : heard[i].line_no \in Nat
      BY <1>0, LinesAreNumbers
    <3>3. HeardOfLinesConsumed'
      BY <1>0, <3>1, <3>2 DEF HeardOfLinesConsumed
    <3> QED
      BY <3>1, <3>3 DEF ErrorRunIsReported
  <2>4. ASSUME NEW diags, cursor'.line_no = line + 1, AddDiagnostics(diags),
               \/ ReturnOk /\ Warnings(diags, line + 1)
               \/ /\ ReturnError("kParseError")
                  /\ Failure(diags, line + 1)
        PROVE  HeardOfLinesConsumed' /\ ErrorRunIsReported'
    <3>1. /\ diags \in Seq(Diagnostic)
          /\ \A i \in DOMAIN diags : diags[i].line_no = line + 1
      BY <2>4 DEF Warnings, Failure
    <3>2. \A i \in DOMAIN heard' : \/ heard'[i].line_no = line + 1
                                   \/ \E j \in DOMAIN heard :
                                          heard'[i] = heard[j]
      BY <1>0, <2>4, <3>1, HeardGrows
    <3>3. HeardOfLinesConsumed'
      <4>1. \A j \in DOMAIN heard : heard[j].line_no \in Nat
        BY <1>0, LinesAreNumbers
      <4> QED
        BY <1>0, <2>4, <3>2, <4>1 DEF HeardOfLinesConsumed
    <3>4. CASE ReturnOk /\ Warnings(diags, line + 1)
      <4>1. Reported("error")' = Reported("error")
        BY <1>0, <2>4, <3>1, <3>4, HeardGrows DEF Warnings
      <4>2. line + 1 \notin Reported("error")
        BY <1>0 DEF HeardOfLinesConsumed, Reported
      <4>3. consecutive_errors' = 0
        BY <3>4 DEF ReturnOk
      <4> QED
        BY <1>0, <2>4, <3>3, <4>1, <4>2, <4>3 DEF ErrorRunIsReported
    <3>5. CASE ReturnError("kParseError") /\ Failure(diags, line + 1)
      <4>1. Reported("error")' = Reported("error") \cup {line + 1}
        BY <1>0, <2>4, <3>1, <3>5, HeardGrows DEF Failure
      <4>2. consecutive_errors' = consecutive_errors + 1
        BY <3>5 DEF ReturnError
      <4>3. cursor'.line_no - consecutive_errors' = first
        BY <1>0, <2>4, <4>2
      <4>4. first # line + 1
        BY <1>0
      <4>5. first + 1 .. line + 1 \subseteq
                (first + 1 .. line) \cup {line + 1}
        BY <1>0, <2>1
      <4> HIDE DEF first
      <4> QED
        BY <2>1, <2>4, <3>3, <4>1, <4>3, <4>4, <4>5
           DEF ErrorRunIsReported
    <3> QED
      BY <2>4, <3>4, <3>5
  <2>5. CASE KeepAlive
    <3>1. cursor'.line_no = line + 1
      BY <2>5, KeepAliveSession
    <3>2. heard' = heard /\ consecutive_errors' = 0
      BY <2>5 DEF KeepAlive, ReturnOk, storeVars
    <3>3. \A i \in DOMAIN heard : heard[i].line_no \in Nat
      BY <1>0, LinesAreNumbers
    <3>4. HeardOfLinesConsumed'
      BY <1>0, <3>1, <3>2, <3>3 DEF HeardOfLinesConsumed
    <3>5. Reported("error")' = Reported("error")
      BY <3>2 DEF Reported
    <3>6. line + 1 \notin Reported("error")
      BY <1>0 DEF HeardOfLinesConsumed, Reported
    <3> QED
      BY <1>0, <3>1, <3>2, <3>4, <3>5, <3>6 DEF ErrorRunIsReported
  <2>6. ASSUME NEW code \in LineErrors, RejectLine(code)
        PROVE  HeardOfLinesConsumed' /\ ErrorRunIsReported'
    BY <2>4, <2>6, RejectReports, RejectLineSession
  <2>7. ASSUME NEW event, Parsed(event), ApplyEvent(event)
        PROVE  HeardOfLinesConsumed' /\ ErrorRunIsReported'
    BY <2>4, <2>7, EventReports, ApplyEventSession
  <2> QED
    BY <1>1, <2>2, <2>3, <2>5, <2>6, <2>7 DEF SessionStep
<1> QED
  BY <1>1, <1>2

(* The count of consecutive errors is the length of the run of lines, up   *)
(* to the last one, that were reported as errors: no error is counted      *)
(* without a report, and no success leaves the count standing.             *)
THEOREM ErrorRunsAreReported == Spec => []ErrorRunIsReported
<1> DEFINE Inv == HeardOfLinesConsumed /\ ErrorRunIsReported
<1>1. Init => Inv
  BY DEF Init, Store!Init, HeardOfLinesConsumed, ErrorRunIsReported, Reported
<1>2. TypeOK /\ Inv /\ [Next]_vars => Inv'
  <2>1. [Next]_vars => ~Lost \/ UNCHANGED vars
    BY DEF Next
  <2> QED
    BY <2>1, StepCases, ErrorRunStep
<1> QED
  BY <1>1, <1>2, TypeCorrect, PTL DEF Spec

-----------------------------------------------------------------------------
(* Counting what was heard                                                 *)

LEMMA HeardIsCounted ==
    ASSUME heard \in Seq(Diagnostic), NEW code
    PROVE  /\ IsFiniteSet({i \in DOMAIN heard : heard[i].code = code})
           /\ Count(code) \in Nat
<1>1. IsFiniteSet(DOMAIN heard)
  BY FS_Interval
<1>2. IsFiniteSet({i \in DOMAIN heard : heard[i].code = code})
  BY <1>1, FS_Subset
<1> QED
  BY <1>2, FS_CardinalityType DEF Count

LEMMA CountGrows ==
    ASSUME heard \in Seq(Diagnostic), NEW diags \in Seq(Diagnostic),
           AddDiagnostics(diags), NEW code
    PROVE  /\ (\A i \in DOMAIN diags : diags[i].code # code) =>
                  Count(code)' = Count(code)
           /\ \A d \in DOMAIN diags :
                  /\ diags[d].code = code
                  /\ \A i \in DOMAIN diags : i # d => diags[i].code # code
                  => Count(code)' = Count(code) + 1
<1> DEFINE k == Len(heard)
           Old == {i \in DOMAIN heard : heard[i].code = code}
           New == {i \in DOMAIN heard' : heard'[i].code = code}
<1>1. heard' = heard \o diags
  BY DEF AddDiagnostics, Store!NotifyDiagnostics
<1>2. /\ k \in Nat /\ DOMAIN heard = 1..k
      /\ DOMAIN diags = 1..Len(diags) /\ Len(diags) \in Nat
      /\ DOMAIN heard' = 1..(k + Len(diags))
      /\ \A i \in 1..k : heard'[i] = heard[i]
      /\ \A i \in 1..Len(diags) : heard'[k + i] = diags[i]
  BY <1>1
<1>3. Count(code) = Cardinality(Old) /\ Count(code)' = Cardinality(New)
  BY DEF Count
<1>4. IsFiniteSet(Old) /\ Cardinality(Old) \in Nat
  BY HeardIsCounted DEF Count
<1> HIDE DEF k
<1>5. \A i \in DOMAIN heard' : \/ i \in DOMAIN heard
                               \/ i - k \in DOMAIN diags /\ i = k + (i - k)
  BY <1>2
<1>6. /\ \A i \in DOMAIN heard : i \in DOMAIN heard' /\ heard'[i] = heard[i]
      /\ \A i \in DOMAIN diags : /\ k + i \in DOMAIN heard'
                                 /\ k + i \notin DOMAIN heard
                                 /\ heard'[k + i] = diags[i]
  BY <1>2
<1>7. ASSUME \A i \in DOMAIN diags : diags[i].code # code
      PROVE  New = Old
  BY <1>5, <1>6, <1>7
<1>8. ASSUME NEW d \in DOMAIN diags, diags[d].code = code,
             \A i \in DOMAIN diags : i # d => diags[i].code # code
      PROVE  New = Old \cup {k + d} /\ k + d \notin Old
  BY <1>5, <1>6, <1>8
<1> HIDE DEF Old, New
<1>9. ASSUME NEW d \in DOMAIN diags, New = Old \cup {k + d}, k + d \notin Old
      PROVE  Cardinality(New) = Cardinality(Old) + 1
  BY <1>4, <1>9, FS_AddElement
<1> QED
  BY <1>3, <1>4, <1>7, <1>8, <1>9

LEMMA OneSequence ==
    ASSUME NEW d \in Diagnostic
    PROVE  /\ <<d>> \in Seq(Diagnostic)
           /\ DOMAIN <<d>> = {1}
           /\ <<d>>[1] = d
OBVIOUS

LEMMA OneCounted ==
    ASSUME heard \in Seq(Diagnostic), NEW d \in Diagnostic,
           AddDiagnostics(<<d>>), NEW code
    PROVE  Count(code)' = IF d.code = code THEN Count(code) + 1
                          ELSE Count(code)
<1> DEFINE diags == <<d>>
<1>1. /\ diags \in Seq(Diagnostic) /\ DOMAIN diags = {1} /\ diags[1] = d
      /\ AddDiagnostics(diags)
  BY OneSequence
<1> HIDE DEF diags
<1>2. CASE d.code = code
  BY <1>1, <1>2, CountGrows
<1>3. CASE d.code # code
  BY <1>1, <1>3, CountGrows
<1> QED
  BY <1>2, <1>3

(* The two codes that tell events apart.                                   *)
Unknown == Count("kUnknownEventType")
Failed  == Count("kInvalidObjectShape")

LEMMA NeitherCounted ==
    ASSUME TypeOK, NEW diags \in Seq(Diagnostic), AddDiagnostics(diags),
           \A i \in DOMAIN diags :
               diags[i].code \notin {"kUnknownEventType", "kInvalidObjectShape"}
    PROVE  UNCHANGED <<Unknown, Failed>>
<1>1. heard \in Seq(Diagnostic)
  BY DEF TypeOK, Store!TypeOK
<1> QED
  BY <1>1, CountGrows DEF Unknown, Failed

LEMMA RejectCounts ==
    ASSUME TypeOK, NEW code \in LineErrors, RejectLine(code)
    PROVE  UNCHANGED <<Unknown, Failed>>
<1> DEFINE n == cursor.line_no + 1
           report == Error(code, n)
           limit == Error("kMaxConsecutiveErrorsExceeded", n)
           tail == IF LimitReached THEN <<limit>> ELSE <<>>
           Counted == {"kUnknownEventType", "kInvalidObjectShape"}
<1>1. report \in Diagnostic /\ limit \in Diagnostic
  <2>1. n \in Nat
    BY DEF TypeOK
  <2> QED
    BY <2>1, DiagnosticType DEF Codes
<1>2. report.code \notin Counted /\ limit.code \notin Counted
  BY DEF Error, LineErrors
<1>3. AddDiagnostics(<<report>> \o tail)
  BY DEF RejectLine
<1>4. tail \in {<<>>, <<limit>>}
  OBVIOUS
<1> DEFINE head == <<report>>
<1> HIDE DEF n, report, limit, tail, Counted
<1>5. /\ head \in Seq(Diagnostic) /\ tail \in Seq(Diagnostic)
      /\ \A i \in DOMAIN head : head[i] = report
      /\ \A i \in DOMAIN tail : tail[i] = limit
      /\ AddDiagnostics(head \o tail)
  <2>1. /\ <<>> \in Seq(Diagnostic)
        /\ \A i \in DOMAIN <<>> : <<>>[i] = limit
    OBVIOUS
  <2> QED
    BY <1>1, <1>3, <1>4, <2>1, OneSequence
<1> HIDE DEF head
<1>6. /\ head \o tail \in Seq(Diagnostic)
      /\ \A i \in DOMAIN (head \o tail) :
             \/ i \in DOMAIN head /\ (head \o tail)[i] = head[i]
             \/ /\ i - Len(head) \in DOMAIN tail
                /\ (head \o tail)[i] = tail[i - Len(head)]
  BY <1>5
<1>7. \A i \in DOMAIN (head \o tail) : (head \o tail)[i].code \notin Counted
  BY <1>2, <1>5, <1>6
<1> QED
  BY <1>5, <1>6, <1>7, NeitherCounted DEF Counted

(* Every event is ignored, refused or applied, and counted as such.        *)
LEMMA EventCounts ==
    ASSUME TypeOK, NEW event, Parsed(event), ApplyEvent(event)
    PROVE  /\ cursor'.event_count = cursor.event_count + 1
           /\ \/ /\ Unknown' = Unknown + 1
                 /\ Failed' = IF options.unknown_type_policy = "kError"
                              THEN Failed + 1 ELSE Failed
                 /\ UNCHANGED <<event_count, event_log>>
              \/ /\ UNCHANGED Unknown
                 /\ Begin(event)
                 /\ \/ Failed' = Failed + 1 /\ UNCHANGED event_count
                    \/ Failed' = Failed /\ event_count' = event_count + 1
<1>0. /\ event \in Event /\ event.line_no \in Nat /\ heard \in Seq(Diagnostic)
      /\ {"kUnknownEventType", "kDeleteUnknownObject", "kInvalidTime",
          "kInvalidObjectShape"} \subseteq Codes
  BY DEF Parsed, Event, Codes, TypeOK, Store!TypeOK
<1> DEFINE unknown == Warning("kUnknownEventType", event.line_no)
           absent == Warning("kDeleteUnknownObject", event.line_no)
           failed == Error("kInvalidObjectShape", event.line_no)
<1>1. /\ unknown \in Diagnostic /\ unknown.code = "kUnknownEventType"
      /\ absent \in Diagnostic /\ absent.code = "kDeleteUnknownObject"
      /\ failed \in Diagnostic /\ failed.code = "kInvalidObjectShape"
  BY <1>0, DiagnosticType DEF Warning, Error
<1>2. cursor'.event_count = cursor.event_count + 1
  BY DEF ApplyEvent, IgnoreUnknownType, ApplyDelete, ApplySingleObject,
         ApplyCollectionReplace, ApplySingletonUpdate, AdvanceCursor
<1>3. ASSUME AddDiagnostics(DecoderWarnings(event))
      PROVE  UNCHANGED <<Unknown, Failed>>
  <2>1. DecoderWarnings(event) \in Seq(Diagnostic)
    BY <1>0, DecoderWarningsType
  <2>2. \A i \in DOMAIN DecoderWarnings(event) :
            DecoderWarnings(event)[i] = Warning("kInvalidTime", event.line_no)
    BY DEF DecoderWarnings
  <2>3. Warning("kInvalidTime", event.line_no).code = "kInvalidTime"
    BY DEF Warning
  <2> QED
    BY <1>3, <2>1, <2>2, <2>3, NeitherCounted
<1>4. ASSUME AddDiagnostics(<<>> \o <<failed>>)
      PROVE  Unknown' = Unknown /\ Failed' = Failed + 1
  <2> HIDE DEF failed
  <2>1. <<>> \o <<failed>> = <<failed>>
    BY <1>1
  <2> QED
    BY <1>0, <1>1, <1>4, <2>1, OneCounted DEF Unknown, Failed
<1>5. CASE IgnoreUnknownType(event)
  <2>1. CASE options.unknown_type_policy # "kError"
    <3>1. /\ AddDiagnostics(<<unknown>>)
          /\ UNCHANGED <<event_count, event_log>>
      BY <1>5, <2>1 DEF IgnoreUnknownType, Commit, objectVars
    <3> HIDE DEF unknown
    <3>2. Unknown' = Unknown + 1 /\ Failed' = Failed
      BY <1>0, <1>1, <3>1, OneCounted DEF Unknown, Failed
    <3> QED
      BY <1>2, <2>1, <3>1, <3>2
  <2>2. CASE options.unknown_type_policy = "kError"
    <3>1. /\ AddDiagnostics(<<unknown>> \o <<failed>>)
          /\ UNCHANGED <<event_count, event_log>>
      BY <1>5, <2>2 DEF IgnoreUnknownType, FailEvent, objectVars
    <3> HIDE DEF unknown, failed
    <3> DEFINE both == <<unknown>> \o <<failed>>
    <3>2. /\ both \in Seq(Diagnostic) /\ DOMAIN both = {1, 2}
          /\ both[1] = unknown /\ both[2] = failed
      BY <1>1
    <3>5. AddDiagnostics(both)
      BY <3>1
    <3> HIDE DEF both
    <3>3. Unknown' = Unknown + 1
      <4>1. /\ 1 \in DOMAIN both /\ both[1].code = "kUnknownEventType"
            /\ \A i \in DOMAIN both :
                   i # 1 => both[i].code # "kUnknownEventType"
        BY <1>1, <3>2
      <4> QED
        BY <1>0, <3>2, <3>5, <4>1, CountGrows DEF Unknown
    <3>4. Failed' = Failed + 1
      <4>1. /\ 2 \in DOMAIN both /\ both[2].code = "kInvalidObjectShape"
            /\ \A i \in DOMAIN both :
                   i # 2 => both[i].code # "kInvalidObjectShape"
        BY <1>1, <3>2
      <4> QED
        BY <1>0, <3>2, <3>5, <4>1, CountGrows DEF Failed
    <3> QED
      BY <1>2, <2>2, <3>1, <3>3, <3>4
  <2> QED
    BY <2>1, <2>2
<1>6. CASE ApplyDelete(event)
  <2>1. /\ Begin(event) /\ event_count' = event_count + 1
        /\ AddDiagnostics(<<absent>>) \/ AddDiagnostics(<<>>)
    BY <1>6 DEF ApplyDelete, Store!ApplyDelete, Commit
  <2> HIDE DEF absent
  <2>2. /\ <<absent>> \in Seq(Diagnostic) /\ <<>> \in Seq(Diagnostic)
        /\ \A i \in DOMAIN <<absent>> : <<absent>>[i] = absent
        /\ \A i \in DOMAIN <<>> : <<>>[i] = absent
    BY <1>1, OneSequence
  <2>3. UNCHANGED <<Unknown, Failed>>
    BY <1>1, <2>1, <2>2, NeitherCounted
  <2> QED
    BY <1>2, <2>1, <2>3
<1>7. CASE ApplySingleObject(event) \/ ApplySingletonUpdate(event)
  <2>1. /\ Begin(event) /\ event_count' = event_count + 1
        /\ AddDiagnostics(DecoderWarnings(event))
    BY <1>7 DEF ApplySingleObject, ApplySingletonUpdate, Store!ApplyUpsert,
                Store!ApplySingletonUpdate, Commit
  <2> QED
    BY <1>2, <1>3, <2>1
<1>8. CASE ApplyCollectionReplace(event)
  <2>1. CASE CollectionDecodes(event.docs)
    <3>1. /\ Begin(event) /\ event_count' = event_count + 1
          /\ AddDiagnostics(DecoderWarnings(event))
      BY <1>8, <2>1 DEF ApplyCollectionReplace, Store!ApplyCollectionReplace,
                        Commit
    <3> QED
      BY <1>2, <1>3, <3>1
  <2>2. CASE ~CollectionDecodes(event.docs)
    <3>1. /\ Begin(event) /\ event_count' = event_count
          /\ AddDiagnostics(<<>> \o <<failed>>)
      BY <1>8, <2>2 DEF ApplyCollectionReplace, FailEvent, objectVars
    <3> QED
      BY <1>2, <1>4, <3>1
  <2> QED
    BY <2>1, <2>2
<1> QED
  BY <1>5, <1>6, <1>7, <1>8 DEF ApplyEvent

(* At first there is nothing to account for.                               *)
LEMMA CountsAtFirst ==
    ASSUME Init
    PROVE  EventsAccountedFor
<1>1. \A code : Count(code) = 0
  BY FS_EmptySet DEF Init, Store!Init, Count
<1> QED
  BY <1>1 DEF Init, Store!Init, EventsAccountedFor

(* A step accounts for the event it counts.                                *)
LEMMA CountsStep ==
    ASSUME TypeOK, EventsAccountedFor, SessionStep
    PROVE  EventsAccountedFor'
<1> DEFINE Balance(eventCount, cursorCount, unknown, failed, logged) ==
        /\ eventCount = cursorCount - unknown -
               IF options.unknown_type_policy = "kError"
               THEN failed - unknown ELSE failed
        /\ logged = IF options.keep_event_log
                    THEN cursorCount - unknown ELSE 0
<1>0. /\ event_count \in Nat /\ cursor.event_count \in Nat
      /\ event_log \in Seq(Event) /\ Len(event_log) \in Nat
      /\ heard \in Seq(Diagnostic)
  BY DEF TypeOK, Store!TypeOK, Store!ObjectsOK
<1>1. EventsAccountedFor <=> Balance(event_count, cursor.event_count, Unknown,
                                     Failed, Len(event_log))
  BY DEF EventsAccountedFor, Unknown, Failed
<1>2. ASSUME options' = options
      PROVE  EventsAccountedFor' <=>
                 Balance(event_count', cursor'.event_count, Unknown', Failed',
                         Len(event_log'))
  BY <1>2 DEF EventsAccountedFor, Unknown, Failed
<1>3. ASSUME UNCHANGED <<options, event_log, event_count, Unknown, Failed>>,
             cursor'.event_count = cursor.event_count
      PROVE  EventsAccountedFor'
  BY <1>1, <1>2, <1>3
<1>4. CASE \/ KeepAlive \/ Throw \/ ConsumeAfterFinish \/ Finish
           \/ UNCHANGED vars
  <2>1. /\ UNCHANGED <<options, event_log, event_count, heard>>
        /\ cursor'.event_count = cursor.event_count
    <3>1. cursor \in Cursors
      BY DEF TypeOK, Cursors
    <3> QED
      BY <1>4, <3>1 DEF KeepAlive, Throw, ConsumeAfterFinish, Finish, vars,
            sessionVars, storeVars, objectVars, Cursors
  <2>2. UNCHANGED <<Unknown, Failed>>
    BY <2>1 DEF Unknown, Failed, Count
  <2> QED
    BY <1>3, <2>1, <2>2
<1>5. ASSUME NEW code \in LineErrors, RejectLine(code)
      PROVE  EventsAccountedFor'
  <2>1. /\ UNCHANGED <<options, event_log, event_count>>
        /\ cursor'.event_count = cursor.event_count
    <3>1. cursor \in Cursors
      BY DEF TypeOK, Cursors
    <3> QED
      BY <1>5, <3>1 DEF RejectLine, objectVars, Cursors
  <2> QED
    BY <1>3, <1>5, <2>1, RejectCounts
<1>6. ASSUME NEW event, Parsed(event), ApplyEvent(event)
      PROVE  EventsAccountedFor'
  <2>1. options' = options /\ Unknown \in Nat /\ Failed \in Nat
    <3>1. Unknown \in Nat /\ Failed \in Nat
      <4>1. \A code : Count(code) \in Nat
        BY <1>0, HeardIsCounted
      <4> QED
        BY <4>1 DEF Unknown, Failed
    <3> QED
      BY <1>6, <3>1, ApplyEventSession
  <2>2. Begin(event) =>
            Len(event_log') = IF options.keep_event_log
                              THEN Len(event_log) + 1 ELSE Len(event_log)
    BY <1>0, <1>6 DEF Begin, Store!RecordEvent, Parsed
  <2>3. /\ cursor'.event_count = cursor.event_count + 1
        /\ \/ /\ Unknown' = Unknown + 1
              /\ Failed' = IF options.unknown_type_policy = "kError"
                           THEN Failed + 1 ELSE Failed
              /\ UNCHANGED <<event_count, event_log>>
           \/ /\ UNCHANGED Unknown
              /\ Begin(event)
              /\ \/ Failed' = Failed + 1 /\ UNCHANGED event_count
                 \/ Failed' = Failed /\ event_count' = event_count + 1
    BY <1>6, EventCounts
  <2>4. event_count' = cursor'.event_count - Unknown' -
            IF options.unknown_type_policy = "kError"
            THEN Failed' - Unknown' ELSE Failed'
    <3>1. event_count = cursor.event_count - Unknown -
              IF options.unknown_type_policy = "kError"
              THEN Failed - Unknown ELSE Failed
      BY <1>1
    <3>0. /\ cursor'.event_count = cursor.event_count + 1
          /\ \/ /\ Unknown' = Unknown + 1 /\ event_count' = event_count
                /\ Failed' = IF options.unknown_type_policy = "kError"
                             THEN Failed + 1 ELSE Failed
             \/ /\ Unknown' = Unknown
                /\ \/ Failed' = Failed + 1 /\ event_count' = event_count
                   \/ Failed' = Failed /\ event_count' = event_count + 1
      BY <2>3
    <3>2. CASE options.unknown_type_policy = "kError"
      <4>1. event_count = cursor.event_count - Unknown - (Failed - Unknown)
        BY <3>1, <3>2
      <4>2. /\ cursor'.event_count = cursor.event_count + 1
            /\ \/ /\ Failed' = Failed + 1 /\ event_count' = event_count
                  /\ Unknown' \in Nat
               \/ /\ Failed' = Failed /\ event_count' = event_count + 1
                  /\ Unknown' \in Nat
        BY <2>1, <3>0, <3>2
      <4>3. Failed \in Nat /\ Unknown \in Nat
            /\ event_count \in Nat /\ cursor.event_count \in Nat
        BY <1>0, <2>1
      <4>4. event_count = cursor.event_count - Failed
        BY <4>1, <4>3
      <4>5. event_count' = cursor'.event_count - Unknown'
                               - (Failed' - Unknown')
        BY <4>2, <4>3, <4>4
      <4> QED
        BY <3>2, <4>5
    <3>3. CASE options.unknown_type_policy # "kError"
      <4>1. event_count = cursor.event_count - Unknown - Failed
        BY <3>1, <3>3
      <4>2. event_count' = cursor'.event_count - Unknown' - Failed'
        BY <1>0, <2>1, <3>0, <3>3, <4>1
      <4> QED
        BY <3>3, <4>2
    <3> QED
      BY <3>2, <3>3
  <2>5. Len(event_log') = IF options.keep_event_log
                          THEN cursor'.event_count - Unknown' ELSE 0
    <3>1. Len(event_log) = IF options.keep_event_log
                           THEN cursor.event_count - Unknown ELSE 0
      BY <1>1
    <3>2. CASE options.keep_event_log
      BY <1>0, <2>1, <2>2, <2>3, <3>1, <3>2
    <3>3. CASE ~options.keep_event_log
      BY <1>0, <2>1, <2>2, <2>3, <3>1, <3>3
    <3> QED
      BY <3>2, <3>3
  <2> QED
    BY <1>2, <2>1, <2>4, <2>5
<1> QED
  BY <1>4, <1>5, <1>6 DEF SessionStep

(* Every event of every feed is accounted for exactly once: ignored for    *)
(* its unknown type, refused because it does not decode, or applied; and   *)
(* the log has all those of a known type.                                  *)
THEOREM AllEventsAccountedFor == Spec => []EventsAccountedFor
<1>1. Init => EventsAccountedFor
  BY CountsAtFirst
<1>2. TypeOK /\ EventsAccountedFor /\ [Next]_vars => EventsAccountedFor'
  BY StepCases, CountsStep
<1> QED
  BY <1>1, <1>2, TypeCorrect, PTL DEF Spec

-----------------------------------------------------------------------------
(* Lines made of logged events                                             *)

(* The event passes the checks again, and becomes the same event again.    *)
Returns(event) ==
    /\ event.type \in Types
    /\ LineOf(event) \in FeedLines
    /\ Passes(LineOf(event), options.max_line_bytes)
    /\ \A n : EventOf(LineOf(event), n) = [event EXCEPT !.line_no = n]

(* What it takes to pass the checks.                                       *)
LEMMA PassesMeans ==
    ASSUME NEW line \in FeedLines, NEW max \in Nat
    PROVE  Passes(line, max) <=>
               /\ line.root = "object" /\ line.bytes <= max
               /\ line.type \notin {None, NotString}
               /\ line.token # NotString /\ line.id # NotString
               /\ line.data \notin {"missing", "scalar"}
               /\ line.id # None => line.data # "array"
<1>1. /\ line.bytes \in Nat
      /\ line.root \in {"blank", "malformed", "overflow", "scalar", "object"}
  BY DEF FeedLines, Line
<1> QED
  BY <1>1, ErrorAssumption
     DEF Passes, LineError, LineErrors, IsKeepalive, Escapes

(* Every event of a known type that a line gave once returns: the line     *)
(* made of it passes the same checks, and gives the same event.            *)
LEMMA PassingReturns ==
    ASSUME TypeOK, NEW line \in FeedLines, NEW line_no \in Nat,
           Passes(line, options.max_line_bytes), line.type \in Types
    PROVE  Returns(EventOf(line, line_no))
<1> DEFINE event == EventOf(line, line_no)
           again == LineOf(event)
           max == options.max_line_bytes
<1>1. /\ line.root = "object" /\ line.bytes > 0 /\ line.bytes <= max
      /\ line.token # NotString /\ line.id # NotString
      /\ line.type \notin {None, NotString}
      /\ line.data \in {"null", "object", "array"}
      /\ line.id # None => line.data # "array"
      /\ max \in Nat /\ line.bytes \in Nat
      /\ line.data = "object" => Len(line.docs) = 1
  BY PassesMeans, OptionsType DEF FeedLines, Line, WellFormed, DataShapes
<1>2. /\ line.docs \in Seq(Doc) /\ line.token \in Tokens \cup {None, NotString}
      /\ line.id \in Keys \cup {None, NotString}
  BY DEF FeedLines, Line
<1>3. /\ <<EmptyDoc(NullRev)>> \in Seq(Doc)
      /\ Len(<<EmptyDoc(NullRev)>>) = 1
  BY NullRevAssumption DEF EmptyDoc, Doc
<1>4. /\ event.type = line.type /\ event.id = line.id
      /\ event.token = line.token
      /\ event.shape = ShapeOf(line)
      /\ event.docs = IF line.data = "null" THEN <<EmptyDoc(NullRev)>>
                      ELSE line.docs
  BY DEF EventOf
<1>5. /\ again.root = "object" /\ again.bytes = 1
      /\ again.type = line.type /\ again.id = line.id
      /\ again.token = line.token /\ again.docs = event.docs
      /\ again.data = CASE event.shape = "delete" -> "null"
                       [] event.shape = "collection" -> "array"
                       [] OTHER -> "object"
  BY <1>4 DEF LineOf
<1>6. again.data = IF line.data = "null" /\ line.id = None
                   THEN "object" ELSE line.data
  BY <1>1, <1>4, <1>5 DEF ShapeOf
<1>7. /\ event.docs \in Seq(Doc)
      /\ again.data = "object" => Len(event.docs) = 1
      /\ again.data = "null" => event.docs = <<EmptyDoc(NullRev)>>
  BY <1>1, <1>2, <1>3, <1>4, <1>6
<1>8. again \in FeedLines
  <2>1. again \in Line
    BY <1>1, <1>2, <1>4, <1>7 DEF LineOf, Line, DataShapes
  <2> QED
    BY <2>1, <1>5, <1>7 DEF FeedLines, WellFormed
<1>9. Passes(again, max)
  BY <1>1, <1>5, <1>6, <1>8, PassesMeans
<1>10. ShapeOf(again) = event.shape
  BY <1>1, <1>4, <1>5, <1>6 DEF ShapeOf
<1>11. ASSUME NEW n
       PROVE  EventOf(again, n) = [event EXCEPT !.line_no = n]
  <2>1. EventOf(again, n) =
            [type |-> event.type, id |-> event.id, shape |-> event.shape,
             token |-> event.token, line_no |-> n, docs |-> event.docs]
    BY <1>4, <1>5, <1>7, <1>10 DEF EventOf
  <2> QED
    BY <2>1 DEF EventOf
<1> QED
  BY <1>4, <1>8, <1>9, <1>11 DEF Returns

-----------------------------------------------------------------------------
(* A log and the objects it leads to                                       *)

Explicit == options.version # "kAuto"

VersionIsGiven == Explicit => resolved_version = options.version

(* The objects and the count that a log of an explicit version leads to.   *)
Applies(event) == event.shape = "collection" => CollectionDecodes(event.docs)

Applied(log) == {i \in DOMAIN log : Applies(log[i])}

LeadsTo(log, view, count) ==
    /\ \A t \in Types, k \in Keys :
           LastWrite(log, options.version, t, k, view[t][k])
    /\ count = Cardinality(Applied(log))

-----------------------------------------------------------------------------
(* What one more event adds                                                *)

LEMMA KnownBegins ==
    ASSUME NEW event, event.type \in Types, ApplyEvent(event)
    PROVE  Begin(event)
BY DataAssumption
   DEF ApplyEvent, IgnoreUnknownType, ApplyDelete, ApplySingleObject,
       ApplyCollectionReplace, ApplySingletonUpdate

LEMMA EventIsCounted ==
    ASSUME event_count \in Nat, NEW event, Begin(event), ApplyEvent(event)
    PROVE  event_count' = IF Applies(event) THEN event_count + 1
                          ELSE event_count
<1>1. ~IgnoreUnknownType(event)
  BY DataAssumption DEF Begin, IgnoreUnknownType
<1>2. CASE ApplyDelete(event)
  BY <1>2 DEF ApplyDelete, Store!ApplyDelete, Applies
<1>3. CASE ApplySingleObject(event) \/ ApplySingletonUpdate(event)
  BY <1>3 DEF ApplySingleObject, ApplySingletonUpdate, Store!ApplyUpsert,
              Store!ApplySingletonUpdate, Applies
<1>4. CASE ApplyCollectionReplace(event)
  BY <1>4 DEF ApplyCollectionReplace, Store!ApplyCollectionReplace,
              FailEvent, objectVars, Applies
<1> QED
  BY <1>1, <1>2, <1>3, <1>4 DEF ApplyEvent

LEMMA AppliedGrows ==
    ASSUME NEW log \in Seq(Event), NEW event \in Event
    PROVE  /\ Cardinality(Applied(log)) \in Nat
           /\ Cardinality(Applied(Append(log, event))) =
                  IF Applies(event) THEN Cardinality(Applied(log)) + 1
                  ELSE Cardinality(Applied(log))
<1> DEFINE longer == Append(log, event)
           n == Len(log) + 1
<1>1. /\ DOMAIN longer = DOMAIN log \cup {n} /\ n \notin DOMAIN log
      /\ longer[n] = event
      /\ \A i \in DOMAIN log : longer[i] = log[i]
  BY LogGrows
<1>2. IsFiniteSet(Applied(log)) /\ Cardinality(Applied(log)) \in Nat
  <2>1. IsFiniteSet(DOMAIN log)
    BY FS_Interval
  <2> QED
    BY <2>1, FS_Subset, FS_CardinalityType DEF Applied
<1> HIDE DEF longer, n
<1>3. CASE Applies(event)
  <2>1. Applied(longer) = Applied(log) \cup {n} /\ n \notin Applied(log)
    BY <1>1, <1>3 DEF Applied
  <2>2. Cardinality(Applied(longer)) = Cardinality(Applied(log)) + 1
    BY <1>2, <2>1, FS_AddElement
  <2> QED
    BY <1>2, <1>3, <2>2 DEF longer
<1>4. CASE ~Applies(event)
  <2>1. Applied(longer) = Applied(log)
    BY <1>1, <1>4 DEF Applied
  <2> QED
    BY <1>2, <1>4, <2>1 DEF longer
<1> QED
  BY <1>3, <1>4

(* What an event does depends on its line number in no way.                *)
LEMMA SameBody ==
    ASSUME NEW event \in Event, NEW logged \in Event, NEW n \in Nat,
           event = [logged EXCEPT !.line_no = n], NEW type, NEW id,
           NEW version
    PROVE  /\ EventWrites(event, type, id) <=> EventWrites(logged, type, id)
           /\ EventWritten(event, version, id) =
                  EventWritten(logged, version, id)
           /\ Applies(event) <=> Applies(logged)
<1>1. /\ event.type = logged.type /\ event.id = logged.id
      /\ event.shape = logged.shape /\ event.docs = logged.docs
  BY DEF Event
<1> HIDE DEF Event
<1> QED
  BY <1>1 DEF EventWrites, EventWritten, Applies

(* The objects follow one more event of a log of an explicit version,      *)
(* whatever its line number was when it was logged.                        *)
LEMMA LeadsToGrows ==
    ASSUME TypeOK, Explicit, VersionIsGiven,
           NEW log \in Seq(Event), NEW logged \in Event,
           LeadsTo(log, View, event_count),
           NEW event, Parsed(event), ApplyEvent(event), Begin(event),
           event = [logged EXCEPT !.line_no = event.line_no]
    PROVE  LeadsTo(Append(log, logged), View, event_count)'
<1>0. /\ event \in Event /\ event.line_no \in Nat /\ options' = options
      /\ event_count \in Nat
  BY DEF Parsed, Event, Begin, TypeOK, Store!TypeOK, Store!ObjectsOK
<1>1. VersionFor(event) = options.version
  BY DEF VersionFor, Detects, Explicit, VersionIsGiven
<1>2. ASSUME NEW t \in Types, NEW k \in Keys
      PROVE  LastWrite(Append(log, logged), options.version, t, k, View'[t][k])
  <2>1. VersionIn(Append(log, logged), options.version, Len(log) + 1)
            = options.version
    BY DEF VersionIn, Explicit
  <2>2. View'[t][k] = IF EventWrites(logged, t, k)
                      THEN EventWritten(logged, options.version, k)
                      ELSE View[t][k]
    BY <1>0, <1>1, EventSets, SameBody
  <2>3. LastWrite(log, options.version, t, k, View[t][k])
    BY DEF LeadsTo
  <2> QED
    BY <2>1, <2>2, <2>3, LastWriteGrows
<1>3. event_count' = Cardinality(Applied(Append(log, logged)))
  BY <1>0, EventIsCounted, AppliedGrows, SameBody DEF LeadsTo
<1> QED
  BY <1>0, <1>2, <1>3 DEF LeadsTo

(* A log leads to one view and one count only.                             *)
LEMMA OneLastWrite ==
    ASSUME NEW log \in Seq(Event), NEW version, NEW t, NEW k,
           NEW one, LastWrite(log, version, t, k, one),
           NEW other, LastWrite(log, version, t, k, other)
    PROVE  one = other
<1>1. CASE Writers(log, t, k) = {}
  BY <1>1 DEF LastWrite
<1>2. CASE Writers(log, t, k) # {}
  <2>1. PICK a \in Writers(log, t, k) :
            /\ \A i \in Writers(log, t, k) : i <= a
            /\ one = EventWritten(log[a], VersionIn(log, version, a), k)
    BY <1>2 DEF LastWrite
  <2>2. PICK b \in Writers(log, t, k) :
            /\ \A i \in Writers(log, t, k) : i <= b
            /\ other = EventWritten(log[b], VersionIn(log, version, b), k)
    BY <1>2 DEF LastWrite
  <2>3. a \in Nat /\ b \in Nat /\ a <= b /\ b <= a
    BY <2>1, <2>2 DEF Writers
  <2>4. a = b
    BY <2>3
  <2> QED
    BY <2>1, <2>2, <2>4
<1> QED
  BY <1>1, <1>2

LEMMA LeadsToOne ==
    ASSUME NEW log \in Seq(Event),
           NEW one \in [Types -> [Keys -> Object \cup {None}]],
           NEW other \in [Types -> [Keys -> Object \cup {None}]],
           NEW m, LeadsTo(log, one, m), NEW n, LeadsTo(log, other, n)
    PROVE  one = other /\ m = n
<1>1. ASSUME NEW t \in Types, NEW k \in Keys
      PROVE  one[t][k] = other[t][k]
  BY OneLastWrite DEF LeadsTo
<1>2. ASSUME NEW t \in Types
      PROVE  one[t] = other[t]
  <2>1. one[t] \in [Keys -> Object \cup {None}]
        /\ other[t] \in [Keys -> Object \cup {None}]
    OBVIOUS
  <2> QED
    BY <1>1, <2>1
<1> QED
  BY <1>2 DEF LeadsTo

-----------------------------------------------------------------------------
(* The invariant                                                           *)

HeldOK ==
    /\ held.index \in Nat
    /\ held.log \in Seq(Event) /\ Len(held.log) = held.index
    /\ held.view \in [Types -> [Keys -> Object \cup {None}]]
    /\ \A i \in DOMAIN held.log : Returns(held.log[i])
    /\ Explicit /\ options.keep_event_log =>
           LeadsTo(held.log, held.view, held.count)

LogReturns == \A i \in DOMAIN event_log : Returns(event_log[i])

HeldIsInLog ==
    /\ held.index <= Len(event_log)
    /\ \A i \in 1..held.index : event_log[i] = held.log[i]

LiveOK ==
    phase = "live" /\ Explicit /\ options.keep_event_log =>
        LeadsTo(event_log, View, event_count)

(* How many events have been fed a second time.                            *)
Fed == Len(event_log) - held.index

FeedingOK ==
    phase # "live" =>
        /\ Fed <= held.index
        /\ pending = SubSeq(held.log, Fed + 1, held.index)
        /\ \A i \in 1..Fed :
               event_log[held.index + i] =
                   [held.log[i] EXCEPT !.line_no =
                        event_log[held.index + i].line_no]
        /\ Explicit /\ options.keep_event_log =>
               LeadsTo(SubSeq(held.log, 1, Fed), View, event_count)

ClientInv ==
    /\ TypeOK
    /\ phase \in {"live", "refeeding", "restored"}
    /\ phase = "restored" => pending = <<>>
    /\ ~options.keep_event_log => event_log = <<>>
    /\ VersionIsGiven
    /\ HeldOK
    /\ LogReturns
    /\ HeldIsInLog
    /\ LiveOK
    /\ FeedingOK

LEMMA ClientTypes ==
    ASSUME ClientInv
    PROVE  /\ event_log \in Seq(Event) /\ Store!ObjectsOK
           /\ View \in [Types -> [Keys -> Object \cup {None}]]
           /\ event_count \in Nat /\ cursor.line_no \in Nat
           /\ held.index \in Nat /\ held.log \in Seq(Event)
           /\ Len(held.log) = held.index
           /\ Fed \in Nat
<1>1. /\ event_log \in Seq(Event) /\ Store!ObjectsOK
      /\ event_count \in Nat /\ cursor.line_no \in Nat
  BY DEF ClientInv, TypeOK, Store!TypeOK, Store!ObjectsOK
<1>2. /\ held.index \in Nat /\ held.log \in Seq(Event)
      /\ Len(held.log) = held.index /\ held.index <= Len(event_log)
  BY DEF ClientInv, HeldOK, HeldIsInLog
<1>3. Fed \in Nat
  BY <1>1, <1>2 DEF Fed
<1> QED
  BY <1>1, <1>2, <1>3, SeenType

(* What is said of options, log and objects holds as long as they stay.    *)
LEMMA SaidOfOptions ==
    ASSUME UNCHANGED options
    PROVE  /\ Explicit' <=> Explicit
           /\ \A event : Returns(event)' <=> Returns(event)
           /\ \A log, view, count :
                  LeadsTo(log, view, count)' <=> LeadsTo(log, view, count)
BY DEF Explicit, Returns, LeadsTo

LEMMA HeldStays ==
    ASSUME ClientInv, UNCHANGED <<options, held>>
    PROVE  HeldOK'
BY DEF ClientInv, HeldOK, Explicit, Returns, LeadsTo

LEMMA QuietStep ==
    ASSUME ClientInv, TypeOK', UNCHANGED clientVars,
           UNCHANGED <<options, versionVars, event_log, objectVars>>
    PROVE  ClientInv'
<1>1. UNCHANGED <<View, event_count, options, event_log, held, phase, pending,
                  resolved_version, Fed>>
  BY SameView DEF objectVars, versionVars, clientVars, Fed
<1>2. HeldOK'
  BY <1>1, HeldStays
<1>3. LogReturns' /\ HeldIsInLog' /\ VersionIsGiven'
  BY <1>1 DEF ClientInv, LogReturns, HeldIsInLog, VersionIsGiven, Explicit,
              Returns
<1>4. LiveOK' /\ FeedingOK'
  BY <1>1 DEF ClientInv, LiveOK, FeedingOK, Explicit, LeadsTo
<1> QED
  BY <1>1, <1>2, <1>3, <1>4 DEF ClientInv

(* What holds after an event of a known type, in every phase.              *)
LEMMA BegunStep ==
    ASSUME ClientInv, UNCHANGED held, NEW event, Parsed(event),
           ApplyEvent(event), Begin(event), Returns(event)
    PROVE  /\ UNCHANGED options
           /\ event_log' = IF options.keep_event_log
                           THEN Append(event_log, event) ELSE event_log
           /\ ~options.keep_event_log => event_log' = <<>>
           /\ VersionIsGiven' /\ HeldOK' /\ LogReturns' /\ HeldIsInLog'
<1>1. /\ UNCHANGED options /\ resolved_version' = VersionFor(event)
      /\ event_log' = IF options.keep_event_log
                      THEN Append(event_log, event) ELSE event_log
  BY DEF Begin, Store!RecordEvent
<1>2. VersionIsGiven'
  BY <1>1 DEF ClientInv, VersionIsGiven, Explicit, VersionFor, Detects
<1>3. HeldOK'
  BY <1>1, HeldStays
<1>4. /\ event_log \in Seq(Event) /\ event \in Event
      /\ held.index \in Nat
  BY ClientTypes DEF Parsed
<1>5. CASE options.keep_event_log
  <2>1. /\ DOMAIN event_log' = DOMAIN event_log \cup {Len(event_log) + 1}
        /\ event_log'[Len(event_log) + 1] = event
        /\ \A i \in DOMAIN event_log : event_log'[i] = event_log[i]
        /\ Len(event_log') = Len(event_log) + 1
    BY <1>1, <1>4, <1>5
  <2>2. \A i \in DOMAIN event_log' : Returns(event_log'[i])
    BY <2>1 DEF ClientInv, LogReturns
  <2>3. LogReturns'
    BY <1>1, <2>2 DEF LogReturns, Returns
  <2>4. HeldIsInLog'
    BY <1>4, <2>1 DEF ClientInv, HeldIsInLog
  <2> QED
    BY <1>1, <1>2, <1>3, <1>5, <2>3, <2>4
<1>6. CASE ~options.keep_event_log
  <2>1. event_log' = event_log /\ event_log = <<>>
    BY <1>1, <1>6 DEF ClientInv
  <2>2. LogReturns' /\ HeldIsInLog'
    BY <1>1, <2>1 DEF ClientInv, LogReturns, HeldIsInLog, Returns
  <2> QED
    BY <1>1, <1>2, <1>3, <1>6, <2>1, <2>2
<1> QED
  BY <1>5, <1>6

LEMMA LiveStep ==
    ASSUME ClientInv, TypeOK', phase = "live", UNCHANGED clientVars,
           NEW event, Parsed(event), ApplyEvent(event), Begin(event),
           Returns(event)
    PROVE  ClientInv'
<1>1. UNCHANGED <<held, phase, pending>>
  BY DEF clientVars
<1>2. /\ UNCHANGED options
      /\ event_log' = IF options.keep_event_log
                      THEN Append(event_log, event) ELSE event_log
      /\ ~options.keep_event_log => event_log' = <<>>
      /\ VersionIsGiven' /\ HeldOK' /\ LogReturns' /\ HeldIsInLog'
  BY <1>1, BegunStep
<1>3. ASSUME Explicit, options.keep_event_log
      PROVE  LeadsTo(event_log, View, event_count)'
  <2>1. LeadsTo(event_log, View, event_count)
    BY <1>3 DEF ClientInv, LiveOK
  <2>2. event \in Event /\ event = [event EXCEPT !.line_no = event.line_no]
    BY DEF Parsed, Event
  <2>3. ASSUME NEW log \in Seq(Event), LeadsTo(log, View, event_count)
        PROVE  LeadsTo(Append(log, event), View, event_count)'
    BY <1>3, <2>2, <2>3, LeadsToGrows DEF ClientInv
  <2>4. LeadsTo(Append(event_log, event), View', event_count')
    BY <1>2, <2>1, <2>3, ClientTypes DEF LeadsTo
  <2> QED
    BY <1>2, <1>3, <2>4 DEF LeadsTo
<1>4. LiveOK' /\ FeedingOK'
  BY <1>1, <1>2, <1>3 DEF LiveOK, FeedingOK, Explicit
<1> QED
  BY <1>1, <1>2, <1>4 DEF ClientInv

LEMMA OneMore ==
    ASSUME NEW log \in Seq(Event), NEW m \in Nat, m + 1 \in 1..Len(log)
    PROVE  /\ SubSeq(log, 1, m) \in Seq(Event)
           /\ SubSeq(log, 1, m + 1) = Append(SubSeq(log, 1, m), log[m + 1])
<1>1. /\ SubSeq(log, 1, m) \in Seq(Event) /\ Len(SubSeq(log, 1, m)) = m
      /\ SubSeq(log, 1, m + 1) \in Seq(Event)
      /\ Len(SubSeq(log, 1, m + 1)) = m + 1
  OBVIOUS
<1>2. \A i \in 1..m + 1 :
          SubSeq(log, 1, m + 1)[i] = Append(SubSeq(log, 1, m), log[m + 1])[i]
  BY <1>1
<1> QED
  BY <1>1, <1>2

(* What follows an event of a log is the rest of that log.                 *)
LEMMA RestOfLog ==
    ASSUME NEW log \in Seq(Event), NEW k \in 1..Len(log)
    PROVE  /\ Head(SubSeq(log, k, Len(log))) = log[k]
           /\ Tail(SubSeq(log, k, Len(log))) = SubSeq(log, k + 1, Len(log))
<1> DEFINE rest == SubSeq(log, k, Len(log))
           after == SubSeq(log, k + 1, Len(log))
           left == Len(log) - k
<1>1. /\ rest \in Seq(Event) /\ Len(rest) = left + 1
      /\ \A i \in 1..(left + 1) : rest[i] = log[k + i - 1]
  OBVIOUS
<1>2. /\ after \in Seq(Event) /\ Len(after) = left
      /\ \A i \in 1..left : after[i] = log[k + 1 + i - 1]
  OBVIOUS
<1>3. left \in Nat /\ k \in Nat
  OBVIOUS
<1> HIDE DEF rest, after, left
<1>4. /\ Head(rest) = rest[1]
      /\ Tail(rest) \in Seq(Event) /\ Len(Tail(rest)) = left
      /\ \A i \in 1..left : Tail(rest)[i] = rest[i + 1]
  <2>1. rest # <<>>
    BY <1>1, <1>3
  <2> QED
    BY <1>1, <1>3, <2>1
<1>5. rest[1] = log[k]
  <2>1. 1 \in 1..(left + 1) /\ k + 1 - 1 = k
    BY <1>3
  <2> QED
    BY <1>1, <2>1
<1>6. ASSUME NEW i \in 1..left
      PROVE  Tail(rest)[i] = after[i]
  <2>1. i + 1 \in 1..(left + 1) /\ k + (i + 1) - 1 = k + 1 + i - 1
    BY <1>3
  <2>2. rest[i + 1] = log[k + 1 + i - 1]
    BY <1>1, <2>1
  <2> QED
    BY <1>2, <1>4, <2>2
<1>7. Tail(rest) = after
  BY <1>2, <1>4, <1>6
<1> QED
  BY <1>4, <1>5, <1>7 DEF rest, after

(* The event fed is the next of the checkpoint's, under a new line number. *)
LEMMA NextToFeed ==
    ASSUME ClientInv, phase = "refeeding", pending # <<>>
    PROVE  LET event == Head(pending)
               n == cursor.line_no + 1
           IN  /\ options.keep_event_log
               /\ Fed + 1 \in 1..held.index
               /\ event = held.log[Fed + 1] /\ event \in Event
               /\ Tail(pending) = SubSeq(held.log, Fed + 2, held.index)
               /\ Returns(event)
               /\ EventOf(LineOf(event), n) = [event EXCEPT !.line_no = n]
<1>1. /\ held.index \in Nat /\ held.log \in Seq(Event)
      /\ Len(held.log) = held.index /\ Fed \in Nat /\ Fed <= held.index
      /\ pending = SubSeq(held.log, Fed + 1, held.index)
  BY ClientTypes DEF ClientInv, FeedingOK
<1>2. Fed + 1 \in 1..held.index
  BY <1>1
<1>3. /\ Head(pending) = held.log[Fed + 1]
      /\ Tail(pending) = SubSeq(held.log, Fed + 2, held.index)
  <2> DEFINE k == Fed + 1
             log == held.log
  <2>1. log \in Seq(Event) /\ k \in 1..Len(log) /\ pending = SubSeq(log, k, Len(log))
    BY <1>1, <1>2
  <2>2. k + 1 = Fed + 2 /\ Len(log) = held.index
    BY <1>1
  <2> HIDE DEF k, log
  <2>3. Head(pending) = log[k] /\ Tail(pending) = SubSeq(log, k + 1, Len(log))
    BY <2>1, RestOfLog
  <2> QED
    BY <2>2, <2>3 DEF k, log
<1>4. Returns(held.log[Fed + 1]) /\ held.log[Fed + 1] \in Event
  BY <1>1, <1>2 DEF ClientInv, HeldOK
<1>5. options.keep_event_log
  <2>1. event_log = <<>> => Len(event_log) = 0
    OBVIOUS
  <2> QED
    BY <1>1, <1>2, <2>1 DEF ClientInv, HeldIsInLog
<1> QED
  BY <1>2, <1>3, <1>4, <1>5 DEF Returns

LEMMA FeedStep ==
    ASSUME ClientInv, Refeed
    PROVE  ClientInv'
<1> DEFINE logged == Head(pending)
           n == cursor.line_no + 1
           event == EventOf(LineOf(logged), n)
           f == Fed + 1
<1>1. /\ phase = "refeeding" /\ pending # <<>>
      /\ ConsumeLine(LineOf(logged)) /\ pending' = Tail(pending)
      /\ UNCHANGED <<held, phase>>
  BY DEF Refeed
<1>2. /\ options.keep_event_log /\ f \in 1..held.index
      /\ logged = held.log[f] /\ logged \in Event
      /\ Tail(pending) = SubSeq(held.log, f + 1, held.index)
      /\ Returns(logged) /\ event = [logged EXCEPT !.line_no = n]
  <2>1. Fed + 1 + 1 = Fed + 2
    BY ClientTypes
  <2> QED
    BY <1>1, <2>1, NextToFeed
<1>3. /\ n \in Nat /\ TypeOK /\ event_log \in Seq(Event)
      /\ held.index \in Nat /\ held.log \in Seq(Event)
      /\ Len(held.log) = held.index /\ Fed \in Nat
  BY ClientTypes DEF ClientInv
<1>4. /\ LineOf(logged) \in FeedLines
      /\ Passes(LineOf(logged), options.max_line_bytes)
      /\ LineOf(logged).type \in Types /\ event.type \in Types
      /\ event.line_no = n
  BY <1>2 DEF Returns, LineOf, EventOf
<1>5. Parsed(event) /\ ApplyEvent(event)
  BY <1>1, <1>3, <1>4, PassingLine
<1> HIDE DEF n
<1>6. Returns(event)
  BY <1>3, <1>4, PassingReturns
<1>7. Begin(event)
  BY <1>4, <1>5, KnownBegins
<1>8. TypeOK'
  BY <1>3, <1>5, TypeKept DEF SessionStep
<1> HIDE DEF event, logged
<1>9. /\ UNCHANGED options /\ event_log' = Append(event_log, event)
      /\ VersionIsGiven' /\ HeldOK' /\ LogReturns' /\ HeldIsInLog'
  BY <1>1, <1>2, <1>5, <1>6, <1>7, BegunStep
<1>10. /\ Fed' = f /\ Len(event_log') = Len(event_log) + 1
       /\ event_log'[held.index + f] = event
       /\ \A i \in 1..Fed : event_log'[held.index + i]
                               = event_log[held.index + i]
  <2>1. event \in Event
    BY <1>5 DEF Parsed
  <2>2. /\ Len(event_log') = Len(event_log) + 1
        /\ event_log'[Len(event_log) + 1] = event
        /\ \A i \in 1..Len(event_log) : event_log'[i] = event_log[i]
    BY <1>3, <1>9, <2>1
  <2>3. Fed' = Len(event_log') - held.index
    BY <1>1 DEF Fed
  <2>4. /\ Len(event_log) = held.index + Fed
        /\ Len(event_log) + 1 = held.index + f
        /\ (Len(event_log) + 1) - held.index = f
    <3>1. /\ Len(event_log) \in Nat /\ held.index \in Nat
          /\ Fed = Len(event_log) - held.index
      BY <1>3 DEF Fed
    <3> QED
      BY <3>1
  <2>5. ASSUME NEW i \in 1..Fed
        PROVE  held.index + i \in 1..Len(event_log)
    <3> DEFINE a == held.index
               b == Fed
    <3>1. a \in Nat /\ b \in Nat /\ i \in 1..b /\ Len(event_log) = a + b
      BY <1>3, <2>4
    <3> HIDE DEF a, b
    <3>2. a + i \in 1..(a + b)
      BY <3>1
    <3> QED
      BY <3>1, <3>2 DEF a
  <2>6. Fed' = f
    BY <2>2, <2>3, <2>4
  <2>7. event_log'[held.index + f] = event
    BY <2>2, <2>4
  <2> QED
    BY <2>2, <2>5, <2>6, <2>7
<1> HIDE DEF f
<1> DEFINE Again(i) == event_log'[held.index + i] =
                           [held.log[i] EXCEPT !.line_no =
                                event_log'[held.index + i].line_no]
<1>11. \A i \in 1..f : Again(i)
  <2>1. ASSUME NEW i \in 1..Fed
        PROVE  Again(i)
    <3>1. event_log[held.index + i] =
              [held.log[i] EXCEPT !.line_no =
                   event_log[held.index + i].line_no]
      BY <1>1 DEF ClientInv, FeedingOK
    <3> QED
      BY <1>10, <3>1
  <2>2. Again(f)
    BY <1>2, <1>4, <1>10
  <2> HIDE DEF Again
  <2>3. \A i \in 1..f : i \in 1..Fed \/ i = f
    BY <1>3 DEF f
  <2> QED
    BY <2>1, <2>2, <2>3
<1>12. ASSUME Explicit
       PROVE  LeadsTo(SubSeq(held.log, 1, Fed), View, event_count)'
  <2>1. LeadsTo(SubSeq(held.log, 1, Fed), View, event_count)
    BY <1>1, <1>2, <1>12 DEF ClientInv, FeedingOK
  <2>2. /\ SubSeq(held.log, 1, Fed) \in Seq(Event)
        /\ SubSeq(held.log, 1, f) = Append(SubSeq(held.log, 1, Fed), logged)
    BY <1>2, <1>3, OneMore DEF f
  <2>3. event = [logged EXCEPT !.line_no = event.line_no]
    BY <1>2, <1>4
  <2>4. ASSUME NEW log \in Seq(Event), LeadsTo(log, View, event_count)
        PROVE  LeadsTo(Append(log, logged), View', event_count')
    <3>1. ASSUME NEW same \in Event,
                 event = [same EXCEPT !.line_no = event.line_no]
          PROVE  LeadsTo(Append(log, same), View, event_count)'
      BY <1>3, <1>5, <1>7, <1>12, <2>4, <3>1, LeadsToGrows DEF ClientInv
    <3>2. ASSUME NEW same \in Event,
                 event = [same EXCEPT !.line_no = event.line_no]
          PROVE  LeadsTo(Append(log, same), View', event_count')
      BY <1>9, <3>1, <3>2 DEF LeadsTo
    <3> QED
      BY <1>2, <2>3, <3>2
  <2>5. LeadsTo(SubSeq(held.log, 1, f), View', event_count')
    BY <2>1, <2>2, <2>4
  <2> QED
    BY <1>1, <1>9, <1>10, <2>5 DEF LeadsTo
<1>13. FeedingOK'
  <2>1. \A i \in 1..Fed' : event_log'[held'.index + i] =
            [held'.log[i] EXCEPT !.line_no =
                 event_log'[held'.index + i].line_no]
    BY <1>1, <1>10, <1>11
  <2>2. /\ Fed' <= held'.index
        /\ pending' = SubSeq(held'.log, Fed' + 1, held'.index)
    <3>1. Fed' = f /\ held' = held /\ f <= held.index
      BY <1>1, <1>2, <1>3, <1>10
    <3>2. pending' = SubSeq(held.log, f + 1, held.index)
      BY <1>1, <1>2
    <3> QED
      BY <3>1, <3>2
  <2>3. Explicit' =>
            LeadsTo(SubSeq(held.log, 1, Fed), View, event_count)'
    BY <1>9, <1>12 DEF Explicit
  <2> QED
    BY <2>1, <2>2, <2>3 DEF FeedingOK
<1>14. LiveOK'
  BY <1>1 DEF LiveOK
<1> QED
  BY <1>1, <1>2, <1>8, <1>9, <1>13, <1>14 DEF ClientInv

(* A line read live is no event of a known type, or is begun and returns.  *)
LEMMA LiveLine ==
    ASSUME ClientInv, Live
    PROVE  ClientInv'
<1>1. PICK line \in FeedLines : ConsumeLine(line)
  BY SessionAssumption DEF Live, FeedLines
<1> DEFINE event == EventOf(line, cursor.line_no + 1)
<1>2. TypeOK /\ phase = "live" /\ UNCHANGED clientVars
  BY DEF ClientInv, Live
<1>3. CASE \/ KeepAlive \/ Throw
           \/ \E code \in LineErrors : RejectLine(code)
  <2>1. TypeOK'
    BY <1>2, <1>3, TypeKept DEF SessionStep
  <2> QED
    BY <1>2, <1>3, <2>1, OtherStepsKeepLog, QuietStep
<1>4. CASE /\ Passes(line, options.max_line_bytes)
           /\ Parsed(event) /\ ApplyEvent(event)
  <2>1. TypeOK'
    BY <1>2, <1>4, TypeKept DEF SessionStep
  <2>2. CASE Begin(event)
    <3>1. line.type \in Types /\ cursor.line_no + 1 \in Nat
      BY <2>2, ClientTypes DEF Begin, EventOf
    <3>2. Returns(event)
      BY <1>2, <1>4, <3>1, PassingReturns
    <3> HIDE DEF event
    <3> QED
      BY <1>2, <1>4, <2>1, <2>2, <3>2, LiveStep
  <2>3. CASE ~Begin(event)
    <3> HIDE DEF event
    <3> QED
      BY <1>2, <1>4, <2>1, <2>3, EventBegins, QuietStep
  <2> QED
    BY <2>2, <2>3
<1> QED
  BY <1>1, <1>2, <1>3, <1>4, ConsumeCases

LEMMA CheckpointStep ==
    ASSUME ClientInv, TakeCheckpoint
    PROVE  ClientInv'
<1>1. /\ phase = "live" /\ held' = Taken /\ UNCHANGED vars
      /\ UNCHANGED <<phase, pending>>
  BY DEF TakeCheckpoint
<1>2. UNCHANGED <<View, event_count, options, event_log, phase, pending,
                  resolved_version>>
  BY <1>1, SameView
     DEF vars, sessionVars, versionVars, storeVars, objectVars
<1>3. TypeOK'
  BY <1>1, TypeKept DEF ClientInv, SessionStep
<1>4. /\ held'.index = Len(event_log) /\ held'.view = View
      /\ held'.log = event_log /\ held'.count = event_count
  BY <1>1 DEF Taken, Store!CreateCheckpoint
<1>5. HeldOK'
  <2>1. /\ held'.index \in Nat /\ held'.log \in Seq(Event)
        /\ Len(held'.log) = held'.index
        /\ held'.view \in [Types -> [Keys -> Object \cup {None}]]
    BY <1>4, ClientTypes
  <2>2. \A i \in DOMAIN held'.log : Returns(held.log[i])'
    BY <1>2, <1>4 DEF ClientInv, LogReturns, Returns
  <2>3. Explicit /\ options.keep_event_log =>
            LeadsTo(held'.log, held'.view, held'.count)
    BY <1>1, <1>4 DEF ClientInv, LiveOK
  <2>4. Explicit' /\ options'.keep_event_log =>
            LeadsTo(held.log, held.view, held.count)'
    BY <1>2, <2>3 DEF LeadsTo, Explicit
  <2> QED
    BY <2>1, <2>2, <2>4 DEF HeldOK
<1>6. HeldIsInLog'
  BY <1>2, <1>4, ClientTypes DEF HeldIsInLog
<1>7. LogReturns' /\ VersionIsGiven' /\ LiveOK' /\ FeedingOK'
  BY <1>1, <1>2 DEF ClientInv, LogReturns, Returns, VersionIsGiven, LiveOK,
                    FeedingOK, Explicit, LeadsTo
<1> QED
  BY <1>1, <1>2, <1>3, <1>5, <1>6, <1>7 DEF ClientInv

(* The rollback leaves the checkpoint's log and no object.                 *)
LEMMA RollBackStep ==
    ASSUME ClientInv, RollBack
    PROVE  ClientInv'
<1>1. /\ phase = "live" /\ phase' = "refeeding" /\ pending' = event_log'
      /\ UNCHANGED <<sessionVars, held, mirror, heard>>
      /\ event_log' = SubSeq(event_log, 1, held.index)
      /\ singletons' = [t \in Store!SingletonTypes |-> None]
      /\ collections' = Store!NoObjects /\ event_count' = 0
  BY DEF RollBack, Store!Rollback
<1>2. UNCHANGED <<options, resolved_version, held>>
  BY <1>1 DEF sessionVars, versionVars
<1>3. /\ event_log \in Seq(Event) /\ held.index \in Nat
      /\ held.log \in Seq(Event) /\ Len(held.log) = held.index
      /\ held.index <= Len(event_log)
      /\ \A i \in 1..held.index : event_log[i] = held.log[i]
  BY ClientTypes DEF ClientInv, HeldIsInLog
<1>4. event_log' = held.log
  <2>1. /\ SubSeq(event_log, 1, held.index) \in Seq(Event)
        /\ Len(SubSeq(event_log, 1, held.index)) = held.index
        /\ \A i \in 1..held.index :
               SubSeq(event_log, 1, held.index)[i] = event_log[i]
    BY <1>3
  <2> QED
    BY <1>1, <1>3, <2>1
<1>5. \A t \in Types, k \in Keys : View'[t][k] = None
  BY <1>1 DEF View, Store!View, Store!GetObject, Store!Types, Types,
              Store!SingletonTypes, SingletonTypes, Store!NoObjects
<1>6. TypeOK'
  <2>1. Store!ObjectsOK'
    BY <1>1 DEF ClientInv, TypeOK, Store!TypeOK, Store!ObjectsOK,
                Store!NoObjects
  <2>2. event_log' \in Seq(Event) /\ heard' \in Seq(Diagnostic)
    BY <1>1, <1>3, <1>4 DEF ClientInv, TypeOK, Store!TypeOK
  <2> QED
    BY <1>1, <2>1, <2>2 DEF ClientInv, TypeOK, Store!TypeOK, sessionVars,
                            versionVars
<1>7. Fed' = 0 /\ SubSeq(held.log, 1, held.index) = held.log
  BY <1>2, <1>3, <1>4 DEF Fed
<1>8. HeldOK' /\ VersionIsGiven'
  BY <1>2, HeldStays DEF ClientInv, VersionIsGiven, Explicit
<1>9. LogReturns' /\ HeldIsInLog'
  <2>1. \A i \in DOMAIN event_log' : Returns(event_log'[i])
    BY <1>4 DEF ClientInv, HeldOK
  <2>2. LogReturns'
    BY <1>2, <2>1 DEF LogReturns, Returns
  <2> QED
    BY <1>2, <1>3, <1>4, <2>2 DEF HeldIsInLog
<1>10. LeadsTo(<<>>, View, event_count)'
  <2>1. Writers(<<>>, None, None) = {} /\ Applied(<<>>) = {}
    BY DEF Writers, Applied
  <2>2. \A t, k : Writers(<<>>, t, k) = {}
    BY DEF Writers
  <2>3. Cardinality(Applied(<<>>)) = 0
    BY <2>1, FS_EmptySet
  <2> QED
    BY <1>1, <1>5, <2>2, <2>3 DEF LeadsTo, LastWrite
<1>11. SubSeq(held.log, 1, 0) = <<>>
  BY <1>3
<1>12. FeedingOK'
  <2>1. LeadsTo(SubSeq(held.log, 1, Fed), View, event_count)'
    BY <1>2, <1>7, <1>10, <1>11
  <2>2. /\ Fed' <= held'.index
        /\ pending' = SubSeq(held'.log, Fed' + 1, held'.index)
        /\ 1..Fed' = {}
    BY <1>1, <1>2, <1>3, <1>4, <1>7
  <2> QED
    BY <2>1, <2>2 DEF FeedingOK
<1>13. LiveOK'
  BY <1>1 DEF LiveOK
<1>14. ~options'.keep_event_log => event_log' = <<>>
  BY <1>1, <1>2, <1>3 DEF ClientInv
<1> QED
  BY <1>1, <1>6, <1>8, <1>9, <1>12, <1>13, <1>14 DEF ClientInv

LEMMA RestoredStep ==
    ASSUME ClientInv, Restored \/ UNCHANGED <<vars, clientVars>>
    PROVE  ClientInv'
<1>1. /\ UNCHANGED vars /\ UNCHANGED <<held, pending>>
      /\ phase' \in {phase, "restored"}
      /\ phase' = "live" => phase = "live"
      /\ phase = "live" => phase' = "live"
      /\ phase' # phase => pending = <<>>
  BY DEF Restored, clientVars
<1>2. UNCHANGED <<View, event_count, options, event_log, resolved_version, Fed>>
  BY <1>1, SameView
     DEF vars, sessionVars, versionVars, storeVars, objectVars, Fed
<1>3. TypeOK'
  BY <1>1, TypeKept DEF ClientInv, SessionStep
<1>4. HeldOK' /\ LogReturns' /\ HeldIsInLog' /\ VersionIsGiven'
  BY <1>1, <1>2, HeldStays
     DEF ClientInv, LogReturns, Returns, HeldIsInLog, VersionIsGiven, Explicit
<1>5. LiveOK' /\ FeedingOK'
  BY <1>1, <1>2 DEF ClientInv, LiveOK, FeedingOK, Explicit, LeadsTo
<1> QED
  BY <1>1, <1>2, <1>3, <1>4, <1>5 DEF ClientInv

LEMMA ClientInit0 == ClientInit => ClientInv
<1> SUFFICES ASSUME ClientInit PROVE ClientInv
  OBVIOUS
<1>1. Init /\ held = Taken /\ phase = "live" /\ pending = <<>>
  BY DEF ClientInit
<1>2. TypeOK
  BY <1>1, TypeInit
<1>3. event_log = <<>> /\ event_count = 0 /\ Store!ObjectsOK
  BY <1>1, <1>2 DEF Init, Store!Init, TypeOK, Store!TypeOK
<1>4. /\ held.index = 0 /\ held.log = <<>> /\ held.view = View
      /\ held.count = 0
  BY <1>1, <1>3 DEF Taken, Store!CreateCheckpoint
<1>5. LeadsTo(<<>>, View, 0)
  <2>1. \A t \in Types, k \in Keys : View[t][k] = None
    BY <1>1 DEF Init, Store!Init, View, Store!View, Store!GetObject,
                Store!Types, Types, Store!SingletonTypes, SingletonTypes,
                Store!NoObjects
  <2>2. \A t, k : Writers(<<>>, t, k) = {}
    BY DEF Writers
  <2>3. Cardinality(Applied(<<>>)) = 0
    BY FS_EmptySet DEF Applied
  <2> QED
    BY <2>1, <2>2, <2>3 DEF LeadsTo, LastWrite
<1>6. HeldOK
  BY <1>3, <1>4, <1>5, SeenType DEF HeldOK
<1>7. LogReturns /\ HeldIsInLog /\ LiveOK /\ FeedingOK
  BY <1>1, <1>3, <1>4, <1>5 DEF LogReturns, HeldIsInLog, LiveOK, FeedingOK
<1>8. VersionIsGiven
  BY <1>1 DEF Init, VersionIsGiven, Explicit
<1> QED
  BY <1>1, <1>2, <1>3, <1>6, <1>7, <1>8 DEF ClientInv

LEMMA ClientInvariant == ClientSpec => []ClientInv
<1>1. ClientInv /\ [ClientNext]_<<vars, clientVars>> => ClientInv'
  BY LiveLine, CheckpointStep, RollBackStep, FeedStep, RestoredStep
     DEF ClientNext
<1> QED
  BY <1>1, ClientInit0, PTL DEF ClientSpec

(* Once nothing is pending, the whole log of the checkpoint has been fed.  *)
LEMMA RestoredIsFed ==
    ASSUME ClientInv, phase = "restored"
    PROVE  Fed = held.index /\ SubSeq(held.log, 1, Fed) = held.log
<1>1. /\ held.index \in Nat /\ held.log \in Seq(Event)
      /\ Len(held.log) = held.index /\ Fed \in Nat /\ Fed <= held.index
      /\ SubSeq(held.log, Fed + 1, held.index) = <<>>
  BY ClientTypes DEF ClientInv, FeedingOK
<1>2. Len(SubSeq(held.log, Fed + 1, held.index)) = held.index - Fed
  BY <1>1
<1>3. Fed = held.index
  <2>1. held.index - Fed = 0
    BY <1>1, <1>2
  <2> QED
    BY <1>1, <2>1
<1> QED
  BY <1>1, <1>3

-----------------------------------------------------------------------------
(* A session of an explicit version that keeps its log restores, from the  *)
(* log alone, every object of a checkpoint and the count of its events:    *)
(* for every feed, every policy and every moment of the checkpoint.        *)
THEOREM CheckpointIsRestored == ClientSpec => []ExplicitVersionRestored
<1>1. ClientInv => ExplicitVersionRestored
  <2> SUFFICES ASSUME ClientInv, phase = "restored", Explicit,
                      options.keep_event_log
               PROVE  View = held.view /\ event_count = held.count
    BY DEF ExplicitVersionRestored, Explicit
  <2>1. Fed = held.index /\ SubSeq(held.log, 1, Fed) = held.log
    BY RestoredIsFed
  <2>2. LeadsTo(held.log, View, event_count)
    BY <2>1 DEF ClientInv, FeedingOK
  <2>3. LeadsTo(held.log, held.view, held.count)
    BY DEF ClientInv, HeldOK
  <2>4. /\ held.log \in Seq(Event)
        /\ held.view \in [Types -> [Keys -> Object \cup {None}]]
        /\ View \in [Types -> [Keys -> Object \cup {None}]]
    BY ClientTypes DEF ClientInv, HeldOK
  <2> QED
    BY <2>2, <2>3, <2>4, LeadsToOne
<1> QED
  BY <1>1, ClientInvariant, PTL

(* What an application makes of a session but for its rollback is steps of *)
(* a session.                                                              *)
LEMMA ClientSteps ==
    ASSUME ClientInv, [ClientNext]_<<vars, clientVars>>
    PROVE  SessionStep \/ RollBack
<1>1. TypeOK
  BY DEF ClientInv
<1>2. CASE Live
  <2>1. PICK line \in FeedLines : ConsumeLine(line)
    BY <1>2, SessionAssumption DEF Live, FeedLines
  <2> QED
    BY <1>1, <2>1, ConsumeCases DEF SessionStep
<1>3. CASE Refeed
  <2>1. ConsumeLine(LineOf(Head(pending))) /\ Returns(Head(pending))
    BY <1>3, NextToFeed DEF Refeed
  <2> QED
    BY <1>1, <2>1, ConsumeCases DEF Returns, SessionStep
<1>4. TakeCheckpoint \/ Restored \/ UNCHANGED <<vars, clientVars>>
          => UNCHANGED vars
  BY DEF TakeCheckpoint, Restored
<1> QED
  BY <1>2, <1>3, <1>4 DEF ClientNext, SessionStep

(* The log stays in the order of the lines when it is cut and re-fed.      *)
LEMMA RefedLogKeepsOrder == ClientSpec => []LogInFeedOrder
<1>1. ClientInit => LogInFeedOrder
  BY DEF ClientInit, Init, Store!Init, LogInFeedOrder
<1>2. ASSUME ClientInv, LogInFeedOrder, RollBack
      PROVE  LogInFeedOrder'
  <2> DEFINE m == held.index
  <2>1. /\ event_log' = SubSeq(event_log, 1, m) /\ cursor' = cursor
        /\ event_log \in Seq(Event) /\ m \in Nat /\ m <= Len(event_log)
    BY <1>2, ClientTypes
       DEF RollBack, Store!Rollback, sessionVars, ClientInv, HeldIsInLog
  <2> HIDE DEF m
  <2>2. /\ DOMAIN event_log' = 1..m /\ 1..m \subseteq DOMAIN event_log
        /\ \A i \in 1..m : event_log'[i] = event_log[i]
    BY <2>1
  <2> QED
    BY <1>2, <2>1, <2>2 DEF LogInFeedOrder
<1>3. ClientInv /\ LogInFeedOrder /\ [ClientNext]_<<vars, clientVars>>
          => LogInFeedOrder'
  BY <1>2, ClientSteps, LogOrderStep DEF ClientInv
<1> QED
  BY <1>1, <1>3, ClientInvariant, PTL DEF ClientSpec

(* A state left in the log that ends the updates has ended them.           *)
EndIsNotForgotten ==
    (\E i \in DOMAIN event_log : EndsUpdates(event_log[i]))
        => cursor.end_of_updates

LEMMA EndStays ==
    ASSUME TypeOK, EndIsNotForgotten, SessionStep
    PROVE  EndIsNotForgotten'
<1>1. ASSUME UNCHANGED event_log, cursor'.end_of_updates = cursor.end_of_updates
      PROVE  EndIsNotForgotten'
  BY <1>1 DEF EndIsNotForgotten
<1>2. ASSUME NEW event, Parsed(event), ApplyEvent(event), Begin(event),
             cursor'.end_of_updates =
                 (cursor.end_of_updates \/ EndsUpdates(event))
      PROVE  EndIsNotForgotten'
  <2>1. CASE event_log' = event_log
    BY <1>2, <2>1 DEF EndIsNotForgotten
  <2>2. CASE event_log' = Append(event_log, event)
    <3>1. event_log \in Seq(Event) /\ event \in Event
      BY <1>2 DEF TypeOK, Store!TypeOK, Parsed
    <3>2. /\ DOMAIN event_log' = DOMAIN event_log \cup {Len(event_log) + 1}
          /\ event_log'[Len(event_log) + 1] = event
          /\ \A i \in DOMAIN event_log : event_log'[i] = event_log[i]
      BY <2>2, <3>1, LogGrows
    <3> QED
      BY <1>2, <3>2 DEF EndIsNotForgotten
  <2> QED
    BY <1>2, <2>1, <2>2 DEF Begin, Store!RecordEvent
<1> QED
  BY <1>1, <1>2, EventBegins, OtherStepsKeepLog DEF SessionStep

(* A rollback and the re-feeding leave what the session tells its caller   *)
(* in force: for every feed, every checkpoint and all options.             *)
THEOREM SessionsOutliveRollbacks == ClientSpec => []SessionOutlivesRollback
<1> DEFINE Told == /\ DiagnosticsAreFirstHeard /\ ReturnTellsTheRun
                   /\ EndIsNotForgotten
<1>1. Told /\ LogInFeedOrder => SessionOutlivesRollback
  BY DEF SessionOutlivesRollback, EndIsNotForgotten, EndsUpdates
<1>2. ClientInit => Told
  BY DEF ClientInit, Init, Store!Init, DiagnosticsAreFirstHeard,
         ReturnTellsTheRun, EndIsNotForgotten
<1>3. ASSUME ClientInv, Told, RollBack
      PROVE  Told'
  <2>1. /\ UNCHANGED <<options, cursor, diagnostics, heard,
                       consecutive_errors, finished, returned>>
        /\ event_log' = SubSeq(event_log, 1, held.index)
    BY <1>3 DEF RollBack, Store!Rollback, sessionVars
  <2>2. DiagnosticsAreFirstHeard' /\ ReturnTellsTheRun'
    BY <1>3, <2>1 DEF DiagnosticsAreFirstHeard, ReturnTellsTheRun, Lost
  <2>3. \A i \in DOMAIN event_log' :
            i \in DOMAIN event_log /\ event_log'[i] = event_log[i]
    <3> DEFINE m == held.index
    <3>1. /\ event_log' = SubSeq(event_log, 1, m)
          /\ event_log \in Seq(Event) /\ m \in Nat /\ m <= Len(event_log)
      BY <1>3, <2>1, ClientTypes DEF ClientInv, HeldIsInLog
    <3> HIDE DEF m
    <3> QED
      BY <3>1
  <2> QED
    BY <1>3, <2>1, <2>2, <2>3 DEF EndIsNotForgotten
<1>4. ClientInv /\ Told /\ [ClientNext]_<<vars, clientVars>> => Told'
  BY <1>3, ClientSteps, FirstHeardStep, StatusStep, EndStays DEF ClientInv
<1> QED
  BY <1>1, <1>2, <1>4, RefedLogKeepsOrder, ClientInvariant, PTL DEF ClientSpec

(* The log of a session whose checkpoint was restored holds the events of  *)
(* the checkpoint twice, in the same order, under new line numbers: for    *)
(* every feed and all options.                                             *)
THEOREM RestorationRepeatsLog == ClientSpec => []RefedLogRepeats
<1>1. ClientInv => RefedLogRepeats
  <2> SUFFICES ASSUME ClientInv, phase = "restored"
               PROVE  /\ Len(event_log) = 2 * held.index
                      /\ SubSeq(event_log, 1, held.index) = held.log
                      /\ \A i \in DOMAIN held.log :
                             [event_log[held.index + i] EXCEPT !.line_no = 0]
                                 = [held.log[i] EXCEPT !.line_no = 0]
    BY DEF RefedLogRepeats
  <2>1. /\ Fed = held.index /\ event_log \in Seq(Event)
        /\ held.index \in Nat /\ held.log \in Seq(Event)
        /\ Len(held.log) = held.index
    BY RestoredIsFed, ClientTypes
  <2>2. Len(event_log) = 2 * held.index
    <3>1. Len(event_log) \in Nat /\ Len(event_log) - held.index = held.index
      BY <2>1 DEF Fed
    <3> QED
      BY <2>1, <3>1
  <2>3. SubSeq(event_log, 1, held.index) = held.log
    <3>1. \A i \in 1..held.index : event_log[i] = held.log[i]
      BY DEF ClientInv, HeldIsInLog
    <3> QED
      BY <2>1, <2>2, <3>1
  <2>4. ASSUME NEW i \in DOMAIN held.log
        PROVE  [event_log[held.index + i] EXCEPT !.line_no = 0]
                   = [held.log[i] EXCEPT !.line_no = 0]
    <3>1. event_log[held.index + i] =
              [held.log[i] EXCEPT !.line_no =
                   event_log[held.index + i].line_no]
      <4>1. i \in 1..Fed /\ FeedingOK /\ phase # "live"
        BY <2>1 DEF ClientInv
      <4> QED
        BY <4>1 DEF FeedingOK
    <3>2. held.log[i] \in Event
      BY <2>1
    <3> QED
      BY <3>1, <3>2 DEF Event
  <2> QED
    BY <2>2, <2>3, <2>4
<1> QED
  BY <1>1, ClientInvariant, PTL

-----------------------------------------------------------------------------
(* The parsing of a stream                                                 *)

(* What one line that is read does to the session.                         *)
LEMMA LineHeard ==
    ASSUME TypeOK, NEW line \in FeedLines, ConsumeLine(line)
    PROVE  /\ cursor'.line_no = cursor.line_no + 1
           /\ options' = options /\ finished' = finished
           /\ consecutive_errors' \in
                  {0, consecutive_errors, consecutive_errors + 1}
           /\ Reported("error")' \subseteq
                  Reported("error") \cup {cursor.line_no + 1}
<1>0. heard \in Seq(Diagnostic)
  BY DEF TypeOK, Store!TypeOK
<1>1. ASSUME heard' = heard
      PROVE  Reported("error")' = Reported("error")
  BY <1>1 DEF Reported
<1>2. ASSUME NEW diags \in Seq(Diagnostic), AddDiagnostics(diags),
             \A i \in DOMAIN diags : diags[i].line_no = cursor.line_no + 1
      PROVE  Reported("error")' \subseteq
                 Reported("error") \cup {cursor.line_no + 1}
  BY <1>0, <1>2, HeardGrows
<1>3. CASE KeepAlive
  BY <1>1, <1>3, KeepAliveSession DEF KeepAlive, ReturnOk, storeVars
<1>4. CASE Throw
  BY <1>1, <1>4, ThrowSession DEF Throw, storeVars
<1>5. ASSUME NEW code \in LineErrors, RejectLine(code)
      PROVE  /\ cursor'.line_no = cursor.line_no + 1
             /\ options' = options /\ finished' = finished
             /\ consecutive_errors' = consecutive_errors + 1
             /\ Reported("error")' \subseteq
                    Reported("error") \cup {cursor.line_no + 1}
  BY <1>2, <1>5, RejectReports, RejectLineSession DEF Failure, ReturnError
<1>6. ASSUME NEW event, Parsed(event), ApplyEvent(event)
      PROVE  /\ cursor'.line_no = cursor.line_no + 1
             /\ options' = options /\ finished' = finished
             /\ consecutive_errors' \in {0, consecutive_errors + 1}
             /\ Reported("error")' \subseteq
                    Reported("error") \cup {cursor.line_no + 1}
  BY <1>2, <1>6, EventReports, ApplyEventSession
     DEF Failure, Warnings, ReturnOk, ReturnError
<1> QED
  BY <1>3, <1>4, <1>5, <1>6, ConsumeCases

(* No line but one with a number out of range costs the session.           *)
LEMMA OverflowIsLost ==
    ASSUME TypeOK, NEW line \in FeedLines, ConsumeLine(line), Lost'
    PROVE  line.root = "overflow"
<1> SUFFICES ASSUME line.root # "overflow"
             PROVE  FALSE
  OBVIOUS
<1> DEFINE error == LineError(line, options.max_line_bytes)
<1>1. ~Escapes(line, options.max_line_bytes)
  BY DEF Escapes
<1>2. CASE IsKeepalive(line)
  BY <1>2 DEF ConsumeLine, KeepAlive, ReturnOk, Lost
<1>3. CASE ~IsKeepalive(line) /\ error # None
  BY <1>1, <1>3 DEF ConsumeLine, RejectLine, ReturnError, Lost
<1>4. CASE ~IsKeepalive(line) /\ error = None
  <2>1. Passes(line, options.max_line_bytes)
    BY <1>1, <1>4 DEF Passes
  <2> QED
    BY <2>1, PassingLine, ApplyEventEnds DEF ReturnOk, ReturnError, Lost
<1> QED
  BY <1>2, <1>3, <1>4

(* A line that is no event, however long lines may be.                     *)
Silent(line) == IsKeepalive(line) \/ LineError(line, line.bytes) # None

(* A package as the assumptions describe it.                               *)
LEMMA FilesAre ==
    ASSUME NEW p \in Packages
    PROVE  /\ DOMAIN p.file = {"contest"} \cup CollectionTypes
           /\ "state" \notin DOMAIN p.file
           /\ "state" \notin EndpointTypes /\ "contest" \notin EndpointTypes
           /\ \A t \in DOMAIN p.file :
                  LET content == p.file[t].content
                  IN  /\ t \in Types
                      /\ content \in Content
                      /\ FirstLine(t, content) \in FeedLines
                      /\ content.rest \in Seq(FeedLines)
                      /\ \A i \in DOMAIN content.rest : Silent(content.rest[i])
<1>1. p \in Package
  BY PackageAssumption
<1>2. DOMAIN p.file = {"contest"} \cup CollectionTypes
  BY <1>1 DEF Package
<1>3. "state" \notin CollectionTypes
  BY DataAssumption DEF SingletonTypes
<1>4. "state" \notin EndpointTypes /\ "contest" \notin EndpointTypes
  BY DEF EndpointTypes
<1>5. ASSUME NEW t \in DOMAIN p.file, NEW content, content = p.file[t].content
      PROVE  /\ t \in Types
             /\ content \in Content
             /\ FirstLine(t, content) \in FeedLines
             /\ content.rest \in Seq(FeedLines)
             /\ \A i \in DOMAIN content.rest : Silent(content.rest[i])
  <2>1. t \in Types /\ content \in Content
    BY <1>1, <1>2, <1>5 DEF Package, File, Types, SingletonTypes
  <2>2. /\ content.data = "object" => Len(content.docs) = 1
        /\ content.bytes > 0
        /\ \A i \in DOMAIN content.rest :
               WellFormed(content.rest[i]) /\ Silent(content.rest[i])
    BY <1>2, <1>5, PackageAssumption DEF Silent
  <2>3. FirstLine(t, content) \in FeedLines
    BY <2>1, <2>2
       DEF FirstLine, Content, FeedLines, Line, WellFormed, Types, SingletonTypes
  <2>4. content.rest \in Seq(FeedLines)
    <3>1. content.rest \in Seq(Line)
      BY <2>1 DEF Content
    <3>2. \A i \in DOMAIN content.rest : content.rest[i] \in FeedLines
      BY <2>2, <3>1 DEF FeedLines
    <3> QED
      BY <3>1, <3>2
  <2> QED
    BY <2>1, <2>2, <2>3, <2>4
<1> QED
  BY <1>2, <1>3, <1>4, <1>5

LEMMA StateLineType == StateLine \in FeedLines
<1>1. EmptyDoc(NullRev) \in Doc
  BY NullRevAssumption DEF EmptyDoc, Doc
<1>2. <<EmptyDoc(NullRev)>> \in Seq(Doc) /\ Len(<<EmptyDoc(NullRev)>>) = 1
  BY <1>1
<1> QED
  BY <1>2 DEF StateLine, FeedLines, Line, WellFormed, Types, SingletonTypes,
              DataShapes

(* Every synthetic feed is a stream like any other.                        *)
LEMMA SyntheticFeedType ==
    ASSUME NEW p \in Packages
    PROVE  SyntheticFeed(p) \in Seq(FeedLines)
<1>1. ASSUME NEW type
      PROVE  FileLines(p, type) \in Seq(FeedLines)
  <2> DEFINE content == p.file[type].content
             first == FirstLine(type, content)
  <2>1. CASE type \in DOMAIN p.file
    <3>1. first \in FeedLines /\ content.rest \in Seq(FeedLines)
      BY <2>1, FilesAre
    <3>2. Pasted(type, content) = <<first>> \o content.rest
      BY DEF Pasted
    <3> HIDE DEF first, content
    <3>3. <<first>> \o content.rest \in Seq(FeedLines)
      BY <3>1
    <3> QED
      BY <3>2, <3>3 DEF FileLines, content
  <2>2. CASE type \notin DOMAIN p.file
    BY <2>2 DEF FileLines
  <2> QED
    BY <2>1, <2>2
<1>2. <<StateLine>> \in Seq(FeedLines)
  BY StateLineType
<1>3. EndpointLines(p) \in Seq(FeedLines)
  BY <1>1 DEF EndpointLines
<1> QED
  BY <1>1, <1>2, <1>3 DEF SyntheticFeed

LimitHit == consecutive_errors >= options.max_consecutive_errors

(* The session counts the lines getline takes.  While a stream is read it  *)
(* is alive, and in fail-fast mode no error has been heard; what follows   *)
(* the last line tells why it was last.                                    *)
ParserInv ==
    /\ TypeOK /\ HeardOfLinesConsumed
    /\ ErrorRunIsReported /\ ReturnTellsTheRun
    /\ input \in Seq(FeedLines)
    /\ taken = cursor.line_no /\ taken <= Len(input)
    /\ pc \in {"opening", "reading", "finishing", "done"}
    /\ pc # "done" => ~Lost /\ ~finished
    /\ pc = "opening" => cursor.line_no = 0 /\ input = <<>>
    /\ pc \in {"opening", "reading"} =>
           /\ returned = "kOk"
           /\ options.error_policy = "kFailFast" => Reported("error") = {}
    /\ pc = "finishing" => \/ taken = Len(input)
                           \/ consecutive_errors > 0 /\ LimitHit
    /\ StopsForAReason

LEMMA ParserInit0 == PackageInit => ParserInv
<1>1. PackageInit => TypeOK
  BY TypeInit DEF PackageInit, ParserInit
<1>2. Init => /\ HeardOfLinesConsumed /\ ErrorRunIsReported
              /\ Reported("error") = {}
  BY DEF Init, Store!Init, HeardOfLinesConsumed, ErrorRunIsReported, Reported
<1>3. Init => ReturnTellsTheRun /\ ~Lost /\ ~finished /\ cursor.line_no = 0
              /\ returned = "kOk"
  BY DEF Init, ReturnTellsTheRun, Lost
<1> QED
  BY <1>1, <1>2, <1>3 DEF PackageInit, ParserInit, ParserInv, StopsForAReason

LEMMA OpenKept ==
    ASSUME ParserInv, NEW stream \in Seq(FeedLines), NEW status,
           \/ Open(stream)
           \/ /\ FailToOpen(status)
              /\ status \in {"kNotFound", "kUnavailable", "kInternal",
                             "kInvalidArgument"}
    PROVE  ParserInv'
<1>0. UNCHANGED vars /\ pc = "opening"
  BY DEF Open, FailToOpen
<1>1. /\ TypeOK' /\ HeardOfLinesConsumed'
      /\ ErrorRunIsReported' /\ ReturnTellsTheRun'
      /\ Reported("error")' = Reported("error")
  <2>1. SessionStep
    BY <1>0 DEF SessionStep
  <2>2. Reported("error")' = Reported("error")
    BY <1>0 DEF vars, storeVars, Reported
  <2> QED
    BY <1>0, <2>1, <2>2, TypeKept, StatusStep, ErrorRunStep DEF ParserInv
<1>2. UNCHANGED <<options, cursor, consecutive_errors, finished, returned>>
  BY <1>0 DEF vars, sessionVars
<1>3. CASE Open(stream)
  <2>1. Len(stream) \in Nat
    OBVIOUS
  <2> QED
    BY <1>0, <1>1, <1>2, <1>3, <2>1
       DEF Open, ParserInv, StopsForAReason, Lost
<1>4. CASE /\ FailToOpen(status)
           /\ status \in {"kNotFound", "kUnavailable", "kInternal",
                          "kInvalidArgument"}
  BY <1>0, <1>1, <1>2, <1>4 DEF FailToOpen, ParserInv, StopsForAReason, Lost
<1> QED
  BY <1>3, <1>4

LEMMA ReadKept ==
    ASSUME ParserInv, ReadLine
    PROVE  ParserInv'
<1> DEFINE n == cursor.line_no
           line == input[n + 1]
           fast == options.error_policy = "kFailFast"
<1>1. /\ pc = "reading" /\ n \in Nat /\ n < Len(input)
      /\ taken = n /\ taken' = n + 1
      /\ ConsumeLine(line) /\ input' = input
      /\ input \in Seq(FeedLines) /\ Len(input) \in Nat
      /\ TypeOK /\ ~Lost /\ ~finished /\ returned = "kOk"
      /\ consecutive_errors \in Nat
      /\ options.max_consecutive_errors \in Nat
  BY OptionsType DEF ReadLine, ParserInv, TypeOK
<1>2. line \in FeedLines
  BY <1>1
<1>3. /\ cursor'.line_no = n + 1
      /\ options' = options /\ ~finished'
      /\ consecutive_errors' \in
             {0, consecutive_errors, consecutive_errors + 1}
      /\ Reported("error")' \subseteq Reported("error") \cup {n + 1}
      /\ taken' = cursor'.line_no /\ taken' <= Len(input')
  BY <1>1, <1>2, LineHeard
<1>4. Lost' => line.root = "overflow"
  BY <1>1, <1>2, OverflowIsLost
<1>5. /\ TypeOK' /\ HeardOfLinesConsumed'
      /\ ErrorRunIsReported' /\ ReturnTellsTheRun'
  <2>1. SessionStep
    BY <1>1, <1>2, ConsumeCases DEF SessionStep
  <2> QED
    BY <1>1, <2>1, TypeKept, StatusStep, ErrorRunStep DEF ParserInv
<1>6. fast => consecutive_errors = 0 /\ Reported("error") = {}
  BY <1>1 DEF ParserInv, ReturnTellsTheRun
<1>7. ~Lost' =>
          returned' =
              IF consecutive_errors' = 0 THEN "kOk"
              ELSE IF consecutive_errors' >= options.max_consecutive_errors
              THEN "kLimitExceeded"
              ELSE IF fast THEN "kParseError" ELSE "kOk"
  BY <1>3, <1>5 DEF ReturnTellsTheRun
<1>8. /\ ~Lost' /\ consecutive_errors' = 0 => n + 1 \notin Reported("error")'
      /\ ~Lost' /\ consecutive_errors' = 1 => n + 1 \in Reported("error")'
  <2>1. ~Lost' =>
            LET first == (n + 1) - consecutive_errors'
            IN  /\ first + 1 .. n + 1 \subseteq Reported("error")'
                /\ first \notin Reported("error")'
    BY <1>3, <1>5 DEF ErrorRunIsReported
  <2>2. /\ (n + 1) - 0 = n + 1 /\ (n + 1) - 1 = n
        /\ n + 1 \in n + 1 .. n + 1
    BY <1>1
  <2> QED
    BY <2>1, <2>2
<1>9. consecutive_errors' \in Nat
  BY <1>1, <1>3
<1>10. fast /\ ~Lost' =>
           /\ consecutive_errors' \in {0, 1}
           /\ consecutive_errors' = 0 => Reported("error")' = {}
           /\ consecutive_errors' = 1 => Reported("error")' = {n + 1}
  BY <1>1, <1>3, <1>6, <1>8
<1>11. CASE returned' = "kLimitExceeded"
  <2>1. ~Lost' /\ pc' = "finishing"
    BY <1>11 DEF ReadLine, Lost
  <2>2. consecutive_errors' > 0 /\ LimitHit'
    BY <1>3, <1>7, <1>9, <1>11, <2>1 DEF LimitHit
  <2> QED
    BY <1>1, <1>3, <1>5, <2>1, <2>2 DEF ParserInv, StopsForAReason
<1>12. CASE returned' # "kLimitExceeded" /\ Lost'
  <2>1. pc' = "done" /\ result' = "threw"
    BY <1>12 DEF ReadLine, Lost
  <2>2. input'[taken'].root = "overflow"
    BY <1>1, <1>3, <1>4, <1>12
  <2> QED
    BY <1>1, <1>3, <1>5, <2>1, <2>2 DEF ParserInv, StopsForAReason
<1>13. CASE /\ returned' # "kLimitExceeded" /\ ~Lost'
            /\ returned' # "kOk" /\ fast
  <2>1. /\ returned' = "kParseError" /\ consecutive_errors' # 0
        /\ ~(consecutive_errors' >= options.max_consecutive_errors)
    BY <1>7, <1>13
  <2>2. pc' = "done" /\ result' = "kParseError"
    BY <1>13, <2>1 DEF ReadLine
  <2>3. /\ consecutive_errors' = 1
        /\ Reported("error")' = {taken'}
    BY <1>1, <1>3, <1>10, <1>13, <2>1
  <2>4. StopsForAReason'
    BY <1>3, <1>13, <2>1, <2>2, <2>3 DEF StopsForAReason
  <2> QED
    BY <1>1, <1>3, <1>5, <2>2, <2>4 DEF ParserInv
<1>14. CASE /\ returned' # "kLimitExceeded" /\ ~Lost'
            /\ ~(returned' # "kOk" /\ fast)
  <2>1. pc' = "reading"
    BY <1>1, <1>14 DEF ReadLine
  <2>2. returned' = "kOk" /\ (fast => consecutive_errors' = 0)
    BY <1>7, <1>14
  <2>3. fast => Reported("error")' = {}
    BY <1>10, <1>14, <2>2
  <2> QED
    BY <1>1, <1>3, <1>5, <1>14, <2>1, <2>2, <2>3
       DEF ParserInv, StopsForAReason
<1> QED
  BY <1>11, <1>12, <1>13, <1>14

LEMMA EndKept ==
    ASSUME ParserInv, EndOfStream \/ BuildResult \/ UNCHANGED packageVars
    PROVE  ParserInv'
<1>1. SessionStep /\ (~Lost \/ UNCHANGED vars)
  BY DEF SessionStep, EndOfStream, BuildResult, packageVars, allVars, ParserInv
<1>2. UNCHANGED <<options, cursor, consecutive_errors, heard, input, taken>>
  BY DEF EndOfStream, BuildResult, Finish, packageVars, allVars, parserVars,
         vars, sessionVars, storeVars
<1>3. /\ TypeOK' /\ HeardOfLinesConsumed'
      /\ ErrorRunIsReported' /\ ReturnTellsTheRun'
      /\ Reported("error")' = Reported("error")
  <2>1. Reported("error")' = Reported("error")
    BY <1>2 DEF Reported
  <2> QED
    BY <1>1, <2>1, TypeKept, StatusStep, ErrorRunStep DEF ParserInv
<1>4. CASE EndOfStream
  <2>1. UNCHANGED <<finished, returned>>
    BY <1>4 DEF EndOfStream, vars, sessionVars
  <2> QED
    BY <1>2, <1>3, <1>4, <2>1 DEF EndOfStream, ParserInv, StopsForAReason, Lost
<1>5. CASE BuildResult
  BY <1>2, <1>3, <1>5
     DEF BuildResult, Finish, ParserInv, StopsForAReason, LimitHit
<1>6. CASE UNCHANGED packageVars
  <2>1. UNCHANGED <<finished, returned, pc, result>>
    BY <1>6 DEF packageVars, allVars, parserVars, vars, sessionVars
  <2> QED
    BY <1>2, <1>3, <2>1 DEF ParserInv, StopsForAReason, LimitHit, Lost
<1> QED
  BY <1>4, <1>5, <1>6

LEMMA ParserStep ==
    ASSUME ParserInv, [PackageNext]_packageVars
    PROVE  ParserInv'
<1>1. Lines \subseteq FeedLines
  BY SessionAssumption DEF FeedLines
<1>2. Inputs \subseteq Seq(FeedLines)
  BY <1>1, InputsAssumption
<1>3. ASSUME NEW stream \in Inputs, OpenFile(stream) \/ DownloadFeed(stream)
      PROVE  ParserInv'
  BY <1>2, <1>3, OpenKept DEF OpenFile, DownloadFeed
<1>4. ASSUME NEW p \in Packages, ParsePackageDirectory(p)
      PROVE  ParserInv'
  <2>1. p.feed.lines \in Seq(FeedLines)
    <3>1. p.feed.lines \in Seq(Lines)
      BY PackageAssumption DEF Package
    <3> QED
      BY <1>1, <3>1
  <2> QED
    BY <1>4, <2>1, OpenKept, SyntheticFeedType DEF ParsePackageDirectory
<1> QED
  BY <1>3, <1>4, ReadKept, EndKept DEF PackageNext, ParserNext

(* Lines of a stream, a file or a package are skipped only for a reason    *)
(* the caller configured: for every stream, every package, every policy    *)
(* and every limit, zero included.                                         *)
THEOREM ParsingStopsForAReason == PackageSpec => []StopsForAReason
<1>1. ParserInv => StopsForAReason
  BY DEF ParserInv
<1> QED
  BY <1>1, ParserInit0, ParserStep, PTL DEF PackageSpec

-----------------------------------------------------------------------------
(* The numbers of lines                                                    *)

(* What is said of line n by a sequence of diagnostics, and by a log.      *)
CodesOf(diags, n) ==
    {diags[i].code : i \in {j \in DOMAIN diags : diags[j].line_no = n}}

EventsOf(log, n) ==
    {log[i] : i \in {j \in DOMAIN log : log[j].line_no = n}}

(* Diagnostics of line n, none of which refuses it.                        *)
Quiet(diags, n) ==
    /\ diags \in Seq(Diagnostic)
    /\ \A i \in DOMAIN diags : /\ diags[i].line_no = n
                               /\ diags[i].code \notin LineErrors

(* Diagnostics of line n that refuse it with this code and no other.       *)
Told(diags, n, code) ==
    /\ diags \in Seq(Diagnostic)
    /\ \A i \in DOMAIN diags : diags[i].line_no = n
    /\ {diags[i].code : i \in DOMAIN diags} \cap LineErrors = {code} \ {None}

LEMMA Joined ==
    ASSUME NEW S, NEW old \in Seq(S), NEW new \in Seq(S)
    PROVE  /\ old \o new \in Seq(S)
           /\ \A i \in DOMAIN (old \o new) :
                  \/ i \in DOMAIN old /\ (old \o new)[i] = old[i]
                  \/ \E j \in DOMAIN new : (old \o new)[i] = new[j]
           /\ \A i \in DOMAIN old : /\ i \in DOMAIN (old \o new)
                                    /\ (old \o new)[i] = old[i]
           /\ \A j \in DOMAIN new :
                  \E i \in DOMAIN (old \o new) : (old \o new)[i] = new[j]
<1> DEFINE all == old \o new
           k == Len(old)
<1>1. /\ k \in Nat /\ DOMAIN old = 1..k /\ Len(new) \in Nat
      /\ DOMAIN new = 1..Len(new) /\ all \in Seq(S)
      /\ DOMAIN all = 1..(k + Len(new))
      /\ \A i \in 1..k : all[i] = old[i]
      /\ \A j \in 1..Len(new) : all[k + j] = new[j]
  OBVIOUS
<1> HIDE DEF all, k
<1>2. \A i \in DOMAIN all : \/ i \in DOMAIN old
                            \/ i - k \in DOMAIN new /\ i = k + (i - k)
  BY <1>1
<1>3. /\ \A i \in DOMAIN old : i \in DOMAIN all /\ all[i] = old[i]
      /\ \A j \in DOMAIN new : k + j \in DOMAIN all /\ all[k + j] = new[j]
  BY <1>1
<1>4. \A i \in DOMAIN all : \/ i \in DOMAIN old /\ all[i] = old[i]
                            \/ \E j \in DOMAIN new : all[i] = new[j]
  BY <1>2, <1>3
<1> QED
  BY <1>1, <1>3, <1>4 DEF all

(* A refused line is told by its own code, whatever else is told of it.    *)
LEMMA RejectSays ==
    ASSUME TypeOK, NEW code \in LineErrors, RejectLine(code)
    PROVE  \E diags : /\ heard' = heard \o diags
                      /\ Told(diags, cursor.line_no + 1, code)
<1> DEFINE n == cursor.line_no + 1
           report == Error(code, n)
           limit == Error("kMaxConsecutiveErrorsExceeded", n)
           head == <<report>>
           tail == IF LimitReached THEN <<limit>> ELSE <<>>
<1>1. report \in Diagnostic /\ limit \in Diagnostic
  <2>1. n \in Nat
    BY DEF TypeOK
  <2> QED
    BY <2>1, DiagnosticType DEF Codes
<1>2. /\ report.line_no = n /\ report.code = code
      /\ limit.line_no = n /\ limit.code \notin LineErrors
  BY DEF Error, LineErrors
<1>3. heard' = heard \o (head \o tail)
  BY DEF RejectLine, AddDiagnostics, Store!NotifyDiagnostics
<1>4. tail \in {<<>>, <<limit>>}
  OBVIOUS
<1> HIDE DEF n, report, limit, tail
<1>5. /\ head \in Seq(Diagnostic) /\ tail \in Seq(Diagnostic)
      /\ 1 \in DOMAIN head /\ \A i \in DOMAIN head : head[i] = report
      /\ \A i \in DOMAIN tail : tail[i] = limit
  <2>1. /\ <<>> \in Seq(Diagnostic)
        /\ \A i \in DOMAIN <<>> : <<>>[i] = limit
    OBVIOUS
  <2> QED
    BY <1>1, <1>4, <2>1, OneSequence
<1> HIDE DEF head
<1>6. /\ head \o tail \in Seq(Diagnostic)
      /\ \A i \in DOMAIN (head \o tail) : (head \o tail)[i] \in {report, limit}
      /\ \E i \in DOMAIN (head \o tail) : (head \o tail)[i] = report
  BY <1>5, Joined
<1> DEFINE diags == head \o tail
<1> HIDE DEF diags
<1>7. /\ diags \in Seq(Diagnostic)
      /\ \A i \in DOMAIN diags : diags[i] = report \/ diags[i] = limit
      /\ \E i \in DOMAIN diags : diags[i] = report
  BY <1>6 DEF diags
<1>8. {diags[i].code : i \in DOMAIN diags} \cap LineErrors = {code}
  <2>1. PICK r \in DOMAIN diags : diags[r] = report
    BY <1>7
  <2>2. \A i \in DOMAIN diags :
            diags[i].code \in LineErrors => diags[i].code = code
    BY <1>2, <1>7
  <2> QED
    BY <1>2, <2>1, <2>2
<1>9. code # None /\ \A i \in DOMAIN diags : diags[i].line_no = n
  BY <1>2, <1>7, ErrorAssumption
<1>10. Told(diags, n, code)
  BY <1>7, <1>8, <1>9 DEF Told
<1> QED
  BY <1>3, <1>10 DEF n, diags

LEMMA QuietJoins ==
    ASSUME NEW n \in Nat, NEW diags, Quiet(diags, n),
           NEW code \in Codes \ LineErrors
    PROVE  Quiet(diags \o <<Error(code, n)>>, n)
<1> DEFINE tail == <<Error(code, n)>>
<1>1. Error(code, n) \in Diagnostic
  BY DiagnosticType
<1>2. tail \in Seq(Diagnostic) /\ \A i \in DOMAIN tail : tail[i] = Error(code, n)
  BY <1>1, OneSequence
<1> HIDE DEF tail
<1> QED
  BY <1>2, Joined DEF Quiet, Error, tail

(* Nothing that is told of an event refuses its line.                      *)
LEMMA EventSays ==
    ASSUME TypeOK, NEW event, Parsed(event), ApplyEvent(event)
    PROVE  \E diags : /\ heard' = heard \o diags
                      /\ Quiet(diags, cursor.line_no + 1)
<1> DEFINE Goal == \E diags : /\ heard' = heard \o diags
                              /\ Quiet(diags, cursor.line_no + 1)
           n == event.line_no
<1>0. /\ event \in Event /\ n \in Nat /\ n = cursor.line_no + 1
      /\ {"kUnknownEventType", "kDeleteUnknownObject", "kInvalidTime",
          "kInvalidObjectShape"} \subseteq Codes \ LineErrors
  BY DEF Parsed, Event, Codes, LineErrors
<1>1. ASSUME NEW warnings, Quiet(warnings, n),
             Commit(warnings) \/ FailEvent(event, warnings)
      PROVE  Goal
  <2>1. Quiet(warnings \o <<Error("kInvalidObjectShape", n)>>, n)
    BY <1>0, <1>1, QuietJoins
  <2> QED
    BY <1>0, <1>1, <2>1
       DEF Commit, FailEvent, AddDiagnostics, Store!NotifyDiagnostics
<1>2. /\ Quiet(<<>>, n)
      /\ Quiet(<<Warning("kUnknownEventType", n)>>, n)
      /\ Quiet(<<Warning("kDeleteUnknownObject", n)>>, n)
  <2>1. ASSUME NEW code \in Codes \ LineErrors
        PROVE  Quiet(<<Warning(code, n)>>, n)
    <3>1. Warning(code, n) \in Diagnostic
      BY <1>0, DiagnosticType
    <3> QED
      BY <3>1, OneSequence DEF Quiet, Warning
  <2>2. Quiet(<<>>, n)
    BY DEF Quiet
  <2> QED
    BY <1>0, <2>1, <2>2
<1>3. Quiet(DecoderWarnings(event), n)
  <2>1. \A i \in DOMAIN DecoderWarnings(event) :
            DecoderWarnings(event)[i] = Warning("kInvalidTime", n)
    BY DEF DecoderWarnings
  <2> QED
    BY <1>0, <2>1, DecoderWarningsType DEF Quiet, Warning
<1> SUFFICES Goal
  OBVIOUS
<1> HIDE DEF Goal, n
<1>4. CASE IgnoreUnknownType(event)
  BY <1>1, <1>2, <1>4 DEF IgnoreUnknownType, n
<1>5. CASE ApplyDelete(event)
  BY <1>1, <1>2, <1>5 DEF ApplyDelete, n
<1>6. CASE \/ ApplySingleObject(event)
           \/ ApplyCollectionReplace(event)
           \/ ApplySingletonUpdate(event)
  BY <1>1, <1>2, <1>3, <1>6
     DEF ApplySingleObject, ApplyCollectionReplace, ApplySingletonUpdate
<1> QED
  BY <1>4, <1>5, <1>6 DEF ApplyEvent

(* What a line adds to what was heard and to the log: the error it calls   *)
(* for and no other, and its event if it is logged, under its own number.  *)
LEMMA LineSays ==
    ASSUME TypeOK, NEW line \in FeedLines, ConsumeLine(line)
    PROVE  /\ \E diags : /\ heard' = heard \o diags
                         /\ Told(diags, cursor.line_no + 1, Refusal(line))
           /\ event_log' = IF IsLogged(line)
                           THEN Append(event_log,
                                       EventOf(line, cursor.line_no + 1))
                           ELSE event_log
<1> DEFINE n == cursor.line_no + 1
           max == options.max_line_bytes
           error == LineError(line, max)
           event == EventOf(line, n)
<1>1. CASE IsKeepalive(line) \/ Escapes(line, max)
  <2>1. KeepAlive \/ Throw
    BY <1>1 DEF ConsumeLine
  <2>2. heard' = heard /\ event_log' = event_log
    BY <2>1 DEF KeepAlive, Throw, storeVars
  <2>3. Refusal(line) = None /\ ~IsLogged(line)
    BY <1>1 DEF Refusal, IsLogged, IsKeepalive, Escapes
  <2>4. heard \in Seq(Diagnostic)
    BY DEF TypeOK, Store!TypeOK
  <2>5. heard' = heard \o <<>> /\ Told(<<>>, n, None)
    BY <2>2, <2>4 DEF Told
  <2> QED
    BY <2>2, <2>3, <2>5
<1>2. CASE ~IsKeepalive(line) /\ ~Escapes(line, max) /\ error # None
  <2>1. error \in LineErrors
    BY <1>2 DEF LineError, LineErrors
  <2>2. RejectLine(error)
    BY <1>2 DEF ConsumeLine
  <2>3. Refusal(line) = error /\ ~IsLogged(line)
    BY <1>2 DEF Refusal, IsLogged
  <2>4. event_log' = event_log
    BY <2>2 DEF RejectLine
  <2> HIDE DEF error
  <2>5. \E diags : heard' = heard \o diags /\ Told(diags, n, error)
    BY <2>1, <2>2, RejectSays
  <2> QED
    BY <2>3, <2>4, <2>5
<1>3. CASE Passes(line, max)
  <2>1. Parsed(event) /\ ApplyEvent(event)
    BY <1>3, PassingLine
  <2>2. event.type = line.type
    BY DEF EventOf
  <2>3. line.root = "object" /\ Refusal(line) = None
    <3>1. max \in Nat
      BY OptionsType DEF TypeOK
    <3>2. line.root = "object"
      BY <1>3, <3>1, PassesMeans
    <3> QED
      BY <1>3, <3>2 DEF Passes, Refusal
  <2> HIDE DEF event
  <2>4. PICK diags : heard' = heard \o diags /\ Quiet(diags, n)
    BY <2>1, EventSays
  <2>5. Told(diags, n, None)
    <3>1. {diags[i].code : i \in DOMAIN diags} \cap LineErrors = {}
      BY <2>4 DEF Quiet
    <3> QED
      BY <2>4, <3>1 DEF Quiet, Told
  <2>6. event_log' = IF IsLogged(line) THEN Append(event_log, event)
                     ELSE event_log
    <3>1. CASE line.type \in Types
      <4>1. Begin(event)
        BY <2>1, <2>2, <3>1, KnownBegins
      <4> QED
        BY <2>3, <3>1, <4>1 DEF Begin, Store!RecordEvent, IsLogged
    <3>2. CASE line.type \notin Types
      <4>1. event_log' = event_log
        BY <2>1, <2>2, <3>2
           DEF ApplyEvent, IgnoreUnknownType, ApplyDelete, ApplySingleObject,
               ApplyCollectionReplace, ApplySingletonUpdate, Begin
      <4> QED
        BY <3>2, <4>1 DEF IsLogged
    <3> QED
      BY <3>1, <3>2
  <2> QED
    BY <2>3, <2>4, <2>5, <2>6 DEF event
<1> QED
  BY <1>1, <1>2, <1>3 DEF Passes

LEMMA NumbersKept ==
    ASSUME ParserInv, LineNumbersAreTrue, ReadLine
    PROVE  LineNumbersAreTrue'
<1> DEFINE n == taken + 1
           line == input[n]
<1>1. /\ TypeOK /\ taken \in Nat /\ cursor.line_no = taken
      /\ line \in FeedLines /\ ConsumeLine(line)
      /\ taken' = n /\ input' = input
      /\ heard \in Seq(Diagnostic) /\ event_log \in Seq(Event)
  BY DEF ReadLine, ParserInv, TypeOK, Store!TypeOK
<1>2. options' = options
  BY <1>1, LineHeard
<1>3. \A l : Refusal(l)' = Refusal(l) /\ IsLogged(l)' = IsLogged(l)
  BY <1>2 DEF Refusal, IsLogged
<1>4. /\ n \notin 1..taken /\ n \in 1..n
      /\ \A m \in 1..taken : m \in 1..n /\ m # n
      /\ \A m \in 1..n : m \in 1..taken \/ m = n
  BY <1>1
<1>5. /\ \A i \in DOMAIN heard : heard[i].line_no \in 1..taken
      /\ \A i \in DOMAIN event_log : event_log[i].line_no \in 1..taken
      /\ \A m \in 1..taken :
             /\ CodesOf(heard, m) \cap LineErrors
                    = {Refusal(input[m])} \ {None}
             /\ EventsOf(event_log, m) =
                    IF IsLogged(input[m]) THEN {EventOf(input[m], m)} ELSE {}
  BY DEF LineNumbersAreTrue, CodesOf, EventsOf
<1>6. PICK diags : heard' = heard \o diags /\ Told(diags, n, Refusal(line))
  BY <1>1, LineSays
<1>7. event_log' = IF IsLogged(line) THEN Append(event_log, EventOf(line, n))
                   ELSE event_log
  BY <1>1, LineSays
<1> HIDE DEF n, line
<1>8. /\ \A i \in DOMAIN heard' : heard'[i].line_no \in 1..n
      /\ \A m \in 1..taken : CodesOf(heard', m) = CodesOf(heard, m)
      /\ CodesOf(heard', n) \cap LineErrors = {Refusal(line)} \ {None}
  <2>0. diags \in Seq(Diagnostic) /\ \A i \in DOMAIN diags : diags[i].line_no = n
    BY <1>6 DEF Told
  <2>1. /\ \A i \in DOMAIN heard' : \/ i \in DOMAIN heard /\ heard'[i] = heard[i]
                                   \/ \E j \in DOMAIN diags : heard'[i] = diags[j]
        /\ \A i \in DOMAIN heard : i \in DOMAIN heard' /\ heard'[i] = heard[i]
        /\ \A j \in DOMAIN diags : \E i \in DOMAIN heard' : heard'[i] = diags[j]
    BY <1>1, <1>6, <2>0, Joined
  <2>2. \A i \in DOMAIN heard' : heard'[i].line_no \in 1..n
    BY <1>4, <1>5, <2>0, <2>1
  <2>3. \A m \in 1..taken : CodesOf(heard', m) = CodesOf(heard, m)
    BY <1>4, <1>5, <2>0, <2>1 DEF CodesOf
  <2>4. CodesOf(heard', n) = {diags[i].code : i \in DOMAIN diags}
    <3>1. \A i \in DOMAIN heard' :
              heard'[i].line_no = n => \E j \in DOMAIN diags : heard'[i] = diags[j]
      BY <1>4, <1>5, <2>1
    <3>2. \A j \in DOMAIN diags :
              \E i \in DOMAIN heard' : heard'[i] = diags[j] /\ heard'[i].line_no = n
      BY <2>0, <2>1
    <3>3. CodesOf(heard', n) \subseteq {diags[i].code : i \in DOMAIN diags}
      BY <3>1 DEF CodesOf
    <3>4. {diags[i].code : i \in DOMAIN diags} \subseteq CodesOf(heard', n)
      BY <3>2 DEF CodesOf
    <3> QED
      BY <3>3, <3>4
  <2> QED
    BY <1>6, <2>2, <2>3, <2>4 DEF Told
<1>9. /\ \A i \in DOMAIN event_log' : event_log'[i].line_no \in 1..n
      /\ \A m \in 1..taken : EventsOf(event_log', m) = EventsOf(event_log, m)
      /\ EventsOf(event_log', n) =
             IF IsLogged(line) THEN {EventOf(line, n)} ELSE {}
  <2>1. CASE IsLogged(line)
    <3> DEFINE k == Len(event_log) + 1
               event == EventOf(line, n)
    <3>1. /\ DOMAIN event_log' = DOMAIN event_log \cup {k}
          /\ event_log'[k] = event
          /\ \A i \in DOMAIN event_log : event_log'[i] = event_log[i]
      BY <1>1, <1>7, <2>1
    <3>2. event.line_no = n
      BY DEF EventOf
    <3> HIDE DEF k, event
    <3>3. \A i \in DOMAIN event_log' : event_log'[i].line_no \in 1..n
      BY <1>4, <1>5, <3>1, <3>2
    <3>4. /\ \A m \in 1..taken : EventsOf(event_log', m) = EventsOf(event_log, m)
          /\ EventsOf(event_log', n) = {event}
      BY <1>4, <1>5, <3>1, <3>2 DEF EventsOf
    <3> QED
      BY <2>1, <3>3, <3>4 DEF event
  <2>2. CASE ~IsLogged(line)
    BY <1>4, <1>5, <1>7, <2>2 DEF EventsOf
  <2> QED
    BY <2>1, <2>2
<1>10. \A m \in 1..n :
           /\ CodesOf(heard', m) \cap LineErrors = {Refusal(input[m])} \ {None}
           /\ EventsOf(event_log', m) =
                  IF IsLogged(input[m]) THEN {EventOf(input[m], m)} ELSE {}
  BY <1>4, <1>5, <1>8, <1>9 DEF line
<1> QED
  BY <1>1, <1>3, <1>8, <1>9, <1>10
     DEF LineNumbersAreTrue, CodesOf, EventsOf

LEMMA NumbersStay ==
    ASSUME ParserInv, LineNumbersAreTrue, UNCHANGED <<options, storeVars, taken>>,
           input' = input \/ taken = 0
    PROVE  LineNumbersAreTrue'
<1>1. UNCHANGED <<heard, event_log>>
  BY DEF storeVars
<1>2. \A l : Refusal(l)' = Refusal(l) /\ IsLogged(l)' = IsLogged(l)
  BY DEF Refusal, IsLogged
<1>3. taken = 0 => 1..taken = {}
  OBVIOUS
<1> QED
  BY <1>1, <1>2, <1>3 DEF LineNumbersAreTrue

(* Every diagnostic and every entry of the log names the line of the       *)
(* stream it is about, and every line taken has the error it calls for and *)
(* no other: for every stream and package, over every mixture of blank,    *)
(* refused, ignored, failing and throwing lines, with any cap and policy.  *)
THEOREM LineNumbersHold == PackageSpec => []LineNumbersAreTrue
<1>1. PackageInit => LineNumbersAreTrue
  BY DEF PackageInit, ParserInit, Init, Store!Init, LineNumbersAreTrue
<1>2. ASSUME ParserInv, LineNumbersAreTrue, [PackageNext]_packageVars
      PROVE  LineNumbersAreTrue'
  <2>1. CASE ReadLine
    BY <1>2, <2>1, NumbersKept
  <2>2. CASE \E stream, status : Open(stream) \/ FailToOpen(status)
    <3>1. UNCHANGED <<vars, taken>> /\ pc = "opening"
      BY <2>2 DEF Open, FailToOpen
    <3>2. taken = 0
      BY <1>2, <3>1 DEF ParserInv
    <3>3. UNCHANGED <<options, storeVars>>
      BY <3>1 DEF vars, sessionVars
    <3> QED
      BY <1>2, <3>1, <3>2, <3>3, NumbersStay
  <2>3. CASE EndOfStream \/ BuildResult \/ UNCHANGED packageVars
    <3>1. UNCHANGED <<options, storeVars, taken, input>>
      BY <2>3 DEF EndOfStream, BuildResult, Finish, packageVars, allVars,
                  parserVars, vars, sessionVars
    <3> QED
      BY <1>2, <3>1, NumbersStay
  <2> QED
    BY <1>2, <2>1, <2>2, <2>3
       DEF PackageNext, ParserNext, ParsePackageDirectory, OpenFile, DownloadFeed
<1> QED
  BY <1>1, <1>2, ParserInit0, ParserStep, PTL DEF PackageSpec

-----------------------------------------------------------------------------
(* What a session promises, of the parsers that drive one                  *)

(* A parser makes steps of a session, and none once the session is lost or *)
(* finished; its lines need not be those the session was checked with.     *)
LEMMA ParserDrivesSession ==
    ASSUME ParserInv, [PackageNext]_packageVars
    PROVE  SessionStep /\ ConsumesOnlyOpen /\ (~Lost \/ UNCHANGED vars)
<1>1. CASE ReadLine
  <2>1. /\ pc = "reading" /\ ~Lost /\ ~finished /\ TypeOK
        /\ taken \in Nat /\ taken < Len(input)
        /\ input \in Seq(FeedLines)
    BY <1>1 DEF ReadLine, ParserInv, TypeOK
  <2>2. input[taken + 1] \in FeedLines
    BY <2>1
  <2>3. SessionStep
    BY <1>1, <2>1, <2>2, ConsumeCases DEF ReadLine, SessionStep
  <2> QED
    BY <2>1, <2>3 DEF ConsumesOnlyOpen
<1>2. CASE BuildResult
  BY <1>2 DEF BuildResult, ParserInv, SessionStep, ConsumesOnlyOpen
<1>3. CASE UNCHANGED vars
  BY <1>3 DEF SessionStep, ConsumesOnlyOpen
<1>4. ASSUME NEW stream, OpenFile(stream) \/ DownloadFeed(stream)
      PROVE  UNCHANGED vars
  BY <1>4 DEF OpenFile, DownloadFeed, Open, FailToOpen
<1>5. ASSUME NEW p, ParsePackageDirectory(p)
      PROVE  UNCHANGED vars
  BY <1>5 DEF ParsePackageDirectory, Open, FailToOpen
<1>6. EndOfStream \/ UNCHANGED packageVars => UNCHANGED vars
  BY DEF EndOfStream, packageVars, allVars
<1> QED
  BY <1>1, <1>2, <1>3, <1>4, <1>5, <1>6 DEF PackageNext, ParserNext

(* What a session promises a caller who feeds it line by line.             *)
Promises ==
    /\ ObserverAgrees /\ DiagnosticsAreFirstHeard
    /\ ErrorRunIsReported /\ ReturnTellsTheRun
    /\ LogInFeedOrder /\ EventsAccountedFor /\ EndOfUpdatesIsKept
    /\ VersionFromFirstEvidence /\ ObjectsFollowLog

LEMMA PromisedAtFirst == PackageInit => Promises
<1>1. PackageInit => Init /\ ErrorRunIsReported /\ ReturnTellsTheRun
  BY ParserInit0 DEF PackageInit, ParserInit, ParserInv
<1>2. Init => /\ LogInFeedOrder /\ EndOfUpdatesIsKept
              /\ DiagnosticsAreFirstHeard
  BY DEF Init, Store!Init, LogInFeedOrder, EndOfUpdatesIsKept,
         DiagnosticsAreFirstHeard
<1> QED
  BY <1>1, <1>2, ObserverAtFirst, VersionAtFirst, ObjectsAtFirst,
     CountsAtFirst DEF Promises

LEMMA PromisesStep ==
    ASSUME ParserInv, ParserInv', Promises,
           [PackageNext]_packageVars
    PROVE  Promises'
<1>1. TypeOK /\ SessionStep
  BY ParserDrivesSession DEF ParserInv
<1>2. ObserverAgrees' /\ LogInFeedOrder' /\ VersionFromFirstEvidence'
  BY <1>1, ObserverStep, LogOrderStep, VersionStep DEF Promises
<1>3. EndOfUpdatesIsKept' /\ EventsAccountedFor' /\ DiagnosticsAreFirstHeard'
  BY <1>1, EndOfUpdatesStep, CountsStep, FirstHeardStep
     DEF Promises
<1>4. ObjectsFollowLog'
  BY <1>1, <1>2, ObjectsStep DEF Promises
<1> QED
  BY <1>2, <1>3, <1>4 DEF Promises, ParserInv

(* Every promise of a session is kept by the parsers of files, streams,    *)
(* downloads and packages, whose lines no caller wrote: for every stream,  *)
(* every package and all options, after every line and in the result.      *)
THEOREM ParsersKeepPromises ==
    PackageSpec => []( /\ ObserverAgrees /\ DiagnosticsAreFirstHeard
                       /\ ErrorRunIsReported /\ ReturnTellsTheRun
                       /\ LogInFeedOrder /\ EventsAccountedFor
                       /\ EndOfUpdatesIsKept
                       /\ VersionFromFirstEvidence /\ ObjectsFollowLog )
<1>0. Promises => /\ ObserverAgrees /\ DiagnosticsAreFirstHeard
                  /\ ErrorRunIsReported /\ ReturnTellsTheRun
                  /\ LogInFeedOrder /\ EventsAccountedFor
                  /\ EndOfUpdatesIsKept
                  /\ VersionFromFirstEvidence /\ ObjectsFollowLog
  BY DEF Promises
<1>1. ParserInv /\ Promises /\ [PackageNext]_packageVars
          => Promises'
  BY ParserStep, PromisesStep
<1> QED
  BY <1>0, <1>1, PromisedAtFirst, ParserInit0, ParserStep, PTL DEF PackageSpec

(* So a parser, too, implements the atomic feed.                           *)
THEOREM ParsersFeedAtomically == PackageSpec => ImplementsAtomicFeed
<1>1. PackageInit => Feed!Init
  BY FeedAtFirst DEF PackageInit, ParserInit
<1>2. ParserInv /\ [PackageNext]_packageVars => [Feed!Next]_(Feed!vars)
  BY ParserDrivesSession, StepIsFeedStep DEF ParserInv
<1> QED
  BY <1>1, <1>2, ParserInit0, ParserStep, PTL
     DEF PackageSpec, ImplementsAtomicFeed, Feed!Spec

-----------------------------------------------------------------------------
(* Where the files of a package are in the feed made of them               *)

LEMMA SilentIsNoEvent ==
    ASSUME NEW line \in FeedLines, NEW limit \in Nat, Silent(line)
    PROVE  ~Passes(line, limit)
<1>1. line.bytes \in Nat
  BY DEF FeedLines, Line
<1>2. LineError(line, line.bytes) # None => LineError(line, limit) # None
  BY <1>1, ErrorAssumption DEF LineError, LineErrors
<1> QED
  BY <1>2 DEF Silent, Passes

(* The types of T that have a line of their own, and that line.            *)
Present(p, T) ==
    {t \in T : \/ t = "state"
               \/ t \in DOMAIN p.file /\ p.file[t].state = "readable"}

OwnLine(p, t) ==
    IF t = "state" THEN StateLine ELSE FirstLine(t, p.file[t].content)

(* The places of these lines in a feed that has nothing else to say.       *)
Places(lines, p, T) ==
    {at \in [Present(p, T) -> DOMAIN lines] :
        /\ \A t \in Present(p, T) : lines[at[t]] = OwnLine(p, t)
        /\ \A i \in DOMAIN lines :
               Silent(lines[i]) \/ \E t \in Present(p, T) : i = at[t]}

LEMMA PlacesJoin ==
    ASSUME NEW p, NEW S, NEW T, S \cap T = {},
           NEW u \in Seq(FeedLines), NEW v \in Seq(FeedLines),
           NEW f \in Places(u, p, S), NEW g \in Places(v, p, T)
    PROVE  [t \in Present(p, S \cup T) |->
                IF t \in S THEN f[t] ELSE Len(u) + g[t]]
               \in Places(u \o v, p, S \cup T)
<1> DEFINE all == u \o v
           both == Present(p, S \cup T)
           at == [t \in both |-> IF t \in S THEN f[t] ELSE Len(u) + g[t]]
           own == Present(p, S)
           other == Present(p, T)
<1>1. /\ both = own \cup other /\ own \subseteq S /\ other \cap S = {}
  BY DEF Present
<1>2. /\ f \in [own -> DOMAIN u] /\ g \in [other -> DOMAIN v]
      /\ \A t \in own : u[f[t]] = OwnLine(p, t)
      /\ \A t \in other : v[g[t]] = OwnLine(p, t)
      /\ \A i \in DOMAIN u : Silent(u[i]) \/ \E t \in own : i = f[t]
      /\ \A i \in DOMAIN v : Silent(v[i]) \/ \E t \in other : i = g[t]
  BY DEF Places
<1>3. /\ Len(u) \in Nat /\ Len(v) \in Nat
      /\ DOMAIN u = 1..Len(u) /\ DOMAIN v = 1..Len(v)
      /\ DOMAIN all = 1..(Len(u) + Len(v))
      /\ \A i \in 1..Len(u) : all[i] = u[i]
      /\ \A i \in 1..Len(v) : all[Len(u) + i] = v[i]
  OBVIOUS
<1> HIDE DEF all, both, own, other
<1>4. \A i \in DOMAIN u : i \in DOMAIN all /\ all[i] = u[i]
  BY <1>3
<1>5. \A i \in DOMAIN v : Len(u) + i \in DOMAIN all /\ all[Len(u) + i] = v[i]
  BY <1>3
<1>6. \A i \in DOMAIN all :
          i \in DOMAIN u \/ \E j \in DOMAIN v : i = Len(u) + j
  <2> SUFFICES ASSUME NEW i \in DOMAIN all, i \notin DOMAIN u
               PROVE  i - Len(u) \in DOMAIN v /\ i = Len(u) + (i - Len(u))
    OBVIOUS
  <2> QED
    BY <1>3
<1>7. /\ \A t \in own : at[t] = f[t]
      /\ \A t \in other : at[t] = Len(u) + g[t]
      /\ DOMAIN at = both /\ at = [t \in both |-> at[t]]
  BY <1>1
<1> HIDE DEF at
<1>8. \A t \in both : at[t] \in DOMAIN all /\ all[at[t]] = OwnLine(p, t)
  <2>1. \A t \in own : at[t] \in DOMAIN all /\ all[at[t]] = OwnLine(p, t)
    BY <1>2, <1>4, <1>7
  <2>2. ASSUME NEW t \in other
        PROVE  at[t] \in DOMAIN all /\ all[at[t]] = OwnLine(p, t)
    <3>1. g[t] \in DOMAIN v /\ v[g[t]] = OwnLine(p, t)
      BY <1>2
    <3>2. at[t] = Len(u) + g[t]
      BY <1>7
    <3>3. Len(u) + g[t] \in DOMAIN all /\ all[Len(u) + g[t]] = v[g[t]]
      BY <1>5, <3>1
    <3> QED
      BY <3>1, <3>2, <3>3
  <2> QED
    BY <1>1, <2>1, <2>2
<1>9. \A i \in DOMAIN all : Silent(all[i]) \/ \E t \in both : i = at[t]
  <2>1. \A i \in DOMAIN u : Silent(all[i]) \/ \E t \in both : i = at[t]
    BY <1>1, <1>2, <1>4, <1>7
  <2>2. \A j \in DOMAIN v : \/ Silent(all[Len(u) + j])
                            \/ \E t \in both : Len(u) + j = at[t]
    BY <1>1, <1>2, <1>5, <1>7
  <2> QED
    BY <1>6, <2>1, <2>2
<1>10. at \in [both -> DOMAIN all]
  BY <1>7, <1>8
<1> QED
  BY <1>8, <1>9, <1>10 DEF Places, at, all, both

Covers(lines, p, T) == lines \in Seq(FeedLines) /\ Places(lines, p, T) # {}

LEMMA CoversJoin ==
    ASSUME NEW p, NEW S, NEW T, S \cap T = {}, NEW u, NEW v,
           Covers(u, p, S), Covers(v, p, T)
    PROVE  Covers(u \o v, p, S \cup T)
<1>1. PICK f \in Places(u, p, S) : TRUE
  BY DEF Covers
<1>2. PICK g \in Places(v, p, T) : TRUE
  BY DEF Covers
<1>3. u \in Seq(FeedLines) /\ v \in Seq(FeedLines)
  BY DEF Covers
<1>4. u \o v \in Seq(FeedLines)
  BY <1>3
<1> QED
  BY <1>1, <1>2, <1>3, <1>4, PlacesJoin DEF Covers

LEMMA FileCovers ==
    ASSUME NEW p \in Packages, NEW t, t # "state"
    PROVE  Covers(FileLines(p, t), p, {t})
<1> DEFINE content == p.file[t].content
           line == FirstLine(t, content)
<1>1. CASE t \in DOMAIN p.file /\ p.file[t].state = "readable"
  <2>1. /\ line \in FeedLines /\ content.rest \in Seq(FeedLines)
        /\ \A i \in DOMAIN content.rest : Silent(content.rest[i])
    BY <1>1, FilesAre
  <2>2. /\ FileLines(p, t) = <<line>> \o content.rest
        /\ Present(p, {t}) = {t} /\ OwnLine(p, t) = line
    BY <1>1 DEF FileLines, Pasted, Present, OwnLine
  <2> HIDE DEF content, line
  <2> DEFINE all == <<line>> \o content.rest
             at == [s \in {t} |-> 1]
  <2>3. /\ all \in Seq(FeedLines) /\ 1 \in DOMAIN all /\ all[1] = line
        /\ \A i \in DOMAIN all : i = 1 \/ Silent(all[i])
    <3>1. /\ all \in Seq(FeedLines) /\ all[1] = line
          /\ Len(content.rest) \in Nat
          /\ DOMAIN content.rest = 1..Len(content.rest)
          /\ DOMAIN all = 1..(1 + Len(content.rest))
          /\ \A i \in 1..Len(content.rest) : all[1 + i] = content.rest[i]
      BY <2>1
    <3> HIDE DEF all
    <3>2. \A i \in DOMAIN all :
              i = 1 \/ (i - 1 \in DOMAIN content.rest /\ i = 1 + (i - 1))
      BY <3>1
    <3>3. \A i \in DOMAIN all : i = 1 \/ Silent(all[i])
      <4> SUFFICES ASSUME NEW i \in DOMAIN all, i # 1
                   PROVE  Silent(all[i])
        OBVIOUS
      <4> DEFINE j == i - 1
      <4>1. j \in DOMAIN content.rest /\ i = 1 + j
        BY <3>2
      <4> HIDE DEF j
      <4>2. all[1 + j] = content.rest[j]
        BY <3>1, <4>1
      <4> QED
        BY <2>1, <4>1, <4>2
    <3>4. 1 \in DOMAIN all
      BY <3>1
    <3> QED
      BY <3>1, <3>3, <3>4
  <2> HIDE DEF all
  <2>4. at \in Places(all, p, {t})
    BY <2>2, <2>3 DEF Places
  <2> QED
    BY <2>2, <2>3, <2>4 DEF Covers, all
<1>2. CASE ~(t \in DOMAIN p.file /\ p.file[t].state = "readable")
  <2>1. FileLines(p, t) = <<>> /\ Present(p, {t}) = {}
    BY <1>2 DEF FileLines, Present
  <2> DEFINE at == [s \in {} |-> 1]
  <2>2. at \in [{} -> {}] /\ DOMAIN <<>> = {}
    OBVIOUS
  <2> HIDE DEF at
  <2>3. at \in Places(<<>>, p, {t})
    BY <2>1, <2>2 DEF Places
  <2> QED
    BY <2>1, <2>3 DEF Covers
<1> QED
  BY <1>1, <1>2

LEMMA OneMoreFile ==
    ASSUME NEW p \in Packages, NEW lines, NEW T, Covers(lines, p, T),
           NEW t, t # "state", t \notin T
    PROVE  Covers(lines \o FileLines(p, t), p, T \cup {t})
BY FileCovers, CoversJoin

LEMMA EndpointsCover ==
    ASSUME NEW p \in Packages
    PROVE  Covers(EndpointLines(p), p, EndpointTypes)
<1> DEFINE F(t) == FileLines(p, t)
           s2 == F("judgement-types") \o F("languages")
           s3 == s2 \o F("problems")
           s4 == s3 \o F("groups")
           s5 == s4 \o F("organizations")
           s6 == s5 \o F("teams")
           s7 == s6 \o F("persons")
           s8 == s7 \o F("accounts")
           s9 == s8 \o F("submissions")
           s10 == s9 \o F("judgements")
           s11 == s10 \o F("runs")
           s12 == s11 \o F("clarifications")
           s13 == s12 \o F("awards")
           s14 == s13 \o F("commentary")
           T2 == {"judgement-types", "languages"}
           T4 == T2 \cup {"problems"} \cup {"groups"}
           T6 == T4 \cup {"organizations"} \cup {"teams"}
           T8 == T6 \cup {"persons"} \cup {"accounts"}
           T10 == T8 \cup {"submissions"} \cup {"judgements"}
           T12 == T10 \cup {"runs"} \cup {"clarifications"}
<1>0. EndpointLines(p) = s14
  BY DEF EndpointLines
<1>1. Covers(s2, p, T2)
  <2>1. Covers(F("judgement-types"), p, {"judgement-types"})
    BY FileCovers
  <2>2. T2 = {"judgement-types"} \cup {"languages"}
    OBVIOUS
  <2> HIDE DEF F, T2
  <2> QED
    BY <2>1, <2>2, OneMoreFile DEF F
<1> HIDE DEF s2
<1>2. Covers(s4, p, T4)
  <2>1. Covers(s3, p, T2 \cup {"problems"})
    BY <1>1, OneMoreFile
  <2> HIDE DEF s3
  <2> QED
    BY <2>1, OneMoreFile
<1> HIDE DEF s4
<1>3. Covers(s6, p, T6)
  <2>1. Covers(s5, p, T4 \cup {"organizations"})
    BY <1>2, OneMoreFile
  <2> HIDE DEF s5
  <2> QED
    BY <2>1, OneMoreFile
<1> HIDE DEF s6
<1>4. Covers(s8, p, T8)
  <2>1. Covers(s7, p, T6 \cup {"persons"})
    BY <1>3, OneMoreFile
  <2> HIDE DEF s7
  <2> QED
    BY <2>1, OneMoreFile
<1> HIDE DEF s8
<1>5. Covers(s10, p, T10)
  <2>1. Covers(s9, p, T8 \cup {"submissions"})
    BY <1>4, OneMoreFile
  <2> HIDE DEF s9
  <2> QED
    BY <2>1, OneMoreFile
<1> HIDE DEF s10
<1>6. Covers(s12, p, T12)
  <2>1. Covers(s11, p, T10 \cup {"runs"})
    BY <1>5, OneMoreFile
  <2> HIDE DEF s11
  <2> QED
    BY <2>1, OneMoreFile
<1> HIDE DEF s12
<1>7. Covers(s14, p, T12 \cup {"awards"} \cup {"commentary"})
  <2>1. Covers(s13, p, T12 \cup {"awards"})
    BY <1>6, OneMoreFile
  <2> HIDE DEF s13
  <2> QED
    BY <2>1, OneMoreFile
<1>8. EndpointTypes = T12 \cup {"awards"} \cup {"commentary"}
  BY DEF EndpointTypes
<1> HIDE DEF s14, T12
<1> QED
  BY <1>0, <1>7, <1>8

(* The contest comes before everything that depends on its version.        *)
ContestFirst(at) ==
    \A t \in DOMAIN at \ {"state", "contest"} :
        "contest" \in DOMAIN at => at["contest"] < at[t]

PlacesOf(p) ==
    CHOOSE at \in Places(SyntheticFeed(p), p, Types) : ContestFirst(at)

LEMMA FeedPlaces ==
    ASSUME NEW p \in Packages
    PROVE  /\ PlacesOf(p) \in Places(SyntheticFeed(p), p, Types)
           /\ ContestFirst(PlacesOf(p))
<1> DEFINE S == {"state"} \cup {"contest"}
           E == EndpointTypes
           early == <<StateLine>> \o FileLines(p, "contest")
           late == EndpointLines(p)
<1>1. Covers(early, p, S)
  <2>1. StateLine \in FeedLines
    BY StateLineType
  <2>2. /\ Present(p, {"state"}) = {"state"} /\ OwnLine(p, "state") = StateLine
    BY DEF Present, OwnLine
  <2> DEFINE one == <<StateLine>>
  <2>3. one \in Seq(FeedLines) /\ DOMAIN one = {1} /\ one[1] = StateLine
    BY <2>1
  <2> HIDE DEF one
  <2>4. [t \in {"state"} |-> 1] \in Places(one, p, {"state"})
    BY <2>2, <2>3 DEF Places
  <2>5. Covers(one, p, {"state"})
    BY <2>3, <2>4 DEF Covers
  <2> QED
    BY <2>5, OneMoreFile DEF one
<1>2. Covers(late, p, E)
  BY EndpointsCover
<1>3. S \cap E = {}
  BY FilesAre
<1>4. SyntheticFeed(p) = early \o late
  BY DEF SyntheticFeed
<1>5. Present(p, S \cup E) = Present(p, Types)
  BY FilesAre, PackageAssumption DEF Present, Types, SingletonTypes
<1> HIDE DEF early, late, S, E
<1>6. PICK f \in Places(early, p, S) : TRUE
  BY <1>1 DEF Covers
<1>7. PICK g \in Places(late, p, E) : TRUE
  BY <1>2 DEF Covers
<1> DEFINE at == [t \in Present(p, S \cup E) |->
                      IF t \in S THEN f[t] ELSE Len(early) + g[t]]
<1>8. early \in Seq(FeedLines) /\ late \in Seq(FeedLines)
  BY <1>1, <1>2 DEF Covers
<1>9. at \in Places(early \o late, p, S \cup E)
  BY <1>3, <1>6, <1>7, <1>8, PlacesJoin
<1>10. at \in Places(SyntheticFeed(p), p, Types)
  <2> HIDE DEF at
  <2> QED
    BY <1>4, <1>5, <1>9 DEF Places
<1>11. ContestFirst(at)
  <2> SUFFICES ASSUME NEW t \in DOMAIN at \ {"state", "contest"},
                      "contest" \in DOMAIN at
               PROVE  at["contest"] < at[t]
    BY DEF ContestFirst
  <2>1. t \in Present(p, E) /\ t \notin S
    BY DEF Present, S
  <2>2. "contest" \in Present(p, S) /\ "contest" \in S
    BY DEF Present, S
  <2>3. f["contest"] \in 1..Len(early) /\ g[t] \in 1..Len(late)
    BY <1>6, <1>7, <1>8, <2>1, <2>2 DEF Places
  <2>4. Len(early) \in Nat /\ Len(late) \in Nat
    BY <1>8
  <2>5. at["contest"] = f["contest"] /\ at[t] = Len(early) + g[t]
    BY <2>1, <2>2
  <2> HIDE DEF at
  <2> QED
    BY <2>3, <2>4, <2>5
<1> HIDE DEF at
<1> QED
  BY <1>10, <1>11 DEF PlacesOf

-----------------------------------------------------------------------------
(* What the line of a file does to the objects                             *)

Nothing == [k \in Keys |-> None]

HeldUnder(version, type, content) ==
    LET obj == DecodeObject(version, type,
                   IF content.data = "null" THEN EmptyDoc(NullRev)
                   ELSE content.docs[1])
    IN  CASE content.data \in {"object", "null"} ->
                 [id \in Keys |-> IF type \in SingletonTypes \/ id = obj.id
                                  THEN obj ELSE None]
          [] /\ content.data = "array" /\ type \in CollectionTypes
             /\ CollectionDecodes(content.docs) ->
                 StoreProofs!CollectionOf(
                     DecodeCollection(version, type, content.docs))
          [] OTHER -> Nothing

WholeFor(limit, file) ==
    /\ file.state = "readable"
    /\ file.content.rest = <<>>
    /\ ~file.content.overflow
    /\ file.content.bytes <= limit

Spoilt(limit, file) ==
    /\ file.state = "readable"
    /\ ~WholeFor(limit, file) \/ file.content.data = "missing"

Kept(version, limit, type, file) ==
    IF WholeFor(limit, file) THEN HeldUnder(version, type, file.content)
    ELSE Nothing

(* Only clarifications are decoded as the version says.                    *)
LEMMA VersionMatters ==
    ASSUME NEW type, type # "clarifications", NEW u, NEW v, NEW limit, NEW file
    PROVE  Kept(u, limit, type, file) = Kept(v, limit, type, file)
<1>1. \A doc : DecodeObject(u, type, doc) = DecodeObject(v, type, doc)
  BY DEF DecodeObject
<1>2. \A docs : DecodeCollection(u, type, docs) = DecodeCollection(v, type, docs)
  BY <1>1 DEF DecodeCollection
<1> QED
  BY <1>1, <1>2 DEF Kept, HeldUnder

(* What the event of a first line writes, when nothing was there before,   *)
(* is what readers should find of its type.                                *)
LEMMA FileWrites ==
    ASSUME NEW type \in Types, NEW file \in File, file.state = "readable",
           NEW limit \in Nat, NEW version, NEW n, NEW k \in Keys,
           Passes(FirstLine(type, file.content), limit),
           NEW event, event = EventOf(FirstLine(type, file.content), n)
    PROVE  /\ ~Spoilt(limit, file)
           /\ Kept(version, limit, type, file)[k] =
                  IF EventWrites(event, type, k)
                  THEN EventWritten(event, version, k) ELSE None
<1> DEFINE content == file.content
           line == FirstLine(type, content)
           docs == content.docs
<1>1. content \in Content /\ docs \in Seq(Doc) /\ content.bytes \in Nat
  BY DEF File, Content
<1>2. /\ line.id = None /\ line.type = type /\ line.data = content.data
      /\ line.docs = docs /\ line.bytes = content.bytes
      /\ line.root = IF content.overflow THEN "overflow"
                     ELSE IF content.data = "missing" \/ content.rest # <<>>
                     THEN "malformed" ELSE "object"
  BY DEF FirstLine
<1> HIDE DEF line, content, docs
<1>3. LineError(line, limit) = None /\ ~Escapes(line, limit)
  BY DEF Passes, line, content
<1>4. /\ content.bytes <= limit /\ line.root # "malformed"
      /\ content.data \in {"null", "object", "array"}
  BY <1>1, <1>2, <1>3, ErrorAssumption
     DEF LineError, LineErrors, Content, DataShapes
<1>5. content.rest = <<>> /\ content.data # "missing" /\ ~content.overflow
  BY <1>2, <1>3, <1>4 DEF Escapes
<1>6. WholeFor(limit, file) /\ ~Spoilt(limit, file)
  BY <1>4, <1>5 DEF WholeFor, Spoilt, content
<1>7. Kept(version, limit, type, file) = HeldUnder(version, type, content)
  BY <1>6 DEF Kept, content
<1>8. type \in CollectionTypes <=> type \notin SingletonTypes
  BY FeedTypes
<1>9. /\ event.type = type
      /\ event.shape = IF content.data = "array" THEN "collection"
                       ELSE "singleton"
      /\ event.docs = IF content.data = "null" THEN <<EmptyDoc(NullRev)>>
                      ELSE docs
  BY <1>2 DEF EventOf, ShapeOf, line, content
<1>10. CASE content.data \in {"object", "null"}
  <2> DEFINE doc == IF content.data = "null" THEN EmptyDoc(NullRev) ELSE docs[1]
             obj == DecodeObject(version, type, doc)
  <2>1. event.docs[1] = doc /\ event.shape = "singleton"
    BY <1>9, <1>10
  <2>2. obj.id = DecodeObject(None, type, doc).id
    BY SameId
  <2>3. HeldUnder(version, type, content)[k]
            = IF type \in SingletonTypes \/ k = obj.id THEN obj ELSE None
    BY <1>10 DEF HeldUnder, docs
  <2> HIDE DEF obj, doc
  <2>4. EventWrites(event, type, k) <=> type \in SingletonTypes \/ k = obj.id
    BY <1>8, <1>9, <2>1, <2>2 DEF EventWrites
  <2>5. EventWritten(event, version, k) = obj
    BY <1>9, <2>1 DEF EventWritten, obj
  <2> QED
    BY <1>6, <1>7, <2>3, <2>4, <2>5
<1>11. CASE /\ content.data = "array" /\ type \in CollectionTypes
            /\ CollectionDecodes(docs)
  <2>1. /\ event.docs = docs /\ event.shape = "collection"
    BY <1>9, <1>11
  <2>2. EventWrites(event, type, k)
    BY <1>9, <1>11, <2>1 DEF EventWrites
  <2>3. EventWritten(event, version, k) =
            StoreProofs!CollectionOf(DecodeCollection(version, type, docs))[k]
    <3>1. type # "state"
      BY <1>8, <1>11 DEF SingletonTypes
    <3> QED
      BY <1>1, <1>9, <1>11, <2>1, <3>1, CollectionHolds DEF EventWritten
  <2>4. HeldUnder(version, type, content)
            = StoreProofs!CollectionOf(DecodeCollection(version, type, docs))
    BY <1>11 DEF HeldUnder, docs
  <2> QED
    BY <1>6, <1>7, <2>2, <2>3, <2>4
<1>12. CASE /\ content.data = "array"
            /\ type \notin CollectionTypes \/ ~CollectionDecodes(docs)
  <2>1. /\ event.docs = docs /\ event.shape = "collection"
    BY <1>9, <1>12
  <2>2. ~EventWrites(event, type, k)
    BY <1>8, <1>9, <1>12, <2>1 DEF EventWrites
  <2>3. HeldUnder(version, type, content) = Nothing
    BY <1>12 DEF HeldUnder, docs
  <2> QED
    BY <1>6, <1>7, <2>2, <2>3 DEF Nothing
<1> QED
  BY <1>4, <1>10, <1>11, <1>12

(* A first line that is refused leaves readers nothing to find.            *)
LEMMA FileRefused ==
    ASSUME NEW type \in Types, NEW file \in File, NEW limit \in Nat, NEW version,
           ~Passes(FirstLine(type, file.content), limit)
    PROVE  Kept(version, limit, type, file) = Nothing
<1> DEFINE content == file.content
           line == FirstLine(type, content)
<1>1. content \in Content /\ content.bytes \in Nat
  BY DEF File, Content
<1>2. /\ line.id = None /\ line.type = type /\ line.data = content.data
      /\ line.token = None /\ line.bytes = content.bytes
      /\ line.root = IF content.overflow THEN "overflow"
                     ELSE IF content.data = "missing" \/ content.rest # <<>>
                     THEN "malformed" ELSE "object"
  BY DEF FirstLine
<1>3. type # None /\ type # NotString /\ None # NotString
  BY DataAssumption
<1> SUFFICES ASSUME WholeFor(limit, file)
             PROVE  HeldUnder(version, type, content) = Nothing
  BY DEF Kept
<1>4. /\ content.rest = <<>> /\ content.bytes <= limit
      /\ ~content.overflow
  BY DEF WholeFor
<1> HIDE DEF line, content
<1>5. LineError(line, limit) # None
  BY <1>2, <1>4 DEF Passes, line, content, IsKeepalive, Escapes
<1>6. content.data \in {"missing", "scalar"}
  BY <1>1, <1>2, <1>3, <1>4, <1>5 DEF LineError, Content, DataShapes
<1> QED
  BY <1>6 DEF HeldUnder

(* A line that is no event, and one that is, of a known type.              *)
LEMMA SilentLine ==
    ASSUME TypeOK, NEW line \in FeedLines, ConsumeLine(line),
           ~Passes(line, options.max_line_bytes)
    PROVE  /\ UNCHANGED <<View, versionVars>>
           /\ Reported("error") \subseteq Reported("error")'
           /\ \/ IsKeepalive(line) \/ Escapes(line, options.max_line_bytes)
              \/ cursor.line_no + 1 \in Reported("error")'
<1> DEFINE limit == options.max_line_bytes
           error == LineError(line, limit)
<1>0. heard \in Seq(Diagnostic)
  BY DEF TypeOK, Store!TypeOK
<1>1. CASE IsKeepalive(line) \/ Escapes(line, limit)
  <2>1. KeepAlive \/ Throw
    BY <1>1 DEF ConsumeLine
  <2>2. UNCHANGED <<heard, objectVars, versionVars>>
    BY <2>1 DEF KeepAlive, Throw, storeVars
  <2>3. Reported("error")' = Reported("error")
    BY <2>2 DEF Reported
  <2> QED
    BY <1>1, <2>2, <2>3, SameView
<1>2. CASE ~IsKeepalive(line) /\ ~Escapes(line, limit)
  <2>1. error \in LineErrors
    BY <1>2 DEF Passes, LineError, LineErrors
  <2>2. RejectLine(error)
    BY <1>2 DEF ConsumeLine, Passes
  <2>3. UNCHANGED <<objectVars, versionVars>>
    BY <2>2 DEF RejectLine
  <2> HIDE DEF error
  <2>4. PICK diags : /\ Failure(diags, cursor.line_no + 1)
                     /\ AddDiagnostics(diags)
    BY <2>1, <2>2, RejectReports
  <2>5. Reported("error")' = Reported("error") \cup {cursor.line_no + 1}
    BY <1>0, <2>4, HeardGrows DEF Failure
  <2> QED
    BY <2>3, <2>5, SameView
<1> QED
  BY <1>1, <1>2

LEMMA EventLine ==
    ASSUME TypeOK, NEW line \in FeedLines, ConsumeLine(line),
           Passes(line, options.max_line_bytes), line.type \in Types
    PROVE  LET event == EventOf(line, cursor.line_no + 1)
           IN  /\ resolved_version' = resolved_version \/
                      VersionEvidence(event) # None
               /\ Reported("error") \subseteq Reported("error")'
               /\ \A t \in Types, k \in Keys :
                      View'[t][k] = IF EventWrites(event, t, k)
                                    THEN EventWritten(event, resolved_version', k)
                                    ELSE View[t][k]
<1> DEFINE event == EventOf(line, cursor.line_no + 1)
<1>1. Parsed(event) /\ ApplyEvent(event)
  BY PassingLine
<1>2. event.type = line.type
  BY DEF EventOf
<1> HIDE DEF event
<1>3. Begin(event)
  BY <1>1, <1>2, KnownBegins
<1>4. resolved_version' = VersionFor(event)
  BY <1>3 DEF Begin
<1>5. resolved_version' = resolved_version \/ VersionEvidence(event) # None
  BY <1>4 DEF VersionFor, Detects
<1>6. heard \in Seq(Diagnostic)
  BY DEF TypeOK, Store!TypeOK
<1>7. PICK diags : /\ AddDiagnostics(diags)
                   /\ \/ Warnings(diags, cursor.line_no + 1)
                      \/ Failure(diags, cursor.line_no + 1)
  BY <1>1, EventReports
<1>8. Reported("error") \subseteq Reported("error")'
  BY <1>6, <1>7, HeardGrows DEF Warnings, Failure
<1>9. \A t \in Types, k \in Keys :
          View'[t][k] = IF EventWrites(event, t, k)
                        THEN EventWritten(event, resolved_version', k)
                        ELSE View[t][k]
  BY <1>1, <1>3, <1>4, EventSets
<1> QED
  BY <1>5, <1>8, <1>9 DEF event

(* What has become of the files whose lines are among the first n.         *)
FilesRead(p, at, n, version, limit, view, errors) ==
    /\ \A t \in DOMAIN p.file :
           view[t] = IF t \in DOMAIN at /\ at[t] <= n
                     THEN Kept(version, limit, t, p.file[t]) ELSE Nothing
    /\ \A t \in DOMAIN p.file :
           Spoilt(limit, p.file[t]) /\ at[t] <= n => at[t] \in errors

LEMMA FileRead ==
    ASSUME TypeOK, TypeOK', NEW p \in Packages,
           NEW at \in Places(SyntheticFeed(p), p, Types), ContestFirst(at),
           NEW line \in FeedLines, ConsumeLine(line), ~Lost',
           cursor.line_no + 1 \in DOMAIN SyntheticFeed(p),
           line = SyntheticFeed(p)[cursor.line_no + 1],
           FilesRead(p, at, cursor.line_no, resolved_version,
                     options.max_line_bytes, View, Reported("error"))
    PROVE  FilesRead(p, at, cursor.line_no + 1, resolved_version',
                     options.max_line_bytes, View', Reported("error")')
<1> DEFINE n == cursor.line_no
           limit == options.max_line_bytes
           feed == SyntheticFeed(p)
           errors == Reported("error")
           New(t) == t \in DOMAIN at /\ at[t] = n + 1
           Old(t) == t \in DOMAIN at /\ at[t] <= n
<1>0. /\ n \in Nat /\ limit \in Nat
      /\ feed \in Seq(FeedLines)
  BY OptionsType, SyntheticFeedType DEF TypeOK
<1>1. /\ at \in [Present(p, Types) -> DOMAIN feed]
      /\ \A t \in DOMAIN at : feed[at[t]] = OwnLine(p, t) /\ at[t] \in Nat
      /\ \/ Silent(line)
         \/ \E t \in DOMAIN at : n + 1 = at[t]
  <2>1. \A i \in DOMAIN feed : i \in Nat
    BY <1>0
  <2> HIDE DEF feed
  <2> QED
    BY <2>1 DEF Places, feed
<1>2. /\ DOMAIN p.file = {"contest"} \cup CollectionTypes
      /\ \A t \in DOMAIN p.file : t \in Types /\ t # "state"
      /\ \A t \in DOMAIN p.file : p.file[t] \in File
  <2>1. p \in Package
    BY PackageAssumption
  <2> QED
    BY <2>1, FilesAre DEF Package
<1>3. \A t \in DOMAIN p.file :
          t \in DOMAIN at <=> p.file[t].state = "readable"
  BY <1>1, <1>2 DEF Present
<1>4. \A t \in DOMAIN p.file : Spoilt(limit, p.file[t]) => t \in DOMAIN at
  BY <1>3 DEF Spoilt
<1>5. /\ \A t \in DOMAIN at : at[t] <= n + 1 <=> at[t] <= n \/ at[t] = n + 1
      /\ \A t \in DOMAIN at : at[t] = n + 1 => ~(at[t] <= n)
  BY <1>0, <1>1
<1>6. \A t \in Types : /\ View[t] = [k \in Keys |-> View[t][k]]
                       /\ View'[t] = [k \in Keys |-> View'[t][k]]
  BY DEF View, Store!View, Types, Store!Types, SingletonTypes,
         Store!SingletonTypes
<1>7. /\ \A t \in DOMAIN p.file :
             View[t] = IF Old(t) THEN Kept(resolved_version, limit, t, p.file[t])
                       ELSE Nothing
      /\ \A t \in DOMAIN p.file :
             Spoilt(limit, p.file[t]) /\ at[t] <= n => at[t] \in errors
  BY DEF FilesRead
<1> SUFFICES
      /\ \A t \in DOMAIN p.file :
             View'[t] = IF Old(t) \/ New(t)
                        THEN Kept(resolved_version', limit, t, p.file[t])
                        ELSE Nothing
      /\ \A t \in DOMAIN p.file :
             Spoilt(limit, p.file[t]) /\ (Old(t) \/ New(t))
                 => at[t] \in Reported("error")'
  BY <1>4, <1>5 DEF FilesRead
<1>8. \A t \in DOMAIN p.file :
          New(t) => /\ line = FirstLine(t, p.file[t].content)
                    /\ View[t] = Nothing
  BY <1>1, <1>2, <1>5, <1>7 DEF OwnLine
<1> HIDE DEF feed, n, limit, errors
<1>9. CASE ~Passes(line, limit)
  <2>1. /\ View' = View /\ resolved_version' = resolved_version
        /\ errors \subseteq Reported("error")'
        /\ IsKeepalive(line) \/ n + 1 \in Reported("error")'
    <3>1. ~IsKeepalive(line) => ~Escapes(line, limit)
      BY DEF ConsumeLine, Throw, Lost, limit
    <3> QED
      BY <1>9, <3>1, SilentLine DEF limit, n, errors, versionVars
  <2>2. \A t \in DOMAIN p.file :
            New(t) => /\ Kept(resolved_version', limit, t, p.file[t]) = Nothing
                      /\ ~IsKeepalive(line)
    <3>1. ASSUME NEW t \in DOMAIN p.file, New(t)
          PROVE  Kept(resolved_version', limit, t, p.file[t]) = Nothing
      <4> DEFINE file == p.file[t]
      <4>1. t \in Types /\ file \in File
        BY <1>2
      <4>2. line = FirstLine(t, file.content)
        BY <1>8, <3>1
      <4> HIDE DEF file
      <4>3. ~Passes(FirstLine(t, file.content), limit)
        BY <1>9, <4>2
      <4>4. Kept(resolved_version', limit, t, file) = Nothing
        BY <1>0, <4>1, <4>3, FileRefused
      <4> QED
        BY <4>4 DEF file
    <3>2. ASSUME NEW t \in DOMAIN p.file, New(t)
          PROVE  ~IsKeepalive(line)
      <4> DEFINE content == p.file[t].content
      <4>1. FirstLine(t, content).root \in {"overflow", "malformed", "object"}
        BY DEF FirstLine
      <4>2. line = FirstLine(t, content)
        BY <1>8, <3>2
      <4> HIDE DEF content
      <4> QED
        BY <4>1, <4>2 DEF IsKeepalive
    <3> QED
      BY <3>1, <3>2
  <2> QED
    BY <1>7, <1>8, <2>1, <2>2
<1>10. CASE Passes(line, limit)
  <2>1. PICK s \in DOMAIN at : at[s] = n + 1
    BY <1>0, <1>1, <1>10, SilentIsNoEvent
  <2>2. s \in Types /\ line = OwnLine(p, s) /\ line.type = s
    <3>1. s \in Types
      BY <1>1 DEF Present
    <3>2. line = OwnLine(p, s)
      BY <1>1, <2>1 DEF feed, n
    <3> QED
      BY <3>1, <3>2 DEF OwnLine, StateLine, FirstLine
  <2>3. \A t \in DOMAIN p.file : New(t) => t = s
    BY <1>8, <2>2 DEF FirstLine
  <2> DEFINE event == EventOf(line, n + 1)
  <2>4. event.type = s
    BY <2>2 DEF EventOf
  <2>5. /\ resolved_version' = resolved_version \/ VersionEvidence(event) # None
        /\ errors \subseteq Reported("error")'
        /\ \A t \in Types, k \in Keys :
               View'[t][k] = IF EventWrites(event, t, k)
                             THEN EventWritten(event, resolved_version', k)
                             ELSE View[t][k]
    BY <1>10, <2>2, EventLine DEF limit, n, errors
  <2> HIDE DEF event
  <2>6. ASSUME NEW t \in DOMAIN p.file, t # s
        PROVE  /\ View'[t] = View[t]
               /\ Old(t) => Kept(resolved_version', limit, t, p.file[t])
                                = Kept(resolved_version, limit, t, p.file[t])
    <3>1. \A k \in Keys : View'[t][k] = View[t][k]
      BY <1>2, <2>4, <2>5, <2>6 DEF EventWrites
    <3>2. View'[t] = View[t]
      BY <1>2, <1>6, <3>1
    <3>3. ASSUME Old(t), VersionEvidence(event) # None
          PROVE  t # "clarifications"
      <4>1. s \in {"contest", "clarifications"}
        BY <2>4, <3>3 DEF VersionEvidence
      <4>2. CASE s = "contest"
        <5>1. t \in DOMAIN at \ {"state", "contest"} /\ s \in DOMAIN at
          BY <1>2, <2>1, <2>6, <3>3, <4>2
        <5>2. at[s] < at[t]
          BY <4>2, <5>1 DEF ContestFirst
        <5> QED
          BY <1>0, <1>1, <2>1, <3>3, <5>1, <5>2
      <4> QED
        BY <2>6, <4>1, <4>2
    <3> QED
      BY <2>5, <3>2, <3>3, VersionMatters
  <2>7. ASSUME s \in DOMAIN p.file
        PROVE  /\ View'[s] = Kept(resolved_version', limit, s, p.file[s])
               /\ ~Spoilt(limit, p.file[s])
    <3>1. New(s) /\ p.file[s].state = "readable" /\ p.file[s] \in File
      BY <1>2, <1>3, <2>1, <2>7
    <3>2. line = FirstLine(s, p.file[s].content) /\ View[s] = Nothing
      BY <1>8, <2>7, <3>1
    <3>3. ASSUME NEW k \in Keys
          PROVE  /\ ~Spoilt(limit, p.file[s])
                 /\ Kept(resolved_version', limit, s, p.file[s])[k] =
                        IF EventWrites(event, s, k)
                        THEN EventWritten(event, resolved_version', k) ELSE None
      <4> DEFINE file == p.file[s]
                 version == resolved_version'
                 m == n + 1
      <4>1. /\ Passes(FirstLine(s, file.content), limit)
            /\ event = EventOf(FirstLine(s, file.content), m)
        BY <1>10, <3>2 DEF event
      <4>2. file \in File /\ file.state = "readable"
        BY <3>1
      <4>3. s \in Types /\ limit \in Nat
        BY <1>0, <2>2
      <4> HIDE DEF file, version, m
      <4>4. /\ ~Spoilt(limit, file)
            /\ Kept(version, limit, s, file)[k] =
                   IF EventWrites(event, s, k)
                   THEN EventWritten(event, version, k) ELSE None
        BY <4>1, <4>2, <4>3, FileWrites
      <4> QED
        BY <4>4 DEF file, version
    <3>4. \A k \in Keys :
              View'[s][k] = Kept(resolved_version', limit, s, p.file[s])[k]
      BY <2>2, <2>5, <3>2, <3>3 DEF Nothing
    <3>5. Kept(resolved_version', limit, s, p.file[s]) =
              [k \in Keys |->
                   Kept(resolved_version', limit, s, p.file[s])[k]]
      BY DEF Kept, HeldUnder, Nothing, StoreProofs!CollectionOf
    <3>6. "" \in Keys
      BY DEF Keys
    <3> QED
      BY <1>6, <2>2, <3>3, <3>4, <3>5, <3>6
  <2>8. ASSUME NEW t \in DOMAIN p.file
        PROVE  /\ View'[t] = IF Old(t) \/ New(t)
                             THEN Kept(resolved_version', limit, t, p.file[t])
                             ELSE Nothing
               /\ Spoilt(limit, p.file[t]) /\ (Old(t) \/ New(t))
                      => at[t] \in Reported("error")'
    <3>1. CASE t = s
      BY <2>1, <2>7, <2>8, <3>1
    <3>2. CASE t # s
      BY <1>4, <1>7, <2>3, <2>5, <2>6, <3>2
    <3> QED
      BY <3>1, <3>2
  <2> QED
    BY <2>8
<1> QED
  BY <1>9, <1>10

(* Of a package whose files are being read, what the lines read so far     *)
(* make of them.                                                           *)
FilesInv ==
    /\ pc = "opening" => package = None /\ \A t \in Types : View[t] = Nothing
    /\ package # None =>
           \/ /\ package \in Packages
              /\ input = SyntheticFeed(package)
              /\ FilesRead(package, PlacesOf(package), cursor.line_no,
                           resolved_version, options.max_line_bytes,
                           View, Reported("error"))
           \/ package.feed.state # "absent"
           \/ pc = "done" /\ result # "kOk"

LEMMA FilesInit == PackageInit => FilesInv
<1> SUFFICES ASSUME Init
             PROVE  \A t \in Types : View[t] = Nothing
  BY DEF PackageInit, ParserInit, FilesInv
<1> QED
  BY DEF Init, Store!Init, View, Store!View, Store!GetObject, Store!NoObjects,
         Store!Types, Store!SingletonTypes, Types, SingletonTypes, Nothing

LEMMA FilesOpened ==
    ASSUME ParserInv, FilesInv, NEW p \in Packages, ParsePackageDirectory(p)
    PROVE  FilesInv'
<1>1. pc = "opening" /\ UNCHANGED vars /\ package' = p /\ pc' # "opening"
  BY DEF ParsePackageDirectory, Open, FailToOpen
<1>2. CASE p.feed.state # "absent"
  BY <1>1, <1>2 DEF FilesInv
<1>3. CASE pc' = "done" /\ result' # "kOk"
  BY <1>1, <1>3 DEF FilesInv
<1>4. CASE p.feed.state = "absent" /\ ~(pc' = "done" /\ result' # "kOk")
  <2>1. input' = SyntheticFeed(p)
    BY <1>4 DEF ParsePackageDirectory, Open, FailToOpen
  <2> DEFINE at == PlacesOf(p)
  <2>2. \A t \in DOMAIN at : ~(at[t] <= 0)
    <3>1. at \in [Present(p, Types) -> DOMAIN SyntheticFeed(p)]
      BY FeedPlaces DEF Places
    <3>2. DOMAIN SyntheticFeed(p) = 1..Len(SyntheticFeed(p))
      BY SyntheticFeedType
    <3>3. Len(SyntheticFeed(p)) \in Nat
      BY SyntheticFeedType
    <3> HIDE DEF at
    <3> QED
      BY <3>1, <3>2, <3>3
  <2>3. \A t \in DOMAIN p.file : t \in Types
    BY FilesAre
  <2>4. \A t \in DOMAIN p.file :
            Spoilt(options.max_line_bytes, p.file[t]) => t \in DOMAIN at
    BY <2>3, FeedPlaces DEF Places, Present, Spoilt
  <2>5. cursor.line_no = 0 /\ \A t \in Types : View[t] = Nothing
    BY <1>1 DEF ParserInv, FilesInv
  <2>6. /\ UNCHANGED <<cursor, resolved_version, options>>
        /\ View' = View /\ Reported("error")' = Reported("error")
    BY <1>1, SameView
       DEF vars, sessionVars, storeVars, versionVars, Reported
  <2> HIDE DEF at
  <2>7. FilesRead(p, at, 0, resolved_version, options.max_line_bytes,
                  View, Reported("error"))
    BY <2>2, <2>3, <2>4, <2>5 DEF FilesRead
  <2> QED
    BY <1>1, <2>1, <2>5, <2>6, <2>7 DEF FilesInv, at
<1> QED
  BY <1>2, <1>3, <1>4

LEMMA FilesKept ==
    ASSUME ParserInv, FilesInv, ReadLine, UNCHANGED package, TypeOK'
    PROVE  FilesInv'
<1> DEFINE n == cursor.line_no
           line == input[n + 1]
<1>1. /\ pc = "reading" /\ n \in Nat /\ n < Len(input)
      /\ taken = n /\ ConsumeLine(line) /\ input' = input
      /\ input \in Seq(FeedLines) /\ Len(input) \in Nat /\ TypeOK
  BY DEF ReadLine, ParserInv, TypeOK
<1>2. line \in FeedLines /\ n + 1 \in DOMAIN input
  BY <1>1
<1>3. cursor'.line_no = n + 1 /\ options' = options
  BY <1>1, <1>2, LineHeard
<1>4. /\ pc' # "opening"
      /\ Lost' => pc' = "done" /\ result' # "kOk"
  BY <1>1 DEF ReadLine, Lost
<1> HIDE DEF n, line
<1>5. CASE package # None /\ package.feed.state = "absent" /\ ~Lost'
  <2> DEFINE at == PlacesOf(package)
  <2>1. /\ package \in Packages /\ input = SyntheticFeed(package)
        /\ FilesRead(package, at, n, resolved_version, options.max_line_bytes,
                     View, Reported("error"))
    BY <1>1, <1>5 DEF FilesInv, n
  <2>2. /\ at \in Places(SyntheticFeed(package), package, Types)
        /\ ContestFirst(at)
    BY <2>1, FeedPlaces
  <2> HIDE DEF at
  <2>3. FilesRead(package, at, n + 1, resolved_version', options.max_line_bytes,
                  View', Reported("error")')
    BY <1>1, <1>2, <1>5, <2>1, <2>2, FileRead DEF n, line
  <2> QED
    BY <1>1, <1>3, <1>4, <2>1, <2>3 DEF FilesInv, at
<1>6. CASE package = None \/ package.feed.state # "absent" \/ Lost'
  BY <1>4, <1>6 DEF FilesInv
<1> QED
  BY <1>5, <1>6

LEMMA FilesStay ==
    ASSUME FilesInv, UNCHANGED package,
           \/ \E stream, status : Open(stream) \/ FailToOpen(status)
           \/ EndOfStream \/ BuildResult \/ UNCHANGED packageVars
    PROVE  FilesInv'
<1>1. UNCHANGED <<options, cursor, resolved_version, heard, objectVars>>
  BY DEF Open, FailToOpen, EndOfStream, BuildResult, Finish, packageVars,
         allVars, vars, sessionVars, storeVars, versionVars
<1>2. View' = View /\ Reported("error")' = Reported("error")
  BY <1>1, SameView DEF Reported
<1>3. CASE \E stream, status : Open(stream) \/ FailToOpen(status)
  <2>1. pc = "opening" /\ pc' # "opening"
    BY <1>3 DEF Open, FailToOpen
  <2> QED
    BY <2>1 DEF FilesInv
<1>4. CASE EndOfStream \/ BuildResult \/ UNCHANGED packageVars
  <2>1. /\ input' = input
        /\ pc' = "opening" => pc = "opening"
        /\ pc = "done" => pc' = "done" /\ result' = result
    BY <1>4 DEF EndOfStream, BuildResult, packageVars, allVars, parserVars
  <2> QED
    BY <1>1, <1>2, <2>1 DEF FilesInv
<1> QED
  BY <1>3, <1>4

(* At the end every line has been read.                                    *)
LEMMA FilesAtEnd ==
    ASSUME ParserInv, FilesInv
    PROVE  PackageIsItsFiles
<1> SUFFICES ASSUME pc = "done", result = "kOk", package # None,
                    package.feed.state = "absent", taken = Len(input)
             PROVE  LET p == package
                        lost == {t \in DOMAIN p.file :
                                    /\ p.file[t].state = "readable"
                                    /\ \/ ~Whole(p.file[t])
                                       \/ p.file[t].content.data = "missing"}
                    IN  /\ \A type \in DOMAIN p.file :
                               View[type] = IF Whole(p.file[type])
                                            THEN Held(type, p.file[type].content)
                                            ELSE [id \in Keys |-> None]
                        /\ Cardinality(Reported("error")) >= Cardinality(lost)
  BY DEF PackageIsItsFiles
<1> DEFINE p == package
           limit == options.max_line_bytes
           at == PlacesOf(p)
           n == cursor.line_no
           lost == {t \in DOMAIN p.file : Spoilt(limit, p.file[t])}
<1>1. /\ p \in Packages /\ input = SyntheticFeed(p) /\ n = Len(input)
      /\ FilesRead(p, at, n, resolved_version, limit, View, Reported("error"))
  BY DEF FilesInv, ParserInv
<1>2. \A file : WholeFor(limit, file) <=> Whole(file)
  BY DEF WholeFor, Whole
<1>3. \A type, content :
          HeldUnder(resolved_version, type, content) = Held(type, content)
  BY DEF HeldUnder, Held, Nothing, Store!CollectionOf, StoreProofs!CollectionOf
<1>4. at \in [Present(p, Types) -> 1..n]
  <2>1. DOMAIN SyntheticFeed(p) = 1..n
    BY <1>1, SyntheticFeedType
  <2> QED
    BY <1>1, <2>1, FeedPlaces DEF Places
<1>5. n \in Nat /\ heard \in Seq(Diagnostic) /\ HeardOfLinesConsumed
  BY DEF ParserInv, TypeOK, Store!TypeOK
<1> HIDE DEF at, n
<1>6. \A t \in DOMAIN at : at[t] <= n
  BY <1>4, <1>5
<1>7. \A t \in DOMAIN p.file :
          t \in DOMAIN at <=> p.file[t].state = "readable"
  BY <1>1, <1>4, FilesAre DEF Present
<1>8. ASSUME NEW t \in DOMAIN p.file
      PROVE  View[t] = IF Whole(p.file[t]) THEN Held(t, p.file[t].content)
                       ELSE Nothing
  <2>1. View[t] = IF t \in DOMAIN at
                  THEN Kept(resolved_version, limit, t, p.file[t]) ELSE Nothing
    BY <1>1, <1>6 DEF FilesRead
  <2>2. t \notin DOMAIN at => ~Whole(p.file[t])
    BY <1>7 DEF Whole
  <2> QED
    BY <1>2, <1>3, <2>1, <2>2 DEF Kept
<1>9. Cardinality(Reported("error")) >= Cardinality(lost)
  <2> DEFINE reported == Reported("error")
             f == [t \in lost |-> at[t]]
  <2>1. IsFiniteSet(reported)
    <3>1. reported \subseteq 0..n
      <4>1. \A i \in DOMAIN heard : heard[i].line_no \in Nat
        BY <1>5, LinesAreNumbers
      <4>2. \A i \in DOMAIN heard : heard[i].line_no \in 0..n
        BY <1>5, <4>1 DEF HeardOfLinesConsumed, n
      <4> QED
        BY <4>2 DEF Reported
    <3>2. IsFiniteSet(0..n)
      BY <1>5, FS_Interval
    <3> QED
      BY <3>1, <3>2, FS_Subset
  <2>2. \A t \in lost : t \in DOMAIN at /\ at[t] \in reported
    BY <1>1, <1>6, <1>7 DEF FilesRead, Spoilt
  <2>3. ASSUME NEW s \in lost, NEW t \in lost, at[s] = at[t]
        PROVE  s = t
    <3>1. \A r \in DOMAIN at : SyntheticFeed(p)[at[r]] = OwnLine(p, r)
      BY <1>1, <1>4, FeedPlaces DEF Places, at
    <3>2. s # "state" /\ t # "state"
      BY <1>1, FilesAre
    <3>3. /\ OwnLine(p, s) = FirstLine(s, p.file[s].content)
          /\ OwnLine(p, t) = FirstLine(t, p.file[t].content)
      BY <3>2 DEF OwnLine
    <3>4. /\ FirstLine(s, p.file[s].content).type = s
          /\ FirstLine(t, p.file[t].content).type = t
      BY DEF FirstLine
    <3> QED
      BY <2>2, <2>3, <3>1, <3>3, <3>4
  <2> HIDE DEF lost, reported
  <2>4. f \in Injection(lost, reported)
    BY <2>2, <2>3 DEF Injection, IsInjective
  <2>5. Cardinality(lost) <= Cardinality(reported) /\ IsFiniteSet(lost)
    BY <2>1, <2>4, FS_Injection
  <2>6. Cardinality(lost) \in Nat /\ Cardinality(reported) \in Nat
    BY <2>1, <2>5, FS_CardinalityType
  <2> QED
    BY <2>5, <2>6 DEF reported
<1>10. lost = {t \in DOMAIN p.file :
                  /\ p.file[t].state = "readable"
                  /\ \/ ~Whole(p.file[t])
                     \/ p.file[t].content.data = "missing"}
  BY <1>2 DEF Spoilt
<1> QED
  BY <1>8, <1>9, <1>10 DEF Nothing

LEMMA FilesStep ==
    ASSUME ParserInv, FilesInv, [PackageNext]_packageVars
    PROVE  FilesInv'
<1>1. TypeOK'
  BY ParserStep DEF ParserInv
<1>2. ASSUME NEW p \in Packages, ParsePackageDirectory(p)
      PROVE  FilesInv'
  BY <1>2, FilesOpened
<1>3. CASE ParserNext /\ UNCHANGED package
  <2>1. ASSUME NEW stream \in Inputs, OpenFile(stream) \/ DownloadFeed(stream)
        PROVE  FilesInv'
    BY <1>3, <2>1, FilesStay DEF OpenFile, DownloadFeed
  <2> QED
    BY <1>1, <1>3, <2>1, FilesKept, FilesStay DEF ParserNext
<1>4. CASE UNCHANGED packageVars
  BY <1>4, FilesStay DEF packageVars
<1> QED
  BY <1>2, <1>3, <1>4 DEF PackageNext

(* A directory without an event feed is parsed to what its files hold,     *)
(* under the version its contest speaks for; a file that is broken over    *)
(* lines, too long or no JSON costs its own objects only and is reported:  *)
(* for every package, every text behind the first line break of a file,    *)
(* every policy and every limit.                                           *)
THEOREM PackagesAreTheirFiles == PackageSpec => []PackageIsItsFiles
<1>1. ParserInv /\ FilesInv /\ [PackageNext]_packageVars
          => ParserInv' /\ FilesInv'
  BY ParserStep, FilesStep
<1> QED
  BY <1>1, ParserInit0, FilesInit, FilesAtEnd, PTL DEF PackageSpec

=============================================================================
