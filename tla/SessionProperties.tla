------------------------- MODULE SessionProperties -------------------------
(***************************************************************************)
(* What a streaming session guarantees, and how its parts agree: the       *)
(* cursor, the diagnostics, the error count, the log, the version and the  *)
(* objects are updated in different places of the code on every line.      *)
(***************************************************************************)
EXTENDS ParseSession

Reported(severity) ==
    {heard[i].line_no :
        i \in {j \in DOMAIN heard : heard[j].severity = severity}}

Count(code) == Cardinality({i \in DOMAIN heard : heard[i].code = code})

(* The count of consecutive errors is the length of the unbroken run of    *)
(* lines, up to the last one consumed, for which an error was reported: no *)
(* error is counted without a report, no success leaves the count standing,*)
(* and a line that is both parsed and failed is counted once.              *)
ErrorRunIsReported ==
    LET first == cursor.line_no - consecutive_errors
    IN  ~Lost =>
        /\ first >= 0
        /\ first + 1 .. cursor.line_no \subseteq Reported("error")
        /\ first \notin Reported("error")

(* ConsumeLine returns kLimitExceeded exactly when the run of errors has   *)
(* reached max_consecutive_errors, before and instead of the error that    *)
(* fail-fast mode returns, and returns kOk for an error only in            *)
(* kContinue mode below the limit.                                         *)
ReturnTellsTheRun ==
    ~finished /\ ~Lost =>
        returned =
            IF consecutive_errors = 0 THEN "kOk"
            ELSE IF consecutive_errors >= options.max_consecutive_errors
            THEN "kLimitExceeded"
            ELSE IF options.error_policy = "kFailFast" THEN "kParseError"
            ELSE "kOk"

(* Every event that passed the line parser is accounted for exactly once:  *)
(* ignored for its unknown type, refused because it does not decode, or    *)
(* applied to the store; and the log has all those of a known type.        *)
EventsAccountedFor ==
    LET unknown == Count("kUnknownEventType")
        failed  == Count("kInvalidObjectShape")
        refused == IF options.unknown_type_policy = "kError"
                   THEN failed - unknown ELSE failed
    IN  /\ event_count = cursor.event_count - unknown - refused
        /\ Len(event_log) = IF options.keep_event_log
                            THEN cursor.event_count - unknown ELSE 0

(* The log holds events of the feed in the order they arrived, each once:  *)
(* their line numbers grow and stay within the lines consumed.             *)
LogInFeedOrder ==
    /\ \A i \in DOMAIN event_log : event_log[i].line_no \in 1..cursor.line_no
    /\ \A i, j \in DOMAIN event_log :
           i < j => event_log[i].line_no < event_log[j].line_no

(* An automatic session decodes with 2023-06 until the first event that    *)
(* speaks for a version, and with that event's version for good; later     *)
(* evidence, agreeing or not, changes nothing.  A session of an explicit   *)
(* version never leaves it.                                                *)
VersionFromFirstEvidence ==
    LET evidence == {i \in DOMAIN event_log :
                         VersionEvidence(event_log[i]) # None}
    IN  IF options.version # "kAuto"
        THEN resolved_version = options.version /\ version_detected
        ELSE options.keep_event_log =>
             /\ version_detected = (evidence # {})
             /\ \/ evidence = {} /\ resolved_version = "2023-06"
                \/ \E i \in evidence :
                       /\ \A j \in evidence : i <= j
                       /\ resolved_version = VersionEvidence(event_log[i])

(* The version in force when the i-th logged event was decoded.            *)
VersionAt(i) ==
    LET evidence == {j \in 1..i : VersionEvidence(event_log[j]) # None}
    IN  IF options.version # "kAuto" THEN options.version
        ELSE IF evidence = {} THEN "2023-06"
        ELSE VersionEvidence(event_log[CHOOSE j \in evidence :
                                           \A m \in evidence : j <= m])

(* The object the i-th logged event gives for document number d.           *)
Decoded(i, d) ==
    DecodeObject(VersionAt(i), event_log[i].type, event_log[i].docs[d])

(* The i-th logged event decides what GetObject(type, id) returns.         *)
Writes(i, type, id) ==
    LET event == event_log[i]
    IN  /\ event.type = type
        /\ \/ type \in SingletonTypes /\ event.shape # "collection"
           \/ /\ type \in CollectionTypes
              /\ \/ event.shape \in {"delete", "single"} /\ event.id = id
                 \/ event.shape = "singleton" /\ Decoded(i, 1).id = id
                 \/ event.shape = "collection" /\ CollectionDecodes(event.docs)

(* What it returns then: the last document with that id, if any.           *)
Written(i, id) ==
    LET event == event_log[i]
        named == {d \in DOMAIN event.docs : event.docs[d].id = id}
    IN  IF event.shape = "delete" THEN None
        ELSE IF event.shape # "collection" THEN Decoded(i, 1)
        ELSE IF named = {} THEN None
        ELSE Decoded(i, CHOOSE d \in named : \A e \in named : e <= d)

(* The objects are what the log says, no more and no less: GetObject       *)
(* returns what the last logged event that concerns the type and id wrote, *)
(* decoded under the version the log had established by then.  This is     *)
(* what makes a replay of the log into a new session a restoration.        *)
ObjectsFollowLog ==
    options.keep_event_log =>
        \A type \in Types, id \in Keys :
            LET writers == {i \in DOMAIN event_log : Writes(i, type, id)}
            IN  IF writers = {} THEN View[type][id] = None
                ELSE \E last \in writers :
                         /\ \A i \in writers : i <= last
                         /\ View[type][id] = Written(last, id)

(* The cursor says that updates have ended from the first state that says  *)
(* so on, whatever states follow or are deleted; a state that is sent with *)
(* an id never ends the updates.                                           *)
EndOfUpdatesIsKept ==
    LET Ends(event) == /\ event.type = "state"
                       /\ event.shape = "singleton"
                       /\ event.docs[1].eou
    IN  options.keep_event_log =>
            cursor.end_of_updates = \E i \in DOMAIN event_log : Ends(event_log[i])

(* The diagnostics kept are the first max_diagnostics of those observers   *)
(* heard, in the same order: none is lost below the cap, none enters above.*)
DiagnosticsAreFirstHeard ==
    /\ Len(diagnostics) <= Len(heard)
    /\ \A i \in DOMAIN diagnostics : diagnostics[i] = heard[i]
    /\ \/ Len(diagnostics) = options.max_diagnostics
       \/ diagnostics = heard

(* An observer that acts only on its notifications agrees with the store   *)
(* after every line.                                                       *)
ObserverAgrees == mirror = View

Feed == INSTANCE AtomicFeed
            WITH table <- View, line_no <- cursor.line_no,
                 run <- consecutive_errors, open <- ~finished /\ ~Lost,
                 Objects <- Object

(* Every line is committed with at most one change of one type's objects,  *)
(* or discarded with none (docs/architecture.md, "Error Recovery Model"),  *)
(* or costs the caller the session.                                        *)
ImplementsAtomicFeed == Feed!Spec

=============================================================================
