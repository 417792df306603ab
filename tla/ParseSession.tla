---------------------------- MODULE ParseSession ----------------------------
(***************************************************************************)
(* StreamingParseSession: a feed consumed line by line into a store.  One  *)
(* call of ConsumeLine is one step; it parses the line, applies its event  *)
(* to the store, reports what went wrong and keeps the cursor, the version *)
(* of the API and the count of consecutive errors.                         *)
(***************************************************************************)
EXTENDS NdjsonLineParser, VersionProfile

CONSTANTS
    Lines,      \* the lines a feed may contain
    OptionSet,  \* the ParseOptions a session may be created with
    MaxLines    \* bound on the number of lines consumed

Options == [version                : Versions \cup {"kAuto"},
            error_policy           : {"kContinue", "kFailFast"},
            unknown_type_policy    : {"kWarnAndIgnore", "kPreserveRaw", "kError"},
            keep_event_log         : BOOLEAN,
            max_line_bytes         : Nat,
            max_diagnostics        : Nat,
            max_consecutive_errors : Nat]

(* A line carries documents as its data says, one for an object and any    *)
(* number for an array, and the text of a JSON object is not empty.        *)
WellFormed(line) ==
    /\ line.data = "object" => Len(line.docs) = 1
    /\ line.root = "object" => line.bytes > 0

ASSUME SessionAssumption ==
    /\ Lines \subseteq Line
    /\ \A line \in Lines : WellFormed(line)
    /\ OptionSet \subseteq Options
    /\ MaxLines \in Nat

VARIABLES
    options,             \* ParseOptions of the session
    cursor,              \* EventCursor
    diagnostics,         \* the diagnostics kept
    resolved_version,    \* the version whose profile decodes
    version_detected,
    consecutive_errors,
    finished,
    returned,            \* the status the last call returned
    singletons, collections, event_log, event_count, mirror, heard

versionVars == <<resolved_version, version_detected>>
objectVars == <<singletons, collections, event_count, mirror>>
storeVars == <<objectVars, event_log, heard>>
sessionVars == <<options, cursor, diagnostics, versionVars,
                 consecutive_errors, finished, returned>>
vars == <<sessionVars, storeVars>>

Codes == LineErrors \cup
    {"kUnknownEventType", "kDeleteUnknownObject", "kInvalidTime",
     "kInvalidObjectShape", "kMaxConsecutiveErrorsExceeded"}

Diagnostic == [severity : {"warning", "error"}, code : Codes, line_no : Nat]

Store == INSTANCE ContestStore
             WITH Objects <- Object, LogEvents <- Event,
                  Diagnostics <- Diagnostic

View == Store!View

(* What a call returns, or that it threw.                                  *)
Statuses == {"kOk", "kParseError", "kLimitExceeded", "kFailedPrecondition",
             "threw"}

TypeOK ==
    /\ options \in OptionSet
    /\ cursor \in [line_no : Nat, event_count : Nat,
                   last_token : Tokens \cup {None},
                   last_event_id : Keys \cup {None},
                   end_of_updates : BOOLEAN]
    /\ diagnostics \in Seq(Diagnostic)
    /\ resolved_version \in Versions
    /\ version_detected \in BOOLEAN
    /\ consecutive_errors \in Nat
    /\ finished \in BOOLEAN
    /\ returned \in Statuses
    /\ Store!TypeOK

(* CreateStreamingSession: until a version is detected, kAuto decodes with *)
(* the 2023-06 profile.                                                    *)
Init ==
    /\ options \in OptionSet
    /\ cursor = [line_no |-> 0, event_count |-> 0, last_token |-> None,
                 last_event_id |-> None, end_of_updates |-> FALSE]
    /\ diagnostics = <<>>
    /\ resolved_version = IF options.version = "kAuto" THEN "2023-06"
                          ELSE options.version
    /\ version_detected = (options.version # "kAuto")
    /\ consecutive_errors = 0
    /\ finished = FALSE
    /\ returned = "kOk"
    /\ Store!Init

-----------------------------------------------------------------------------
(* Diagnostics                                                             *)

Error(code, line_no) ==
    [severity |-> "error", code |-> code, line_no |-> line_no]

Warning(code, line_no) ==
    [severity |-> "warning", code |-> code, line_no |-> line_no]

(* A slip: the cap is tested after the push.                               *)
CappedLate(diags) ==
    SubSeq(diags, 1, IF Len(diags) <= options.max_diagnostics
                     THEN Len(diags) ELSE options.max_diagnostics + 1)

Capped(diags) ==
    SubSeq(diags, 1, IF Len(diags) <= options.max_diagnostics
                     THEN Len(diags) ELSE options.max_diagnostics)

(* Observers hear every diagnostic; the session keeps the first ones.      *)
AddDiagnostics(diags) ==
    /\ Store!NotifyDiagnostics(diags)
    /\ diagnostics' = Capped(diagnostics \o diags)

(* The warnings of an event's decoders, document by document.              *)
DecoderWarnings(event) ==
    [i \in 1..WarningsOf(event.docs)
        |-> Warning("kInvalidTime", event.line_no)]

-----------------------------------------------------------------------------
(* The three ways a call of ConsumeLine ends                               *)

LimitReached == consecutive_errors + 1 >= options.max_consecutive_errors

(* A slip: fail-fast is looked at before the limit.                        *)
ReturnFailFastFirst(status) ==
    /\ consecutive_errors' = consecutive_errors + 1
    /\ returned' = IF options.error_policy = "kFailFast" THEN status
                   ELSE IF LimitReached THEN "kLimitExceeded"
                   ELSE "kOk"

(* An error is returned only at the limit or in fail-fast mode.            *)
ReturnError(status) ==
    /\ consecutive_errors' = consecutive_errors + 1
    /\ returned' = IF LimitReached THEN "kLimitExceeded"
                   ELSE IF options.error_policy = "kFailFast" THEN status
                   ELSE "kOk"

ReturnOk ==
    /\ consecutive_errors' = 0
    /\ returned' = "kOk"

(* A line that is no event: only the line number moves.                    *)
RejectLine(code) ==
    LET line_no == cursor.line_no + 1
    IN  /\ ReturnError("kParseError")
        /\ cursor' = [cursor EXCEPT !.line_no = line_no]
        /\ AddDiagnostics(<<Error(code, line_no)>> \o
               IF LimitReached
               THEN <<Error("kMaxConsecutiveErrorsExceeded", line_no)>>
               ELSE <<>>)
        /\ UNCHANGED <<options, versionVars, finished, objectVars, event_log>>

(* Slips: a blank line does not end a run of errors, or is not counted.    *)
KeepAliveKeepsRun ==
    /\ returned' = "kOk"
    /\ cursor' = [cursor EXCEPT !.line_no = @ + 1]
    /\ UNCHANGED <<options, diagnostics, versionVars, consecutive_errors,
                   finished, storeVars>>

KeepAliveUncounted ==
    /\ ReturnOk
    /\ UNCHANGED <<options, cursor, diagnostics, versionVars, finished,
                   storeVars>>

KeepAlive ==
    /\ ReturnOk
    /\ cursor' = [cursor EXCEPT !.line_no = @ + 1]
    /\ UNCHANGED <<options, diagnostics, versionVars, finished, storeVars>>

(* An exception leaves the call after the line was counted.                *)
Throw ==
    /\ cursor' = [cursor EXCEPT !.line_no = @ + 1]
    /\ returned' = "threw"
    /\ UNCHANGED <<options, diagnostics, versionVars, consecutive_errors,
                   finished, storeVars>>

(* An applied event, with the warnings met on the way.                     *)
Commit(warnings) == ReturnOk /\ AddDiagnostics(warnings)

(* An event that fails to apply: reported as kInvalidObjectShape, and not  *)
(* as kMaxConsecutiveErrorsExceeded when it reaches the limit.             *)
FailEvent(event, warnings) ==
    /\ ReturnError("kParseError")
    /\ AddDiagnostics(warnings \o
                      <<Error("kInvalidObjectShape", event.line_no)>>)
    /\ UNCHANGED objectVars

-----------------------------------------------------------------------------
(* ApplyEvent                                                              *)

(* A slip: the position is left to whoever rejects lines.                  *)
AdvanceWithoutPosition(event, end_of_updates) ==
    cursor' = [cursor EXCEPT !.event_count = @ + 1]

(* A slip: the last event decides whether updates have ended.              *)
AdvanceAndForget(event, end_of_updates) ==
    cursor' = [line_no        |-> event.line_no,
               event_count    |-> cursor.event_count + 1,
               last_token     |-> IF event.token = None
                                  THEN cursor.last_token ELSE event.token,
               last_event_id  |-> IF event.id = None
                                  THEN cursor.last_event_id ELSE event.id,
               end_of_updates |-> end_of_updates]

(* The cursor takes position, token and id of the event before it is known *)
(* whether the event can be applied.                                       *)
AdvanceCursor(event, end_of_updates) ==
    cursor' = [line_no        |-> event.line_no,
               event_count    |-> cursor.event_count + 1,
               last_token     |-> IF event.token = None
                                  THEN cursor.last_token ELSE event.token,
               last_event_id  |-> IF event.id = None
                                  THEN cursor.last_event_id ELSE event.id,
               end_of_updates |-> cursor.end_of_updates \/ end_of_updates]

(* An event of unknown type is neither logged nor used for detection.      *)
IgnoreUnknownType(event) ==
    LET warnings == <<Warning("kUnknownEventType", event.line_no)>>
    IN  /\ event.type = UnknownType
        /\ AdvanceCursor(event, FALSE)
        /\ IF options.unknown_type_policy = "kError"
           THEN FailEvent(event, warnings)
           ELSE Commit(warnings) /\ UNCHANGED objectVars
        /\ UNCHANGED <<options, versionVars, finished, event_log>>

(* A slip: every piece of evidence is followed.                            *)
DetectsAgain(event) ==
    /\ options.version = "kAuto"
    /\ VersionEvidence(event) # None

(* The version in force for the event, after the detection it may trigger. *)
Detects(event) ==
    /\ options.version = "kAuto"
    /\ ~version_detected
    /\ VersionEvidence(event) # None

VersionFor(event) ==
    IF Detects(event) THEN VersionEvidence(event) ELSE resolved_version

(* What precedes the application of every event of a known type.           *)
Begin(event) ==
    /\ event.type \in Types
    /\ resolved_version' = VersionFor(event)
    /\ version_detected' = (version_detected \/ Detects(event))
    /\ IF options.keep_event_log THEN Store!RecordEvent(event)
       ELSE UNCHANGED event_log
    /\ UNCHANGED <<options, finished>>

ApplyDelete(event) ==
    /\ event.shape = "delete"
    /\ Begin(event)
    /\ AdvanceCursor(event, FALSE)
    /\ Store!ApplyDelete(event.type, event.id)
    /\ Commit(IF Store!GetObject(event.type, event.id) = None
              THEN <<Warning("kDeleteUnknownObject", event.line_no)>>
              ELSE <<>>)

(* A slip: the profile is read before detection replaces it.               *)
ApplyUnderOldProfile(event) ==
    /\ event.shape = "single"
    /\ Begin(event)
    /\ AdvanceCursor(event, FALSE)
    /\ Store!ApplyUpsert(event.type, event.id,
           DecodeObject(resolved_version, event.type, event.docs[1]))
    /\ Commit(DecoderWarnings(event))

(* The object is filed under the id of the event, not under its own.       *)
ApplySingleObject(event) ==
    /\ event.shape = "single"
    /\ Begin(event)
    /\ AdvanceCursor(event, FALSE)
    /\ Store!ApplyUpsert(event.type, event.id,
           DecodeObject(VersionFor(event), event.type, event.docs[1]))
    /\ Commit(DecoderWarnings(event))

(* A slip: the elements that decode are applied though one does not.       *)
ReplaceByWhatDecodes(event) ==
    LET good == SelectSeq(event.docs, LAMBDA doc : doc.id # None)
    IN  /\ event.shape = "collection"
        /\ Begin(event)
        /\ AdvanceCursor(event, FALSE)
        /\ Store!ApplyCollectionReplace(event.type,
               DecodeCollection(VersionFor(event), event.type, good))
        /\ IF CollectionDecodes(event.docs)
           THEN Commit(DecoderWarnings(event))
           ELSE /\ ReturnError("kParseError")
                /\ AddDiagnostics(
                       <<Error("kInvalidObjectShape", event.line_no)>>)

ApplyCollectionReplace(event) ==
    /\ event.shape = "collection"
    /\ Begin(event)
    /\ AdvanceCursor(event, FALSE)
    /\ IF CollectionDecodes(event.docs)
       THEN /\ Store!ApplyCollectionReplace(event.type,
                  DecodeCollection(VersionFor(event), event.type, event.docs))
            /\ Commit(DecoderWarnings(event))
       ELSE FailEvent(event, <<>>)

(* Also reached by an event of a collection type that has no id.           *)
ApplySingletonUpdate(event) ==
    LET obj == DecodeObject(VersionFor(event), event.type, event.docs[1])
    IN  /\ event.shape = "singleton"
        /\ Begin(event)
        /\ AdvanceCursor(event, event.type = "state" /\ obj.eou)
        /\ Store!ApplySingletonUpdate(event.type, obj)
        /\ Commit(DecoderWarnings(event))

ApplyEvent(event) ==
    \/ IgnoreUnknownType(event)
    \/ ApplyDelete(event)
    \/ ApplySingleObject(event)
    \/ ApplyCollectionReplace(event)
    \/ ApplySingletonUpdate(event)

-----------------------------------------------------------------------------
(* The public operations                                                   *)

ConsumeLine(line) ==
    LET error == LineError(line, options.max_line_bytes)
    IN  /\ ~finished
        /\ cursor.line_no < MaxLines
        /\ IF IsKeepalive(line)  THEN KeepAlive
           ELSE IF Escapes(line, options.max_line_bytes) THEN Throw
           ELSE IF error # None THEN RejectLine(error)
           ELSE ApplyEvent(EventOf(line, cursor.line_no + 1))

ConsumeAfterFinish ==
    /\ finished
    /\ returned' = "kFailedPrecondition"
    /\ UNCHANGED <<options, cursor, diagnostics, versionVars,
                   consecutive_errors, finished, storeVars>>

Finish ==
    /\ finished' = TRUE
    /\ returned' = "kOk"
    /\ UNCHANGED <<options, cursor, diagnostics, versionVars,
                   consecutive_errors, storeVars>>

(* The callers of a session let an exception through and lose the session. *)
Lost == returned = "threw"

Next ==
    /\ ~Lost
    /\ \/ \E line \in Lines : ConsumeLine(line)
       \/ ConsumeAfterFinish
       \/ Finish

Spec == Init /\ [][Next]_vars

=============================================================================
