------------------------ MODULE CheckpointedSession ------------------------
(***************************************************************************)
(* A session whose application takes a checkpoint, rolls the store back to *)
(* it through mutable_store() and then restores the objects by re-feeding  *)
(* the events left in the log through the same session, as README.md and   *)
(* docs/architecture.md describe.                                          *)
(***************************************************************************)
EXTENDS SessionProperties

CONSTANT MaxFed  \* bound on the lines consumed before the rollback

ASSUME CheckpointAssumption == MaxFed \in Nat

VARIABLES
    held,     \* the checkpoint, with what the store held when it was taken
    phase,    \* "live", then "refeeding", then "restored"
    pending   \* the events still to be re-fed

clientVars == <<held, phase, pending>>

Taken == [index |-> Store!CreateCheckpoint, view |-> View,
          log |-> event_log, count |-> event_count]

ClientInit ==
    /\ Init
    /\ held = Taken
    /\ phase = "live"
    /\ pending = <<>>

Live ==
    /\ phase = "live"
    /\ cursor.line_no < MaxFed
    /\ \E line \in Lines : ConsumeLine(line)
    /\ UNCHANGED clientVars

TakeCheckpoint ==
    /\ phase = "live"
    /\ held' = Taken
    /\ UNCHANGED <<vars, phase, pending>>

(* A slip: the cursor goes back on the end of updates.                     *)
RollBackReopens ==
    /\ phase = "live"
    /\ Store!Rollback(held.index)
    /\ phase' = "refeeding"
    /\ pending' = event_log'
    /\ cursor' = [cursor EXCEPT !.end_of_updates = FALSE]
    /\ UNCHANGED <<options, diagnostics, versionVars, consecutive_errors,
                   finished, returned, held>>

(* Only the store goes back; cursor, version, diagnostics and error count  *)
(* of the session stay.                                                    *)
RollBack ==
    /\ phase = "live"
    /\ Store!Rollback(held.index)
    /\ phase' = "refeeding"
    /\ pending' = event_log'
    /\ UNCHANGED <<sessionVars, held>>

(* The line a client makes of a logged event, from raw_line or from its    *)
(* parts.  data_json of a delete is "{}", its null having become an empty  *)
(* object: the client goes by the shape of the event and sends null.       *)
LineOf(event) ==
    [root |-> "object", bytes |-> 1, type |-> event.type, id |-> event.id,
     token |-> event.token,
     data |-> CASE event.shape = "delete" -> "null"
                [] event.shape = "collection" -> "array"
                [] OTHER -> "object",
     docs |-> event.docs]

Refeed ==
    /\ phase = "refeeding"
    /\ pending # <<>>
    /\ ConsumeLine(LineOf(Head(pending)))
    /\ pending' = Tail(pending)
    /\ UNCHANGED <<held, phase>>

Restored ==
    /\ phase = "refeeding"
    /\ pending = <<>>
    /\ phase' = "restored"
    /\ UNCHANGED <<vars, held, pending>>

ClientNext == Live \/ TakeCheckpoint \/ RollBack \/ Refeed \/ Restored

ClientSpec == ClientInit /\ [][ClientNext]_<<vars, clientVars>>

-----------------------------------------------------------------------------
(* A rollback, and the re-feeding after it, leave what the session tells   *)
(* its caller in force: the diagnostics are still the first ones heard,    *)
(* the status that of the run of errors, updates that ended with an event  *)
(* left in the log have ended, and the log is in the order of line numbers.*)
SessionOutlivesRollback ==
    LET Ends(event) == /\ event.type = "state"
                       /\ event.shape = "singleton"
                       /\ event.docs[1].eou
    IN  /\ DiagnosticsAreFirstHeard
        /\ ReturnTellsTheRun
        /\ LogInFeedOrder
        /\ (\E i \in DOMAIN event_log : Ends(event_log[i]))
               => cursor.end_of_updates

(* Re-feeding the log restores the objects and the count of events of the  *)
(* checkpoint when the session was given an explicit version and keeps the *)
(* log: refused events are refused again, and each event finds the objects *)
(* it found the first time.                                                *)
ExplicitVersionRestored ==
    /\ phase = "restored"
    /\ options.version # "kAuto"
    /\ options.keep_event_log
    => View = held.view /\ event_count = held.count

(* Re-feeding records every event a second time behind the log it was      *)
(* taken from: the log then has the checkpoint's events twice, in the same *)
(* order, and differs in the line numbers alone.                           *)
RefedLogRepeats ==
    LET Body(event) == [event EXCEPT !.line_no = 0]
    IN  phase = "restored" =>
        /\ Len(event_log) = 2 * held.index
        /\ SubSeq(event_log, 1, held.index) = held.log
        /\ \A i \in DOMAIN held.log :
               Body(event_log[held.index + i]) = Body(held.log[i])

=============================================================================
