---------------------------- MODULE StoreClient ----------------------------
(***************************************************************************)
(* A ContestStore driven through its whole interface by any caller: the    *)
(* parsers through the mutation calls, and an application through          *)
(* mutable_store(), which takes checkpoints and rolls back to them.        *)
(***************************************************************************)
EXTENDS ContestStore

CONSTANTS
    MaxCount,    \* bound on event_count
    MaxLog,      \* bound on the length of event_log
    MaxHeard,    \* bound on the length of heard
    MaxElements  \* bound on the size of a replacing collection

ASSUME ClientAssumption ==
    /\ MaxCount \in Nat /\ MaxLog \in Nat
    /\ MaxHeard \in Nat /\ MaxElements \in Nat

VARIABLES
    held,        \* the checkpoint the application holds, with the log then
    overtaken,   \* a rollback went below the held checkpoint
    rolled_back  \* the store has been rolled back at least once

clientVars == <<held, overtaken, rolled_back>>
vars == <<storeVars, clientVars>>

NoCheckpoint == [index |-> 0, log |-> <<>>]

ClientTypeOK ==
    /\ TypeOK
    /\ held \in [index : Nat, log : Seq(LogEvents)]
    /\ overtaken \in BOOLEAN
    /\ rolled_back \in BOOLEAN

ClientInit ==
    /\ Init
    /\ held = NoCheckpoint
    /\ overtaken = FALSE
    /\ rolled_back = FALSE

(* One of the four calls that change objects.                              *)
Mutate ==
    /\ event_count < MaxCount
    /\ \/ \E t \in Types, k \in Keys, o \in Objects : ApplyUpsert(t, k, o)
       \/ \E t \in Types, k \in Keys : ApplyDelete(t, k)
       \/ \E t \in Types, o \in Objects : ApplySingletonUpdate(t, o)
       \/ \E t \in Types, n \in 0..MaxElements :
              \E objs \in [1..n -> Objects] : ApplyCollectionReplace(t, objs)
    /\ UNCHANGED <<event_log, heard, clientVars>>

Record ==
    /\ Len(event_log) < MaxLog
    /\ \E e \in LogEvents : RecordEvent(e)
    /\ UNCHANGED <<objectVars, heard, clientVars>>

Notify ==
    /\ Len(heard) < MaxHeard
    /\ \E d \in Diagnostics : NotifyDiagnostics(<<d>>)
    /\ UNCHANGED <<objectVars, event_log, clientVars>>

TakeCheckpoint ==
    /\ held' = [index |-> CreateCheckpoint, log |-> event_log]
    /\ overtaken' = FALSE
    /\ UNCHANGED <<storeVars, rolled_back>>

(* The application may roll back to the checkpoint it holds or to any      *)
(* earlier one.                                                            *)
RollBack ==
    \E index \in 0..held.index :
        \/ /\ Rollback(index)
           /\ overtaken' = (overtaken \/ index < held.index)
           /\ rolled_back' = TRUE
           /\ UNCHANGED held
        \/ RejectedRollback(index) /\ UNCHANGED clientVars

Next == Mutate \/ Record \/ Notify \/ TakeCheckpoint \/ RollBack

Spec == ClientInit /\ [][Next]_vars

-----------------------------------------------------------------------------
(* As long as nothing was rolled back, an observer that acts only on its   *)
(* notifications agrees with GetObject on every type and id: no operation  *)
(* changes an object silently, and none announces a change it did not make.*)
ObserverAgrees == ~rolled_back => mirror = View

(* A checkpoint no rollback went below still names the log it was taken    *)
(* from, whatever was recorded since, so Rollback accepts it and restores  *)
(* exactly that log.                                                       *)
CheckpointKeepsItsLog ==
    ~overtaken => /\ held.index <= Len(event_log)
                  /\ SubSeq(event_log, 1, held.index) = held.log

Table == INSTANCE ObjectTable WITH table <- View

(* Through GetObject the store is a table of objects: every call has the   *)
(* effect on all types and ids that ObjectTable allows, and no other.      *)
ImplementsTable == Table!Spec

=============================================================================
