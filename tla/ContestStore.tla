---------------------------- MODULE ContestStore ----------------------------
(***************************************************************************)
(* ContestStore: the current objects of a contest, the log of events, and  *)
(* the observers told of every change.                                     *)
(*                                                                         *)
(* One observer is registered from the start.  It keeps a copy of what     *)
(* GetObject returns, updated only from the notifications it receives; on  *)
(* OnCollectionReplaced, which carries no objects, it lists the type anew. *)
(*                                                                         *)
(* Every action assigns only the variables its operation touches, so that  *)
(* a caller can make several calls in one step: the Apply* operations      *)
(* objectVars, RecordEvent event_log, NotifyDiagnostic heard.              *)
(***************************************************************************)
EXTENDS Naturals, Sequences

CONSTANTS
    CollectionTypes,  \* types stored by id
    Keys,             \* ids
    Objects,          \* decoded objects, records with a field id
    LogEvents,        \* what RecordEvent may be given
    Diagnostics,      \* what NotifyDiagnostic may be given
    None              \* nullptr: no object

ASSUME StoreAssumption ==
    /\ {"contest", "state"} \cap CollectionTypes = {}
    /\ None \notin Objects
    /\ \A o \in Objects : o.id \in Keys

VARIABLES
    singletons,   \* the contest and state pointers
    collections,  \* collections[type][id]
    event_log,    \* events recorded for checkpoints
    event_count,  \* operations applied since the last rollback
    mirror,       \* the observer's copy of GetObject
    heard         \* the diagnostics the observer received

objectVars == <<singletons, collections, event_count, mirror>>
storeVars  == <<objectVars, event_log, heard>>

SingletonTypes == {"contest", "state"}
Types == SingletonTypes \cup CollectionTypes

GetObject(type, id) ==
    IF type \in SingletonTypes THEN singletons[type] ELSE collections[type][id]

(* What readers of the store see.                                          *)
View == [t \in Types |-> [k \in Keys |-> GetObject(t, k)]]

ObjectsOK ==
    /\ singletons \in [SingletonTypes -> Objects \cup {None}]
    /\ collections \in [Types -> [Keys -> Objects \cup {None}]]
    /\ event_count \in Nat
    /\ mirror \in [Types -> [Keys -> Objects \cup {None}]]

TypeOK ==
    /\ ObjectsOK
    /\ event_log \in Seq(LogEvents)
    /\ heard \in Seq(Diagnostics)

NoObjects == [t \in Types |-> [k \in Keys |-> None]]

Init ==
    /\ singletons = [t \in SingletonTypes |-> None]
    /\ collections = NoObjects
    /\ event_log = <<>>
    /\ event_count = 0
    /\ mirror = NoObjects
    /\ heard = <<>>

(* OnObjectUpserted and OnObjectDeleted as the observer acts on them: a    *)
(* singleton has one place whatever id comes with it.                      *)
Mirrored(type, id, obj) ==
    [mirror EXCEPT ![type] = IF type \in SingletonTypes
                             THEN [k \in Keys |-> obj]
                             ELSE [@ EXCEPT ![id] = obj]]

ApplyUpsert(type, id, obj) ==
    /\ IF type \in SingletonTypes
       THEN /\ singletons' = [singletons EXCEPT ![type] = obj]
            /\ UNCHANGED collections
       ELSE /\ collections' = [collections EXCEPT ![type][id] = obj]
            /\ UNCHANGED singletons
    /\ mirror' = Mirrored(type, id, obj)
    /\ event_count' = event_count + 1

(* Slips: a missing member is not counted; a singleton is reset without a  *)
(* notification.                                                           *)
DeleteSkipsMissing(type, id) ==
    IF GetObject(type, id) = None THEN UNCHANGED objectVars
    ELSE /\ event_count' = event_count + 1
         /\ IF type \in SingletonTypes
            THEN /\ singletons' = [singletons EXCEPT ![type] = None]
                 /\ UNCHANGED collections
            ELSE /\ collections' = [collections EXCEPT ![type][id] = None]
                 /\ UNCHANGED singletons
         /\ mirror' = Mirrored(type, id, None)

DeleteSilently(type, id) ==
    /\ event_count' = event_count + 1
    /\ IF type \in SingletonTypes
       THEN /\ singletons' = [singletons EXCEPT ![type] = None]
            /\ UNCHANGED collections
       ELSE /\ collections' = [collections EXCEPT ![type][id] = None]
            /\ UNCHANGED singletons
    /\ UNCHANGED mirror

(* Resetting a singleton is announced even when there was none; deleting   *)
(* an unknown member of a collection is only counted.                      *)
ApplyDelete(type, id) ==
    /\ event_count' = event_count + 1
    /\ IF type \in SingletonTypes
       THEN /\ singletons' = [singletons EXCEPT ![type] = None]
            /\ mirror' = Mirrored(type, id, None)
            /\ UNCHANGED collections
       ELSE IF collections[type][id] = None
       THEN UNCHANGED <<singletons, collections, mirror>>
       ELSE /\ collections' = [collections EXCEPT ![type][id] = None]
            /\ mirror' = Mirrored(type, id, None)
            /\ UNCHANGED singletons

(* The collection that holds objs, each under its own id; of two objects   *)
(* with one id the later stays.                                            *)
CollectionOf(objs) ==
    [k \in Keys |->
        LET Last(i) == /\ objs[i].id = k
                       /\ \A j \in DOMAIN objs : i < j => objs[j].id # k
        IN  IF \E i \in DOMAIN objs : Last(i)
            THEN objs[CHOOSE i \in DOMAIN objs : Last(i)]
            ELSE None]

(* A slip: observers are called before the map is swapped.                 *)
ReplaceNotifiesEarly(type, objs) ==
    /\ collections' = [collections EXCEPT ![type] = CollectionOf(objs)]
    /\ event_count' = event_count + 1
    /\ UNCHANGED <<singletons, mirror>>

(* Also reached with a singleton type: the entries then lie where neither  *)
(* GetObject nor ListObjects looks.                                        *)
ApplyCollectionReplace(type, objs) ==
    /\ collections' = [collections EXCEPT ![type] = CollectionOf(objs)]
    /\ mirror' = IF type \in SingletonTypes
                 THEN Mirrored(type, "", singletons[type])
                 ELSE [mirror EXCEPT ![type] = CollectionOf(objs)]
    /\ event_count' = event_count + 1
    /\ UNCHANGED singletons

ApplySingletonUpdate(type, obj) == ApplyUpsert(type, obj.id, obj)

RecordEvent(event) == event_log' = Append(event_log, event)

NotifyDiagnostics(diags) == heard' = heard \o diags

CreateCheckpoint == Len(event_log)

(* Slips: the event at the checkpoint is cut too; the typed singletons, or *)
(* the map, are overlooked.                                                *)
RollbackCutsOneMore(checkpoint) ==
    /\ checkpoint <= Len(event_log)
    /\ event_log' = SubSeq(event_log, 1, checkpoint - 1)
    /\ singletons' = [t \in SingletonTypes |-> None]
    /\ collections' = NoObjects
    /\ event_count' = 0
    /\ UNCHANGED <<mirror, heard>>

RollbackKeepsSingletons(checkpoint) ==
    /\ checkpoint <= Len(event_log)
    /\ event_log' = SubSeq(event_log, 1, checkpoint)
    /\ collections' = NoObjects
    /\ event_count' = 0
    /\ UNCHANGED <<singletons, mirror, heard>>

RollbackKeepsCollections(checkpoint) ==
    /\ checkpoint <= Len(event_log)
    /\ event_log' = SubSeq(event_log, 1, checkpoint)
    /\ singletons' = [t \in SingletonTypes |-> None]
    /\ event_count' = 0
    /\ UNCHANGED <<collections, mirror, heard>>

(* Truncates the log and clears the objects.  No observer is told.         *)
Rollback(checkpoint) ==
    /\ checkpoint <= Len(event_log)
    /\ event_log' = SubSeq(event_log, 1, checkpoint)
    /\ singletons' = [t \in SingletonTypes |-> None]
    /\ collections' = NoObjects
    /\ event_count' = 0
    /\ UNCHANGED <<mirror, heard>>

RejectedRollback(checkpoint) ==
    /\ checkpoint > Len(event_log)
    /\ UNCHANGED storeVars

=============================================================================
