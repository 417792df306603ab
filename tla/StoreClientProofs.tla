------------------------- MODULE StoreClientProofs -------------------------
(***************************************************************************)
(* Theorems about a store driven by any caller, for any types, keys and    *)
(* objects and for every value of the bounds.                              *)
(***************************************************************************)
EXTENDS StoreClient, ContestStoreProofs

(* Each kind of mutation, as the store's lemmas take it.                   *)
LEMMA MutationPreserves ==
    ASSUME ObjectsOK, Mutate
    PROVE  ObjectsOK' /\ (mirror = View => mirror' = View')
<1>1. ASSUME NEW t \in Types, NEW k \in Keys, NEW o \in Objects,
             ApplyUpsert(t, k, o)
      PROVE  ObjectsOK' /\ (mirror = View => mirror' = View')
  BY <1>1, ApplyUpsertType, ApplyUpsertAgrees
<1>2. ASSUME NEW t \in Types, NEW k \in Keys, ApplyDelete(t, k)
      PROVE  ObjectsOK' /\ (mirror = View => mirror' = View')
  BY <1>2, ApplyDeleteType, ApplyDeleteAgrees
<1>3. ASSUME NEW t \in Types, NEW o \in Objects, ApplySingletonUpdate(t, o)
      PROVE  ObjectsOK' /\ (mirror = View => mirror' = View')
  <2>1. o.id \in Keys
    BY StoreAssumption
  <2> QED
    BY <1>1, <1>3, <2>1 DEF ApplySingletonUpdate
<1>4. ASSUME NEW t \in Types, NEW n \in 0..MaxElements,
             NEW objs \in [1..n -> Objects], ApplyCollectionReplace(t, objs)
      PROVE  ObjectsOK' /\ (mirror = View => mirror' = View')
  <2>1. objs \in Seq(Objects)
    BY ClientAssumption
  <2> QED
    BY <1>4, <2>1, ApplyCollectionReplaceType, ApplyCollectionReplaceAgrees
<1> QED
  BY <1>1, <1>2, <1>3, <1>4 DEF Mutate

(* The store's variables, and those of its client, keep their types.       *)
THEOREM ClientTypeCorrect == Spec => []ClientTypeOK
<1>1. ClientInit => ClientTypeOK
  <2>1. Init => ObjectsOK
    BY DEF Init, ObjectsOK, NoObjects
  <2>2. Init => TypeOK
    BY <2>1 DEF Init, TypeOK
  <2>3. NoCheckpoint \in [index : Nat, log : Seq(LogEvents)]
    BY DEF NoCheckpoint
  <2> QED
    BY <2>2, <2>3 DEF ClientInit, ClientTypeOK
<1>2. ClientTypeOK /\ [Next]_vars => ClientTypeOK'
  <2> SUFFICES ASSUME ClientTypeOK, [Next]_vars
               PROVE  ClientTypeOK'
    OBVIOUS
  <2> USE DEF ClientTypeOK, TypeOK
  <2>1. CASE Mutate
    <3>1. UNCHANGED <<event_log, heard, clientVars>>
      BY <2>1 DEF Mutate
    <3>2. ObjectsOK'
      BY <2>1, MutationPreserves
    <3> QED
      BY <3>1, <3>2 DEF clientVars
  <2>2. CASE Record
    BY <2>2 DEF Record, RecordEvent, objectVars, clientVars, ObjectsOK
  <2>3. CASE Notify
    <3>1. PICK d \in Diagnostics : heard' = heard \o <<d>>
      BY <2>3 DEF Notify, NotifyDiagnostics
    <3> QED
      BY <2>3, <3>1 DEF Notify, objectVars, clientVars, ObjectsOK
  <2>4. CASE TakeCheckpoint
    <3>1. TypeOK' /\ rolled_back' = rolled_back
      BY <2>4 DEF TakeCheckpoint, storeVars, objectVars, ObjectsOK
    <3>2. held' \in [index : Nat, log : Seq(LogEvents)] /\ overtaken' = FALSE
      BY <2>4 DEF TakeCheckpoint, CreateCheckpoint
    <3> QED
      BY <3>1, <3>2
  <2>5. CASE RollBack
    <3>1. PICK index \in 0..held.index :
              \/ /\ Rollback(index)
                 /\ overtaken' = (overtaken \/ index < held.index)
                 /\ rolled_back' = TRUE
                 /\ UNCHANGED held
              \/ RejectedRollback(index) /\ UNCHANGED clientVars
      BY <2>5 DEF RollBack
    <3>2. CASE Rollback(index)
      <4>1. event_log' \in Seq(LogEvents)
        BY <3>2 DEF Rollback
      <4>2. ObjectsOK'
        BY <3>2 DEF Rollback, ObjectsOK, NoObjects
      <4> QED
        BY <3>1, <3>2, <4>1, <4>2
           DEF Rollback, RejectedRollback, clientVars
    <3>3. CASE RejectedRollback(index)
      BY <3>1, <3>3
         DEF RejectedRollback, Rollback, clientVars, storeVars, objectVars,
             ObjectsOK
    <3> QED
      BY <3>1, <3>2, <3>3
  <2>6. CASE UNCHANGED vars
    BY <2>6 DEF vars, clientVars, storeVars, objectVars, ObjectsOK
  <2> QED
    BY <2>1, <2>2, <2>3, <2>4, <2>5, <2>6 DEF Next
<1> QED
  BY <1>1, <1>2, PTL DEF Spec

(* Until the first rollback the observer's copy is what GetObject returns. *)
THEOREM ObserverIsTold == Spec => []ObserverAgrees
<1>1. ClientInit => ObserverAgrees
  BY DEF ClientInit, Init, ObserverAgrees, View, GetObject, NoObjects, Types
<1>2. ClientTypeOK /\ ObserverAgrees /\ [Next]_vars => ObserverAgrees'
  <2> SUFFICES ASSUME ClientTypeOK, ObserverAgrees, [Next]_vars,
                      ~rolled_back'
               PROVE  mirror' = View'
    BY DEF ObserverAgrees
  <2>1. ASSUME UNCHANGED <<objectVars, rolled_back>>
        PROVE  mirror' = View'
    BY <2>1 DEF ObserverAgrees, View, GetObject, objectVars
  <2>2. CASE Mutate
    BY <2>2, MutationPreserves
       DEF Mutate, ClientTypeOK, TypeOK, ObserverAgrees, clientVars
  <2>3. CASE Record \/ Notify \/ TakeCheckpoint \/ UNCHANGED vars
    BY <2>1, <2>3
       DEF Record, Notify, TakeCheckpoint, vars, clientVars, storeVars
  <2>4. CASE RollBack
    BY <2>1, <2>4 DEF RollBack, RejectedRollback, clientVars, storeVars
  <2> QED
    BY <2>2, <2>3, <2>4 DEF Next
<1> QED
  BY <1>1, <1>2, ClientTypeCorrect, PTL DEF Spec

(* A prefix of a sequence is a prefix of everything appended to it, and of *)
(* every longer prefix.                                                    *)
LEMMA PrefixOfAppend ==
    ASSUME NEW S, NEW s \in Seq(S), NEW e \in S, NEW n \in 0..Len(s)
    PROVE  SubSeq(Append(s, e), 1, n) = SubSeq(s, 1, n)
OBVIOUS

(* A checkpoint no rollback went below keeps naming the log it was taken   *)
(* from.                                                                   *)
THEOREM CheckpointIsKept == Spec => []CheckpointKeepsItsLog
<1>1. ClientInit => CheckpointKeepsItsLog
  BY DEF ClientInit, Init, CheckpointKeepsItsLog, NoCheckpoint
<1>2. ClientTypeOK /\ CheckpointKeepsItsLog /\ [Next]_vars
          => CheckpointKeepsItsLog'
  <2> SUFFICES ASSUME ClientTypeOK, CheckpointKeepsItsLog, [Next]_vars,
                      ~overtaken'
               PROVE  /\ held.index' <= Len(event_log')
                      /\ SubSeq(event_log', 1, held.index') = held.log'
    BY DEF CheckpointKeepsItsLog
  <2> DEFINE Goal == /\ held.index' <= Len(event_log')
                     /\ SubSeq(event_log', 1, held.index') = held.log'
  <2>0. /\ event_log \in Seq(LogEvents)
        /\ held \in [index : Nat, log : Seq(LogEvents)]
    BY DEF ClientTypeOK, TypeOK
  <2>1. ASSUME UNCHANGED <<event_log, held, overtaken>>
        PROVE  Goal
    BY <2>1 DEF CheckpointKeepsItsLog
  <2>2. CASE Mutate \/ Notify \/ UNCHANGED vars
    BY <2>1, <2>2 DEF Mutate, Notify, vars, clientVars, storeVars
  <2>3. CASE Record
    <3>1. PICK e \in LogEvents : event_log' = Append(event_log, e)
      BY <2>3 DEF Record, RecordEvent
    <3>2. held' = held /\ ~overtaken
      BY <2>3 DEF Record, clientVars
    <3>3. held.index \in 0..Len(event_log)
      BY <2>0, <3>2 DEF CheckpointKeepsItsLog
    <3>4. SubSeq(event_log', 1, held.index) = SubSeq(event_log, 1, held.index)
      BY <2>0, <3>1, <3>3, PrefixOfAppend
    <3> QED
      BY <2>0, <3>1, <3>2, <3>3, <3>4 DEF CheckpointKeepsItsLog
  <2>4. CASE TakeCheckpoint
    <3>1. held' = [index |-> Len(event_log), log |-> event_log]
          /\ event_log' = event_log
      BY <2>4 DEF TakeCheckpoint, CreateCheckpoint, storeVars
    <3> QED
      BY <2>0, <3>1
  <2>5. CASE RollBack
    <3>1. PICK index \in 0..held.index :
              \/ /\ Rollback(index)
                 /\ overtaken' = (overtaken \/ index < held.index)
                 /\ UNCHANGED held
              \/ RejectedRollback(index) /\ UNCHANGED clientVars
      BY <2>5 DEF RollBack
    <3>2. CASE RejectedRollback(index) /\ UNCHANGED clientVars
      BY <2>1, <3>2 DEF RejectedRollback, clientVars, storeVars
    <3>3. CASE /\ Rollback(index)
               /\ overtaken' = (overtaken \/ index < held.index)
               /\ UNCHANGED held
      <4>0. ~overtaken /\ ~(index < held.index)
        BY <3>3, Zenon
      <4>1. index = held.index /\ ~overtaken
        BY <2>0, <4>0
      <4>2. event_log' = held.log /\ held.index <= Len(event_log)
        BY <3>3, <4>1 DEF Rollback, CheckpointKeepsItsLog
      <4>3. Len(held.log) = held.index
        BY <2>0, <4>1, <4>2 DEF CheckpointKeepsItsLog
      <4> QED
        BY <2>0, <3>3, <4>2, <4>3
    <3> QED
      BY <3>1, <3>2, <3>3
  <2> QED
    BY <2>2, <2>3, <2>4, <2>5 DEF Next
<1> QED
  BY <1>1, <1>2, ClientTypeCorrect, PTL DEF Spec
-----------------------------------------------------------------------------
(* Refinement                                                              *)

LEMMA TableTypes ==
    /\ Table!Types = Types
    /\ SingletonTypes \subseteq Types /\ CollectionTypes \subseteq Types
    /\ \A t \in Types : t \in CollectionTypes <=> t \notin SingletonTypes
BY StoreAssumption DEF Table!Types, Types, SingletonTypes

(* What readers see when a singleton, an entry, or a whole collection is   *)
(* written, as a step of the abstract table.                               *)
LEMMA SetSingletonStep ==
    ASSUME ObjectsOK, NEW t \in SingletonTypes,
           NEW obj \in Objects \cup {None}, NEW id \in Keys,
           View' = [View EXCEPT ![t] = [k \in Keys |-> obj]]
    PROVE  Table!SetSingleton
<1>1. View \in [Types -> [Keys -> Objects \cup {None}]] /\ t \in Types
  BY ViewType, TableTypes
<1>2. View'[t] = [k \in Keys |-> obj]
  BY <1>1
<1>3. View'[t][id] = obj
  BY <1>2
<1>4. View' = [View EXCEPT ![t] = View'[t]]
  BY <1>2
<1>5. View'[t] = [i \in Keys |-> View'[t][id]]
  BY <1>2, <1>3
<1>6. View'[t][id] \in Objects \cup {None}
  BY <1>3
<1> QED
  BY <1>4, <1>5, <1>6, Zenon DEF Table!SetSingleton, Table!OnlyType

LEMMA PutStep ==
    ASSUME ObjectsOK, NEW t \in CollectionTypes, NEW id \in Keys,
           NEW obj \in Objects,
           View' = [View EXCEPT ![t] = [@ EXCEPT ![id] = obj]]
    PROVE  Table!Put
<1>1. View \in [Types -> [Keys -> Objects \cup {None}]] /\ t \in Types
  BY ViewType, TableTypes
<1>2. View'[t][id] = obj
  BY <1>1
<1>3. View' = [View EXCEPT ![t][id] = View'[t][id]]
  BY <1>2
<1>4. View'[t][id] \in Objects
  BY <1>2
<1> QED
  BY <1>3, <1>4, Zenon DEF Table!Put

LEMMA RemoveStep ==
    ASSUME ObjectsOK, NEW t \in CollectionTypes, NEW id \in Keys,
           View[t][id] # None,
           View' = [View EXCEPT ![t] = [@ EXCEPT ![id] = None]]
    PROVE  Table!Remove
BY DEF Table!Remove

LEMMA ReplaceStep ==
    ASSUME ObjectsOK, NEW t \in CollectionTypes,
           NEW row \in [Keys -> Objects \cup {None}],
           \A k \in Keys : row[k] # None => row[k].id = k,
           View' = [View EXCEPT ![t] = row]
    PROVE  Table!Replace
<1>1. View \in [Types -> [Keys -> Objects \cup {None}]] /\ t \in Types
  BY ViewType, TableTypes
<1>2. View'[t] = row
  BY <1>1
<1> QED
  BY <1>2 DEF Table!Replace, Table!OnlyType

LEMMA UpsertIsTableStep ==
    ASSUME ObjectsOK, NEW t \in Types, NEW id \in Keys, NEW obj \in Objects,
           ApplyUpsert(t, id, obj)
    PROVE  Table!Next
<1>1. CASE t \in SingletonTypes
  <2>1. View' = [View EXCEPT ![t] = [k \in Keys |-> obj]]
    BY <1>1, SingletonSeen DEF ApplyUpsert
  <2> QED
    BY <1>1, <2>1, SetSingletonStep DEF Table!Next
<1>2. CASE t \notin SingletonTypes
  <2>1. View' = [View EXCEPT ![t] = [@ EXCEPT ![id] = obj]]
    BY <1>2, EntrySeen DEF ApplyUpsert
  <2> QED
    BY <1>2, <2>1, PutStep, TableTypes DEF Table!Next
<1> QED
  BY <1>1, <1>2

LEMMA DeleteIsTableStep ==
    ASSUME ObjectsOK, NEW t \in Types, NEW id \in Keys, ApplyDelete(t, id)
    PROVE  Table!Next \/ View' = View
<1>1. CASE t \in SingletonTypes
  <2>1. View' = [View EXCEPT ![t] = [k \in Keys |-> None]]
    BY <1>1, SingletonSeen DEF ApplyDelete
  <2> QED
    BY <1>1, <2>1, SetSingletonStep DEF Table!Next
<1>2. CASE t \notin SingletonTypes /\ collections[t][id] = None
  BY <1>2 DEF ApplyDelete, View, GetObject
<1>3. CASE t \notin SingletonTypes /\ collections[t][id] # None
  <2>1. View' = [View EXCEPT ![t] = [@ EXCEPT ![id] = None]]
    BY <1>3, EntrySeen DEF ApplyDelete
  <2>2. View[t][id] # None
    BY <1>3 DEF View, GetObject
  <2> QED
    BY <1>3, <2>1, <2>2, RemoveStep, TableTypes DEF Table!Next
<1> QED
  BY <1>1, <1>2, <1>3

LEMMA ReplacementIsTableStep ==
    ASSUME ObjectsOK, NEW t \in Types, NEW objs \in Seq(Objects),
           ApplyCollectionReplace(t, objs)
    PROVE  Table!Next \/ View' = View
<1>1. View' = IF t \in SingletonTypes THEN View
              ELSE [View EXCEPT ![t] = CollectionOf(objs)]
  BY CollectionOfType, ReplacementSeen DEF ApplyCollectionReplace
<1> QED
  BY <1>1, CollectionOfType, ReplaceStep, TableTypes DEF Table!Next

(* Every call of the store is a step of the table its readers see, or      *)
(* changes nothing they see: the store implements ObjectTable.             *)
THEOREM StoreIsATable == Spec => ImplementsTable
<1>1. ClientInit => Table!Init
  BY TableTypes
     DEF ClientInit, Init, Table!Init, Table!Empty, View, GetObject,
         NoObjects, Types
<1>2. ClientTypeOK /\ [Next]_vars => [Table!Next]_View
  <2> SUFFICES ASSUME ClientTypeOK, [Next]_vars
               PROVE  Table!Next \/ View' = View
    OBVIOUS
  <2>0. ObjectsOK
    BY DEF ClientTypeOK, TypeOK
  <2>1. ASSUME UNCHANGED objectVars
        PROVE  View' = View
    BY <2>1 DEF View, GetObject, objectVars
  <2>2. ASSUME NEW t \in Types, NEW k \in Keys, NEW o \in Objects,
               ApplyUpsert(t, k, o)
        PROVE  Table!Next \/ View' = View
    BY <2>0, <2>2, UpsertIsTableStep
  <2>3. ASSUME NEW t \in Types, NEW k \in Keys, ApplyDelete(t, k)
        PROVE  Table!Next \/ View' = View
    BY <2>0, <2>3, DeleteIsTableStep
  <2>4. ASSUME NEW t \in Types, NEW o \in Objects, ApplySingletonUpdate(t, o)
        PROVE  Table!Next \/ View' = View
    <3>1. o.id \in Keys
      BY StoreAssumption
    <3> QED
      BY <2>2, <2>4, <3>1 DEF ApplySingletonUpdate
  <2>5. ASSUME NEW t \in Types, NEW n \in 0..MaxElements,
               NEW objs \in [1..n -> Objects], ApplyCollectionReplace(t, objs)
        PROVE  Table!Next \/ View' = View
    <3>1. objs \in Seq(Objects)
      BY ClientAssumption
    <3> QED
      BY <2>0, <2>5, <3>1, ReplacementIsTableStep
  <2>6. CASE Mutate
    BY <2>2, <2>3, <2>4, <2>5, <2>6 DEF Mutate
  <2>7. CASE Record \/ Notify \/ TakeCheckpoint \/ UNCHANGED vars
    BY <2>1, <2>7 DEF Record, Notify, TakeCheckpoint, vars, storeVars
  <2>8. CASE RollBack
    <3>1. PICK index : Rollback(index) \/ RejectedRollback(index)
      BY <2>8 DEF RollBack
    <3>2. CASE Rollback(index)
      BY <3>2, TableTypes
         DEF Rollback, Table!Next, Table!Clear, Table!Empty, View, GetObject,
             NoObjects, Types
    <3>3. CASE RejectedRollback(index)
      BY <2>1, <3>3 DEF RejectedRollback, storeVars
    <3> QED
      BY <3>1, <3>2, <3>3
  <2> QED
    BY <2>6, <2>7, <2>8 DEF Next
<1> QED
  BY <1>1, <1>2, ClientTypeCorrect, PTL DEF Spec, ImplementsTable, Table!Spec

=============================================================================
