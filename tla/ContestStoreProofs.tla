------------------------- MODULE ContestStoreProofs -------------------------
(***************************************************************************)
(* What every operation of the store preserves, for any objects and keys:  *)
(* the types of its objects and the agreement of its observers.            *)
(***************************************************************************)
EXTENDS ContestStore, SequenceTheorems, TLAPS

(* Writing one entry, or one row, of a table keeps it a table.             *)
LEMMA PutType ==
    ASSUME NEW T, NEW K, NEW V, NEW f \in [T -> [K -> V]],
           NEW t \in T, NEW k \in K, NEW v \in V
    PROVE  [f EXCEPT ![t][k] = v] \in [T -> [K -> V]]
<1>1. [f[t] EXCEPT ![k] = v] \in [K -> V]
  OBVIOUS
<1> QED
  BY <1>1

LEMMA PutRowType ==
    ASSUME NEW T, NEW K, NEW V, NEW f \in [T -> [K -> V]],
           NEW t \in T, NEW row \in [K -> V]
    PROVE  [f EXCEPT ![t] = row] \in [T -> [K -> V]]
OBVIOUS

(* Announcing a change of one type and id keeps the observer's copy typed. *)
LEMMA MirroredType ==
    ASSUME ObjectsOK, NEW type \in Types, NEW id \in Keys,
           NEW obj \in Objects \cup {None}
    PROVE  Mirrored(type, id, obj) \in [Types -> [Keys -> Objects \cup {None}]]
BY DEF ObjectsOK, Mirrored

LEMMA MirroredSingletonType ==
    ASSUME ObjectsOK, NEW type \in SingletonTypes, NEW id,
           NEW obj \in Objects \cup {None}
    PROVE  Mirrored(type, id, obj) \in [Types -> [Keys -> Objects \cup {None}]]
BY DEF ObjectsOK, Mirrored, Types

(* A replacing collection holds objects under keys.                        *)
LEMMA CollectionOfType ==
    ASSUME NEW objs \in Seq(Objects)
    PROVE  /\ CollectionOf(objs) \in [Keys -> Objects \cup {None}]
           /\ \A k \in Keys : CollectionOf(objs)[k] # None
                                => CollectionOf(objs)[k].id = k
<1> SUFFICES ASSUME NEW k \in Keys
             PROVE  /\ CollectionOf(objs)[k] \in Objects \cup {None}
                    /\ CollectionOf(objs)[k] # None
                           => CollectionOf(objs)[k].id = k
  BY DEF CollectionOf
<1> DEFINE Last(i) == /\ objs[i].id = k
                      /\ \A j \in DOMAIN objs : i < j => objs[j].id # k
           last    == CHOOSE i \in DOMAIN objs : Last(i)
<1>1. CollectionOf(objs)[k] = IF \E i \in DOMAIN objs : Last(i)
                              THEN objs[last] ELSE None
  BY DEF CollectionOf
<1>2. CASE \E i \in DOMAIN objs : Last(i)
  <2>1. last \in DOMAIN objs /\ Last(last)
    BY <1>2
  <2> QED
    BY <1>1, <1>2, <2>1
<1>3. CASE ~ \E i \in DOMAIN objs : Last(i)
  BY <1>1, <1>3
<1> QED
  BY <1>2, <1>3

-----------------------------------------------------------------------------
(* Types                                                                   *)

LEMMA ApplyUpsertType ==
    ASSUME ObjectsOK, NEW type \in Types, NEW id \in Keys, NEW obj \in Objects,
           ApplyUpsert(type, id, obj)
    PROVE  ObjectsOK'
<1>1. mirror' \in [Types -> [Keys -> Objects \cup {None}]]
  BY MirroredType DEF ApplyUpsert
<1>2. event_count' \in Nat
  BY DEF ApplyUpsert, ObjectsOK
<1>3. singletons' \in [SingletonTypes -> Objects \cup {None}]
  BY DEF ApplyUpsert, ObjectsOK
<1>4. collections' \in [Types -> [Keys -> Objects \cup {None}]]
  <2>1. collections \in [Types -> [Keys -> Objects \cup {None}]]
    BY DEF ObjectsOK
  <2>2. [collections EXCEPT ![type][id] = obj]
            \in [Types -> [Keys -> Objects \cup {None}]]
    BY <2>1, PutType
  <2> QED
    BY <2>1, <2>2 DEF ApplyUpsert
<1> QED
  BY <1>1, <1>2, <1>3, <1>4 DEF ObjectsOK

LEMMA ApplyDeleteType ==
    ASSUME ObjectsOK, NEW type \in Types, NEW id \in Keys,
           ApplyDelete(type, id)
    PROVE  ObjectsOK'
<1>1. mirror' \in [Types -> [Keys -> Objects \cup {None}]]
  <2>1. Mirrored(type, id, None) \in [Types -> [Keys -> Objects \cup {None}]]
    BY MirroredType
  <2> QED
    BY <2>1 DEF ApplyDelete, ObjectsOK
<1>2. event_count' \in Nat
  BY DEF ApplyDelete, ObjectsOK
<1>3. singletons' \in [SingletonTypes -> Objects \cup {None}]
  BY DEF ApplyDelete, ObjectsOK
<1>4. collections' \in [Types -> [Keys -> Objects \cup {None}]]
  <2>1. collections \in [Types -> [Keys -> Objects \cup {None}]]
    BY DEF ObjectsOK
  <2>2. [collections EXCEPT ![type][id] = None]
            \in [Types -> [Keys -> Objects \cup {None}]]
    BY <2>1, PutType
  <2> QED
    BY <2>1, <2>2 DEF ApplyDelete
<1> QED
  BY <1>1, <1>2, <1>3, <1>4 DEF ObjectsOK

LEMMA ApplyCollectionReplaceType ==
    ASSUME ObjectsOK, NEW type \in Types, NEW objs \in Seq(Objects),
           ApplyCollectionReplace(type, objs)
    PROVE  ObjectsOK'
<1>1. CollectionOf(objs) \in [Keys -> Objects \cup {None}]
  BY CollectionOfType
<1>2. collections' \in [Types -> [Keys -> Objects \cup {None}]]
  BY <1>1, PutRowType DEF ApplyCollectionReplace, ObjectsOK
<1>3. mirror' \in [Types -> [Keys -> Objects \cup {None}]]
  <2>1. CASE type \in SingletonTypes
    <3>1. singletons[type] \in Objects \cup {None}
      BY <2>1 DEF ObjectsOK
    <3> QED
      BY <2>1, <3>1, MirroredSingletonType DEF ApplyCollectionReplace
  <2>2. CASE type \notin SingletonTypes
    BY <1>1, <2>2, PutRowType DEF ApplyCollectionReplace, ObjectsOK
  <2> QED
    BY <2>1, <2>2
<1>4. event_count' \in Nat
  <2>1. event_count' = event_count + 1
    BY DEF ApplyCollectionReplace
  <2> QED
    BY <2>1 DEF ObjectsOK
<1>5. singletons' \in [SingletonTypes -> Objects \cup {None}]
  BY DEF ApplyCollectionReplace, ObjectsOK
<1> QED
  BY <1>2, <1>3, <1>4, <1>5 DEF ObjectsOK

-----------------------------------------------------------------------------
(* What readers see                                                        *)

(* What one entry of a table holds after one entry was written.            *)
LEMMA PutEntry ==
    ASSUME NEW T, NEW K, NEW V, NEW f \in [T -> [K -> V]],
           NEW t \in T, NEW k \in K, NEW v, NEW u \in T, NEW j \in K
    PROVE  [f EXCEPT ![t] = [@ EXCEPT ![k] = v]][u][j] =
               IF u = t /\ j = k THEN v ELSE f[u][j]
<1>1. [f[t] EXCEPT ![k] = v][j] = IF j = k THEN v ELSE f[t][j]
  OBVIOUS
<1>2. CASE u = t
  BY <1>1, <1>2
<1>3. CASE u # t
  BY <1>3
<1> QED
  BY <1>2, <1>3

(* What readers see is a table.                                            *)
LEMMA ViewType ==
    ASSUME ObjectsOK
    PROVE  View \in [Types -> [Keys -> Objects \cup {None}]]
<1>1. \A t \in Types, k \in Keys : GetObject(t, k) \in Objects \cup {None}
  BY DEF ObjectsOK, GetObject, Types
<1> QED
  BY <1>1 DEF View

(* Writing a singleton is seen under every id, and nowhere else.           *)
LEMMA SingletonSeen ==
    ASSUME ObjectsOK, NEW type \in SingletonTypes, NEW obj,
           singletons' = [singletons EXCEPT ![type] = obj],
           UNCHANGED collections
    PROVE  View' = [View EXCEPT ![type] = [k \in Keys |-> obj]]
BY DEF View, GetObject, ObjectsOK, Types

(* Writing an entry of a collection is seen at that entry and nowhere else.*)
LEMMA EntrySeen ==
    ASSUME ObjectsOK, NEW type \in Types \ SingletonTypes, NEW id \in Keys,
           NEW obj, UNCHANGED singletons,
           collections' = [collections EXCEPT ![type] = [@ EXCEPT ![id] = obj]]
    PROVE  View' = [View EXCEPT ![type] = [@ EXCEPT ![id] = obj]]
<1> DEFINE Seen == [View EXCEPT ![type] = [@ EXCEPT ![id] = obj]]
<1>1. ASSUME NEW t \in Types, NEW k \in Keys
      PROVE  Seen[t][k] = GetObject(t, k)'
  <2>1. Seen[t][k] = IF t = type /\ k = id THEN obj ELSE View[t][k]
    BY ViewType, PutEntry
  <2>2. collections'[t][k] =
            IF t = type /\ k = id THEN obj ELSE collections[t][k]
    BY PutEntry DEF ObjectsOK
  <2> QED
    BY <2>1, <2>2 DEF GetObject, View
<1>2. \A t \in Types : Seen[t] = [k \in Keys |-> Seen[t][k]]
  BY ViewType
<1>3. \A t \in Types : Seen[t] = [k \in Keys |-> GetObject(t, k)']
  BY <1>1, <1>2, Zenon
<1>4. Seen = [t \in Types |-> Seen[t]]
  BY DEF View
<1> QED
  BY <1>3, <1>4 DEF View

(* A replaced collection is seen as a whole; entries filed under a         *)
(* singleton type are not seen.                                            *)
LEMMA ReplacementSeen ==
    ASSUME ObjectsOK, NEW type \in Types, NEW row \in [Keys -> Objects \cup {None}],
           collections' = [collections EXCEPT ![type] = row],
           UNCHANGED singletons
    PROVE  View' = IF type \in SingletonTypes THEN View
                   ELSE [View EXCEPT ![type] = row]
BY DEF View, GetObject, ObjectsOK, Types

-----------------------------------------------------------------------------
(* Observers                                                               *)

LEMMA ApplyUpsertAgrees ==
    ASSUME ObjectsOK, NEW type \in Types, NEW id \in Keys, NEW obj \in Objects,
           ApplyUpsert(type, id, obj), mirror = View
    PROVE  mirror' = View'
<1>1. CASE type \in SingletonTypes
  <2>1. mirror' = [mirror EXCEPT ![type] = [k \in Keys |-> obj]]
    BY <1>1 DEF ApplyUpsert, Mirrored
  <2>2. /\ singletons' = [singletons EXCEPT ![type] = obj]
        /\ UNCHANGED collections
    BY <1>1 DEF ApplyUpsert
  <2>3. View' = [View EXCEPT ![type] = [k \in Keys |-> obj]]
    BY <1>1, <2>2, SingletonSeen
  <2> QED
    BY <2>1, <2>3
<1>2. CASE type \notin SingletonTypes
  <2>1. mirror' = [mirror EXCEPT ![type] = [@ EXCEPT ![id] = obj]]
    BY <1>2 DEF ApplyUpsert, Mirrored
  <2>2. /\ collections' =
               [collections EXCEPT ![type] = [@ EXCEPT ![id] = obj]]
        /\ UNCHANGED singletons
    BY <1>2 DEF ApplyUpsert
  <2>3. View' = [View EXCEPT ![type] = [@ EXCEPT ![id] = obj]]
    BY <1>2, <2>2, EntrySeen
  <2> QED
    BY <2>1, <2>3
<1> QED
  BY <1>1, <1>2

LEMMA ApplyDeleteAgrees ==
    ASSUME ObjectsOK, NEW type \in Types, NEW id \in Keys,
           ApplyDelete(type, id), mirror = View
    PROVE  mirror' = View'
<1>1. CASE type \in SingletonTypes
  <2>1. mirror' = [mirror EXCEPT ![type] = [k \in Keys |-> None]]
    BY <1>1 DEF ApplyDelete, Mirrored
  <2>2. /\ singletons' = [singletons EXCEPT ![type] = None]
        /\ UNCHANGED collections
    BY <1>1 DEF ApplyDelete
  <2>3. View' = [View EXCEPT ![type] = [k \in Keys |-> None]]
    BY <1>1, <2>2, SingletonSeen
  <2> QED
    BY <2>1, <2>3
<1>2. CASE type \notin SingletonTypes /\ collections[type][id] = None
  <2>1. UNCHANGED <<singletons, collections, mirror>>
    BY <1>2 DEF ApplyDelete
  <2> QED
    BY <2>1 DEF View, GetObject
<1>3. CASE type \notin SingletonTypes /\ collections[type][id] # None
  <2>1. mirror' = [mirror EXCEPT ![type] = [@ EXCEPT ![id] = None]]
    BY <1>3 DEF ApplyDelete, Mirrored
  <2>2. /\ collections' =
               [collections EXCEPT ![type] = [@ EXCEPT ![id] = None]]
        /\ UNCHANGED singletons
    BY <1>3 DEF ApplyDelete
  <2>3. View' = [View EXCEPT ![type] = [@ EXCEPT ![id] = None]]
    BY <1>3, <2>2, EntrySeen
  <2> QED
    BY <2>1, <2>3
<1> QED
  BY <1>1, <1>2, <1>3

LEMMA ApplyCollectionReplaceAgrees ==
    ASSUME ObjectsOK, NEW type \in Types, NEW objs \in Seq(Objects),
           ApplyCollectionReplace(type, objs), mirror = View
    PROVE  mirror' = View'
<1>1. View' = IF type \in SingletonTypes THEN View
              ELSE [View EXCEPT ![type] = CollectionOf(objs)]
  <2>1. CollectionOf(objs) \in [Keys -> Objects \cup {None}]
    BY CollectionOfType
  <2>2. /\ collections' = [collections EXCEPT ![type] = CollectionOf(objs)]
        /\ UNCHANGED singletons
    BY DEF ApplyCollectionReplace
  <2> QED
    BY <2>1, <2>2, ReplacementSeen
<1>2. CASE type \in SingletonTypes
  <2>1. View[type] = [k \in Keys |-> singletons[type]]
    BY <1>2 DEF View, GetObject, Types
  <2>2. mirror' = [mirror EXCEPT ![type] = [k \in Keys |-> singletons[type]]]
    BY <1>2 DEF ApplyCollectionReplace, Mirrored
  <2>3. [View EXCEPT ![type] = View[type]] = View
    BY ViewType
  <2>4. View' = View
    BY <1>1, <1>2
  <2> QED
    BY <2>1, <2>2, <2>3, <2>4
<1>3. CASE type \notin SingletonTypes
  <2>1. mirror' = [mirror EXCEPT ![type] = CollectionOf(objs)]
    BY <1>3 DEF ApplyCollectionReplace
  <2>2. View' = [View EXCEPT ![type] = CollectionOf(objs)]
    BY <1>1, <1>3
  <2> QED
    BY <2>1, <2>2
<1> QED
  BY <1>2, <1>3

=============================================================================
