---------------------------- MODULE ObjectTable ----------------------------
(***************************************************************************)
(* What ContestStore promises its readers: GetObject is a table from       *)
(* (type, id) to objects.  A call writes one entry, removes one entry,     *)
(* replaces one type's entries by a set with distinct ids, sets or resets  *)
(* a singleton under every id, or clears the table; nothing else changes.  *)
(***************************************************************************)
EXTENDS Naturals

CONSTANTS SingletonTypes, CollectionTypes, Keys, Objects, None

VARIABLE table

Types == SingletonTypes \cup CollectionTypes

Empty == [t \in Types |-> [k \in Keys |-> None]]

Init == table = Empty

(* The next table differs from this one in the entries of one type only.   *)
OnlyType(t) == table' = [table EXCEPT ![t] = table'[t]]

(* One object enters a collection, perhaps under an id that is not its own.*)
Put == \E t \in CollectionTypes, k \in Keys :
           /\ table'[t][k] \in Objects
           /\ table' = [table EXCEPT ![t][k] = table'[t][k]]

Remove == \E t \in CollectionTypes, k \in Keys :
              /\ table[t][k] # None
              /\ table' = [table EXCEPT ![t][k] = None]

(* After a replacement every entry is filed under its own id.              *)
Replace ==
    \E t \in CollectionTypes :
        /\ OnlyType(t)
        /\ table'[t] \in [Keys -> Objects \cup {None}]
        /\ \A k \in Keys : table'[t][k] # None => table'[t][k].id = k

(* A singleton is found whatever id it is asked for.                       *)
SetSingleton ==
    \E t \in SingletonTypes :
        /\ OnlyType(t)
        /\ \E k \in Keys : /\ table'[t][k] \in Objects \cup {None}
                            /\ table'[t] = [i \in Keys |-> table'[t][k]]

Clear == table' = Empty

Next == Put \/ Remove \/ Replace \/ SetSingleton \/ Clear

Spec == Init /\ [][Next]_table

=============================================================================
