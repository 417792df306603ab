---------------------------- MODULE MCStoreClient ----------------------------
(* A small store: one collection, two keys, and one object in two revisions.*)
EXTENDS StoreClient

MCKeys == {"", "a"}
MCObjects == {[id |-> "a", rev |-> 1], [id |-> "a", rev |-> 2]}
MCLogEvents == {"e1", "e2"}
MCDiagnostics == {"d"}

=============================================================================
