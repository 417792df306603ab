----------------------------- MODULE AtomicFeed -----------------------------
(***************************************************************************)
(* What a streaming session promises its caller: a feed is a sequence of   *)
(* lines, and every line is either committed, and then makes at most one   *)
(* change of the object table, or discarded, and then makes none.  The     *)
(* session counts the discarded lines since the last committed one, and    *)
(* once it is closed, or lost on a line, nothing happens any more.         *)
(***************************************************************************)
EXTENDS Naturals

CONSTANTS SingletonTypes, CollectionTypes, Keys, Objects, None

VARIABLES
    table,    \* the objects, by type and id
    line_no,  \* lines consumed
    run,      \* lines discarded since the last committed one
    open      \* the session is neither finished nor lost

vars == <<table, line_no, run, open>>

Table == INSTANCE ObjectTable

Init ==
    /\ Table!Init
    /\ line_no = 0
    /\ run = 0
    /\ open = TRUE

Change == Table!Put \/ Table!Remove \/ Table!Replace \/ Table!SetSingleton

Commit ==
    /\ open
    /\ Change \/ UNCHANGED table
    /\ line_no' = line_no + 1
    /\ run' = 0
    /\ UNCHANGED open

Discard ==
    /\ open
    /\ line_no' = line_no + 1
    /\ run' = run + 1
    /\ UNCHANGED <<table, open>>

Lose ==
    /\ open
    /\ line_no' = line_no + 1
    /\ open' = FALSE
    /\ UNCHANGED <<table, run>>

Close ==
    /\ open' = FALSE
    /\ UNCHANGED <<table, line_no, run>>

Next == Commit \/ Discard \/ Lose \/ Close

Spec == Init /\ [][Next]_vars

=============================================================================
