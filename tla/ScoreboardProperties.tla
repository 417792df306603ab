------------------------ MODULE ScoreboardProperties ------------------------
(***************************************************************************)
(* What a scoreboard has to satisfy whatever the iteration order of the    *)
(* maps it is built from, and what it is when nothing in the store is tied.*)
(***************************************************************************)
EXTENDS Scoreboard

(* Judgements of a submission that carry a verdict, and when they ended.   *)
Verdicts(s) == {j \in DOMAIN board.judgements :
                   /\ board.judgements[j].submission = s
                   /\ board.judgements[j].type # None}

End(j) == ValueOr(board.judgements[j].end_time, 0)

(* The judged submissions of a team for a problem, the accepted ones, and  *)
(* the time of the first accepted one.                                     *)
Tried(t, p) == {s \in Submissions : /\ Judged(s)
                                    /\ board.submissions[s].team = t
                                    /\ board.submissions[s].problem = p}

Accepted(t, p) == {s \in Tried(t, p) : Solves(best[s].type)}

FirstAccept(t, p) == Min({ContestTime(s) : s \in Accepted(t, p)})

Earlier(t, p) == {s \in Tried(t, p) : ContestTime(s) < FirstAccept(t, p)}

Solvers(p) == {t \in OnBoard : Accepted(t, p) # {}}

-----------------------------------------------------------------------------
(* The verdict used for a submission is that of one of its judgements, and *)
(* no judgement with a verdict ended later: a rejudgement replaces the     *)
(* first verdict whatever order the store lists them in.                   *)
VerdictIsLatest ==
    pc # "judgements" =>
        \A s \in Submissions :
            IF Verdicts(s) = {} THEN best[s] = None
            ELSE \E j \in Verdicts(s) :
                     /\ best[s] = [type     |-> board.judgements[j].type,
                                   end_time |-> End(j)]
                     /\ \A other \in Verdicts(s) : End(other) <= End(j)

(* A problem is solved for a team iff a judged submission of the contest   *)
(* says so, at the time of the earliest; attempts are those judged before  *)
(* it and itself, and nothing after it counts.  Submissions of the same    *)
(* time may count on either side.                                          *)
AttemptsUpToAccept ==
    pc = "done" =>
        \A t \in OnBoard, p \in Problems :
            LET accum == accums[t][p]
                accepts == {s \in Tried(t, p) :
                               ContestTime(s) <= FirstAccept(t, p)}
            IN  IF t \notin Solvers(p)
                THEN /\ accum.num_judged = Cardinality(Tried(t, p))
                     /\ ~accum.solved
                ELSE /\ accum.solved
                     /\ accum.accept_time = FirstAccept(t, p)
                     /\ accum.num_judged \in 1 + Cardinality(Earlier(t, p)) ..
                                             Cardinality(accepts)

(* Places are ranks: one more than the number of teams that solved more,   *)
(* or as many with less penalty; rows are in the order of their places and *)
(* every team that is not hidden has exactly one row.                      *)
PlacesAreRanks ==
    LET Better(a, b) == \/ a.solved > b.solved
                        \/ a.solved = b.solved /\ a.penalty < b.penalty
    IN  pc = "done" =>
        /\ Len(rows) = Cardinality(OnBoard)
        /\ {rows[i].team : i \in DOMAIN rows} = OnBoard
        /\ \A i \in DOMAIN rows :
               /\ rows[i].place = 1 + Cardinality({j \in DOMAIN rows :
                                                   Better(rows[j], rows[i])})
               /\ \A j \in DOMAIN rows :
                      i < j => rows[i].place <= rows[j].place

(* A problem someone solved has exactly one first to solve, and no team on *)
(* the board solved it earlier, to the millisecond.                        *)
OneFirstToSolve ==
    pc = "done" =>
        \A p \in board.problems :
            LET firsts == {i \in DOMAIN rows :
                              rows[i].cells[p].is_first_to_solve}
            IN  /\ Cardinality(firsts) = IF Solvers(p) = {} THEN 0 ELSE 1
                /\ \A i \in firsts, t \in Solvers(p) :
                       FirstAccept(rows[i].team, p) <= FirstAccept(t, p)

-----------------------------------------------------------------------------
(* The scoreboard by its definition                                        *)

Distinct(S, f(_)) == \A a, b \in S : f(a) = f(b) => a = b

(* Nothing leaves the result to an iteration order: the last judgements of *)
(* a submission agree, no team submits twice at a time for one problem and *)
(* no two teams solve a problem at one time.                               *)
Untied ==
    /\ \A s \in Submissions : \A i, j \in Verdicts(s) :
           End(i) = End(j) =>
               board.judgements[i].type = board.judgements[j].type
    /\ \A p \in Problems : /\ \A t \in OnBoard : Distinct(Tried(t, p), ContestTime)
                           /\ Distinct(Solvers(p), LAMBDA t : FirstAccept(t, p))

(* The time of a solve is floored to minutes (scoreboard_builder.cc:314).  *)
FloorMinutes(ms) == ms \div MsPerMinute

ReferenceCell(t, p) ==
    LET solved == t \in Solvers(p)
        tried  == Cardinality(Tried(t, p))
    IN  [status |-> IF solved THEN "kSolved"
                    ELSE IF tried > 0 THEN "kFailed" ELSE "kEmpty",
         attempts |-> IF solved THEN 1 + Cardinality(Earlier(t, p)) ELSE tried,
         time_minutes |-> IF solved THEN FloorMinutes(FirstAccept(t, p)) ELSE 0,
         is_first_to_solve |->
             /\ solved
             /\ \A other \in Solvers(p) :
                    FirstAccept(t, p) <= FirstAccept(other, p)]

ReferencePenalty(t) ==
    MapThenSumSet(
        LAMBDA p : FloorMinutes(FirstAccept(t, p)) +
            PenaltyMinutes * Cardinality({s \in Earlier(t, p) :
                                             CountsAsPenalty(best[s].type)}),
        {p \in board.problems : t \in Solvers(p)})

(* What a team solved before the contest began.                            *)
SolvedBeforeStart(t) ==
    {p \in board.problems : t \in Solvers(p) /\ FirstAccept(t, p) < 0}

(* With nothing tied, solved problems, penalty and cells of each row are   *)
(* those of the definition, whatever order the judgements, submissions and *)
(* teams were visited in: they are functions of the store.  Of problems    *)
(* solved before the contest began, whose times the code does not floor,   *)
(* nothing is said.                                                        *)
BoardIsItsDefinition ==
    pc = "done" /\ Untied =>
        \A i \in DOMAIN rows :
            LET t == rows[i].team
            IN  /\ rows[i].solved =
                       Cardinality({p \in board.problems : t \in Solvers(p)})
                /\ SolvedBeforeStart(t) = {} =>
                       rows[i].penalty = ReferencePenalty(t)
                /\ \A p \in board.problems \ SolvedBeforeStart(t) :
                       rows[i].cells[p] = ReferenceCell(t, p)

=============================================================================
