-------------------------- MODULE ScoreboardClaims --------------------------
(***************************************************************************)
(* What the documents and comments of the repository say of a scoreboard   *)
(* and the code does not do.                                               *)
(***************************************************************************)
EXTENDS ScoreboardProperties

(* Team ids are numbered in the order of their strings.                    *)
ASSUME TeamOrderAssumption == Teams \subseteq Nat

(* include/ccsparser/scoreboard_builder.h:25 "3. team_id (ascending, stable*)
(* tie-break)", after solved problems and penalty, each of which is said   *)
(* to be the floor of a time to minutes (scoreboard_builder.cc:314, :335). *)
(* The code compares the names of teams where it should come to their ids, *)
(* and rounds times before the contest up, so that it finds ties where the *)
(* documents see none: each of the two breaks the order by itself.         *)
RankingIsDocumented ==
    LET Solved(t) == Cardinality({p \in board.problems : t \in Solvers(p)})
        Outranks(a, b) ==
            \/ Solved(a) > Solved(b)
            \/ /\ Solved(a) = Solved(b)
               /\ \/ ReferencePenalty(a) < ReferencePenalty(b)
                  \/ ReferencePenalty(a) = ReferencePenalty(b) /\ a < b
    IN  pc = "done" /\ Untied =>
            \A i, j \in DOMAIN rows :
                i < j => Outranks(rows[i].team, rows[j].team)

=============================================================================
