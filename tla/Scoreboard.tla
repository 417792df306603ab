----------------------------- MODULE Scoreboard -----------------------------
(***************************************************************************)
(* BuildScoreboard: the ICPC scoreboard computed from the objects of a     *)
(* store.  The loops go over unordered maps, and the sorts are not stable: *)
(* every loop takes its elements in any order its code allows, so that the *)
(* result may depend on the order only where the code lets it.             *)
(*                                                                         *)
(* Names, labels, colours, organizations and awards are copied through and *)
(* left out.  Times are in milliseconds, MsPerMinute of them to a minute.  *)
(***************************************************************************)
EXTENDS CxxIntegers, Sequences, FiniteSets, FiniteSetsExt

CONSTANTS
    Teams, Problems, Submissions, Judgements, JudgementTypes,  \* ids
    Boards,       \* the stores a scoreboard is built from
    MsPerMinute,
    None          \* std::nullopt

Times == Int \cup {None}

(* Objects of one type by id, finitely many of them.  Not every id a feed  *)
(* refers to is there.                                                     *)
IsTable(table, ids, objects) ==
    /\ DOMAIN table \subseteq ids
    /\ IsFiniteSet(DOMAIN table)
    /\ table \in [DOMAIN table -> objects]

(* What BuildScoreboard reads.  Without a contest or a state their members *)
(* are None.                                                               *)
IsStore(store) ==
    /\ {store.penalty_time, store.duration, store.start_time, store.ended}
           \subseteq Times
    /\ store.problems \subseteq Problems
    /\ IsFiniteSet(store.problems)
    /\ IsTable(store.types, JudgementTypes,
               [solved : BOOLEAN \cup {None}, penalty : BOOLEAN \cup {None}])
    /\ IsTable(store.teams, Teams, [hidden : BOOLEAN, name : Nat])
    /\ IsTable(store.submissions, Submissions,
               [team : Teams \cup {None}, problem : Problems \cup {None},
                contest_time : Times])
    /\ IsTable(store.judgements, Judgements,
               [submission : Submissions \cup {None},
                type : JudgementTypes \cup {None}, end_time : Times])

Verdict == [type : JudgementTypes, end_time : Int]

FirstSolve == [time : Int, team : Teams]

ASSUME ScoreboardAssumption ==
    /\ MsPerMinute \in Nat \ {0}
    /\ \A store \in Boards : IsStore(store)
    /\ None \notin Int \cup BOOLEAN \cup Teams \cup Problems \cup Submissions
                       \cup JudgementTypes
    /\ None \notin Verdict /\ None \notin FirstSolve

VARIABLES
    board,        \* the store
    pc,           \* the loop the function is in
    todo,         \* what is left to do in that loop
    best,         \* best_judgement, by submission
    accums,       \* team_accums, by team and problem
    first_solve,  \* by problem
    rows

vars == <<board, pc, todo, best, accums, first_solve, rows>>

ValueOr(value, default) == IF value = None THEN default ELSE value

Minutes(ms) == Quotient(ms, MsPerMinute)

PenaltyMinutes ==
    IF board.penalty_time = None THEN 20 ELSE Minutes(board.penalty_time)

OnBoard == {t \in DOMAIN board.teams : ~board.teams[t].hidden}

ContestTime(s) == ValueOr(board.submissions[s].contest_time, 0)

(* The contest ends with its duration, or with state.ended if that comes   *)
(* first and after the start.                                              *)
InContest(time) ==
    LET effective == board.ended - board.start_time
    IN  /\ board.duration # None => time < board.duration
        /\ /\ board.ended # None /\ board.start_time # None
           /\ effective > 0
           => time < effective

Solves(type) ==
    /\ type \in DOMAIN board.types
    /\ ValueOr(board.types[type].solved, FALSE)

CountsAsPenalty(type) ==
    /\ type \in DOMAIN board.types
    /\ ValueOr(board.types[type].penalty, TRUE)

-----------------------------------------------------------------------------
Accum == [num_judged : Nat, penalty_attempts : Nat, solved : BOOLEAN,
          accept_time : Int]

NoAccum == [num_judged |-> 0, penalty_attempts |-> 0, solved |-> FALSE,
            accept_time |-> 0]

Cell == [status : {"kSolved", "kFailed", "kEmpty"}, attempts : Nat,
         time_minutes : Int, is_first_to_solve : BOOLEAN]

Row == [team : Teams, name : Nat, solved : Nat, penalty : Int, place : Nat,
        cells : [board.problems -> Cell]]

(* What each loop goes over.                                               *)
Work == [judgements  |-> DOMAIN board.judgements,
         submissions |-> DOMAIN board.submissions,
         firsts      |-> OnBoard \X Problems,
         done        |-> {}]

TypeOK ==
    /\ IsStore(board)
    /\ pc \in DOMAIN Work
    /\ todo \subseteq Work[pc]
    /\ best \in [Submissions -> Verdict \cup {None}]
    /\ accums \in [Teams -> [Problems -> Accum]]
    /\ first_solve \in [Problems -> FirstSolve \cup {None}]
    /\ rows \in Seq(Row)

Init ==
    /\ board \in Boards
    /\ pc = "judgements"
    /\ todo = DOMAIN board.judgements
    /\ best = [s \in Submissions |-> None]
    /\ accums = [t \in Teams |-> [p \in Problems |-> NoAccum]]
    /\ first_solve = [p \in Problems |-> None]
    /\ rows = <<>>

(* A slip: the first verdict found stays.                                  *)
KeepFirstVerdict(j) ==
    LET judgement == board.judgements[j]
        s == judgement.submission
    IN  best' = IF judgement.type # None /\ s # None /\ best[s] = None
                THEN [best EXCEPT ![s] =
                          [type     |-> judgement.type,
                           end_time |-> ValueOr(judgement.end_time, 0)]]
                ELSE best

(* Of the judgements of a submission that have a verdict the one that      *)
(* ended last counts; one without end time ended at 0.                     *)
KeepLatestVerdict(j) ==
    LET judgement == board.judgements[j]
        s   == judgement.submission
        end == ValueOr(judgement.end_time, 0)
    IN  IF judgement.type = None \/ s = None THEN UNCHANGED best
        ELSE IF best[s] # None /\ end <= best[s].end_time THEN UNCHANGED best
        ELSE best' = [best EXCEPT ![s] = [type     |-> judgement.type,
                                          end_time |-> end]]

ConsiderJudgement ==
    /\ pc = "judgements"
    /\ \E j \in todo : /\ KeepLatestVerdict(j)
                       /\ todo' = todo \ {j}
    /\ UNCHANGED <<board, pc, accums, first_solve, rows>>

(* The judged submissions of the contest.                                  *)
Judged(s) ==
    /\ best[s] # None
    /\ s \in DOMAIN board.submissions
    /\ board.submissions[s].team # None
    /\ board.submissions[s].problem # None
    /\ InContest(ContestTime(s))

OrderSubmissions ==
    /\ pc = "judgements"
    /\ todo = {}
    /\ pc' = "submissions"
    /\ todo' = {s \in Submissions : Judged(s)}
    /\ UNCHANGED <<board, best, accums, first_solve, rows>>

(* Slips: every judged attempt costs penalty; attempts after the accepted  *)
(* one still count.                                                        *)
AttemptAlwaysCosts(accum, s) ==
    LET solved == Solves(best[s].type)
    IN  IF accum.solved THEN accum
        ELSE [num_judged       |-> accum.num_judged + 1,
              penalty_attempts |-> accum.penalty_attempts + 1,
              solved           |-> solved,
              accept_time      |-> IF solved THEN ContestTime(s) ELSE 0]

AttemptAfterAccept(accum, s) ==
    LET solved == Solves(best[s].type)
    IN  [num_judged       |-> accum.num_judged + 1,
         penalty_attempts |-> accum.penalty_attempts +
                 IF solved \/ CountsAsPenalty(best[s].type) THEN 1 ELSE 0,
         solved           |-> accum.solved \/ solved,
         accept_time      |-> IF solved /\ ~accum.solved THEN ContestTime(s)
                              ELSE accum.accept_time]

(* One more attempt on a problem, ignored once the problem is solved.      *)
Attempt(accum, s) ==
    LET solved == Solves(best[s].type)
    IN  IF accum.solved THEN accum
        ELSE [num_judged       |-> accum.num_judged + 1,
              penalty_attempts |-> accum.penalty_attempts +
                      IF solved \/ CountsAsPenalty(best[s].type) THEN 1 ELSE 0,
              solved           |-> solved,
              accept_time      |-> IF solved THEN ContestTime(s) ELSE 0]

(* Submissions are taken by contest time, those of one time in any order.  *)
CountSubmission ==
    /\ pc = "submissions"
    /\ \E s \in todo :
           LET sub == board.submissions[s]
           IN  /\ \A other \in todo : ContestTime(s) <= ContestTime(other)
               /\ IF sub.team \in OnBoard
                  THEN accums' = [accums EXCEPT ![sub.team][sub.problem] =
                                      Attempt(@, s)]
                  ELSE UNCHANGED accums
               /\ todo' = todo \ {s}
    /\ UNCHANGED <<board, pc, best, first_solve, rows>>

LookForFirsts ==
    /\ pc = "submissions"
    /\ todo = {}
    /\ pc' = "firsts"
    /\ todo' = {solve \in OnBoard \X Problems :
                   accums[solve[1]][solve[2]].solved}
    /\ UNCHANGED <<board, best, accums, first_solve, rows>>

(* A slip: the last team found is kept.                                    *)
LastFoundIsFirst(t, p) ==
    first_solve' = [first_solve EXCEPT ![p] =
                        [time |-> accums[t][p].accept_time, team |-> t]]

EarlierIsFirst(t, p) ==
    LET time == accums[t][p].accept_time
    IN  IF first_solve[p] # None /\ time >= first_solve[p].time
        THEN UNCHANGED first_solve
        ELSE first_solve' = [first_solve EXCEPT ![p] =
                                 [time |-> time, team |-> t]]

ConsiderSolve ==
    /\ pc = "firsts"
    /\ \E t \in Teams, p \in Problems :
           /\ <<t, p>> \in todo
           /\ EarlierIsFirst(t, p)
           /\ todo' = todo \ {<<t, p>>}
    /\ UNCHANGED <<board, pc, best, accums, rows>>

-----------------------------------------------------------------------------
(* Rows                                                                    *)

CellOf(t, p) ==
    LET accum == accums[t][p]
    IN  [status |-> IF accum.solved THEN "kSolved"
                    ELSE IF accum.num_judged > 0 THEN "kFailed" ELSE "kEmpty",
         attempts |-> accum.num_judged,
         time_minutes |-> IF accum.solved THEN Minutes(accum.accept_time)
                          ELSE 0,
         is_first_to_solve |-> /\ accum.solved
                               /\ first_solve[p] # None
                               /\ first_solve[p].team = t]

(* Each problem's time is cut to minutes on its own, then summed.          *)
PenaltyOf(t) ==
    MapThenSumSet(LAMBDA p : Minutes(accums[t][p].accept_time) +
                      (accums[t][p].penalty_attempts - 1) * PenaltyMinutes,
                  {p \in board.problems : accums[t][p].solved})

SolvedOf(t) == Cardinality({p \in board.problems : accums[t][p].solved})

(* The comparator of the sort; teams it does not separate come in any order.*)
Before(a, b) ==
    \/ SolvedOf(a) > SolvedOf(b)
    \/ /\ SolvedOf(a) = SolvedOf(b)
       /\ \/ PenaltyOf(a) < PenaltyOf(b)
          \/ /\ PenaltyOf(a) = PenaltyOf(b)
             /\ board.teams[a].name < board.teams[b].name

Orders ==
    LET n == Cardinality(OnBoard)
    IN  {order \in [1..n -> OnBoard] :
             /\ \A i, j \in 1..n : i < j => /\ order[i] # order[j]
                                             /\ ~Before(order[j], order[i])}

(* A slip: a new place is the one above it plus one.                       *)
DensePlaces(order) ==
    LET place[i \in 1..Len(order)] ==
            IF i = 1 THEN 1
            ELSE IF /\ SolvedOf(order[i]) = SolvedOf(order[i - 1])
                    /\ PenaltyOf(order[i]) = PenaltyOf(order[i - 1])
                 THEN place[i - 1] ELSE place[i - 1] + 1
    IN  place

(* A team that equals the one above it shares its place.                   *)
Places(order) ==
    LET place[i \in 1..Len(order)] ==
            IF i = 1 THEN 1
            ELSE IF /\ SolvedOf(order[i]) = SolvedOf(order[i - 1])
                    /\ PenaltyOf(order[i]) = PenaltyOf(order[i - 1])
                 THEN place[i - 1] ELSE i
    IN  place

BuildRows ==
    /\ pc = "firsts"
    /\ todo = {}
    /\ pc' = "done"
    /\ \E order \in Orders :
           rows' = [i \in 1..Len(order) |->
                       [team    |-> order[i],
                        name    |-> board.teams[order[i]].name,
                        solved  |-> SolvedOf(order[i]),
                        penalty |-> PenaltyOf(order[i]),
                        place   |-> Places(order)[i],
                        cells   |-> [p \in board.problems |->
                                        CellOf(order[i], p)]]]
    /\ UNCHANGED <<board, todo, best, accums, first_solve>>

Next ==
    \/ ConsiderJudgement
    \/ OrderSubmissions
    \/ CountSubmission
    \/ LookForFirsts
    \/ ConsiderSolve
    \/ BuildRows

Spec == Init /\ [][Next]_vars

=============================================================================
