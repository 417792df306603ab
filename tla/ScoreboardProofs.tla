-------------------------- MODULE ScoreboardProofs --------------------------
(***************************************************************************)
(* Theorems about the scoreboard, for every store and every order its maps *)
(* are visited in.                                                         *)
(***************************************************************************)
EXTENDS ScoreboardProperties, FiniteSetTheorems, TLAPS

-----------------------------------------------------------------------------
(* Sums over a finite set                                                  *)

Any(s) == CHOOSE x \in s : TRUE

LEMMA AnyIsIn == \A s : s # {} => Any(s) \in s
BY DEF Any

(* What MapThenSumSet computes with, for the numbers g gives.              *)
IsSum(f, g, S) ==
    f = [s \in SUBSET S |->
            IF s = {} THEN 0 ELSE g[Any(s)] + f[s \ {Any(s)}]]

(* A family of subsets of a finite set has one that contains no other.     *)
LEMMA HasSmallest ==
    ASSUME NEW S, IsFiniteSet(S), NEW F \in SUBSET (SUBSET S), F # {}
    PROVE  \E T \in F : \A U \in F : ~(U \subseteq T /\ U # T)
<1>1. IsWellFoundedOn(StrictSubsetOrdering(S), SUBSET S)
  BY FS_StrictSubsetOrderingWellFounded, FS_FiniteSubsetsOfFinite
<1>2. PICK T \in F : \A U \in F : ~(<<U, T>> \in StrictSubsetOrdering(S))
  BY <1>1, WFMin
<1>3. ASSUME NEW U \in F, U \subseteq T, U # T
      PROVE  <<U, T>> \in StrictSubsetOrdering(S)
  BY <1>3 DEF StrictSubsetOrdering
<1>4. \A U \in F : ~(U \subseteq T /\ U # T)
  BY <1>2, <1>3, Zenon
<1> QED
  BY <1>4

LEMMA SumIsUnique ==
    ASSUME NEW S, IsFiniteSet(S), NEW T \in SUBSET S, NEW U \in SUBSET S,
           NEW f, NEW h, NEW g, IsSum(f, g, T), IsSum(h, g, U)
    PROVE  \A s \in SUBSET (T \cap U) : f[s] = h[s]
<1> DEFINE F == {s \in SUBSET (T \cap U) : f[s] # h[s]}
<1> SUFFICES ASSUME F # {} PROVE FALSE
  OBVIOUS
<1>1. F \in SUBSET (SUBSET S)
  OBVIOUS
<1>2. PICK s \in F : \A u \in F : ~(u \subseteq s /\ u # s)
  <2> HIDE DEF F
  <2> QED
    BY <1>1, HasSmallest
<1>3. s # {}
  BY <1>2 DEF IsSum
<1>4. Any(s) \in s
  BY <1>3, AnyIsIn
<1>5. s \ {Any(s)} \in SUBSET (T \cap U) /\ s \ {Any(s)} # s
  BY <1>2, <1>4
<1>6. f[s \ {Any(s)}] = h[s \ {Any(s)}]
  BY <1>2, <1>5
<1>7. /\ f[s] = g[Any(s)] + f[s \ {Any(s)}]
      /\ h[s] = g[Any(s)] + h[s \ {Any(s)}]
  BY <1>2, <1>3 DEF IsSum
<1> QED
  BY <1>2, <1>6, <1>7

LEMMA SumExists ==
    ASSUME NEW S, IsFiniteSet(S), NEW g
    PROVE  \E f : IsSum(f, g, S)
<1> DEFINE F == {T \in SUBSET S : ~ \E f : IsSum(f, g, T)}
<1> SUFFICES ASSUME F # {} PROVE FALSE
  OBVIOUS
<1>1. PICK T \in F : \A U \in F : ~(U \subseteq T /\ U # T)
  <2>1. F \in SUBSET (SUBSET S)
    OBVIOUS
  <2> HIDE DEF F
  <2> QED
    BY <2>1, HasSmallest
<1> DEFINE Sum(U) == CHOOSE f : IsSum(f, g, U)
           whole == [s \in SUBSET T |->
                        IF s = {} THEN 0
                        ELSE g[Any(s)] + Sum(s \ {Any(s)})[s \ {Any(s)}]]
<1>2. ASSUME NEW U \in SUBSET T, U # T
      PROVE  IsSum(Sum(U), g, U)
  BY <1>1, <1>2
<1>3. ASSUME NEW s \in SUBSET T, s # {}
      PROVE  whole[s \ {Any(s)}] = Sum(s \ {Any(s)})[s \ {Any(s)}]
  <2> DEFINE u == s \ {Any(s)}
  <2>1. Any(s) \in s
    BY <1>3, AnyIsIn
  <2>2. u \in SUBSET T /\ u # T
    BY <2>1
  <2>3. IsSum(Sum(u), g, u)
    BY <1>2, <2>2
  <2> SUFFICES whole[u] = Sum(u)[u]
    OBVIOUS
  <2> HIDE DEF u, Sum
  <2>4. CASE u = {}
    BY <2>2, <2>3, <2>4 DEF IsSum
  <2>5. CASE u # {}
    <3> DEFINE v == u \ {Any(u)}
    <3>1. v \in SUBSET u /\ v \in SUBSET T /\ v # T
      BY <2>2, <2>5, AnyIsIn
    <3>2. IsSum(Sum(v), g, v)
      BY <1>2, <3>1
    <3> HIDE DEF v
    <3>3. Sum(u)[v] = Sum(v)[v]
      <4>1. u \in SUBSET S /\ v \in SUBSET S /\ v \in SUBSET (u \cap v)
        BY <2>2, <3>1
      <4> QED
        BY <2>3, <3>2, <4>1, SumIsUnique
    <3>4. Sum(u)[u] = g[Any(u)] + Sum(u)[v]
      BY <2>3, <2>5 DEF IsSum, v
    <3>5. whole[u] = g[Any(u)] + Sum(v)[v]
      BY <2>2, <2>5 DEF v
    <3> QED
      BY <3>3, <3>4, <3>5
  <2> QED
    BY <2>4, <2>5
<1>4. IsSum(whole, g, T)
  <2> HIDE DEF Sum
  <2>1. whole = [s \in SUBSET T |->
                    IF s = {} THEN 0
                    ELSE g[Any(s)] + whole[s \ {Any(s)}]]
    BY <1>3
  <2> HIDE DEF whole
  <2> QED
    BY <2>1 DEF IsSum
<1> QED
  BY <1>1, <1>4

LEMMA SumIsInt ==
    ASSUME NEW S, IsFiniteSet(S), NEW g \in [S -> Int], NEW f, IsSum(f, g, S)
    PROVE  f[S] \in Int
<1> DEFINE F == {s \in SUBSET S : f[s] \notin Int}
<1> SUFFICES ASSUME F # {} PROVE FALSE
  OBVIOUS
<1>1. PICK s \in F : \A u \in F : ~(u \subseteq s /\ u # s)
  <2>1. F \in SUBSET (SUBSET S)
    OBVIOUS
  <2> HIDE DEF F
  <2> QED
    BY <2>1, HasSmallest
<1>2. s # {}
  BY <1>1 DEF IsSum
<1>3. Any(s) \in s
  BY <1>2, AnyIsIn
<1>4. s \ {Any(s)} \in SUBSET S /\ s \ {Any(s)} # s
  BY <1>1, <1>3
<1>5. f[s \ {Any(s)}] \in Int /\ g[Any(s)] \in Int
  BY <1>1, <1>3, <1>4
<1>6. f[s] = g[Any(s)] + f[s \ {Any(s)}]
  BY <1>1, <1>2 DEF IsSum
<1> QED
  BY <1>1, <1>5, <1>6

(* The penalty of a team, as a sum.                                        *)
PenaltySolved(t) == {p \in board.problems : accums[t][p].solved}

PenaltyPart(t) ==
    [p \in PenaltySolved(t) |->
        Minutes(accums[t][p].accept_time) +
            (accums[t][p].penalty_attempts - 1) * PenaltyMinutes]

LEMMA PenaltyIsSum ==
    ASSUME NEW t, IsFiniteSet(PenaltySolved(t))
    PROVE  \E f : /\ IsSum(f, PenaltyPart(t), PenaltySolved(t))
                  /\ PenaltyOf(t) = f[PenaltySolved(t)]
<1> DEFINE S == PenaltySolved(t)
           Part(p) == Minutes(accums[t][p].accept_time) +
                          (accums[t][p].penalty_attempts - 1) * PenaltyMinutes
           Eq(f) == f = [s \in SUBSET S |->
                            IF s = {} THEN 0
                            ELSE Part(Any(s)) + f[s \ {Any(s)}]]
<1>1. PenaltyOf(t) = (CHOOSE f : Eq(f))[S]
  BY DEF PenaltyOf, MapThenSumSet, MapThenFoldSet, Any, PenaltySolved
<1>2. ASSUME NEW s \in SUBSET S, s # {}
      PROVE  PenaltyPart(t)[Any(s)] = Part(Any(s))
  BY <1>2, AnyIsIn DEF PenaltyPart
<1>3. ASSUME NEW f
      PROVE  Eq(f) <=> IsSum(f, PenaltyPart(t), S)
  <2> HIDE DEF Part, S
  <2>1. [s \in SUBSET S |-> IF s = {} THEN 0 ELSE Part(Any(s)) + f[s \ {Any(s)}]]
        = [s \in SUBSET S |-> IF s = {} THEN 0 ELSE PenaltyPart(t)[Any(s)] + f[s \ {Any(s)}]]
    BY <1>2
  <2> QED
    BY <2>1 DEF IsSum
<1>4. \E f : IsSum(f, PenaltyPart(t), S)
  BY SumExists
<1> HIDE DEF Eq, S
<1>5. Eq(CHOOSE f : Eq(f))
  BY <1>3, <1>4
<1> QED
  BY <1>1, <1>3, <1>5 DEF S

-----------------------------------------------------------------------------
(* Verdicts                                                                *)

LEMMA NoneIsNothing ==
    /\ \A type \in JudgementTypes : type # None
    /\ \A s \in Submissions : s # None
    /\ \A t \in Teams : t # None
    /\ \A p \in Problems : p # None
    /\ \A n \in Int : n # None
    /\ \A verdict \in Verdict : verdict # None
    /\ \A first \in FirstSolve : first # None
BY ScoreboardAssumption

VerdictOf(j) == [type |-> board.judgements[j].type, end_time |-> End(j)]

(* The verdict of those of a set of judgements that ended last.            *)
IsLatest(verdict, seen) ==
    IF seen = {} THEN verdict = None
    ELSE \E j \in seen : /\ verdict = VerdictOf(j)
                         /\ \A other \in seen : End(other) <= End(j)

(* The judgements the loop has been at, or all once it is over.            *)
Seen(s) == IF pc = "judgements" THEN Verdicts(s) \ todo ELSE Verdicts(s)

VerdictsSoFar == \A s \in Submissions : IsLatest(best[s], Seen(s))

LEMMA VerdictType ==
    ASSUME TypeOK, NEW s \in Submissions, NEW j \in Verdicts(s)
    PROVE  End(j) \in Int /\ VerdictOf(j) \in Verdict
<1>1. /\ board.judgements[j].type \in JudgementTypes
      /\ board.judgements[j].end_time \in Int \cup {None}
  BY DEF TypeOK, IsStore, IsTable, Times, Verdicts
<1>2. End(j) \in Int
  BY <1>1 DEF End, ValueOr
<1> QED
  BY <1>1, <1>2 DEF VerdictOf, Verdict

(* One more judgement, of this submission or of another.                   *)
LEMMA VerdictStep ==
    ASSUME TypeOK, VerdictsSoFar, pc = "judgements", NEW j \in todo,
           KeepLatestVerdict(j), todo' = todo \ {j}, UNCHANGED <<board, pc>>
    PROVE  VerdictsSoFar'
<1> SUFFICES ASSUME NEW s \in Submissions
             PROVE  IsLatest(best[s], Seen(s))'
  BY DEF VerdictsSoFar
<1> DEFINE seen == Verdicts(s) \ todo
           judgement == board.judgements[j]
<1>1. IsLatest(best[s], seen)
  BY DEF VerdictsSoFar, Seen
<1>2. j \in DOMAIN board.judgements /\ best \in [Submissions -> Verdict \cup {None}]
  BY DEF TypeOK, Work
<1>3. Seen(s)' = Verdicts(s) \ (todo \ {j})
  BY DEF Seen, Verdicts
<1>4. \A i : End(i)' = End(i) /\ VerdictOf(i)' = VerdictOf(i)
  BY DEF End, VerdictOf
<1>5. IsLatest(best[s], Seen(s))' <=> IsLatest(best'[s], Verdicts(s) \ (todo \ {j}))
  BY <1>3, <1>4 DEF IsLatest
<1>6. CASE j \notin Verdicts(s)
  <2>1. best'[s] = best[s]
    BY <1>2, <1>6 DEF KeepLatestVerdict, Verdicts
  <2>2. Verdicts(s) \ (todo \ {j}) = seen
    BY <1>6
  <2> QED
    BY <1>1, <1>5, <2>1, <2>2
<1>7. CASE j \in Verdicts(s)
  <2>1. /\ judgement.submission = s /\ judgement.type # None
        /\ s # None
        /\ ValueOr(judgement.end_time, 0) = End(j)
    BY <1>7, NoneIsNothing DEF Verdicts, End
  <2>2. Verdicts(s) \ (todo \ {j}) = seen \cup {j} /\ j \notin seen
    BY <1>7
  <2>3. \A i \in seen \cup {j} : End(i) \in Int /\ VerdictOf(i) \in Verdict
    BY <1>7, VerdictType
  <2>4. \A i \in seen : VerdictOf(i) # None /\ VerdictOf(i).end_time = End(i)
    BY <2>3, NoneIsNothing DEF VerdictOf
  <2> SUFFICES IsLatest(best'[s], seen \cup {j})
    BY <1>5, <2>2
  <2>5. CASE best[s] # None /\ End(j) <= best[s].end_time
    <3>1. best'[s] = best[s]
      BY <1>2, <2>1, <2>5 DEF KeepLatestVerdict
    <3>2. PICK i \in seen : /\ best[s] = VerdictOf(i)
                            /\ \A other \in seen : End(other) <= End(i)
      BY <1>1, <2>5 DEF IsLatest
    <3>3. End(j) <= End(i)
      BY <2>4, <2>5, <3>2
    <3> HIDE DEF seen
    <3> QED
      BY <3>1, <3>2, <3>3 DEF IsLatest
  <2>6. CASE best[s] = None \/ ~(End(j) <= best[s].end_time)
    <3>1. best'[s] = VerdictOf(j)
      BY <1>2, <2>1, <2>6 DEF KeepLatestVerdict, VerdictOf
    <3>2. \A other \in seen : End(other) <= End(j)
      BY <1>1, <2>3, <2>4, <2>6 DEF IsLatest
    <3>3. End(j) <= End(j)
      BY <2>3
    <3> HIDE DEF seen
    <3> QED
      BY <3>1, <3>2, <3>3 DEF IsLatest
  <2> QED
    BY <2>5, <2>6
<1> QED
  BY <1>6, <1>7

-----------------------------------------------------------------------------
(* Types                                                                   *)

JudgedSubmissions == {s \in Submissions : Judged(s)}

TodoIsJudged == pc = "submissions" => todo \subseteq JudgedSubmissions

LEMMA SolvesIsBoolean ==
    ASSUME TypeOK, NEW type
    PROVE  Solves(type) \in BOOLEAN /\ CountsAsPenalty(type) \in BOOLEAN
BY DEF TypeOK, IsStore, IsTable, Solves, CountsAsPenalty, ValueOr

LEMMA JudgedType ==
    ASSUME TypeOK, NEW s, Judged(s)
    PROVE  /\ s \in DOMAIN board.submissions
           /\ board.submissions[s].team \in Teams
           /\ board.submissions[s].problem \in Problems
           /\ ContestTime(s) \in Int
<1>1. /\ s \in DOMAIN board.submissions
      /\ board.submissions[s].team \in Teams
      /\ board.submissions[s].problem \in Problems
      /\ board.submissions[s].contest_time \in Int \cup {None}
  BY DEF TypeOK, IsStore, IsTable, Times, Judged
<1> QED
  BY <1>1 DEF ContestTime, ValueOr

LEMMA AttemptType ==
    ASSUME TypeOK, NEW s, Judged(s), NEW accum \in Accum
    PROVE  Attempt(accum, s) \in Accum
<1>1. ContestTime(s) \in Int /\ Solves(best[s].type) \in BOOLEAN
  BY JudgedType, SolvesIsBoolean
<1> QED
  BY <1>1 DEF Attempt, Accum

LEMMA MinutesType ==
    /\ \A ms \in Int : Minutes(ms) \in Int
    /\ TypeOK => PenaltyMinutes \in Int
<1>1. ASSUME NEW ms \in Int
      PROVE  Minutes(ms) \in Int
  BY ScoreboardAssumption DEF Minutes, Quotient
<1>2. TypeOK => board.penalty_time \in Int \cup {None}
  BY DEF TypeOK, IsStore, Times
<1> QED
  BY <1>1, <1>2 DEF PenaltyMinutes

LEMMA SolvedIsFinite ==
    ASSUME TypeOK, NEW t
    PROVE  IsFiniteSet(PenaltySolved(t)) /\ SolvedOf(t) \in Nat
<1>1. IsFiniteSet(board.problems) /\ PenaltySolved(t) \in SUBSET board.problems
  BY DEF TypeOK, IsStore, PenaltySolved
<1>2. IsFiniteSet(PenaltySolved(t))
  BY <1>1, FS_Subset
<1> QED
  BY <1>2, FS_CardinalityType DEF SolvedOf, PenaltySolved

LEMMA PenaltyType ==
    ASSUME TypeOK, NEW t \in Teams
    PROVE  PenaltyOf(t) \in Int
<1>1. PICK f : /\ IsSum(f, PenaltyPart(t), PenaltySolved(t))
               /\ PenaltyOf(t) = f[PenaltySolved(t)]
  BY SolvedIsFinite, PenaltyIsSum
<1>2. ASSUME NEW p \in PenaltySolved(t)
      PROVE  PenaltyPart(t)[p] \in Int
  <2>1. p \in Problems
    BY DEF TypeOK, IsStore, PenaltySolved
  <2>2. accums[t][p].accept_time \in Int /\ accums[t][p].penalty_attempts \in Nat
    BY <2>1 DEF TypeOK, Accum
  <2>3. Minutes(accums[t][p].accept_time) \in Int /\ PenaltyMinutes \in Int
    BY <2>2, MinutesType
  <2> QED
    BY <2>2, <2>3 DEF PenaltyPart
<1>3. PenaltyPart(t) \in [PenaltySolved(t) -> Int]
  BY <1>2 DEF PenaltyPart
<1> QED
  BY <1>1, <1>3, SolvedIsFinite, SumIsInt

LEMMA CellType ==
    ASSUME TypeOK, NEW t \in Teams, NEW p \in Problems
    PROVE  CellOf(t, p) \in Cell
<1>1. accums[t][p] \in Accum
  BY DEF TypeOK
<1>2. Minutes(accums[t][p].accept_time) \in Int
  BY <1>1, MinutesType DEF Accum
<1> QED
  BY <1>1, <1>2 DEF CellOf, Cell, Accum

-----------------------------------------------------------------------------
(* Places                                                                  *)

LEMMA HasFirst ==
    ASSUME NEW n \in Nat, NEW S \in SUBSET (1..n), S # {}
    PROVE  \E i \in S : \A j \in S : i <= j
<1> DEFINE N == 1..n
           F == {1..i : i \in S}
<1>1. F \in SUBSET (SUBSET N) /\ F # {}
  <2>1. \A i \in S : 1..i \in F /\ 1..i \in SUBSET N
    OBVIOUS
  <2> QED
    BY <2>1
<1>2. IsFiniteSet(N)
  BY FS_Interval
<1>3. PICK T \in F : \A U \in F : ~(U \subseteq T /\ U # T)
  <2> HIDE DEF F, N
  <2> QED
    BY <1>1, <1>2, HasSmallest
<1>4. PICK i \in S : T = 1..i
  OBVIOUS
<1>5. ASSUME NEW j \in S, j < i
      PROVE  FALSE
  <2>1. 1..j \subseteq 1..i /\ i \in 1..i /\ i \notin 1..j
    BY <1>5
  <2> QED
    BY <1>3, <1>4, <2>1
<1> QED
  BY <1>5

LEMMA HasLast ==
    ASSUME NEW n \in Nat, NEW S \in SUBSET (1..n), S # {}
    PROVE  \E i \in S : \A j \in S : j <= i
<1> DEFINE R == {k \in 1..n : n + 1 - k \in S}
<1>1. \A j \in S : n + 1 - j \in R
  OBVIOUS
<1>2. R \in SUBSET (1..n) /\ R # {}
  BY <1>1
<1>3. PICK k \in R : \A m \in R : k <= m
  <2> HIDE DEF R
  <2> QED
    BY <1>2, HasFirst
<1> QED
  BY <1>1, <1>3

Equal(a, b) == SolvedOf(a) = SolvedOf(b) /\ PenaltyOf(a) = PenaltyOf(b)

(* The row that begins a group of teams of one place.                      *)
Leads(order, i) == i = 1 \/ ~Equal(order[i], order[i - 1])

LEMMA PlacesExist ==
    ASSUME NEW n \in Nat, NEW order \in [1..n -> OnBoard]
    PROVE  Places(order) =
               [i \in 1..n |-> IF i = 1 THEN 1
                               ELSE IF Equal(order[i], order[i - 1])
                               THEN Places(order)[i - 1] ELSE i]
<1> DEFINE Rule(f) == [i \in 1..n |-> IF i = 1 THEN 1
                                      ELSE IF Equal(order[i], order[i - 1])
                                      THEN f[i - 1] ELSE i]
           Leaders(i) == {k \in 1..i : Leads(order, k)}
           Leader(i) == CHOOSE k \in Leaders(i) : \A m \in Leaders(i) : m <= k
           place == [i \in 1..n |-> Leader(i)]
<1>1. Len(order) = n
  OBVIOUS
<1>2. Places(order) = CHOOSE f : f = Rule(f)
  BY <1>1 DEF Places, Equal
<1>3. ASSUME NEW i \in 1..n
      PROVE  Leader(i) \in Leaders(i) /\ \A m \in Leaders(i) : m <= Leader(i)
  <2>1. Leaders(i) \in SUBSET (1..i) /\ 1 \in Leaders(i) /\ i \in Nat
    BY DEF Leads
  <2> HIDE DEF Leaders
  <2>2. \E k \in Leaders(i) : \A m \in Leaders(i) : m <= k
    BY <2>1, HasLast
  <2> QED
    BY <2>2
<1>4. ASSUME NEW i \in 1..n
      PROVE  Leader(i) = Rule(place)[i]
  <2>1. CASE i = 1
    BY <1>3, <2>1
  <2>2. CASE i # 1 /\ ~Equal(order[i], order[i - 1])
    <3>1. i \in Leaders(i)
      BY <2>2 DEF Leads
    <3>2. i <= Leader(i) /\ Leader(i) \in 1..i
      BY <1>3, <3>1
    <3> HIDE DEF Leader
    <3> QED
      BY <2>2, <3>2
  <2>3. CASE i # 1 /\ Equal(order[i], order[i - 1])
    <3>1. ~Leads(order, i)
      BY <2>3 DEF Leads
    <3>2. Leaders(i) = Leaders(i - 1)
      BY <2>3, <3>1
    <3>3. Leader(i) = Leader(i - 1)
      <4> HIDE DEF Leaders
      <4> QED
        BY <3>2
    <3> HIDE DEF Leader
    <3> QED
      BY <2>3, <3>3
  <2> QED
    BY <2>1, <2>2, <2>3
<1>5. place = Rule(place)
  <2> HIDE DEF Leader
  <2> QED
    BY <1>4
<1> HIDE DEF Rule, place
<1>6. Places(order) = Rule(Places(order))
  BY <1>2, <1>5
<1> QED
  BY <1>6 DEF Rule

(* The place of a row is the number of the row that begins its group.      *)
LEMMA PlacesAre ==
    ASSUME NEW n \in Nat, NEW order \in [1..n -> OnBoard], NEW i \in 1..n
    PROVE  /\ Places(order)[i] \in 1..i
           /\ Leads(order, Places(order)[i])
           /\ \A m \in Places(order)[i] + 1 .. i : ~Leads(order, m)
<1> DEFINE place == Places(order)
           Good(k) == /\ place[k] \in 1..k
                      /\ Leads(order, place[k])
                      /\ \A m \in place[k] + 1 .. k : ~Leads(order, m)
           Bad == {k \in 1..n : ~Good(k)}
<1> SUFFICES Good(i)
  OBVIOUS
<1> SUFFICES ASSUME Bad # {} PROVE FALSE
  OBVIOUS
<1>1. \A k \in 1..n : place[k] = IF k = 1 THEN 1
                                  ELSE IF Equal(order[k], order[k - 1])
                                  THEN place[k - 1] ELSE k
  BY PlacesExist
<1> HIDE DEF place
<1>2. PICK k \in Bad : \A m \in Bad : k <= m
  <2>1. Bad \in SUBSET (1..n)
    OBVIOUS
  <2> HIDE DEF Bad
  <2> QED
    BY <2>1, HasFirst
<1>3. CASE k = 1
  <2>1. place[1] = 1 /\ Leads(order, 1)
    BY <1>1, <1>3 DEF Leads
  <2> QED
    BY <1>2, <1>3, <2>1
<1>4. CASE k # 1 /\ ~Equal(order[k], order[k - 1])
  <2>1. place[k] = k /\ Leads(order, k)
    BY <1>1, <1>4 DEF Leads
  <2> QED
    BY <1>2, <1>4, <2>1
<1>5. CASE k # 1 /\ Equal(order[k], order[k - 1])
  <2>1. place[k] = place[k - 1] /\ ~Leads(order, k)
    BY <1>1, <1>5 DEF Leads
  <2>2. k - 1 \in 1..n /\ Good(k - 1)
    BY <1>2, <1>5
  <2> QED
    BY <1>2, <1>5, <2>1, <2>2
<1> QED
  BY <1>3, <1>4, <1>5

RowAt(order, i) ==
    [team    |-> order[i],
     name    |-> board.teams[order[i]].name,
     solved  |-> SolvedOf(order[i]),
     penalty |-> PenaltyOf(order[i]),
     place   |-> Places(order)[i],
     cells   |-> [p \in board.problems |-> CellOf(order[i], p)]]

(* The rows of a finished scoreboard are those of one of the orders.       *)
RowsOf(order) == [i \in 1..Cardinality(OnBoard) |-> RowAt(order, i)]

RowsAreSorted == pc = "done" => \E order \in Orders : rows = RowsOf(order)

LEMMA OnBoardIsFinite ==
    ASSUME TypeOK
    PROVE  /\ IsFiniteSet(OnBoard) /\ Cardinality(OnBoard) \in Nat
           /\ OnBoard \subseteq Teams
           /\ \A t \in OnBoard : board.teams[t].name \in Nat
<1>1. /\ IsFiniteSet(DOMAIN board.teams)
      /\ OnBoard \in SUBSET DOMAIN board.teams
      /\ OnBoard \subseteq Teams
      /\ \A t \in OnBoard : board.teams[t].name \in Nat
  BY DEF TypeOK, IsStore, IsTable, OnBoard
<1> QED
  BY <1>1, FS_Subset, FS_CardinalityType

LEMMA RowType ==
    ASSUME TypeOK, NEW order \in Orders
    PROVE  RowsOf(order) \in Seq(Row)
<1>1. Cardinality(OnBoard) \in Nat
  BY OnBoardIsFinite
<1>2. ASSUME NEW i \in 1..Cardinality(OnBoard)
      PROVE  RowAt(order, i) \in Row
  <2>1. order \in [1..Cardinality(OnBoard) -> OnBoard]
    BY DEF Orders
  <2>2. order[i] \in Teams /\ board.teams[order[i]].name \in Nat
    BY <2>1, OnBoardIsFinite
  <2>3. SolvedOf(order[i]) \in Nat /\ PenaltyOf(order[i]) \in Int
    BY <2>2, SolvedIsFinite, PenaltyType
  <2>4. Places(order)[i] \in Nat
    BY <1>1, <2>1, PlacesAre
  <2>5. [p \in board.problems |-> CellOf(order[i], p)]
            \in [board.problems -> Cell]
    <3>1. board.problems \subseteq Problems
      BY DEF TypeOK, IsStore
    <3> QED
      BY <2>2, <3>1, CellType
  <2> QED
    BY <2>2, <2>3, <2>4, <2>5 DEF RowAt, Row
<1> QED
  BY <1>1, <1>2 DEF RowsOf

LEMMA BuildRowsStep ==
    ASSUME TypeOK, BuildRows
    PROVE  \E order \in Orders : rows' = RowsOf(order)
<1>1. PICK order \in Orders :
          rows' = [i \in 1..Len(order) |-> RowAt(order, i)]
  BY DEF BuildRows, RowAt
<1>2. order \in [1..Cardinality(OnBoard) -> OnBoard] /\ Cardinality(OnBoard) \in Nat
  BY OnBoardIsFinite DEF Orders
<1>3. Len(order) = Cardinality(OnBoard)
  BY <1>2
<1> QED
  BY <1>1, <1>3 DEF RowsOf

LEMMA WorkIs ==
    /\ DOMAIN Work = {"judgements", "submissions", "firsts", "done"}
    /\ Work["judgements"] = DOMAIN board.judgements
    /\ Work["submissions"] = DOMAIN board.submissions
    /\ Work["firsts"] = OnBoard \X Problems
    /\ Work["done"] = {}
BY DEF Work

(* What depends on the store alone, or on it and the verdicts.             *)
LEMMA SameStore ==
    ASSUME UNCHANGED board
    PROVE  /\ Work' = Work /\ OnBoard' = OnBoard
           /\ \A s : ContestTime(s)' = ContestTime(s)
           /\ \A type : Solves(type)' = Solves(type)
           /\ \A type : CountsAsPenalty(type)' = CountsAsPenalty(type)
           /\ UNCHANGED best => /\ \A s : Judged(s)' = Judged(s)
                               /\ JudgedSubmissions' = JudgedSubmissions
<1>1. OnBoard' = OnBoard
  BY DEF OnBoard
<1>2. \A s : ContestTime(s)' = ContestTime(s)
  BY DEF ContestTime
<1>3. \A type : Solves(type)' = Solves(type)
  BY DEF Solves
<1>4. \A type : CountsAsPenalty(type)' = CountsAsPenalty(type)
  BY DEF CountsAsPenalty
<1>5. UNCHANGED best => \A s : Judged(s)' = Judged(s)
  BY DEF Judged, InContest, ContestTime
<1>6. UNCHANGED best => JudgedSubmissions' = JudgedSubmissions
  BY <1>5 DEF JudgedSubmissions
<1> QED
  BY <1>1, <1>2, <1>3, <1>4, <1>5, <1>6 DEF Work

LEMMA StoreStays == [Next]_vars => UNCHANGED board
BY DEF Next, vars, ConsiderJudgement, OrderSubmissions, CountSubmission,
       LookForFirsts, ConsiderSolve, BuildRows

LEMMA TypeStep == TypeOK /\ TodoIsJudged /\ [Next]_vars
                      => TypeOK' /\ TodoIsJudged'
<1> SUFFICES ASSUME TypeOK, TodoIsJudged, [Next]_vars
             PROVE  TypeOK' /\ TodoIsJudged'
  OBVIOUS
<1>0. board' = board /\ Work' = Work
  BY StoreStays, SameStore
<1> SUFFICES /\ pc' \in DOMAIN Work /\ todo' \subseteq Work[pc']
             /\ best' \in [Submissions -> Verdict \cup {None}]
             /\ accums' \in [Teams -> [Problems -> Accum]]
             /\ first_solve' \in [Problems -> FirstSolve \cup {None}]
             /\ rows' \in Seq(Row)
             /\ pc' = "submissions" => todo' \subseteq JudgedSubmissions'
  BY <1>0 DEF TypeOK, TodoIsJudged, Row
<1>1. CASE ConsiderJudgement
  <2>1. PICK j \in todo : KeepLatestVerdict(j) /\ todo' = todo \ {j}
    BY <1>1 DEF ConsiderJudgement
  <2>2. /\ j \in DOMAIN board.judgements
        /\ board.judgements[j].type \in JudgementTypes \cup {None}
        /\ board.judgements[j].end_time \in Int \cup {None}
    BY <1>1, <2>1 DEF ConsiderJudgement, TypeOK, Work, IsStore, IsTable, Times
  <2>3. best' \in [Submissions -> Verdict \cup {None}]
    <3>1. ValueOr(board.judgements[j].end_time, 0) \in Int
      BY <2>2 DEF ValueOr
    <3> QED
      BY <2>1, <2>2, <3>1 DEF KeepLatestVerdict, TypeOK, Verdict
  <2> QED
    BY <1>1, <2>1, <2>3 DEF ConsiderJudgement, TypeOK
<1>2. CASE OrderSubmissions
  <2>1. todo' \subseteq DOMAIN board.submissions
    BY <1>2 DEF OrderSubmissions, Judged
  <2>2. todo' \subseteq JudgedSubmissions'
    BY <1>2, SameStore DEF OrderSubmissions, JudgedSubmissions
  <2> QED
    BY <1>2, <2>1, <2>2, WorkIs DEF OrderSubmissions, TypeOK
<1>3. CASE CountSubmission
  <2>1. PICK s \in todo :
            /\ IF board.submissions[s].team \in OnBoard
               THEN accums' = [accums EXCEPT ![board.submissions[s].team]
                                              [board.submissions[s].problem] =
                                   Attempt(@, s)]
               ELSE UNCHANGED accums
            /\ todo' = todo \ {s}
    BY <1>3 DEF CountSubmission
  <2>2. Judged(s) /\ pc = "submissions" /\ pc' = pc
    BY <1>3 DEF CountSubmission, TodoIsJudged, JudgedSubmissions
  <2> DEFINE t == board.submissions[s].team
             p == board.submissions[s].problem
  <2>3. /\ t \in Teams /\ p \in Problems
        /\ Attempt(accums[t][p], s) \in Accum
    BY <2>2, JudgedType, AttemptType DEF TypeOK
  <2>4. accums' \in [Teams -> [Problems -> Accum]]
    <3> DEFINE accum == Attempt(accums[t][p], s)
    <3>1. \/ accums' = accums
          \/ accums' = [accums EXCEPT ![t] = [@ EXCEPT ![p] = accum]]
      BY <2>1
    <3> HIDE DEF accum
    <3>2. accum \in Accum
      BY <2>3 DEF accum
    <3> HIDE DEF t, p
    <3>3. accums \in [Teams -> [Problems -> Accum]]
      BY DEF TypeOK
    <3>4. [accums[t] EXCEPT ![p] = accum] \in [Problems -> Accum]
      BY <2>3, <3>2, <3>3
    <3> QED
      BY <2>3, <3>1, <3>3, <3>4
  <2>5. todo' \subseteq JudgedSubmissions'
    BY <1>0, <1>3, <2>1, <2>2, SameStore DEF CountSubmission, TodoIsJudged
  <2> QED
    BY <1>3, <2>1, <2>4, <2>5 DEF CountSubmission, TypeOK
<1>4. CASE LookForFirsts
  BY <1>4, WorkIs DEF LookForFirsts, TypeOK
<1>5. CASE ConsiderSolve
  <2>1. PICK t \in Teams, p \in Problems :
            EarlierIsFirst(t, p) /\ todo' = todo \ {<<t, p>>}
    BY <1>5 DEF ConsiderSolve
  <2>2. accums[t][p].accept_time \in Int
    BY DEF TypeOK, Accum
  <2>3. [time |-> accums[t][p].accept_time, team |-> t] \in FirstSolve
    BY <2>2 DEF FirstSolve
  <2>4. \/ first_solve' = first_solve
        \/ first_solve' = [first_solve EXCEPT ![p] =
                               [time |-> accums[t][p].accept_time, team |-> t]]
    BY <2>1 DEF EarlierIsFirst
  <2>5. first_solve' \in [Problems -> FirstSolve \cup {None}]
    BY <2>3, <2>4 DEF TypeOK
  <2> QED
    BY <1>5, <2>1, <2>5 DEF ConsiderSolve, TypeOK
<1>6. CASE BuildRows
  <2>1. rows' \in Seq(Row)
    BY <1>6, BuildRowsStep, RowType
  <2> QED
    BY <1>6, <2>1, WorkIs DEF BuildRows, TypeOK
<1>7. CASE UNCHANGED vars
  BY <1>0, <1>7, SameStore DEF vars, TypeOK, TodoIsJudged
<1> QED
  BY <1>1, <1>2, <1>3, <1>4, <1>5, <1>6, <1>7 DEF Next

LEMMA TypeInit == Init => TypeOK /\ TodoIsJudged
<1> SUFFICES ASSUME Init PROVE TypeOK /\ TodoIsJudged
  OBVIOUS
<1>1. IsStore(board)
  BY ScoreboardAssumption DEF Init
<1>2. NoAccum \in Accum
  BY DEF NoAccum, Accum
<1> QED
  BY <1>1, <1>2, WorkIs DEF Init, TypeOK, TodoIsJudged

(* Whatever the store holds and whatever order it is visited in, the       *)
(* verdicts, counts, first solves and rows are of their types.             *)
THEOREM BoardTypeCorrect == Spec => []TypeOK
<1>1. Spec => [](TypeOK /\ TodoIsJudged)
  BY TypeInit, TypeStep, PTL DEF Spec
<1> QED
  BY <1>1, PTL

-----------------------------------------------------------------------------
(* Verdicts, through all loops                                             *)

LEMMA VerdictsStay ==
    ASSUME VerdictsSoFar, UNCHANGED <<board, best>>,
           \A s \in Submissions : Seen(s)' = Seen(s)
    PROVE  VerdictsSoFar'
<1>1. \A i : End(i)' = End(i) /\ VerdictOf(i)' = VerdictOf(i)
  BY DEF End, VerdictOf
<1>2. ASSUME NEW s \in Submissions
      PROVE  IsLatest(best[s], Seen(s))' <=> IsLatest(best[s], Seen(s))
  BY <1>1 DEF IsLatest
<1> QED
  BY <1>2 DEF VerdictsSoFar

LEMMA VerdictsFollow == TypeOK /\ VerdictsSoFar /\ [Next]_vars => VerdictsSoFar'
<1> SUFFICES ASSUME TypeOK, VerdictsSoFar, [Next]_vars PROVE VerdictsSoFar'
  OBVIOUS
<1>1. CASE ConsiderJudgement
  BY <1>1, VerdictStep DEF ConsiderJudgement
<1>2. ASSUME UNCHANGED <<board, best>>,
             \/ UNCHANGED <<pc, todo>>
             \/ pc # "judgements" /\ pc' # "judgements"
             \/ todo = {} /\ pc' # "judgements"
      PROVE  VerdictsSoFar'
  <2>1. \A s : Verdicts(s)' = Verdicts(s)
    BY <1>2 DEF Verdicts
  <2>2. \A s \in Submissions : Seen(s)' = Seen(s)
    BY <1>2, <2>1 DEF Seen
  <2> QED
    BY <1>2, <2>2, VerdictsStay
<1> QED
  BY <1>1, <1>2 DEF Next, vars, OrderSubmissions, CountSubmission,
                    LookForFirsts, ConsiderSolve, BuildRows

LEMMA VerdictsInit == Init => VerdictsSoFar
BY DEF Init, VerdictsSoFar, Seen, IsLatest, Verdicts

(* A submission's verdict is that of its judgement that ended last, in     *)
(* whatever order the judgements are visited: a rejudgement replaces what  *)
(* it rejudges.                                                            *)
THEOREM LatestVerdictCounts == Spec => []VerdictIsLatest
<1>1. VerdictsSoFar => VerdictIsLatest
  BY DEF VerdictsSoFar, VerdictIsLatest, Seen, IsLatest, VerdictOf
<1> QED
  BY <1>1, TypeInit, TypeStep, VerdictsInit, VerdictsFollow, PTL DEF Spec

-----------------------------------------------------------------------------
(* Attempts                                                                *)

Solving(s) == Solves(best[s].type)

Costing(s) == Solving(s) \/ CountsAsPenalty(best[s].type)

(* What is counted for a team and a problem is a part C of its submissions *)
(* D: all of them while none solves it, and else those up to one that does,*)
(* the first in the order they were taken.                                 *)
Tallies(accum, C, D) ==
    /\ C \subseteq D
    /\ accum.num_judged = Cardinality(C)
    /\ accum.penalty_attempts = Cardinality({s \in C : Costing(s)})
    /\ ~accum.solved => C = D /\ \A s \in C : ~Solving(s)
    /\ accum.solved =>
           \E a \in C :
               /\ Solving(a) /\ accum.accept_time = ContestTime(a)
               /\ \A s \in C : /\ ContestTime(s) <= ContestTime(a)
                               /\ Solving(s) => s = a
               /\ \A s \in D : s \notin C => ContestTime(a) <= ContestTime(s)

(* The submissions the loop has counted, or all once it is over.           *)
Counted(t, p) ==
    IF pc = "submissions" THEN Tried(t, p) \ todo ELSE Tried(t, p)

HasTally(t, p) == \E C : Tallies(accums[t][p], C, Counted(t, p))

AttemptsSoFar ==
    /\ pc = "judgements" =>
           accums = [t \in Teams |-> [p \in Problems |-> NoAccum]]
    /\ pc = "submissions" =>
           \A s \in JudgedSubmissions, r \in todo :
               s \notin todo => ContestTime(s) <= ContestTime(r)
    /\ pc # "judgements" => \A t \in OnBoard, p \in Problems : HasTally(t, p)

LEMMA TriedIsFinite ==
    ASSUME TypeOK, NEW t, NEW p
    PROVE  /\ IsFiniteSet(Tried(t, p))
           /\ \A s \in Tried(t, p) : Judged(s) /\ ContestTime(s) \in Int
<1>1. IsFiniteSet(DOMAIN board.submissions)
  BY DEF TypeOK, IsStore, IsTable
<1>2. Tried(t, p) \in SUBSET DOMAIN board.submissions
  BY DEF Tried, Judged
<1> QED
  BY <1>1, <1>2, FS_Subset, JudgedType DEF Tried

LEMMA TallyGrows ==
    ASSUME TypeOK, NEW accum \in Accum, NEW C, NEW D, Tallies(accum, C, D),
           IsFiniteSet(D), NEW s, s \notin D, ContestTime(s) \in Int,
           \A d \in D : ContestTime(d) \in Int /\ ContestTime(d) <= ContestTime(s)
    PROVE  \E E : Tallies(Attempt(accum, s), E, D \cup {s})
<1>1. CASE accum.solved
  <2>1. Attempt(accum, s) = accum
    BY <1>1 DEF Attempt
  <2>2. Tallies(accum, C, D \cup {s})
    BY <1>1 DEF Tallies
  <2> QED
    BY <2>1, <2>2
<1>2. CASE ~accum.solved
  <2> DEFINE E == D \cup {s}
             next == Attempt(accum, s)
             cost == {d \in D : Costing(d)}
  <2>1. /\ C = D /\ \A d \in D : ~Solving(d)
        /\ accum.num_judged = Cardinality(D)
        /\ accum.penalty_attempts = Cardinality(cost)
    BY <1>2 DEF Tallies
  <2>2. /\ next.num_judged = accum.num_judged + 1
        /\ next.penalty_attempts =
               accum.penalty_attempts + IF Costing(s) THEN 1 ELSE 0
        /\ next.solved = Solving(s)
        /\ Solving(s) => next.accept_time = ContestTime(s)
    BY <1>2 DEF Attempt, Solving, Costing
  <2>3. Cardinality(E) = Cardinality(D) + 1
    BY FS_AddElement
  <2>4. {d \in E : Costing(d)} = IF Costing(s) THEN cost \cup {s} ELSE cost
    OBVIOUS
  <2>5. Cardinality({d \in E : Costing(d)}) =
            Cardinality(cost) + IF Costing(s) THEN 1 ELSE 0
    <3>1. IsFiniteSet(cost) /\ s \notin cost
      <4>1. cost \in SUBSET D
        OBVIOUS
      <4> QED
        BY <4>1, FS_Subset
    <3>2. Cardinality(cost \cup {s}) = Cardinality(cost) + 1
      BY <3>1, FS_AddElement
    <3>3. Cardinality(cost) + 0 = Cardinality(cost)
      BY <3>1, FS_CardinalityType
    <3> HIDE DEF cost
    <3> QED
      BY <2>4, <3>2, <3>3
  <2>6. Tallies(next, E, E)
    <3> HIDE DEF next
    <3>1. ContestTime(s) <= ContestTime(s)
      OBVIOUS
    <3> QED
      BY <2>1, <2>2, <2>3, <2>5, <3>1 DEF Tallies
  <2> QED
    BY <2>6
<1> QED
  BY <1>1, <1>2

(* The same in the state after a step that leaves verdicts alone.          *)
LEMMA HasTallyNext ==
    ASSUME UNCHANGED <<board, best>>, NEW t, NEW p
    PROVE  HasTally(t, p)' <=> \E C : Tallies(accums'[t][p], C, Counted(t, p)')
<1>1. /\ \A s : ContestTime(s)' = ContestTime(s)
      /\ \A s : Solving(s)' = Solving(s)
      /\ \A s : Costing(s)' = Costing(s)
  BY SameStore DEF Solving, Costing
<1>2. ASSUME NEW C
      PROVE  Tallies(accums[t][p], C, Counted(t, p))'
                 <=> Tallies(accums'[t][p], C, Counted(t, p)')
  <2>1. {s \in C : Costing(s)'} = {s \in C : Costing(s)}
    BY <1>1
  <2> QED
    BY <1>1, <2>1 DEF Tallies
<1> QED
  BY <1>2 DEF HasTally

LEMMA NothingTallied == Tallies(NoAccum, {}, {})
<1>1. {s \in {} : Costing(s)} = {}
  OBVIOUS
<1> QED
  BY <1>1, FS_EmptySet DEF Tallies, NoAccum

LEMMA AttemptsFollow ==
    TypeOK /\ TodoIsJudged /\ AttemptsSoFar /\ [Next]_vars => AttemptsSoFar'
<1> SUFFICES ASSUME TypeOK, TodoIsJudged, AttemptsSoFar, [Next]_vars
             PROVE  AttemptsSoFar'
  OBVIOUS
<1>1. CASE ConsiderJudgement
  BY <1>1 DEF ConsiderJudgement, AttemptsSoFar
<1>2. CASE OrderSubmissions
  <2>1. /\ accums' = [t \in Teams |-> [p \in Problems |-> NoAccum]]
        /\ todo' = JudgedSubmissions /\ pc' = "submissions"
        /\ UNCHANGED <<board, best>>
    BY <1>2 DEF OrderSubmissions, AttemptsSoFar, JudgedSubmissions
  <2>2. JudgedSubmissions' = JudgedSubmissions /\ OnBoard' = OnBoard
    BY <2>1, SameStore
  <2>3. ASSUME NEW t \in OnBoard, NEW p \in Problems
        PROVE  HasTally(t, p)'
    <3>1. Counted(t, p)' = {}
      BY <2>1, <2>2, SameStore DEF Counted, Tried, JudgedSubmissions
    <3>2. accums'[t][p] = NoAccum
      BY <2>1, OnBoardIsFinite
    <3> QED
      BY <2>1, <3>1, <3>2, NothingTallied, HasTallyNext
  <2> QED
    BY <2>1, <2>2, <2>3 DEF AttemptsSoFar
<1>3. CASE CountSubmission
  <2>1. PICK s \in todo :
            /\ \A other \in todo : ContestTime(s) <= ContestTime(other)
            /\ IF board.submissions[s].team \in OnBoard
               THEN accums' = [accums EXCEPT ![board.submissions[s].team]
                                              [board.submissions[s].problem] =
                                   Attempt(@, s)]
               ELSE UNCHANGED accums
            /\ todo' = todo \ {s}
    BY <1>3 DEF CountSubmission
  <2>2. /\ Judged(s) /\ s \in Submissions /\ s \in JudgedSubmissions
        /\ pc = "submissions" /\ pc' = pc
        /\ UNCHANGED <<board, best>>
    BY <1>3 DEF CountSubmission, TodoIsJudged, JudgedSubmissions
  <2> DEFINE team == board.submissions[s].team
             problem == board.submissions[s].problem
  <2>3. team \in Teams /\ problem \in Problems /\ ContestTime(s) \in Int
    BY <2>2, JudgedType
  <2>4. /\ JudgedSubmissions' = JudgedSubmissions /\ OnBoard' = OnBoard
        /\ \A d : ContestTime(d)' = ContestTime(d)
    BY <2>2, SameStore
  <2>5. \A d \in JudgedSubmissions, r \in todo' :
            d \notin todo' => ContestTime(d) <= ContestTime(r)
    BY <2>1, <2>2 DEF AttemptsSoFar
  <2>6. ASSUME NEW t \in OnBoard, NEW p \in Problems
        PROVE  HasTally(t, p)'
    <3>1. PICK C : Tallies(accums[t][p], C, Counted(t, p))
      BY <2>2 DEF AttemptsSoFar, HasTally
    <3>2. Counted(t, p)' = Tried(t, p) \ (todo \ {s})
      BY <2>1, <2>2, SameStore DEF Counted, Tried
    <3>3. Counted(t, p) = Tried(t, p) \ todo
      BY <2>2 DEF Counted
    <3>4. CASE t = team /\ p = problem
      <4>1. accums'[t][p] = Attempt(accums[t][p], s)
        <5>1. accums' = [accums EXCEPT ![t] =
                             [@ EXCEPT ![p] = Attempt(accums[t][p], s)]]
          BY <2>1, <3>4
        <5>2. accums \in [Teams -> [Problems -> Accum]] /\ t \in Teams
          BY OnBoardIsFinite DEF TypeOK
        <5> HIDE DEF team, problem
        <5> QED
          BY <5>1, <5>2
      <4>2. s \in Tried(t, p)
        BY <2>2, <3>4 DEF Tried
      <4>3. Counted(t, p)' = Counted(t, p) \cup {s} /\ s \notin Counted(t, p)
        BY <2>1, <3>2, <3>3, <4>2
      <4>4. IsFiniteSet(Counted(t, p))
        <5>1. Counted(t, p) \in SUBSET Tried(t, p)
          BY <3>3
        <5> QED
          BY <5>1, TriedIsFinite, FS_Subset
      <4>5. ASSUME NEW d \in Counted(t, p)
            PROVE  ContestTime(d) \in Int /\ ContestTime(d) <= ContestTime(s)
        <5>1. d \in Tried(t, p) /\ d \notin todo
          BY <3>3
        <5>2. d \in JudgedSubmissions
          BY <5>1 DEF Tried, JudgedSubmissions
        <5> QED
          BY <2>1, <2>2, <5>1, <5>2, TriedIsFinite DEF AttemptsSoFar
      <4>6. accums[t][p] \in Accum
        BY OnBoardIsFinite DEF TypeOK
      <4>7. \E E : Tallies(Attempt(accums[t][p], s), E, Counted(t, p) \cup {s})
        BY <2>3, <3>1, <4>3, <4>4, <4>5, <4>6, TallyGrows
      <4> QED
        BY <2>2, <4>1, <4>3, <4>7, HasTallyNext
    <3>5. CASE ~(t = team /\ p = problem)
      <4>1. accums'[t][p] = accums[t][p]
        <5> DEFINE next == Attempt(accums[team][problem], s)
        <5>1. \/ accums' = accums
              \/ accums' = [accums EXCEPT ![team] = [@ EXCEPT ![problem] = next]]
          BY <2>1
        <5>2. accums \in [Teams -> [Problems -> Accum]] /\ t \in Teams
          BY OnBoardIsFinite DEF TypeOK
        <5> HIDE DEF team, problem, next
        <5> QED
          BY <3>5, <5>1, <5>2
      <4>2. s \notin Tried(t, p)
        BY <3>5 DEF Tried
      <4>3. Counted(t, p)' = Counted(t, p)
        BY <3>2, <3>3, <4>2
      <4> QED
        BY <2>2, <3>1, <4>1, <4>3, HasTallyNext
    <3> QED
      BY <3>4, <3>5
  <2> QED
    BY <2>2, <2>4, <2>5, <2>6 DEF AttemptsSoFar
<1>4. ASSUME UNCHANGED <<board, best, accums>>, pc # "judgements",
             pc' # "judgements", pc' # "submissions",
             pc = "submissions" => todo = {}
      PROVE  AttemptsSoFar'
  <2>1. ASSUME NEW t \in OnBoard, NEW p \in Problems
        PROVE  HasTally(t, p)'
    <3>1. Counted(t, p)' = Counted(t, p)
      BY <1>4, SameStore DEF Counted, Tried
    <3> QED
      BY <1>4, <3>1, HasTallyNext DEF AttemptsSoFar, HasTally
  <2> QED
    BY <1>4, <2>1, SameStore DEF AttemptsSoFar
<1>5. CASE UNCHANGED vars
  <2>1. ASSUME NEW t, NEW p
        PROVE  HasTally(t, p)' <=> HasTally(t, p)
    <3>1. Counted(t, p)' = Counted(t, p)
      BY <1>5, SameStore DEF Counted, Tried, vars
    <3> QED
      BY <1>5, <3>1, HasTallyNext DEF HasTally, vars
  <2> QED
    BY <1>5, <2>1, SameStore DEF AttemptsSoFar, vars
<1> QED
  BY <1>1, <1>2, <1>3, <1>4, <1>5
     DEF Next, LookForFirsts, ConsiderSolve, BuildRows

LEMMA AttemptsInit == Init => AttemptsSoFar
BY DEF Init, AttemptsSoFar

(* What the counts are once every submission has been counted.             *)
LEMMA TallyMeans ==
    ASSUME TypeOK, AttemptsSoFar, pc \notin {"judgements", "submissions"},
           NEW t \in OnBoard, NEW p \in Problems
    PROVE  LET accum   == accums[t][p]
               upTo    == {s \in Tried(t, p) :
                              ContestTime(s) <= FirstAccept(t, p)}
           IN  /\ accum.solved <=> t \in Solvers(p)
               /\ t \notin Solvers(p) =>
                      accum.num_judged = Cardinality(Tried(t, p))
               /\ t \in Solvers(p) =>
                      /\ accum.accept_time = FirstAccept(t, p)
                      /\ FirstAccept(t, p) \in Int
                      /\ \A s \in Accepted(t, p) :
                             FirstAccept(t, p) <= ContestTime(s)
                      /\ \E a \in Accepted(t, p), C \in SUBSET upTo :
                             /\ ContestTime(a) = FirstAccept(t, p)
                             /\ Earlier(t, p) \cup {a} \subseteq C
                             /\ accum.num_judged = Cardinality(C)
                             /\ accum.penalty_attempts =
                                    Cardinality({s \in C : Costing(s)})
<1> DEFINE accum == accums[t][p]
           upTo == {s \in Tried(t, p) : ContestTime(s) <= FirstAccept(t, p)}
<1>1. PICK C : Tallies(accum, C, Tried(t, p))
  BY DEF AttemptsSoFar, HasTally, Counted
<1>2. Accepted(t, p) = {s \in Tried(t, p) : Solving(s)}
  BY DEF Accepted, Solving
<1>3. t \in Solvers(p) <=> Accepted(t, p) # {}
  BY DEF Solvers
<1>4. accum \in Accum
  BY OnBoardIsFinite DEF TypeOK
<1> HIDE DEF accum
<1>5. CASE ~accum.solved
  BY <1>1, <1>2, <1>3, <1>5 DEF Tallies, accum
<1>6. CASE accum.solved
  <2>1. PICK a \in C :
            /\ Solving(a) /\ accum.accept_time = ContestTime(a)
            /\ \A s \in C : /\ ContestTime(s) <= ContestTime(a)
                            /\ Solving(s) => s = a
            /\ \A s \in Tried(t, p) :
                   s \notin C => ContestTime(a) <= ContestTime(s)
    BY <1>1, <1>6 DEF Tallies
  <2>2. C \subseteq Tried(t, p) /\ a \in Accepted(t, p)
    BY <1>1, <1>2, <2>1 DEF Tallies
  <2>3. \A s \in Tried(t, p) : ContestTime(s) \in Int
    BY TriedIsFinite
  <2>4. \A s \in Accepted(t, p) : ContestTime(a) <= ContestTime(s)
    BY <1>2, <2>1, <2>2, <2>3
  <2>5. FirstAccept(t, p) = ContestTime(a)
    <3> DEFINE T == {ContestTime(s) : s \in Accepted(t, p)}
               m == ContestTime(a)
    <3>1. m \in T /\ \A n \in T : n \in Int /\ m <= n
      BY <1>2, <2>2, <2>3, <2>4
    <3>2. FirstAccept(t, p) = CHOOSE x \in T : \A y \in T : x <= y
      BY DEF FirstAccept, Min
    <3> HIDE DEF T, m
    <3>3. \A x \in T : (\A y \in T : x <= y) => x = m
      BY <3>1
    <3>4. (CHOOSE x \in T : \A y \in T : x <= y) = m
      BY <3>1, <3>3
    <3> QED
      BY <3>2, <3>4 DEF m
  <2>6. C \in SUBSET upTo
    BY <2>1, <2>2, <2>5
  <2>7. Earlier(t, p) \cup {a} \subseteq C
    BY <2>1, <2>2, <2>3, <2>5 DEF Earlier
  <2>8. /\ accum.num_judged = Cardinality(C)
        /\ accum.penalty_attempts = Cardinality({s \in C : Costing(s)})
    BY <1>1 DEF Tallies
  <2>9. FirstAccept(t, p) \in Int
    BY <2>2, <2>3, <2>5
  <2> HIDE DEF upTo
  <2>10. \E b \in Accepted(t, p), D \in SUBSET upTo :
             /\ ContestTime(b) = FirstAccept(t, p)
             /\ Earlier(t, p) \cup {b} \subseteq D
             /\ accum.num_judged = Cardinality(D)
             /\ accum.penalty_attempts = Cardinality({s \in D : Costing(s)})
    BY <2>2, <2>5, <2>6, <2>7, <2>8
  <2> QED
    BY <1>3, <1>6, <2>1, <2>2, <2>4, <2>5, <2>9, <2>10 DEF accum, upTo
<1> QED
  BY <1>5, <1>6

BoardInv == TypeOK /\ TodoIsJudged /\ VerdictsSoFar /\ AttemptsSoFar

LEMMA BoardInvHolds == Spec => []BoardInv
<1>1. Init => BoardInv
  BY TypeInit, VerdictsInit, AttemptsInit DEF BoardInv
<1>2. BoardInv /\ [Next]_vars => BoardInv'
  BY TypeStep, VerdictsFollow, AttemptsFollow DEF BoardInv
<1> QED
  BY <1>1, <1>2, PTL DEF Spec

(* A problem counts as solved for a team exactly when one of its judged    *)
(* submissions says so, at the time of the earliest of those, and its      *)
(* attempts are those up to it: for every store and every order in which   *)
(* submissions of one time are taken.                                      *)
THEOREM AttemptsAreCounted == Spec => []AttemptsUpToAccept
<1>1. BoardInv => AttemptsUpToAccept
  <2> SUFFICES ASSUME BoardInv, pc = "done",
                      NEW t \in OnBoard, NEW p \in Problems
               PROVE  LET accum == accums[t][p]
                          accepts == {s \in Tried(t, p) :
                                         ContestTime(s) <= FirstAccept(t, p)}
                      IN  IF t \notin Solvers(p)
                          THEN /\ accum.num_judged = Cardinality(Tried(t, p))
                               /\ ~accum.solved
                          ELSE /\ accum.solved
                               /\ accum.accept_time = FirstAccept(t, p)
                               /\ accum.num_judged \in
                                      1 + Cardinality(Earlier(t, p)) ..
                                      Cardinality(accepts)
    BY DEF AttemptsUpToAccept
  <2> DEFINE accepts == {s \in Tried(t, p) :
                            ContestTime(s) <= FirstAccept(t, p)}
  <2>1. TypeOK /\ AttemptsSoFar /\ pc \notin {"judgements", "submissions"}
    BY DEF BoardInv
  <2>2. CASE t \notin Solvers(p)
    BY <2>1, <2>2, TallyMeans
  <2>3. CASE t \in Solvers(p)
    <3>1. /\ accums[t][p].solved
          /\ accums[t][p].accept_time = FirstAccept(t, p)
          /\ FirstAccept(t, p) \in Int
      BY <2>1, <2>3, TallyMeans
    <3>2. PICK a \in Accepted(t, p), C \in SUBSET accepts :
              /\ ContestTime(a) = FirstAccept(t, p)
              /\ Earlier(t, p) \cup {a} \subseteq C
              /\ accums[t][p].num_judged = Cardinality(C)
      BY <2>1, <2>3, TallyMeans
    <3>3. /\ IsFiniteSet(accepts) /\ Cardinality(accepts) \in Nat
          /\ IsFiniteSet(C) /\ Cardinality(C) \in Nat
          /\ Cardinality(C) <= Cardinality(accepts)
      <4>1. accepts \in SUBSET Tried(t, p) /\ IsFiniteSet(Tried(t, p))
        BY <2>1, TriedIsFinite
      <4> HIDE DEF accepts
      <4> QED
        BY <4>1, FS_Subset, FS_CardinalityType
    <3>4. /\ IsFiniteSet(Earlier(t, p)) /\ Cardinality(Earlier(t, p)) \in Nat
          /\ Cardinality(Earlier(t, p)) + 1 <= Cardinality(C)
      <4>1. a \notin Earlier(t, p)
        BY <3>1, <3>2 DEF Earlier
      <4>2. Earlier(t, p) \in SUBSET C /\ Earlier(t, p) \cup {a} \in SUBSET C
        BY <3>2
      <4>3. IsFiniteSet(Earlier(t, p)) /\ Cardinality(Earlier(t, p)) \in Nat
        BY <3>3, <4>2, FS_Subset, FS_CardinalityType
      <4>4. Cardinality(Earlier(t, p) \cup {a}) = Cardinality(Earlier(t, p)) + 1
        BY <4>1, <4>3, FS_AddElement
      <4>5. Cardinality(Earlier(t, p) \cup {a}) <= Cardinality(C)
        BY <3>3, <4>2, FS_Subset
      <4> QED
        BY <4>3, <4>4, <4>5
    <3> HIDE DEF accepts
    <3>5. accums[t][p].num_judged \in
              1 + Cardinality(Earlier(t, p)) .. Cardinality(accepts)
      BY <3>2, <3>3, <3>4
    <3> QED
      BY <2>3, <3>1, <3>5 DEF accepts
  <2> QED
    BY <2>2, <2>3
<1> QED
  BY <1>1, BoardInvHolds, PTL

-----------------------------------------------------------------------------
(* First to solve                                                          *)

FirstOf(t, p) == [time |-> accums[t][p].accept_time, team |-> t]

(* The teams the loop has been at and found to have solved the problem.    *)
Found(p) == {t \in OnBoard : accums[t][p].solved /\ <<t, p>> \notin todo}

IsFirst(first, p) ==
    IF Found(p) = {} THEN first = None
    ELSE \E t \in Found(p) :
             /\ first = FirstOf(t, p)
             /\ \A u \in Found(p) : accums[t][p].accept_time
                                       <= accums[u][p].accept_time

FirstsSoFar ==
    /\ pc \in {"judgements", "submissions"} =>
           first_solve = [p \in Problems |-> None]
    /\ pc = "firsts" =>
           \A t \in OnBoard, p \in Problems :
               <<t, p>> \in todo => accums[t][p].solved
    /\ pc \in {"firsts", "done"} =>
           \A p \in Problems : IsFirst(first_solve[p], p)

(* One more team that solved the problem.                                  *)
LEMMA FirstStep ==
    ASSUME TypeOK, FirstsSoFar, pc = "firsts",
           NEW t \in OnBoard, NEW p \in Problems, <<t, p>> \in todo,
           EarlierIsFirst(t, p), todo' = todo \ {<<t, p>>},
           UNCHANGED <<board, accums>>, NEW q \in Problems
    PROVE  IsFirst(first_solve[q], q)'
<1>1. \A u \in OnBoard : accums[u][q].accept_time \in Int
  BY OnBoardIsFinite DEF TypeOK, Accum
<1>2. first_solve \in [Problems -> FirstSolve \cup {None}]
  BY DEF TypeOK
<1>3. IsFirst(first_solve[q], q) /\ accums[t][p].solved
  BY DEF FirstsSoFar
<1>4. Found(q)' = IF q = p THEN Found(q) \cup {t} ELSE Found(q)
  BY <1>3, SameStore DEF Found
<1>5. \A u : FirstOf(u, q)' = FirstOf(u, q)
  BY DEF FirstOf
<1>6. IsFirst(first_solve[q], q)' <=>
          IF Found(q)' = {} THEN first_solve'[q] = None
          ELSE \E f \in Found(q)' :
                   /\ first_solve'[q] = FirstOf(f, q)
                   /\ \A u \in Found(q)' : accums[f][q].accept_time
                                              <= accums[u][q].accept_time
  BY <1>5 DEF IsFirst
<1>7. CASE q # p
  <2>1. first_solve'[q] = first_solve[q]
    BY <1>2, <1>7 DEF EarlierIsFirst
  <2> QED
    BY <1>3, <1>4, <1>6, <1>7, <2>1 DEF IsFirst
<1>8. CASE q = p
  <2> DEFINE found == Found(p)
             Time(u) == accums[u][p].accept_time
  <2>1. \A u \in found \cup {t} : Time(u) \in Int
    BY <1>1, <1>8 DEF Found
  <2>2. \A u \in found \cup {t} : /\ FirstOf(u, p).time = Time(u)
                                 /\ FirstOf(u, p) # None
    <3>1. \A u \in found \cup {t} : u \in Teams
      BY OnBoardIsFinite DEF Found
    <3>2. \A u \in found \cup {t} : FirstOf(u, p) \in FirstSolve
      BY <2>1, <3>1 DEF FirstOf, FirstSolve
    <3> QED
      BY <3>2, NoneIsNothing DEF FirstOf
  <2> SUFFICES \E f \in found \cup {t} :
                   /\ first_solve'[p] = FirstOf(f, p)
                   /\ \A u \in found \cup {t} : Time(f) <= Time(u)
    BY <1>4, <1>6, <1>8
  <2>3. CASE first_solve[p] # None /\ Time(t) >= first_solve[p].time
    <3>1. first_solve'[p] = first_solve[p]
      BY <2>3 DEF EarlierIsFirst
    <3>2. PICK f \in found : /\ first_solve[p] = FirstOf(f, p)
                             /\ \A u \in found : Time(f) <= Time(u)
      BY <1>3, <1>8, <2>3 DEF IsFirst
    <3> HIDE DEF found, Time
    <3>3. first_solve[p].time = Time(f)
      BY <2>2, <3>2
    <3> QED
      BY <2>1, <2>3, <3>1, <3>2, <3>3
  <2>4. CASE first_solve[p] = None \/ ~(Time(t) >= first_solve[p].time)
    <3>1. first_solve'[p] = FirstOf(t, p)
      BY <1>2, <2>4 DEF EarlierIsFirst, FirstOf
    <3>2. \A u \in found : Time(t) <= Time(u)
      <4>1. CASE found = {}
        BY <4>1
      <4>2. CASE found # {}
        <5>1. PICK f \in found : /\ first_solve[p] = FirstOf(f, p)
                                 /\ \A u \in found : Time(f) <= Time(u)
          BY <1>3, <1>8, <4>2 DEF IsFirst
        <5> HIDE DEF found, Time
        <5>2. first_solve[p].time = Time(f) /\ first_solve[p] # None
          BY <2>2, <5>1
        <5> QED
          BY <2>1, <2>4, <5>1, <5>2
      <4> QED
        BY <4>1, <4>2
    <3>3. Time(t) <= Time(t)
      BY <2>1
    <3> HIDE DEF found, Time
    <3> QED
      BY <3>1, <3>2, <3>3
  <2> QED
    BY <2>3, <2>4
<1> QED
  BY <1>7, <1>8

LEMMA FirstsFollow == TypeOK /\ FirstsSoFar /\ [Next]_vars => FirstsSoFar'
<1> SUFFICES ASSUME TypeOK, FirstsSoFar, [Next]_vars PROVE FirstsSoFar'
  OBVIOUS
<1>1. CASE ConsiderJudgement \/ OrderSubmissions \/ CountSubmission
  BY <1>1 DEF ConsiderJudgement, OrderSubmissions, CountSubmission, FirstsSoFar
<1>2. CASE LookForFirsts
  <2>1. /\ pc' = "firsts" /\ UNCHANGED <<board, accums>>
        /\ first_solve' = [p \in Problems |-> None]
        /\ todo' = {solve \in OnBoard \X Problems :
                       accums[solve[1]][solve[2]].solved}
    BY <1>2 DEF LookForFirsts, FirstsSoFar
  <2>2. OnBoard' = OnBoard
    BY <2>1, SameStore
  <2>3. \A t \in OnBoard, p \in Problems :
            <<t, p>> \in todo' <=> accums[t][p].solved
    BY <2>1
  <2>4. \A p \in Problems : Found(p)' = {}
    BY <2>1, <2>2, <2>3 DEF Found
  <2>5. \A p \in Problems : IsFirst(first_solve[p], p)'
    BY <2>1, <2>4 DEF IsFirst
  <2> QED
    BY <2>1, <2>2, <2>3, <2>5 DEF FirstsSoFar
<1>3. CASE ConsiderSolve
  <2>1. PICK t \in Teams, p \in Problems :
            /\ <<t, p>> \in todo /\ EarlierIsFirst(t, p)
            /\ todo' = todo \ {<<t, p>>}
    BY <1>3 DEF ConsiderSolve
  <2>2. pc = "firsts" /\ pc' = pc /\ UNCHANGED <<board, accums>>
    BY <1>3 DEF ConsiderSolve
  <2>3. t \in OnBoard
    BY <2>1, <2>2 DEF TypeOK, Work
  <2>4. \A q \in Problems : IsFirst(first_solve[q], q)'
    BY <2>1, <2>2, <2>3, FirstStep
  <2> QED
    BY <2>1, <2>2, <2>4, SameStore DEF FirstsSoFar
<1>4. ASSUME UNCHANGED <<board, todo, accums, first_solve>>,
             \/ pc' = pc
             \/ pc = "firsts" /\ pc' = "done"
      PROVE  FirstsSoFar'
  <2>1. \A p \in Problems : Found(p)' = Found(p)
    BY <1>4, SameStore DEF Found
  <2>2. \A p \in Problems : IsFirst(first_solve[p], p)'
                                <=> IsFirst(first_solve[p], p)
    BY <1>4, <2>1 DEF IsFirst, FirstOf
  <2> QED
    BY <1>4, <2>2, SameStore DEF FirstsSoFar
<1>5. CASE BuildRows
  BY <1>4, <1>5 DEF BuildRows
<1>6. CASE UNCHANGED vars
  BY <1>4, <1>6 DEF vars
<1> QED
  BY <1>1, <1>2, <1>3, <1>5, <1>6 DEF Next

LEMMA FirstsInit == Init => FirstsSoFar
BY DEF Init, FirstsSoFar

-----------------------------------------------------------------------------
(* The rows of a finished scoreboard                                       *)

LEMMA SameRows ==
    ASSUME UNCHANGED <<board, accums, first_solve>>
    PROVE  /\ Orders' = Orders
           /\ \A order : RowsOf(order)' = RowsOf(order)
<1>1. \A t : SolvedOf(t)' = SolvedOf(t)
  BY DEF SolvedOf
<1>2. PenaltyMinutes' = PenaltyMinutes
  BY DEF PenaltyMinutes
<1>3. \A t : PenaltyOf(t)' = PenaltyOf(t)
  BY <1>2 DEF PenaltyOf, MapThenSumSet, MapThenFoldSet
<1>4. OnBoard' = OnBoard
  BY SameStore
<1>5. \A t, p : CellOf(t, p)' = CellOf(t, p)
  BY DEF CellOf
<1>6. \A order : Places(order)' = Places(order)
  BY <1>1, <1>3 DEF Places
<1>7. \A a, b : Before(a, b)' = Before(a, b)
  BY <1>1, <1>3 DEF Before
<1>8. Orders' = Orders
  BY <1>4, <1>7 DEF Orders
<1>9. \A order, i : RowAt(order, i)' = RowAt(order, i)
  BY <1>1, <1>3, <1>5, <1>6 DEF RowAt
<1> QED
  BY <1>4, <1>8, <1>9 DEF RowsOf

LEMMA RowsFollow == TypeOK /\ RowsAreSorted /\ [Next]_vars => RowsAreSorted'
<1> SUFFICES ASSUME TypeOK, RowsAreSorted, [Next]_vars PROVE RowsAreSorted'
  OBVIOUS
<1>1. CASE BuildRows
  BY <1>1, BuildRowsStep, SameRows DEF BuildRows, RowsAreSorted
<1>2. CASE UNCHANGED vars
  BY <1>2, SameRows DEF vars, RowsAreSorted
<1> QED
  BY <1>1, <1>2 DEF Next, ConsiderJudgement, OrderSubmissions, CountSubmission,
                    LookForFirsts, ConsiderSolve, RowsAreSorted

DoneInv == BoardInv /\ FirstsSoFar /\ RowsAreSorted

LEMMA DoneInvHolds == Spec => []DoneInv
<1>1. Init => FirstsSoFar /\ RowsAreSorted
  BY FirstsInit DEF Init, RowsAreSorted
<1>2. BoardInv /\ FirstsSoFar /\ RowsAreSorted /\ [Next]_vars
          => FirstsSoFar' /\ RowsAreSorted'
  BY FirstsFollow, RowsFollow DEF BoardInv
<1> QED
  BY <1>1, <1>2, BoardInvHolds, PTL DEF Spec, DoneInv

(* Every team that is not hidden is in an order exactly once.              *)
LEMMA OrderIsBijection ==
    ASSUME TypeOK, NEW order \in Orders
    PROVE  LET n == Cardinality(OnBoard)
           IN  /\ n \in Nat /\ order \in [1..n -> OnBoard]
               /\ \A i, j \in 1..n : order[i] = order[j] => i = j
               /\ \A t \in OnBoard : \E i \in 1..n : order[i] = t
<1> DEFINE n == Cardinality(OnBoard)
<1>1. n \in Nat /\ IsFiniteSet(OnBoard)
  BY OnBoardIsFinite
<1>2. /\ order \in [1..n -> OnBoard]
      /\ \A i, j \in 1..n : i < j => order[i] # order[j]
  BY DEF Orders
<1>3. \A i, j \in 1..n : order[i] = order[j] => i = j
  BY <1>1, <1>2
<1>4. IsFiniteSet(1..n) /\ Cardinality(1..n) = n
  BY <1>1, FS_Interval
<1>5. order \in Injection(1..n, OnBoard)
  BY <1>2, <1>3 DEF Injection, IsInjective
<1>6. order \in Surjection(1..n, OnBoard)
  <2> DEFINE N == 1..n
  <2>1. order \in Injection(N, OnBoard) /\ Cardinality(N) = Cardinality(OnBoard)
    BY <1>4, <1>5
  <2> HIDE DEF N
  <2>2. order \in Surjection(N, OnBoard)
    BY <1>1, <2>1, FS_Injection
  <2> QED
    BY <2>2 DEF N
<1> QED
  BY <1>1, <1>2, <1>3, <1>6 DEF Surjection

(* What a finished scoreboard says of row i.                               *)
LEMMA RowsAre ==
    ASSUME DoneInv, pc = "done"
    PROVE  \E order \in Orders :
               /\ rows = RowsOf(order)
               /\ DOMAIN rows = 1..Cardinality(OnBoard)
               /\ Len(rows) = Cardinality(OnBoard)
               /\ \A i \in DOMAIN rows : rows[i] = RowAt(order, i)
<1>1. TypeOK /\ RowsAreSorted
  BY DEF DoneInv, BoardInv
<1>2. PICK order \in Orders : rows = RowsOf(order)
  BY <1>1 DEF RowsAreSorted
<1>3. Cardinality(OnBoard) \in Nat
  BY <1>1, OnBoardIsFinite
<1> QED
  BY <1>2, <1>3 DEF RowsOf

(* A problem somebody on the board solved has exactly one first to solve,  *)
(* and nobody on the board solved it earlier: for every store and every    *)
(* order the teams are visited in.                                         *)
THEOREM FirstIsUnique == Spec => []OneFirstToSolve
<1>1. DoneInv => OneFirstToSolve
  <2> SUFFICES ASSUME DoneInv, pc = "done", NEW p \in board.problems
               PROVE  LET firsts == {i \in DOMAIN rows :
                                        rows[i].cells[p].is_first_to_solve}
                      IN  /\ Cardinality(firsts) =
                                 IF Solvers(p) = {} THEN 0 ELSE 1
                          /\ \A i \in firsts, t \in Solvers(p) :
                                 FirstAccept(rows[i].team, p)
                                     <= FirstAccept(t, p)
    BY DEF OneFirstToSolve
  <2> DEFINE firsts == {i \in DOMAIN rows : rows[i].cells[p].is_first_to_solve}
  <2>1. /\ TypeOK /\ AttemptsSoFar /\ FirstsSoFar /\ p \in Problems
        /\ pc \notin {"judgements", "submissions"}
    BY DEF DoneInv, BoardInv, TypeOK, IsStore
  <2>2. PICK order \in Orders :
            /\ DOMAIN rows = 1..Cardinality(OnBoard)
            /\ \A i \in DOMAIN rows : rows[i] = RowAt(order, i)
    BY RowsAre
  <2>3. ASSUME NEW i \in DOMAIN rows
        PROVE  /\ rows[i].team = order[i]
               /\ i \in firsts <=> /\ accums[order[i]][p].solved
                                   /\ first_solve[p] # None
                                   /\ first_solve[p].team = order[i]
    BY <2>2 DEF RowAt, CellOf
  <2>4. ASSUME NEW t \in OnBoard
        PROVE  /\ t \in Solvers(p) <=> accums[t][p].solved
               /\ t \in Solvers(p) => accums[t][p].accept_time = FirstAccept(t, p)
    BY <2>1, TallyMeans
  <2>5. Found(p) = Solvers(p)
    <3>1. todo = {}
      BY <2>1 DEF TypeOK, Work
    <3> QED
      BY <2>4, <3>1 DEF Found, Solvers
  <2>6. IsFirst(first_solve[p], p)
    BY <2>1 DEF FirstsSoFar
  <2>7. CASE Solvers(p) = {}
    <3>1. firsts = {}
      BY <2>5, <2>6, <2>7, <2>3 DEF IsFirst
    <3> HIDE DEF firsts
    <3> QED
      BY <2>7, <3>1, FS_EmptySet DEF firsts
  <2>8. CASE Solvers(p) # {}
    <3>1. PICK t \in Solvers(p) :
              /\ first_solve[p] = FirstOf(t, p)
              /\ \A u \in Solvers(p) : accums[t][p].accept_time
                                          <= accums[u][p].accept_time
      BY <2>5, <2>6, <2>8 DEF IsFirst
    <3>2. t \in OnBoard /\ accums[t][p].solved
      BY <2>4 DEF Solvers
    <3>3. first_solve[p] # None /\ first_solve[p].team = t
      <4>1. accums[t][p].accept_time \in Int /\ t \in Teams
        BY <2>1, <3>2, OnBoardIsFinite DEF TypeOK, Accum
      <4>2. FirstOf(t, p) \in FirstSolve
        BY <4>1 DEF FirstOf, FirstSolve
      <4> QED
        BY <3>1, <4>2, NoneIsNothing DEF FirstOf
    <3>4. PICK k \in DOMAIN rows : order[k] = t
      BY <2>1, <2>2, <3>2, OrderIsBijection
    <3>5. \A i \in DOMAIN rows : order[i] = t => i = k
      BY <2>1, <2>2, <3>4, OrderIsBijection
    <3>6. firsts = {k}
      <4>1. \A i \in DOMAIN rows : i \in firsts <=> i = k
        BY <2>3, <3>2, <3>3, <3>4, <3>5
      <4>2. firsts \subseteq DOMAIN rows
        OBVIOUS
      <4> HIDE DEF firsts
      <4> QED
        BY <3>4, <4>1, <4>2
    <3>7. Cardinality(firsts) = 1
      BY <3>6, FS_Singleton
    <3>8. \A u \in Solvers(p) : FirstAccept(t, p) <= FirstAccept(u, p)
      BY <2>4, <3>1 DEF Solvers
    <3>9. rows[k].team = t
      BY <2>3, <3>4
    <3> HIDE DEF firsts
    <3>10. \A i \in firsts, u \in Solvers(p) :
              FirstAccept(rows[i].team, p) <= FirstAccept(u, p)
      BY <3>6, <3>8, <3>9
    <3> QED
      BY <2>8, <3>7, <3>10 DEF firsts
  <2> QED
    BY <2>7, <2>8
<1> QED
  BY <1>1, DoneInvHolds, PTL

-----------------------------------------------------------------------------
(* Ranks                                                                   *)

Outranks(a, b) == \/ SolvedOf(a) > SolvedOf(b)
                  \/ SolvedOf(a) = SolvedOf(b) /\ PenaltyOf(a) < PenaltyOf(b)

(* The teams from the one that leads a place down to one that shares it    *)
(* are equal, and those above outrank it.                                  *)
LEMMA PlaceIsShared ==
    ASSUME NEW n \in Nat, NEW order \in [1..n -> OnBoard], NEW i \in 1..n,
           NEW m \in Places(order)[i] .. i
    PROVE  Equal(order[m], order[i])
<1> DEFINE k == Places(order)[i]
           Bad == {l \in 1..n : l \in k..i /\ ~Equal(order[l], order[i])}
<1>1. k \in 1..i /\ \A l \in k + 1 .. i : ~Leads(order, l)
  BY PlacesAre
<1> HIDE DEF k
<1> SUFFICES ASSUME ~Equal(order[m], order[i]) PROVE FALSE
  OBVIOUS
<1>2. m \in Bad
  BY <1>1 DEF k
<1>3. PICK l \in Bad : \A j \in Bad : j <= l
  <2>1. Bad \in SUBSET (1..n) /\ Bad # {}
    BY <1>2
  <2> HIDE DEF Bad
  <2> QED
    BY <2>1, HasLast
<1>4. l # i
  BY <1>3 DEF Equal
<1>5. l + 1 \in k + 1 .. i /\ l + 1 \in 1..n
  BY <1>1, <1>3, <1>4
<1>6. Equal(order[l + 1], order[i])
  <2>1. l + 1 \in k..i /\ ~(l + 1 <= l)
    BY <1>1, <1>3, <1>5
  <2>2. l + 1 \notin Bad
    BY <1>3, <2>1
  <2> QED
    BY <1>5, <2>1, <2>2
<1>7. Equal(order[l + 1], order[l])
  BY <1>1, <1>3, <1>5 DEF Leads
<1> QED
  BY <1>3, <1>6, <1>7 DEF Equal

LEMMA OutranksFromPlace ==
    ASSUME TypeOK, NEW order \in Orders, NEW i \in 1..Cardinality(OnBoard),
           NEW j \in 1..Cardinality(OnBoard)
    PROVE  Outranks(order[j], order[i]) <=> j < Places(order)[i]
<1> DEFINE n == Cardinality(OnBoard)
           k == Places(order)[i]
<1>1. n \in Nat /\ order \in [1..n -> OnBoard]
  BY OrderIsBijection
<1>2. k \in 1..i /\ Leads(order, k)
  BY <1>1, PlacesAre
<1>3. \A m \in k..i : Equal(order[m], order[i])
  BY <1>1, PlaceIsShared
<1>4. \A m \in 1..n : SolvedOf(order[m]) \in Nat /\ PenaltyOf(order[m]) \in Int
  BY <1>1, OnBoardIsFinite, SolvedIsFinite, PenaltyType
<1>5. \A l, m \in 1..n : l < m => ~Outranks(order[m], order[l])
  BY <1>1 DEF Orders, Before, Outranks
<1> HIDE DEF n, k
<1>6. CASE j >= k
  <2>1. CASE j <= i
    BY <1>1, <1>2, <1>3, <1>4, <1>6, <2>1 DEF Equal, Outranks, n, k
  <2>2. CASE ~(j <= i)
    BY <1>1, <1>2, <1>5, <1>6, <2>2 DEF n, k
  <2> QED
    BY <2>1, <2>2
<1>7. CASE ~(j >= k)
  <2>1. /\ k - 1 \in 1..n /\ k \in 1..n /\ j \in 1..n /\ i \in 1..n
        /\ j <= k - 1 /\ k # 1 /\ k \in k..i
    BY <1>1, <1>2, <1>7 DEF n
  <2>2. ~Equal(order[k], order[k - 1]) /\ Equal(order[k], order[i])
    BY <1>2, <1>3, <2>1 DEF Leads
  <2>3. ~Outranks(order[k], order[k - 1])
    BY <1>5, <2>1
  <2>4. Outranks(order[k - 1], order[i])
    BY <1>4, <2>1, <2>2, <2>3 DEF Equal, Outranks
  <2>5. j = k - 1 \/ ~Outranks(order[k - 1], order[j])
    BY <1>5, <2>1
  <2>6. Outranks(order[j], order[i])
    BY <1>4, <2>1, <2>4, <2>5 DEF Outranks
  <2> QED
    BY <1>2, <1>7, <2>6 DEF k
<1> QED
  BY <1>6, <1>7

(* Places are ranks, for every store and every way of sorting teams the    *)
(* comparator does not separate.                                           *)
THEOREM PlacesRank == Spec => []PlacesAreRanks
<1>1. DoneInv => PlacesAreRanks
  <2> DEFINE Better(a, b) == \/ a.solved > b.solved
                             \/ a.solved = b.solved /\ a.penalty < b.penalty
  <2> SUFFICES ASSUME DoneInv, pc = "done"
               PROVE  /\ Len(rows) = Cardinality(OnBoard)
                      /\ {rows[i].team : i \in DOMAIN rows} = OnBoard
                      /\ \A i \in DOMAIN rows :
                             /\ rows[i].place = 1 + Cardinality(
                                    {j \in DOMAIN rows :
                                        Better(rows[j], rows[i])})
                             /\ \A j \in DOMAIN rows :
                                    i < j => rows[i].place <= rows[j].place
    BY DEF PlacesAreRanks
  <2> DEFINE n == Cardinality(OnBoard)
  <2>1. PICK order \in Orders :
            /\ DOMAIN rows = 1..n /\ Len(rows) = n
            /\ \A i \in 1..n : rows[i] = RowAt(order, i)
    BY RowsAre
  <2>2. TypeOK
    BY DEF DoneInv, BoardInv
  <2>3. /\ n \in Nat /\ order \in [1..n -> OnBoard]
        /\ \A t \in OnBoard : \E i \in 1..n : order[i] = t
    BY <2>2, OrderIsBijection
  <2>4. \A i \in 1..n : /\ rows[i].team = order[i]
                        /\ rows[i].solved = SolvedOf(order[i])
                        /\ rows[i].penalty = PenaltyOf(order[i])
                        /\ rows[i].place = Places(order)[i]
    BY <2>1 DEF RowAt
  <2>5. {rows[i].team : i \in DOMAIN rows} = OnBoard
    <3> HIDE DEF n
    <3>1. \A i \in 1..n : rows[i].team \in OnBoard
      BY <2>3, <2>4
    <3>2. \A t \in OnBoard : \E i \in 1..n : t = rows[i].team
      BY <2>3, <2>4
    <3> QED
      BY <2>1, <3>1, <3>2
  <2>6. ASSUME NEW i \in 1..n
        PROVE  rows[i].place = 1 + Cardinality({j \in DOMAIN rows :
                                                   Better(rows[j], rows[i])})
    <3> DEFINE k == Places(order)[i]
               above == {j \in DOMAIN rows : Better(rows[j], rows[i])}
    <3> SUFFICES rows[i].place = 1 + Cardinality(above)
      OBVIOUS
    <3>1. k \in 1..i
      BY <2>3, PlacesAre
    <3>2. \A j \in 1..n : Better(rows[j], rows[i]) <=> j < k
      <4>1. \A j \in 1..n : Outranks(order[j], order[i]) <=> j < k
        BY <2>2, OutranksFromPlace
      <4> HIDE DEF n, k
      <4> QED
        BY <2>4, <4>1 DEF Outranks
    <3>3. above = 1 .. k - 1
      <4> HIDE DEF Better, n, k
      <4>1. \A j \in 1 .. k - 1 : j \in 1..n /\ j < k
        BY <2>3, <3>1
      <4>2. \A j \in 1..n : j < k => j \in 1 .. k - 1
        BY <2>3, <3>1
      <4> QED
        BY <2>1, <3>2, <4>1, <4>2
    <3>4. Cardinality(1 .. k - 1) = k - 1
      <4> HIDE DEF k
      <4>1. k \in Nat /\ 1 <= k /\ k - 1 \in Int
        BY <2>3, <3>1
      <4>2. Cardinality(1 .. k - 1) = IF 1 > k - 1 THEN 0 ELSE k - 1 - 1 + 1
        BY <4>1, FS_Interval
      <4> QED
        BY <4>1, <4>2
    <3>5. rows[i].place = k /\ k \in Nat
      BY <2>3, <2>4, <3>1
    <3> HIDE DEF above, k
    <3> QED
      BY <3>3, <3>4, <3>5
  <2>7. ASSUME NEW i \in 1..n, NEW j \in 1..n, i < j
        PROVE  rows[i].place <= rows[j].place
    <3> DEFINE k == Places(order)[i]
               l == Places(order)[j]
    <3>1. /\ k \in 1..i /\ Leads(order, k)
          /\ l \in 1..j /\ \A m \in l + 1 .. j : ~Leads(order, m)
      BY <2>3, PlacesAre
    <3> HIDE DEF k, l
    <3>2. k <= l
      BY <2>3, <2>7, <3>1
    <3> QED
      BY <2>4, <3>2 DEF k, l
  <2> HIDE DEF Better
  <2> QED
    BY <2>1, <2>5, <2>6, <2>7
<1> QED
  BY <1>1, DoneInvHolds, PTL

-----------------------------------------------------------------------------
(* The scoreboard is its definition                                        *)

LEMMA UntiedMeans ==
    ASSUME Untied
    PROVE  /\ \A p \in Problems, t \in OnBoard : \A a, b \in Tried(t, p) :
                  ContestTime(a) = ContestTime(b) => a = b
           /\ \A p \in Problems : \A t, u \in Solvers(p) :
                  FirstAccept(t, p) = FirstAccept(u, p) => t = u
BY DEF Untied, Distinct

(* From the start of the contest on, cutting toward zero is the floor.     *)
LEMMA MinutesFloor == \A ms \in Int : ms >= 0 => Minutes(ms) = FloorMinutes(ms)
BY DEF Minutes, Quotient, FloorMinutes

(* Without ties the attempts counted are the accepted one and those before.*)
LEMMA UntiedTally ==
    ASSUME TypeOK, AttemptsSoFar, pc \notin {"judgements", "submissions"},
           Untied, NEW t \in OnBoard, NEW p \in Problems, t \in Solvers(p)
    PROVE  /\ accums[t][p].num_judged = 1 + Cardinality(Earlier(t, p))
           /\ accums[t][p].penalty_attempts =
                  1 + Cardinality({s \in Earlier(t, p) :
                                      CountsAsPenalty(best[s].type)})
           /\ Cardinality({s \in Earlier(t, p) :
                               CountsAsPenalty(best[s].type)}) \in Nat
<1> DEFINE first == FirstAccept(t, p)
           upTo == {s \in Tried(t, p) : ContestTime(s) <= first}
           costly == {s \in Earlier(t, p) : CountsAsPenalty(best[s].type)}
<1>1. first \in Int /\ \A s \in Accepted(t, p) : first <= ContestTime(s)
  BY TallyMeans
<1>2. PICK a \in Accepted(t, p), C \in SUBSET upTo :
          /\ ContestTime(a) = first
          /\ Earlier(t, p) \cup {a} \subseteq C
          /\ accums[t][p].num_judged = Cardinality(C)
          /\ accums[t][p].penalty_attempts = Cardinality({s \in C : Costing(s)})
  BY TallyMeans
<1>3. /\ IsFiniteSet(Tried(t, p))
      /\ \A s \in Tried(t, p) : ContestTime(s) \in Int
  BY TriedIsFinite
<1>4. a \in Tried(t, p) /\ Solving(a)
  BY <1>2 DEF Accepted, Solving
<1>5. Earlier(t, p) = {s \in Tried(t, p) : ContestTime(s) < first}
  BY DEF Earlier
<1> HIDE DEF first
<1>6. C = Earlier(t, p) \cup {a} /\ a \notin Earlier(t, p)
  <2>1. ASSUME NEW s \in C
        PROVE  s \in Earlier(t, p) \cup {a}
    <3>1. s \in Tried(t, p) /\ ContestTime(s) <= first
      BY <1>2
    <3>2. CASE ContestTime(s) < first
      BY <1>5, <3>1, <3>2
    <3>3. CASE ContestTime(s) = first
      BY <1>2, <1>4, <3>1, <3>3, UntiedMeans
    <3> QED
      BY <1>1, <1>3, <3>1, <3>2, <3>3
  <2>2. a \notin Earlier(t, p)
    BY <1>1, <1>2, <1>5
  <2> QED
    BY <1>2, <2>1, <2>2
<1>7. {s \in C : Costing(s)} = costly \cup {a} /\ a \notin costly
  <2>1. Costing(a)
    BY <1>4 DEF Costing
  <2>2. \A s \in Earlier(t, p) : Costing(s) <=> CountsAsPenalty(best[s].type)
    <3>1. ASSUME NEW s \in Earlier(t, p), Solving(s)
          PROVE  FALSE
      <4>1. s \in Accepted(t, p)
        BY <1>5, <3>1 DEF Accepted, Solving
      <4>2. first <= ContestTime(s) /\ ContestTime(s) < first
        BY <1>1, <1>5, <4>1
      <4>3. ContestTime(s) \in Int
        BY <1>3, <1>5
      <4> QED
        BY <1>1, <4>2, <4>3
    <3> QED
      BY <3>1 DEF Costing
  <2> QED
    BY <1>6, <2>1, <2>2
<1>8. /\ IsFiniteSet(Earlier(t, p)) /\ Cardinality(Earlier(t, p)) \in Nat
      /\ IsFiniteSet(costly) /\ Cardinality(costly) \in Nat
  <2>1. Earlier(t, p) \in SUBSET Tried(t, p) /\ costly \in SUBSET Tried(t, p)
    BY <1>5
  <2> HIDE DEF costly
  <2> QED
    BY <1>3, <2>1, FS_Subset, FS_CardinalityType
<1> HIDE DEF costly
<1>9. Cardinality(C) = 1 + Cardinality(Earlier(t, p))
  <2>1. Cardinality(Earlier(t, p) \cup {a}) = Cardinality(Earlier(t, p)) + 1
    BY <1>6, <1>8, FS_AddElement
  <2> QED
    BY <1>6, <1>8, <2>1
<1>10. Cardinality({s \in C : Costing(s)}) = 1 + Cardinality(costly)
  <2>1. Cardinality(costly \cup {a}) = Cardinality(costly) + 1
    BY <1>7, <1>8, FS_AddElement
  <2> QED
    BY <1>7, <1>8, <2>1
<1> QED
  BY <1>2, <1>8, <1>9, <1>10 DEF costly

(* The definition's penalty, as a sum.                                     *)
ReferenceSolved(t) == {p \in board.problems : t \in Solvers(p)}

ReferencePart(t) ==
    [p \in ReferenceSolved(t) |->
        FloorMinutes(FirstAccept(t, p)) +
            PenaltyMinutes * Cardinality({s \in Earlier(t, p) :
                                             CountsAsPenalty(best[s].type)})]

LEMMA ReferenceIsSum ==
    ASSUME NEW t, IsFiniteSet(ReferenceSolved(t))
    PROVE  \E f : /\ IsSum(f, ReferencePart(t), ReferenceSolved(t))
                  /\ ReferencePenalty(t) = f[ReferenceSolved(t)]
<1> DEFINE S == ReferenceSolved(t)
           Part(p) == FloorMinutes(FirstAccept(t, p)) +
                          PenaltyMinutes *
                              Cardinality({s \in Earlier(t, p) :
                                              CountsAsPenalty(best[s].type)})
           Eq(f) == f = [s \in SUBSET S |->
                            IF s = {} THEN 0
                            ELSE Part(Any(s)) + f[s \ {Any(s)}]]
<1>1. ReferencePenalty(t) = (CHOOSE f : Eq(f))[S]
  BY DEF ReferencePenalty, MapThenSumSet, MapThenFoldSet, Any, ReferenceSolved
<1>2. ASSUME NEW s \in SUBSET S, s # {}
      PROVE  ReferencePart(t)[Any(s)] = Part(Any(s))
  <2>1. Any(s) \in ReferenceSolved(t)
    BY <1>2, AnyIsIn
  <2> QED
    BY <2>1 DEF ReferencePart
<1>3. ASSUME NEW f
      PROVE  Eq(f) <=> IsSum(f, ReferencePart(t), S)
  <2> HIDE DEF Part, S
  <2>1. [s \in SUBSET S |-> IF s = {} THEN 0
                            ELSE Part(Any(s)) + f[s \ {Any(s)}]]
        = [s \in SUBSET S |-> IF s = {} THEN 0
                              ELSE ReferencePart(t)[Any(s)] + f[s \ {Any(s)}]]
    BY <1>2
  <2> QED
    BY <2>1 DEF IsSum
<1>4. \E f : IsSum(f, ReferencePart(t), S)
  BY SumExists
<1> HIDE DEF Eq, S
<1>5. Eq(CHOOSE f : Eq(f))
  BY <1>3, <1>4
<1> QED
  BY <1>1, <1>3, <1>5 DEF S

LEMMA Commutes == \A a, b \in Int : (1 + a - 1) * b = b * a
OBVIOUS

LEMMA SolvedAgrees ==
    ASSUME TypeOK, AttemptsSoFar, pc \notin {"judgements", "submissions"},
           NEW t \in OnBoard
    PROVE  /\ PenaltySolved(t) = ReferenceSolved(t)
           /\ SolvedOf(t) = Cardinality(ReferenceSolved(t))
<1>1. board.problems \subseteq Problems
  BY DEF TypeOK, IsStore
<1>2. \A p \in Problems : accums[t][p].solved <=> t \in Solvers(p)
  BY TallyMeans
<1>3. PenaltySolved(t) = ReferenceSolved(t)
  BY <1>1, <1>2 DEF PenaltySolved, ReferenceSolved
<1> QED
  BY <1>3 DEF SolvedOf, PenaltySolved

LEMMA PenaltyAgrees ==
    ASSUME TypeOK, AttemptsSoFar, pc \notin {"judgements", "submissions"},
           Untied, NEW t \in OnBoard, SolvedBeforeStart(t) = {}
    PROVE  PenaltyOf(t) = ReferencePenalty(t)
<1> DEFINE S == PenaltySolved(t)
<1>1. S = ReferenceSolved(t) /\ IsFiniteSet(S)
  BY SolvedAgrees, SolvedIsFinite
<1>2. ASSUME NEW p \in S
      PROVE  PenaltyPart(t)[p] = ReferencePart(t)[p]
  <2> DEFINE count == Cardinality({s \in Earlier(t, p) :
                                      CountsAsPenalty(best[s].type)})
  <2>1. p \in Problems /\ t \in Solvers(p)
    BY <1>1 DEF ReferenceSolved, TypeOK, IsStore
  <2>2. accums[t][p].penalty_attempts = 1 + count /\ count \in Nat
    BY <2>1, UntiedTally
  <2>3. /\ accums[t][p].accept_time = FirstAccept(t, p)
        /\ Minutes(FirstAccept(t, p)) = FloorMinutes(FirstAccept(t, p))
    <3>1. /\ accums[t][p].accept_time = FirstAccept(t, p)
          /\ FirstAccept(t, p) \in Int
      BY <2>1, TallyMeans
    <3>2. ~(FirstAccept(t, p) < 0)
      BY <1>1, <2>1 DEF ReferenceSolved, SolvedBeforeStart
    <3>3. FirstAccept(t, p) >= 0
      BY <3>1, <3>2
    <3> QED
      BY <3>1, <3>3, MinutesFloor
  <2>4. PenaltyPart(t)[p] = Minutes(accums[t][p].accept_time) +
            (accums[t][p].penalty_attempts - 1) * PenaltyMinutes
    BY DEF PenaltyPart
  <2>5. ReferencePart(t)[p] = FloorMinutes(FirstAccept(t, p)) + PenaltyMinutes * count
    BY <1>1 DEF ReferencePart
  <2> HIDE DEF count
  <2>6. (1 + count - 1) * PenaltyMinutes = PenaltyMinutes * count
    BY <2>2, MinutesType, Commutes
  <2> QED
    BY <2>2, <2>3, <2>4, <2>5, <2>6
<1>3. PenaltyPart(t) = ReferencePart(t)
  BY <1>1, <1>2 DEF PenaltyPart, ReferencePart
<1>4. PICK f : IsSum(f, PenaltyPart(t), S) /\ PenaltyOf(t) = f[S]
  BY <1>1, PenaltyIsSum
<1>5. PICK h : IsSum(h, ReferencePart(t), S) /\ ReferencePenalty(t) = h[S]
  BY <1>1, ReferenceIsSum
<1> HIDE DEF S
<1>6. \A s \in SUBSET (S \cap S) : f[s] = h[s]
  <2> DEFINE g == PenaltyPart(t)
  <2>1. IsSum(f, g, S) /\ IsSum(h, g, S) /\ S \in SUBSET S
    BY <1>3, <1>4, <1>5
  <2> HIDE DEF g
  <2> QED
    BY <1>1, <2>1, SumIsUnique
<1> QED
  BY <1>4, <1>5, <1>6

LEMMA CellAgrees ==
    ASSUME DoneInv, pc = "done", Untied, NEW t \in OnBoard,
           NEW p \in board.problems \ SolvedBeforeStart(t)
    PROVE  CellOf(t, p) = ReferenceCell(t, p)
<1>1. /\ TypeOK /\ AttemptsSoFar /\ FirstsSoFar /\ p \in Problems
      /\ pc \notin {"judgements", "submissions"}
  BY DEF DoneInv, BoardInv, TypeOK, IsStore
<1>2. \A u \in OnBoard :
          /\ accums[u][p].solved <=> u \in Solvers(p)
          /\ u \in Solvers(p) => /\ accums[u][p].accept_time = FirstAccept(u, p)
                                 /\ FirstAccept(u, p) \in Int
  BY <1>1, TallyMeans
<1>3. accums[t][p] \in Accum
  BY <1>1, OnBoardIsFinite DEF TypeOK
<1>4. accums[t][p].solved \in BOOLEAN
  BY <1>3 DEF Accum
<1>5. CASE t \notin Solvers(p)
  <2>1. accums[t][p].num_judged = Cardinality(Tried(t, p))
    BY <1>1, <1>5, TallyMeans
  <2>2. accums[t][p].solved = FALSE
    BY <1>2, <1>4, <1>5
  <2> QED
    BY <1>5, <2>1, <2>2 DEF CellOf, ReferenceCell
<1>6. CASE t \in Solvers(p)
  <2>1. accums[t][p].num_judged = 1 + Cardinality(Earlier(t, p))
    BY <1>1, <1>6, UntiedTally
  <2>2. /\ accums[t][p].solved = TRUE
        /\ accums[t][p].accept_time = FirstAccept(t, p)
    BY <1>2, <1>4, <1>6
  <2>3. Found(p) = Solvers(p)
    <3>1. todo = {}
      BY <1>1 DEF TypeOK, Work
    <3> QED
      BY <1>2, <3>1 DEF Found, Solvers
  <2>4. PICK u \in Solvers(p) :
            /\ first_solve[p] = FirstOf(u, p)
            /\ \A v \in Solvers(p) : accums[u][p].accept_time
                                        <= accums[v][p].accept_time
    BY <1>1, <1>6, <2>3 DEF FirstsSoFar, IsFirst
  <2>5. /\ u \in OnBoard
        /\ \A v \in Solvers(p) : FirstAccept(u, p) <= FirstAccept(v, p)
    BY <1>2, <2>4 DEF Solvers
  <2>6. first_solve[p] # None /\ first_solve[p].team = u
    <3>1. FirstOf(u, p) \in FirstSolve
      BY <1>1, <1>2, <2>4, <2>5, OnBoardIsFinite DEF FirstOf, FirstSolve
    <3> QED
      BY <2>4, <3>1, NoneIsNothing DEF FirstOf
  <2>7. (u = t) <=> \A v \in Solvers(p) : FirstAccept(t, p) <= FirstAccept(v, p)
    <3>1. ASSUME \A v \in Solvers(p) : FirstAccept(t, p) <= FirstAccept(v, p)
          PROVE  u = t
      <4>1. FirstAccept(t, p) = FirstAccept(u, p)
        BY <1>2, <1>6, <2>4, <2>5, <3>1
      <4> QED
        BY <1>1, <1>6, <2>4, <4>1, UntiedMeans
    <3> QED
      BY <2>5, <3>1
  <2>8. CellOf(t, p) =
            [status            |-> "kSolved",
             attempts          |-> 1 + Cardinality(Earlier(t, p)),
             time_minutes      |-> FloorMinutes(FirstAccept(t, p)),
             is_first_to_solve |-> u = t]
    <3>1. ~(FirstAccept(t, p) < 0) /\ FirstAccept(t, p) \in Int
      BY <1>2, <1>6 DEF SolvedBeforeStart
    <3>2. Minutes(FirstAccept(t, p)) = FloorMinutes(FirstAccept(t, p))
      BY <3>1, MinutesFloor
    <3> QED
      BY <2>1, <2>2, <2>6, <3>2 DEF CellOf
  <2>9. ReferenceCell(t, p) =
            [status            |-> "kSolved",
             attempts          |-> 1 + Cardinality(Earlier(t, p)),
             time_minutes      |-> FloorMinutes(FirstAccept(t, p)),
             is_first_to_solve |-> \A v \in Solvers(p) :
                                      FirstAccept(t, p) <= FirstAccept(v, p)]
    BY <1>6 DEF ReferenceCell
  <2> QED
    BY <2>7, <2>8, <2>9
<1> QED
  BY <1>5, <1>6

(* With nothing tied the scoreboard is a function of the store: solved     *)
(* problems, penalties and cells are those of the definition, whatever     *)
(* order the judgements, submissions and teams were visited in.            *)
THEOREM BoardIsDefined == Spec => []BoardIsItsDefinition
<1>1. DoneInv => BoardIsItsDefinition
  <2> SUFFICES ASSUME DoneInv, pc = "done", Untied, NEW i \in DOMAIN rows
               PROVE  LET t == rows[i].team
                      IN  /\ rows[i].solved = Cardinality(
                                 {p \in board.problems : t \in Solvers(p)})
                          /\ SolvedBeforeStart(t) = {} =>
                                 rows[i].penalty = ReferencePenalty(t)
                          /\ \A p \in board.problems \ SolvedBeforeStart(t) :
                                 rows[i].cells[p] = ReferenceCell(t, p)
    BY DEF BoardIsItsDefinition
  <2> DEFINE n == Cardinality(OnBoard)
  <2>1. PICK order \in Orders :
            /\ DOMAIN rows = 1..n
            /\ \A k \in 1..n : rows[k] = RowAt(order, k)
    BY RowsAre
  <2>2. /\ TypeOK /\ AttemptsSoFar
        /\ pc \notin {"judgements", "submissions"}
    BY DEF DoneInv, BoardInv
  <2>3. n \in Nat /\ order \in [1..n -> OnBoard]
    BY <2>2, OrderIsBijection
  <2> DEFINE t == order[i]
  <2>4. /\ rows[i].team = t /\ t \in OnBoard
        /\ rows[i].solved = SolvedOf(t)
        /\ rows[i].penalty = PenaltyOf(t)
        /\ \A p \in board.problems : rows[i].cells[p] = CellOf(t, p)
    BY <2>1, <2>3 DEF RowAt
  <2> HIDE DEF t
  <2>5. SolvedOf(t) = Cardinality({p \in board.problems : t \in Solvers(p)})
    BY <2>2, <2>4, SolvedAgrees DEF ReferenceSolved
  <2>6. SolvedBeforeStart(t) = {} => PenaltyOf(t) = ReferencePenalty(t)
    BY <2>2, <2>4, PenaltyAgrees
  <2>7. \A p \in board.problems \ SolvedBeforeStart(t) :
            CellOf(t, p) = ReferenceCell(t, p)
    BY <2>4, CellAgrees
  <2> QED
    BY <2>4, <2>5, <2>6, <2>7
<1> QED
  BY <1>1, DoneInvHolds, PTL

=============================================================================
