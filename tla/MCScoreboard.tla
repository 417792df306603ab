----------------------------- MODULE MCScoreboard -----------------------------
(* Four families of stores: one submission judged three times, attempts of *)
(* two teams on one problem, accepted submissions of three teams, one of   *)
(* them hidden, on two problems under every way a contest can end, and     *)
(* three teams that tie in every way.                                      *)
EXTENDS ScoreboardClaims, TLC

MCTypes == [type \in {"AC", "WA", "CE"} |->
               [solved  |-> IF type = "WA" THEN None ELSE type = "AC",
                penalty |-> IF type = "CE" THEN FALSE ELSE None]]

MCTeams == [team \in {1, 2, 3} |->
               [hidden |-> team = 3, name |-> IF team = 2 THEN 1 ELSE 0]]

(* Two teams whose names are in the other order than their ids.            *)
AgainstIds == [team \in {1, 2} |-> [hidden |-> FALSE, name |-> 2 - team]]

MCBoard(teams, submissions, judgements) ==
    [penalty_time |-> None, duration |-> None, start_time |-> None,
     ended |-> None, problems |-> {"p", "q"}, types |-> MCTypes,
     teams |-> teams, submissions |-> submissions,
     judgements |-> judgements]

Submission(teams, problems, times) ==
    [team : teams, problem : problems, contest_time : times]

(* One judgement for each of the submissions s1, s2, ..., of a given type. *)
JudgedAs(types) ==
    {[j \in 1..Len(type) |-> [submission |-> j, type |-> type[j],
                              end_time |-> None]] : type \in types}

Rejudged ==
    {MCBoard(MCTeams,
             (1 :> [team |-> 1, problem |-> "p", contest_time |-> None]), js) :
        js \in [1..3 -> [submission : {1}, type : {"AC", "WA", None},
                         end_time : {None, 1, 2}]]}

Attempts ==
    {MCBoard(AgainstIds, subs, js) :
        subs \in [1..3 -> Submission({1, 2}, {"p"}, {0, 1, 3})],
        js \in JudgedAs([1..3 -> {"AC", "WA", "CE"}])}

Ended ==
    {[duration |-> 3, start_time |-> None, ended |-> None],
     [duration |-> 3, start_time |-> 5, ended |-> 7],
     [duration |-> None, start_time |-> 5, ended |-> 5]}

Ranked ==
    {[MCBoard(MCTeams, subs, js)
        EXCEPT !.penalty_time = 3, !.duration = e.duration,
               !.start_time = e.start_time, !.ended = e.ended] :
        subs \in Submission({1, 2}, {"p", "q"}, {-1, 2, 3})
                  \X Submission({1, 2}, {"p", "q"}, {-1, 2, 3})
                  \X Submission({1, 3}, {"p"}, {-1, 2, 3}),
        js \in JudgedAs({<<"AC", "AC", "AC">>, <<"AC", "WA", "RTE">>}),
        e \in Ended}

AllShown == [team \in {1, 2, 3} |-> [MCTeams[team] EXCEPT !.hidden = FALSE]]

Tied ==
    {MCBoard(AllShown, subs, js) :
        subs \in Submission({1}, {"p"}, {-1, 0, 2})
                  \X Submission({2}, {"p"}, {-1, 0, 2})
                  \X Submission({3}, {"p"}, {-1, 0, 2}),
        js \in JudgedAs({<<"AC", "AC", "AC">>, <<"AC", "AC", "WA">>,
                         <<"AC", "WA", "WA">>})}

MCBoards == UNION {Rejudged, Attempts, Ranked, Tied}

=============================================================================
