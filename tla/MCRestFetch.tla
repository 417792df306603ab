---------------------------- MODULE MCRestFetch ----------------------------
(* Both singletons, and a required and an optional collection twice, so    *)
(* that each comes before and after the other.                             *)
EXTENDS RestFetch

MCRevs == {0}

MCDoc(id, members, warns) ==
    [id |-> id, rev |-> 0, members |-> members, eou |-> FALSE,
     warns |-> warns]

MCEndpoints ==
    <<[type |-> "contest", required |-> TRUE],
      [type |-> "state", required |-> FALSE],
      [type |-> "languages", required |-> FALSE],
      [type |-> "teams", required |-> TRUE],
      [type |-> "runs", required |-> FALSE]>>

Plain(kind) == [kind |-> kind, docs |-> <<>>]

MCAnswers ==
    {Plain("internal"), Plain("unavailable"), Plain("malformed"),
     Plain("overflow"), Plain("null"), Plain("scalar"), Plain("array"),
     [kind |-> "object", docs |-> <<MCDoc("a", {"penalty_reltime"}, 0)>>],
     [kind |-> "object", docs |-> <<MCDoc(None, {}, 2)>>],
     [kind |-> "array",
      docs |-> <<MCDoc("a", {}, 1), MCDoc("b", {}, 1)>>],
     [kind |-> "array", docs |-> <<MCDoc("a", {}, 1), MCDoc(None, {}, 0)>>]}

=============================================================================
