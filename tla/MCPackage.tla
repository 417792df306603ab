----------------------------- MODULE MCPackage -----------------------------
(* Streams of up to three lines that succeed, fail, throw or mean nothing,  *)
(* and packages of a contest and two collections, one of which is decoded  *)
(* as the version says.                                                    *)
EXTENDS PackageLoader

MCRevs == {0}

MCDoc(id, members) ==
    [id |-> id, rev |-> 0, members |-> members, eou |-> FALSE,
     warns |-> 0]

MCLine(type, id, data, docs) ==
    [root |-> "object", bytes |-> 1, type |-> type, id |-> id,
     token |-> None, data |-> data, docs |-> docs]

Blank == [MCLine(None, None, "missing", <<>>) EXCEPT !.root = "blank"]
Malformed == [Blank EXCEPT !.root = "malformed"]

MCLines ==
    {MCLine("teams", "a", "object", <<MCDoc("a", {})>>),
     MCLine("teams", None, "array", <<MCDoc("a", {}), MCDoc(None, {})>>),
     MCLine(UnknownType, None, "null", <<>>),
     Blank,
     Malformed,
     [Blank EXCEPT !.root = "overflow"]}

MCInputs == UNION {[1..n -> MCLines] : n \in 0..3}

MCContent(data, docs) ==
    [data |-> data, docs |-> docs, bytes |-> 1, overflow |-> FALSE,
     rest |-> <<>>]

Empty == MCContent("missing", <<>>)
Readable(content) == [state |-> "readable", content |-> content]

Absent == [state |-> "absent", content |-> Empty]
Unreadable == [state |-> "unreadable", content |-> Empty]

(* A text that ends in a line break, and one with an object per line, the  *)
(* last of which stands alone on its line as a JSON object without a type. *)
Ended(content) == [content EXCEPT !.rest = <<Malformed>>]
PerLine(content) ==
    [content EXCEPT !.rest = <<Malformed, MCLine(None, "b", "missing", <<>>),
                               Blank, Malformed>>]

Teams == MCContent("array", <<MCDoc("a", {}), MCDoc("b", {})>>)
Clars == MCContent("array", <<MCDoc("a", {"to_group_ids", "to_team_ids"})>>)
Contest(member) == MCContent("object", <<MCDoc("a", {member})>>)

MCContestFiles ==
    {Absent, Unreadable, Readable(Contest("penalty_minutes")),
     Readable(Contest("penalty_reltime")),
     Readable(PerLine(Contest("penalty_reltime")))}

MCTeamFiles ==
    {Absent, Readable(Teams), Readable(Ended(Teams)), Readable(PerLine(Teams)),
     Readable([Teams EXCEPT !.bytes = 2]),
     Readable([Teams EXCEPT !.overflow = TRUE]),
     Readable([Ended(Teams) EXCEPT !.bytes = 2, !.overflow = TRUE]),
     Readable(MCContent("null", <<>>)),
     Readable(MCContent("array", <<MCDoc("a", {}), MCDoc(None, {})>>))}

MCClarFiles ==
    {Readable(Clars), Readable(Ended(Clars)), Readable(Empty),
     Readable(MCContent("object", Clars.docs))}

NoFeed == [state |-> "absent", lines |-> <<>>]

MCPackage(feed, contest, teams, clars) ==
    [is_directory |-> TRUE, feed |-> feed,
     file |-> [t \in {"contest", "teams", "clarifications"} |->
                   CASE t = "contest" -> contest
                     [] t = "teams"   -> teams
                     [] OTHER         -> clars]]

WithFeed(feed) ==
    MCPackage(feed, Readable(Contest("penalty_minutes")), Absent, Absent)

MCPackages ==
    {MCPackage(NoFeed, c, t, s) :
        c \in MCContestFiles, t \in MCTeamFiles, s \in MCClarFiles} \cup
    {WithFeed([state |-> "readable",
               lines |-> <<MCLine("teams", "a", "object",
                                  <<MCDoc("a", {})>>)>>]),
     WithFeed([state |-> "unreadable", lines |-> <<>>]),
     [WithFeed(NoFeed) EXCEPT !.is_directory = FALSE]}

MCOptions ==
    [version : {"kAuto"}, error_policy : {"kContinue", "kFailFast"},
     unknown_type_policy : {"kPreserveRaw", "kError"},
     keep_event_log : {TRUE}, max_line_bytes : {1}, max_diagnostics : {2},
     max_consecutive_errors : {0, 1, 2, 9}]

=============================================================================
