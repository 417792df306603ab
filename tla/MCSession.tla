------------------------------ MODULE MCSession ------------------------------
(* Feeds over one collection, clarifications, whose decoding depends on    *)
(* the version, and both singletons.                                       *)
EXTENDS SessionClaims

MCRevs == {0, 1}

MCDoc(id, rev, members) ==
    [id |-> id, rev |-> rev, members |-> members, eou |-> FALSE,
     warns |-> 2 * rev]

MCLine(type, id, token, data, docs) ==
    [root |-> "object", bytes |-> 1, type |-> type, id |-> id,
     token |-> token, data |-> data, docs |-> docs]

EndOfUpdates == [MCDoc(None, 0, {}) EXCEPT !.eou = TRUE]

ContestLine(member) ==
    MCLine("contest", None, None, "object", <<MCDoc("a", 0, {member})>>)

ClarLine(id, data, docs) == MCLine("clarifications", id, "t", data, docs)

(* A clarification addressed to a group, which names no version.           *)
GroupClar(id) == MCDoc(id, 0, {"to_group_ids"})

Blank == [MCLine(None, None, None, "missing", <<>>) EXCEPT !.root = "blank"]
Malformed == [Blank EXCEPT !.root = "malformed"]
Overflow == [Blank EXCEPT !.root = "overflow"]
Unknown == MCLine(UnknownType, None, "t", "null", <<>>)
MissingData == MCLine("contest", None, "t", "missing", <<>>)

MCLines ==
    {ContestLine("penalty_minutes"), ContestLine("penalty_reltime"),
     MCLine("contest", "a", None, "null", <<>>),
     MCLine("contest", None, None, "array", <<MCDoc("a", 0, {})>>),
     ClarLine("a", "object", <<GroupClar("a")>>),
     ClarLine("a", "object",
              <<MCDoc("b", 1, {"to_team_id", "to_team_ids", "to_group_ids"})>>),
     ClarLine(None, "array", <<MCDoc("a", 1, {}), GroupClar("a")>>),
     ClarLine(None, "array", <<GroupClar("b"), MCDoc(None, 1, {})>>),
     ClarLine(None, "null", <<>>),
     ClarLine("a", "null", <<>>),
     MCLine("state", None, None, "object", <<EndOfUpdates>>),
     MCLine("state", "a", None, "null", <<>>),
     MCLine("state", "a", None, "object", <<EndOfUpdates>>),
     Blank, Malformed, Overflow, Unknown}

MCOption(version, policy, unknown, log, kept, errors) ==
    [version |-> version, error_policy |-> policy,
     unknown_type_policy |-> unknown, keep_event_log |-> log,
     max_line_bytes |-> 1, max_diagnostics |-> kept,
     max_consecutive_errors |-> errors]

MCOptions ==
    {MCOption("kAuto", "kContinue", "kWarnAndIgnore", TRUE, 2, 2),
     MCOption("kAuto", "kFailFast", "kError", TRUE, 1, 3),
     MCOption("2026-01", "kFailFast", "kError", FALSE, 0, 1),
     MCOption("2023-06", "kContinue", "kError", TRUE, 5, 2)}

=============================================================================
