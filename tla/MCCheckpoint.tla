---------------------------- MODULE MCCheckpoint ----------------------------
(* Feeds that write, delete, replace, are refused, and carry evidence of a *)
(* version late.                                                           *)
EXTENDS CheckpointedSession

MCRevs == {0}

MCDoc(id, members) == [id |-> id, rev |-> 0, members |-> members,
                       eou |-> FALSE, warns |-> 0]

MCLine(type, id, data, docs) ==
    [root |-> "object", bytes |-> 1, type |-> type, id |-> id,
     token |-> None, data |-> data, docs |-> docs]

GroupClar(id) == MCDoc(id, {"to_group_ids"})

MCLines ==
    {MCLine("contest", None, "object", <<MCDoc("a", {"penalty_reltime"})>>),
     MCLine("contest", "a", "null", <<>>),
     MCLine("state", None, "object", <<[MCDoc(None, {}) EXCEPT !.eou = TRUE]>>),
     MCLine("clarifications", "a", "object", <<GroupClar("b")>>),
     MCLine("clarifications", None, "array", <<GroupClar("b")>>),
     MCLine("clarifications", None, "array", <<MCDoc(None, {})>>),
     MCLine("clarifications", None, "null", <<>>),
     MCLine("clarifications", "a", "null", <<>>)}

MCOptions ==
    [version : {"kAuto", "2023-06"}, error_policy : {"kContinue"},
     unknown_type_policy : {"kWarnAndIgnore"}, keep_event_log : BOOLEAN,
     max_line_bytes : {1}, max_diagnostics : {3},
     max_consecutive_errors : {2}]

=============================================================================
