----------------------------- MODULE MCXmlFeed -----------------------------
(* Documents of up to three children: operations of known and unknown      *)
(* types with and without an id, objects, containers and other elements.   *)
EXTENDS XmlFeed

MCRevs == {0, 1}

MCDoc(id, warns) ==
    [id |-> id, rev |-> 0, members |-> {}, eou |-> FALSE, warns |-> warns]

MCObject(id, warns) == [doc |-> MCDoc(id, warns), penalty |-> None]

MCContest(name, attribute, reltime) ==
    [doc |-> MCDoc("a", 0),
     penalty |-> [name |-> name, attribute |-> attribute,
                  reltime |-> reltime]]

MCElement(name, object) ==
    [name |-> name, plural |-> FALSE, op |-> None, type |-> None,
     object |-> object, inner |-> <<>>]

MCEvent(op, type, object) ==
    [MCElement("event", object) EXCEPT !.op = op, !.type = type]

Clar == [MCObject("a", 1) EXCEPT !.doc.members = {"to_group_ids"}]

MCChildren ==
    {MCEvent("create", "team", MCObject("a", 1)),
     MCEvent("update", "team", [MCObject("a", 0) EXCEPT !.doc.rev = 1]),
     MCEvent(None, "team", MCObject(None, 0)),
     MCEvent("delete", "team", MCObject("a", 0)),
     MCEvent("delete", "team", MCObject(None, 0)),
     MCEvent("update", "clarification", Clar),
     MCEvent("update", "contest", MCContest("penalty", FALSE, FALSE)),
     MCEvent("delete", "info", MCObject("b", 0)),
     MCEvent("create", "teams", MCObject("b", 0)),
     MCEvent("create", None, MCObject("b", 0)),
     MCElement("event", MCObject("b", 0)),
     MCElement("team", MCObject("b", 1)),
     MCElement("clarification", Clar),
     MCElement("info", MCContest("penalty", FALSE, TRUE)),
     MCElement("contest", MCContest("penalty_time", FALSE, FALSE)),
     MCElement("contest", MCContest("penalty", TRUE, FALSE)),
     MCElement("state", MCObject(None, 0)),
     MCElement("scoreboard", MCObject("a", 0)),
     [MCElement("team", MCObject(None, 0)) EXCEPT
          !.plural = TRUE,
          !.inner = <<MCObject("a", 0), MCObject("b", 1),
                      MCObject("a", 1)>>],
     [MCElement("state", MCObject(None, 0)) EXCEPT
          !.plural = TRUE, !.inner = <<MCObject("b", 0)>>]}

MCDocuments == UNION {[1..n -> MCChildren] : n \in 0..3}

=============================================================================
