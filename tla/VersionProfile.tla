--------------------------- MODULE VersionProfile ---------------------------
(***************************************************************************)
(* VersionProfile: decoding of documents into objects, which for contests  *)
(* and clarifications depends on the version of the API, and the evidence  *)
(* from which the session detects that version.                            *)
(***************************************************************************)
EXTENDS CcsData, FiniteSets

(* Recipients kept by DecodeClarification.  The 2023-06 profile has no     *)
(* groups; the 2026-01 profile falls back on to_team_id only when there is *)
(* no to_team_ids.                                                         *)
ClarificationMembers(version, members) ==
    IF version = "2023-06"
    THEN members \ {"to_group_ids"}
    ELSE IF "to_team_ids" \in members
         THEN members \ {"to_team_id"}
         ELSE members

(* A slip: the default id "" is forgotten.                                 *)
DecodeWithoutDefaultId(version, type, doc) ==
    [id |-> doc.id, rev |-> doc.rev, eou |-> doc.eou,
     members |-> IF type = "clarifications"
                 THEN ClarificationMembers(version, doc.members)
                 ELSE doc.members]

(* DecodeTypedObject: no decoder of a known type fails on a JSON object.   *)
(* DecodeState reads no id.                                                *)
DecodeObject(version, type, doc) ==
    [id      |-> IF type = "state" \/ doc.id = None THEN "" ELSE doc.id,
     rev     |-> doc.rev,
     members |-> IF type = "clarifications"
                 THEN ClarificationMembers(version, doc.members)
                 ELSE doc.members,
     eou     |-> doc.eou]

(* The number of warnings the decoders of some documents emit together.    *)
WarningsOf(docs) ==
    Cardinality(UNION {{d} \X (1..docs[d].warns) : d \in DOMAIN docs})

(* DecodeCollection fails as a whole when an element has no string id.     *)
CollectionDecodes(docs) == \A i \in DOMAIN docs : docs[i].id # None

DecodeCollection(version, type, docs) ==
    [i \in DOMAIN docs |-> DecodeObject(version, type, docs[i])]

(* DetectVersion: the version an event speaks for, or None.  A delete is   *)
(* never looked at, and find() on an array finds nothing.                  *)
VersionEvidence(event) ==
    LET members == event.docs[1].members
    IN  IF event.shape \notin {"single", "singleton"} THEN None
        ELSE IF event.type = "contest"
        THEN IF "penalty_minutes" \in members THEN "2023-06"
             ELSE IF "penalty_reltime" \in members THEN "2026-01" ELSE None
        ELSE IF event.type = "clarifications"
        THEN IF "to_team_ids" \in members THEN "2026-01"
             ELSE IF "to_team_id" \in members THEN "2023-06" ELSE None
        ELSE None

=============================================================================
