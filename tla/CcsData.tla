------------------------------ MODULE CcsData ------------------------------
(***************************************************************************)
(* The data every part of the parser shares: object types, object keys,    *)
(* JSON documents, raw events and decoded objects (types.h, event.h,       *)
(* objects.h).  Payloads are reduced to what the session's behaviour and   *)
(* its properties tell apart.                                              *)
(***************************************************************************)
EXTENDS Naturals, Sequences

CONSTANTS
    CollectionTypes,  \* the object types kept in ContestStore's collections
    Ids,              \* object ids a feed may use
    Tokens,           \* event tokens a feed may use
    Revs,             \* payload revisions, standing for all other fields
    None              \* std::nullopt, nullptr, JSON null or an absent member

SingletonTypes == {"contest", "state"}

Types == SingletonTypes \cup CollectionTypes

(* ObjectTypeFromString: any string that names no type becomes kUnknown.   *)
UnknownType == "unknown"

(* Map keys.  An object without a string "id" member gets the id "".       *)
Keys == Ids \cup {""}

(* A JSON value where a string was expected.                               *)
NotString == "not a string"

Versions == {"2023-06", "2026-01"}

ASSUME DataAssumption ==
    /\ SingletonTypes \cap CollectionTypes = {}
    /\ UnknownType \notin Types
    /\ None \notin Keys \cup Tokens \cup Types \cup Versions
    /\ NotString \notin Keys \cup Tokens \cup Types \cup {None}

(* Members whose presence or JSON type differs between the two versions of *)
(* the API: contest.penalty_time as an integer or as a RELTIME string, and *)
(* the three forms of a clarification's recipients.                        *)
VersionMembers ==
    {"penalty_minutes", "penalty_reltime",
     "to_team_id", "to_team_ids", "to_group_ids"}

(* The JSON document of one object.  id = None stands for an element that  *)
(* has no string id, members lists the version-dependent members present,  *)
(* eou says that state.end_of_updates holds a valid time, and warns how    *)
(* many warnings its decoder emits, one for each time it cannot read.      *)
Doc == [id : Keys \cup {None}, rev : Revs, members : SUBSET VersionMembers,
        eou : BOOLEAN, warns : Nat]

(* json::object(): the document used when "data" is null.                  *)
EmptyDoc(rev) ==
    [id |-> None, rev |-> rev, members |-> {}, eou |-> FALSE,
     warns |-> 0]

(* A decoded ContestObject.                                                *)
Object == [id : Keys, rev : Revs, members : SUBSET VersionMembers,
           eou : BOOLEAN]

ASSUME ObjectAssumption == None \notin Object

Shapes == {"delete", "single", "collection", "singleton"}

(* RawEvent together with the pre-parsed "data" that travels with it.      *)
Event == [type : Types \cup {UnknownType}, id : Keys \cup {None},
          shape : Shapes, token : Tokens \cup {None}, line_no : Nat,
          docs : Seq(Doc)]

=============================================================================
