----------------------------- MODULE RestFetch -----------------------------
(***************************************************************************)
(* RestApiParser::FetchAndParse: one endpoint after the other is fetched   *)
(* and applied to a store.  The server is the environment: it answers each *)
(* request as it likes.  No observer is registered and no event logged.    *)
(***************************************************************************)
EXTENDS VersionProfile

CONSTANTS
    Endpoints,       \* the endpoints in the order they are fetched
    Answers,         \* what a server may answer
    MaxDiagnostics,  \* ParseOptions.limits.max_diagnostics
    RestVersions     \* the versions a caller may ask for

(* What client.Get and json::parse make of a response: no request, for want*)
(* of a curl handle, no response or a status of 400 and above, a body that *)
(* is no JSON, one with a number no double holds, no body or a JSON null,  *)
(* and JSON of three kinds.                                                *)
Answer == [kind : {"internal", "unavailable", "malformed", "overflow", "null",
                   "array", "object", "scalar"},
           docs : Seq(Doc)]

(* The list asks for each type once, and for the contest first.            *)
ASSUME RestAssumption ==
    /\ Endpoints \in Seq([type : Types, required : BOOLEAN])
    /\ \A i, j \in DOMAIN Endpoints :
           Endpoints[i].type = Endpoints[j].type => i = j
    /\ \A i \in DOMAIN Endpoints : Endpoints[i].type = "contest" => i = 1
    /\ Answers \subseteq Answer
    /\ \A answer \in Answers : answer.kind = "object" => Len(answer.docs) = 1
    /\ MaxDiagnostics \in Nat
    /\ RestVersions \subseteq Versions \cup {"kAuto"}
    /\ None \notin {"kOk", "kInternal", "kUnavailable", "kParseError", "threw"}

VARIABLES
    version,           \* ParseOptions.version
    answers,           \* what the server answered so far
    resolved_version,
    diagnostics,       \* their codes, and the endpoints they are about
    fetched_count,     \* event_count of the result's cursor
    status,            \* of the StatusOr returned, None while fetching,
                       \* or that the call threw
    singletons, collections, event_count, mirror

objectVars == <<singletons, collections, event_count, mirror>>
vars == <<version, answers, resolved_version, diagnostics, fetched_count,
          status, objectVars>>

Store == INSTANCE ContestStore
             WITH Objects <- Object, LogEvents <- {}, Diagnostics <- {},
                  event_log <- <<>>, heard <- <<>>

Init ==
    /\ version \in RestVersions
    /\ answers = <<>>
    /\ resolved_version = IF version = "kAuto" THEN "2023-06" ELSE version
    /\ diagnostics = <<>>
    /\ fetched_count = 0
    /\ status = None
    /\ Store!Init

-----------------------------------------------------------------------------
Current == Len(answers) + 1

Endpoint == Endpoints[Current]

Asked(answer) ==
    /\ status = None
    /\ Current <= Len(Endpoints)
    /\ answers' = Append(answers, answer)
    /\ UNCHANGED version

FetchError(answer) ==
    IF answer.kind = "internal"         THEN "kInternal"
    ELSE IF answer.kind = "unavailable" THEN "kUnavailable"
    ELSE IF answer.kind = "malformed"   THEN "kParseError"
    ELSE None

(* A slip: an optional endpoint that fails ends the fetch without a word.  *)
StopAtAnyFailure(answer) ==
    /\ Asked(answer)
    /\ FetchError(answer) # None
    /\ status' = IF Endpoint.required THEN FetchError(answer) ELSE "kOk"
    /\ UNCHANGED <<resolved_version, diagnostics, fetched_count, objectVars>>

(* A required endpoint that fails ends the fetch, an optional one is noted,*)
(* past the cap on diagnostics too.                                        *)
FailedFetch(answer) ==
    /\ Asked(answer)
    /\ FetchError(answer) # None
    /\ IF Endpoint.required
       THEN status' = FetchError(answer) /\ UNCHANGED diagnostics
       ELSE /\ diagnostics' = Append(diagnostics, [code |-> "kMissingData",
                                                   endpoint |-> Current])
            /\ UNCHANGED status
    /\ UNCHANGED <<resolved_version, fetched_count, objectVars>>

(* Only parse_error is caught: a number out of range leaves the fetch.     *)
Thrown(answer) ==
    /\ Asked(answer)
    /\ answer.kind = "overflow"
    /\ status' = "threw"
    /\ UNCHANGED <<resolved_version, diagnostics, fetched_count, objectVars>>

(* An endpoint without content is passed over, a required one too.         *)
NoContent(answer) ==
    /\ Asked(answer)
    /\ answer.kind = "null"
    /\ UNCHANGED <<resolved_version, diagnostics, fetched_count, status,
                   objectVars>>

(* Only a contest whose penalty time is a string changes the version.      *)
DetectedVersion(answer) ==
    IF /\ version = "kAuto"
       /\ Endpoint.type = "contest"
       /\ answer.kind = "object"
       /\ "penalty_reltime" \in answer.docs[1].members
    THEN "2026-01"
    ELSE resolved_version

(* The decoders' warnings, as far as they fit.                             *)
AddWarnings(docs) ==
    LET warnings == [i \in 1..WarningsOf(docs)
                        |-> [code |-> "kInvalidTime", endpoint |-> Current]]
        room     == MaxDiagnostics - Len(diagnostics)
    IN  diagnostics' = IF Len(diagnostics) >= MaxDiagnostics THEN diagnostics
                       ELSE diagnostics \o
                            IF Len(warnings) <= room THEN warnings
                            ELSE SubSeq(warnings, 1, room)

(* ApplyCollection for an array: an array for a singleton type goes where  *)
(* no reader looks.                                                        *)
ApplyArray(docs, profile) ==
    /\ Store!ApplyCollectionReplace(Endpoint.type,
           DecodeCollection(profile, Endpoint.type, docs))
    /\ AddWarnings(docs)

(* ApplyCollection for an object, which is filed under its own id.         *)
ApplyObject(doc, profile) ==
    LET obj == DecodeObject(profile, Endpoint.type, doc)
    IN  /\ IF Endpoint.type \in SingletonTypes
           THEN Store!ApplySingletonUpdate(Endpoint.type, obj)
           ELSE Store!ApplyUpsert(Endpoint.type, obj.id, obj)
        /\ AddWarnings(<<doc>>)

(* A slip: a whole array counts as one.                                    *)
CountOnce(answer) ==
    fetched_count' = fetched_count + 1

Count(answer) ==
    fetched_count' = fetched_count + IF answer.kind = "array"
                                     THEN Len(answer.docs) ELSE 1

Applied(answer) ==
    LET profile == DetectedVersion(answer)
    IN  /\ Asked(answer)
        /\ resolved_version' = profile
        /\ \/ /\ answer.kind = "array"
              /\ CollectionDecodes(answer.docs)
              /\ ApplyArray(answer.docs, profile)
           \/ /\ answer.kind = "object"
              /\ ApplyObject(answer.docs[1], profile)
           \/ /\ answer.kind = "scalar"
              /\ UNCHANGED <<diagnostics, objectVars>>
        /\ Count(answer)
        /\ UNCHANGED status

(* A slip: the failure of a required array is overlooked like an optional  *)
(* one's.                                                                  *)
RefusalIgnored(answer) ==
    /\ Asked(answer)
    /\ answer.kind = "array"
    /\ ~CollectionDecodes(answer.docs)
    /\ Count(answer)
    /\ UNCHANGED <<resolved_version, diagnostics, status, objectVars>>

(* A slip: the elements of an optional array that decode are applied.      *)
RefusedInPart(answer) ==
    LET good == SelectSeq(answer.docs, LAMBDA doc : doc.id # None)
    IN  /\ Asked(answer)
        /\ answer.kind = "array"
        /\ ~CollectionDecodes(answer.docs)
        /\ IF Endpoint.required
           THEN /\ status' = "kParseError"
                /\ UNCHANGED <<diagnostics, fetched_count, objectVars>>
           ELSE ApplyArray(good, resolved_version) /\ Count(answer)
                /\ UNCHANGED status
        /\ UNCHANGED resolved_version

(* An array that does not decode ends the fetch if it is required.  If it  *)
(* is optional nothing is said, and its elements are counted all the same. *)
Refused(answer) ==
    /\ Asked(answer)
    /\ answer.kind = "array"
    /\ ~CollectionDecodes(answer.docs)
    /\ IF Endpoint.required
       THEN status' = "kParseError" /\ UNCHANGED fetched_count
       ELSE Count(answer) /\ UNCHANGED status
    /\ UNCHANGED <<resolved_version, diagnostics, objectVars>>

Return ==
    /\ status = None
    /\ Current > Len(Endpoints)
    /\ status' = "kOk"
    /\ UNCHANGED <<version, answers, resolved_version, diagnostics,
                   fetched_count, objectVars>>

Next ==
    \/ \E answer \in Answers :
           \/ FailedFetch(answer)
           \/ Thrown(answer)
           \/ NoContent(answer)
           \/ Applied(answer)
           \/ Refused(answer)
    \/ Return

Spec == Init /\ [][Next]_vars

-----------------------------------------------------------------------------
(* The i-th endpoint is required and its answer cannot be used, or its     *)
(* answer makes the parser throw.                                          *)
Fatal(i) ==
    \/ answers[i].kind = "overflow"
    \/ /\ Endpoints[i].required
       /\ \/ FetchError(answers[i]) # None
          \/ answers[i].kind = "array" /\ ~CollectionDecodes(answers[i].docs)

(* A fetch fails exactly when a required endpoint could not be used or an  *)
(* answer threw, at the first such endpoint and without asking for the     *)
(* rest; a success has asked for every endpoint, whatever else the         *)
(* optional ones did.                                                      *)
StopsAtFirstFatal ==
    /\ \A i \in DOMAIN answers : Fatal(i) =>
           i = Len(answers) /\ status \notin {None, "kOk"}
    /\ status = "kOk" => Len(answers) = Len(Endpoints)
    /\ status \notin {None, "kOk"} => Fatal(Len(answers))

(* What the answer to the i-th endpoint says of (type, id).                *)
Said(i, type, id) ==
    LET answer == answers[i]
        Named(d) == /\ answer.docs[d].id = id
                    /\ \A e \in DOMAIN answer.docs :
                           d < e => answer.docs[e].id # id
        Obj(d)   == DecodeObject(resolved_version, type, answer.docs[d])
    IN  CASE answer.kind = "object" ->
                 IF type \in SingletonTypes \/ Obj(1).id = id
                 THEN Obj(1) ELSE None
          [] /\ answer.kind = "array" /\ type \in CollectionTypes
             /\ CollectionDecodes(answer.docs) ->
                 IF \E d \in DOMAIN answer.docs : Named(d)
                 THEN Obj(CHOOSE d \in DOMAIN answer.docs : Named(d))
                 ELSE None
          [] OTHER -> None

(* The objects are what the answers say, under the version of the result:  *)
(* an endpoint that failed, had no content or did not decode leaves no     *)
(* objects of its type and disturbs no other's.                            *)
ObjectsAreTheAnswers ==
    \A type \in Types, id \in Keys :
        LET said == {i \in DOMAIN answers : Endpoints[i].type = type}
        IN  IF said = {} THEN Store!GetObject(type, id) = None
            ELSE \A i \in said :
                     Store!GetObject(type, id) = Said(i, type, id)

(* While diagnostics may still be stored, every optional endpoint whose    *)
(* fetch failed has its diagnostic; at any time no other endpoint has one, *)
(* none has two, and they are in the order of the endpoints.  Whether they *)
(* may pass the cap, as they do in the code and docs/api_reference.md:80   *)
(* denies, this leaves open.                                               *)
FailuresAreReported ==
    LET noted  == {n \in DOMAIN diagnostics :
                       diagnostics[n].code = "kMissingData"}
        told   == {diagnostics[n].endpoint : n \in noted}
        failed == {i \in DOMAIN answers : /\ FetchError(answers[i]) # None
                                          /\ ~Endpoints[i].required}
    IN  /\ told \subseteq failed
        /\ told = failed \/ Len(diagnostics) >= MaxDiagnostics
        /\ \A m, n \in noted :
               m < n => diagnostics[m].endpoint < diagnostics[n].endpoint

(* No object is in the result uncounted: the event_count of its cursor is  *)
(* at least the number of its objects.                                     *)
ObjectsAreCounted ==
    Cardinality({t \in SingletonTypes : singletons[t] # None})
        + Cardinality({e \in CollectionTypes \X Keys :
                           collections[e[1]][e[2]] # None}) <= fetched_count

=============================================================================
