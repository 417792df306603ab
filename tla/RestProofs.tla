----------------------------- MODULE RestProofs -----------------------------
(***************************************************************************)
(* When a fetch ends, what its result holds, counts and reports: proved    *)
(* for any list of endpoints, any server and any cap on diagnostics.       *)
(***************************************************************************)
EXTENDS RestFetch, FiniteSetTheorems, SequenceTheorems, TLAPS

(* The answer is fatal to a fetch that requires the endpoint, or to any.   *)
FatalTo(required, answer) ==
    \/ answer.kind = "overflow"
    \/ /\ required
       /\ \/ FetchError(answer) # None
          \/ answer.kind = "array" /\ ~CollectionDecodes(answer.docs)

(* StopsAtFirstFatal is inductive once the answers are known to be no more *)
(* than the endpoints.                                                     *)
IInv ==
    /\ answers \in Seq(Answers)
    /\ Len(answers) <= Len(Endpoints)
    /\ StopsAtFirstFatal

(* What a request adds: one answer, the only one that may be fatal.        *)
LEMMA AskedAddsOne ==
  ASSUME IInv, NEW answer \in Answers, Asked(answer)
  PROVE  /\ answers' \in Seq(Answers)
         /\ Len(answers') = Current
         /\ Len(answers') <= Len(Endpoints)
         /\ \A i \in DOMAIN answers' : Fatal(i)' => i = Len(answers')
         /\ Fatal(Len(answers))' <=> FatalTo(Endpoint.required, answer)
<1>1. /\ answers' = Append(answers, answer)
      /\ status = None
      /\ Current <= Len(Endpoints)
  BY DEF Asked
<1>2. /\ answers' \in Seq(Answers)
      /\ Len(answers') = Current
      /\ answers'[Current] = answer
      /\ \A i \in 1..Len(answers) : answers'[i] = answers[i]
  BY <1>1 DEF IInv, Current
<1>3. \A i \in DOMAIN answers : ~Fatal(i)
  BY <1>1 DEF IInv, StopsAtFirstFatal
<1>4. ASSUME NEW i \in DOMAIN answers', Fatal(i)'
      PROVE  i = Len(answers')
  <2> SUFFICES ASSUME i # Len(answers')
               PROVE  FALSE
    OBVIOUS
  <2>1. i \in 1..Len(answers) /\ i \in DOMAIN answers
    BY <1>2 DEF IInv, Current
  <2>2. answers'[i] = answers[i]
    BY <1>2, <2>1
  <2>3. Fatal(i)
    BY <1>4, <2>2 DEF Fatal, FetchError, CollectionDecodes
  <2> QED
    BY <1>3, <2>1, <2>3
<1>5. Fatal(Len(answers))' <=> FatalTo(Endpoint.required, answer)
  BY <1>2 DEF Fatal, FatalTo, Endpoint, FetchError, CollectionDecodes
<1> QED
  BY <1>1, <1>2, <1>4, <1>5

(* A request after which the status tells whether its answer was fatal.    *)
LEMMA AskedStopsIfFatal ==
  ASSUME IInv, NEW answer \in Answers, Asked(answer),
         \/ /\ FatalTo(Endpoint.required, answer)
            /\ status' \in {"kInternal", "kUnavailable", "kParseError", "threw"}
         \/ /\ ~FatalTo(Endpoint.required, answer)
            /\ status' = None
  PROVE  IInv'
<1>1. /\ answers' \in Seq(Answers)
      /\ Len(answers') <= Len(Endpoints)
      /\ \A i \in DOMAIN answers' : Fatal(i)' => i = Len(answers')
      /\ Fatal(Len(answers))' <=> FatalTo(Endpoint.required, answer)
  BY AskedAddsOne
<1>2. status' # "kOk"
  BY RestAssumption
<1>3. status' # None <=> FatalTo(Endpoint.required, answer)
  BY RestAssumption
<1> QED
  BY <1>1, <1>2, <1>3 DEF IInv, StopsAtFirstFatal

(* A fetch fails exactly when a required endpoint could not be used or an  *)
(* answer threw, at the first such endpoint, and a success has asked for   *)
(* all.                                                                    *)
THEOREM FirstFatalStops == Spec => []StopsAtFirstFatal
<1>1. Init => IInv
  BY RestAssumption DEF Init, IInv, StopsAtFirstFatal
<1>2. IInv /\ [Next]_vars => IInv'
  <2> SUFFICES ASSUME IInv, [Next]_vars
               PROVE  IInv'
    OBVIOUS
  <2>0. ASSUME NEW answer \in Answers, Thrown(answer)
        PROVE  IInv'
    <3>1. Asked(answer) /\ FatalTo(Endpoint.required, answer)
      BY <2>0 DEF Thrown, FatalTo
    <3> QED
      BY <2>0, <3>1, AskedStopsIfFatal DEF Thrown
  <2>1. ASSUME NEW answer \in Answers, FailedFetch(answer)
        PROVE  IInv'
    <3>1. /\ Asked(answer) /\ status = None
          /\ FatalTo(Endpoint.required, answer) <=> Endpoint.required
      BY <2>1 DEF FailedFetch, FatalTo, FetchError, Asked
    <3>2. FetchError(answer) \in {"kInternal", "kUnavailable", "kParseError"}
      BY <2>1 DEF FailedFetch, FetchError
    <3>3. IF Endpoint.required THEN status' = FetchError(answer)
                               ELSE status' = None
      BY <2>1, <3>1 DEF FailedFetch
    <3> QED
      BY <3>1, <3>2, <3>3, AskedStopsIfFatal
  <2>2. ASSUME NEW answer \in Answers, NoContent(answer)
        PROVE  IInv'
    <3>1. /\ Asked(answer) /\ status' = None
          /\ ~FatalTo(Endpoint.required, answer)
      BY <2>2 DEF NoContent, FatalTo, FetchError, Asked
    <3> QED
      BY <3>1, AskedStopsIfFatal
  <2>3. ASSUME NEW answer \in Answers, Applied(answer)
        PROVE  IInv'
    <3>1. /\ Asked(answer)
          /\ status' = None
          /\ \/ answer.kind = "array" /\ CollectionDecodes(answer.docs)
             \/ answer.kind = "object"
             \/ answer.kind = "scalar"
      BY <2>3 DEF Applied, Asked
    <3>2. ~FatalTo(Endpoint.required, answer)
      BY <3>1 DEF FatalTo, FetchError
    <3> QED
      BY <3>1, <3>2, AskedStopsIfFatal
  <2>4. ASSUME NEW answer \in Answers, Refused(answer)
        PROVE  IInv'
    <3>1. /\ Asked(answer)
          /\ FatalTo(Endpoint.required, answer) <=> Endpoint.required
      BY <2>4 DEF Refused, FatalTo
    <3>2. IF Endpoint.required THEN status' = "kParseError"
                               ELSE status' = None
      BY <2>4 DEF Refused, Asked
    <3> QED
      BY <3>1, <3>2, AskedStopsIfFatal
  <2>5. CASE Return
    <3>1. /\ status' = "kOk" /\ status = None
          /\ answers' = answers
          /\ Len(answers) >= Len(Endpoints)
      BY <2>5, RestAssumption DEF Return, Current, IInv
    <3>2. \A i \in DOMAIN answers : ~Fatal(i)
      BY <3>1 DEF IInv, StopsAtFirstFatal
    <3>3. \A i \in DOMAIN answers' : ~Fatal(i)'
      BY <3>1, <3>2 DEF Fatal
    <3>4. Len(answers') = Len(Endpoints)
      BY <3>1, RestAssumption DEF IInv
    <3> QED
      BY <3>1, <3>3, <3>4 DEF IInv, StopsAtFirstFatal
  <2>6. CASE UNCHANGED vars
    BY <2>6 DEF vars, IInv, StopsAtFirstFatal, Fatal
  <2> QED
    BY <2>0, <2>1, <2>2, <2>3, <2>4, <2>5, <2>6 DEF Next
<1>3. IInv => StopsAtFirstFatal
  BY DEF IInv
<1> QED
  BY <1>1, <1>2, <1>3, PTL DEF Spec

-----------------------------------------------------------------------------
(* What one request does to the objects                                    *)

(* What an answer says of (type, id) when it is decoded under profile.     *)
SaidBy(answer, profile, type, id) ==
    LET Named(d) == /\ answer.docs[d].id = id
                    /\ \A e \in DOMAIN answer.docs :
                           d < e => answer.docs[e].id # id
        Obj(d)   == DecodeObject(profile, type, answer.docs[d])
    IN  CASE answer.kind = "object" ->
                 IF type \in SingletonTypes \/ Obj(1).id = id
                 THEN Obj(1) ELSE None
          [] /\ answer.kind = "array" /\ type \in CollectionTypes
             /\ CollectionDecodes(answer.docs) ->
                 IF \E d \in DOMAIN answer.docs : Named(d)
                 THEN Obj(CHOOSE d \in DOMAIN answer.docs : Named(d))
                 ELSE None
          [] OTHER -> None

LEMMA SaidIs ==
    ASSUME NEW i, NEW type, NEW id
    PROVE  Said(i, type, id) = SaidBy(answers[i], resolved_version, type, id)
BY DEF Said, SaidBy

TablesOK ==
    /\ singletons \in [SingletonTypes -> Object \cup {None}]
    /\ collections \in [Types -> [Keys -> Object \cup {None}]]

LEMMA RestTypes ==
    /\ SingletonTypes \subseteq Types /\ CollectionTypes \subseteq Types
    /\ \A t \in Types : t \in CollectionTypes <=> t \notin SingletonTypes
    /\ Store!SingletonTypes = SingletonTypes
BY DataAssumption DEF Types, SingletonTypes, Store!SingletonTypes

LEMMA EndpointTypes ==
    ASSUME NEW i \in DOMAIN Endpoints
    PROVE  Endpoints[i].type \in Types /\ Endpoints[i].required \in BOOLEAN
<1> DEFINE E == [type : Types, required : BOOLEAN]
<1>1. Endpoints \in Seq(E)
  BY RestAssumption
<1>2. \A e \in E : e.type \in Types /\ e.required \in BOOLEAN
  OBVIOUS
<1> HIDE DEF E
<1>3. Endpoints[i] \in E
  BY <1>1
<1> QED
  BY <1>2, <1>3

LEMMA DecodedIsObject ==
    ASSUME NEW profile, NEW type, NEW doc \in Doc
    PROVE  DecodeObject(profile, type, doc) \in Object
<1>1. ClarificationMembers(profile, doc.members) \in SUBSET VersionMembers
  BY DEF ClarificationMembers, Doc
<1> QED
  BY <1>1 DEF DecodeObject, Object, Doc, Keys

(* One object: a singleton has one place, another goes under its own id.   *)
LEMMA ObjectWrites ==
    ASSUME TablesOK, NEW answer \in Answers, answer.kind = "object",
           NEW profile, NEW type \in Types,
           Endpoint.type = type, ApplyObject(answer.docs[1], profile),
           \A k \in Keys : Store!GetObject(type, k) = None
    PROVE  /\ TablesOK'
           /\ \A t \in Types, k \in Keys :
                  Store!GetObject(t, k)' =
                      IF t = type THEN SaidBy(answer, profile, type, k)
                      ELSE Store!GetObject(t, k)
<1> DEFINE obj == DecodeObject(profile, type, answer.docs[1])
<1>1. obj \in Object /\ obj.id \in Keys
  <2>1. answer.docs \in Seq(Doc) /\ Len(answer.docs) = 1
    BY RestAssumption DEF Answer
  <2>2. answer.docs[1] \in Doc
    BY <2>1
  <2>3. obj \in Object
    BY <2>2, DecodedIsObject
  <2> QED
    BY <2>3 DEF Object
<1>2. \A k : SaidBy(answer, profile, type, k) =
               IF type \in SingletonTypes \/ obj.id = k THEN obj ELSE None
  BY DEF SaidBy
<1>3. Store!ApplyUpsert(type, obj.id, obj)
  BY DEF ApplyObject, Store!ApplySingletonUpdate
<1> HIDE DEF obj
<1>4. CASE type \in SingletonTypes
  <2>1. /\ singletons' = [singletons EXCEPT ![type] = obj]
        /\ UNCHANGED collections
    BY <1>3, <1>4, RestTypes DEF Store!ApplyUpsert
  <2>2. TablesOK'
    BY <1>1, <2>1 DEF TablesOK
  <2> QED
    BY <1>2, <1>4, <2>1, <2>2, RestTypes DEF TablesOK, Store!GetObject
<1>5. CASE type \notin SingletonTypes
  <2>1. /\ collections' =
               [collections EXCEPT ![type] = [@ EXCEPT ![obj.id] = obj]]
        /\ UNCHANGED singletons
    BY <1>3, <1>5, RestTypes DEF Store!ApplyUpsert
  <2>2. [collections[type] EXCEPT ![obj.id] = obj]
            \in [Keys -> Object \cup {None}]
    BY <1>1 DEF TablesOK
  <2>3. \A k \in Keys : [collections[type] EXCEPT ![obj.id] = obj][k] =
                             IF k = obj.id THEN obj ELSE collections[type][k]
    BY <1>1 DEF TablesOK
  <2> DEFINE row == [collections[type] EXCEPT ![obj.id] = obj]
  <2>4. collections' = [collections EXCEPT ![type] = row]
    BY <2>1
  <2> HIDE DEF row
  <2>5. TablesOK'
    BY <2>1, <2>2, <2>4 DEF TablesOK, row
  <2>6. \A k \in Keys : collections[type][k] = None
    BY <1>5, RestTypes DEF Store!GetObject
  <2>7. ASSUME NEW t \in Types, NEW k \in Keys
        PROVE  Store!GetObject(t, k)' =
                   IF t = type THEN SaidBy(answer, profile, type, k)
                   ELSE Store!GetObject(t, k)
    <3>1. CASE t = type
      <4>1. Store!GetObject(t, k)' = row[k]
        BY <1>5, <2>4, <3>1, RestTypes DEF TablesOK, Store!GetObject
      <4>2. row[k] = IF obj.id = k THEN obj ELSE None
        BY <2>3, <2>6 DEF row
      <4> QED
        BY <1>2, <1>5, <3>1, <4>1, <4>2
    <3>2. CASE t # type
      BY <2>1, <2>4, <3>2 DEF TablesOK, Store!GetObject
    <3> QED
      BY <3>1, <3>2
  <2> QED
    BY <2>5, <2>7
<1> QED
  BY <1>4, <1>5

(* An array: of documents with one id the last stays.                      *)
LEMMA CollectionSaid ==
    ASSUME NEW answer \in Answers, answer.kind = "array",
           CollectionDecodes(answer.docs), NEW profile,
           NEW type \in CollectionTypes
    PROVE  LET row == Store!CollectionOf(
                          DecodeCollection(profile, type, answer.docs))
           IN  /\ row \in [Keys -> Object \cup {None}]
               /\ \A k \in Keys : row[k] = SaidBy(answer, profile, type, k)
<1> DEFINE docs == answer.docs
           objs == DecodeCollection(profile, type, docs)
           row == Store!CollectionOf(objs)
<1>1. docs \in Seq(Doc) /\ DOMAIN docs \subseteq Nat
  <2>1. docs \in Seq(Doc)
    BY RestAssumption DEF Answer
  <2> QED
    BY <2>1
<1>2. /\ DOMAIN objs = DOMAIN docs
      /\ \A d \in DOMAIN docs :
             /\ objs[d] = DecodeObject(profile, type, docs[d])
             /\ objs[d] \in Object /\ objs[d].id = docs[d].id
  <2>1. ASSUME NEW d \in DOMAIN docs
        PROVE  /\ objs[d] = DecodeObject(profile, type, docs[d])
               /\ objs[d] \in Object /\ objs[d].id = docs[d].id
    <3>1. docs[d] \in Doc /\ docs[d].id # None
      BY <1>1 DEF CollectionDecodes
    <3>2. objs[d] = DecodeObject(profile, type, docs[d])
      BY DEF DecodeCollection
    <3>3. DecodeObject(profile, type, docs[d]) \in Object
      BY <3>1, DecodedIsObject
    <3>4. DecodeObject(profile, type, docs[d]).id = docs[d].id
      <4>1. type # "state"
        BY RestTypes DEF SingletonTypes
      <4> QED
        BY <3>1, <4>1 DEF DecodeObject
    <3> QED
      BY <3>2, <3>3, <3>4
  <2> QED
    BY <2>1 DEF DecodeCollection
<1>3. ASSUME NEW k \in Keys
      PROVE  /\ row[k] = SaidBy(answer, profile, type, k)
             /\ row[k] \in Object \cup {None}
  <2> DEFINE Last(d) == /\ objs[d].id = k
                        /\ \A e \in DOMAIN objs : d < e => objs[e].id # k
             Named(d) == /\ docs[d].id = k
                         /\ \A e \in DOMAIN docs : d < e => docs[e].id # k
  <2>1. row[k] = IF \E d \in DOMAIN objs : Last(d)
                 THEN objs[CHOOSE d \in DOMAIN objs : Last(d)] ELSE None
    BY DEF Store!CollectionOf
  <2>2. SaidBy(answer, profile, type, k) =
            IF \E d \in DOMAIN docs : Named(d)
            THEN DecodeObject(profile, type,
                              docs[CHOOSE d \in DOMAIN docs : Named(d)])
            ELSE None
    BY DEF SaidBy
  <2>3. \A d \in DOMAIN docs : Last(d) <=> Named(d)
    BY <1>2
  <2>4. \A d, e \in DOMAIN docs : Named(d) /\ Named(e) => d = e
    <3>1. \A d, e \in DOMAIN docs : d < e \/ e < d \/ d = e
      BY <1>1
    <3> QED
      BY <3>1
  <2>5. DOMAIN objs = DOMAIN docs
    BY <1>2
  <2> HIDE DEF Last, Named, objs, row, docs
  <2>6. CASE \E d \in DOMAIN docs : Named(d)
    <3>1. PICK d \in DOMAIN docs : Named(d)
      BY <2>6
    <3>2. /\ (CHOOSE c \in DOMAIN docs : Named(c)) = d
          /\ (CHOOSE c \in DOMAIN docs : Last(c)) = d
      BY <2>3, <2>4, <3>1
    <3> QED
      BY <1>2, <2>1, <2>2, <2>3, <2>5, <3>1, <3>2
  <2>7. CASE ~ \E d \in DOMAIN docs : Named(d)
    BY <2>1, <2>2, <2>3, <2>5, <2>7
  <2> QED
    BY <2>6, <2>7
<1>4. row = [k \in Keys |-> row[k]]
  BY DEF Store!CollectionOf
<1> HIDE DEF row
<1>5. row \in [Keys -> Object \cup {None}]
  BY <1>3, <1>4
<1> QED
  BY <1>3, <1>5 DEF row

LEMMA ArrayWrites ==
    ASSUME TablesOK, NEW answer \in Answers, answer.kind = "array",
           CollectionDecodes(answer.docs), NEW profile, NEW type \in Types,
           Endpoint.type = type, ApplyArray(answer.docs, profile),
           \A k \in Keys : Store!GetObject(type, k) = None
    PROVE  /\ TablesOK'
           /\ \A t \in Types, k \in Keys :
                  Store!GetObject(t, k)' =
                      IF t = type THEN SaidBy(answer, profile, type, k)
                      ELSE Store!GetObject(t, k)
<1> DEFINE row == Store!CollectionOf(
                      DecodeCollection(profile, type, answer.docs))
<1>1. /\ collections' = [collections EXCEPT ![type] = row]
      /\ UNCHANGED singletons
  BY DEF ApplyArray, Store!ApplyCollectionReplace
<1>2. CASE type \in CollectionTypes
  <2>1. /\ row \in [Keys -> Object \cup {None}]
        /\ \A k \in Keys : row[k] = SaidBy(answer, profile, type, k)
    BY <1>2, CollectionSaid
  <2> HIDE DEF row
  <2>2. TablesOK'
    BY <1>1, <2>1 DEF TablesOK
  <2> QED
    BY <1>1, <1>2, <2>1, <2>2, RestTypes DEF TablesOK, Store!GetObject
<1>3. CASE type \in SingletonTypes
  <2>1. row \in [Keys -> Object \cup {None}]
    <3>1. answer.docs \in Seq(Doc)
      BY RestAssumption DEF Answer
    <3>2. \A d \in DOMAIN answer.docs :
              DecodeCollection(profile, type, answer.docs)[d] \in Object
      <4>1. \A d \in DOMAIN answer.docs : answer.docs[d] \in Doc
        BY <3>1
      <4> QED
        BY <4>1, DecodedIsObject DEF DecodeCollection
    <3>3. DOMAIN DecodeCollection(profile, type, answer.docs)
              = DOMAIN answer.docs
      BY DEF DecodeCollection
    <3> DEFINE objs == DecodeCollection(profile, type, answer.docs)
    <3> HIDE DEF objs
    <3>4. row = Store!CollectionOf(objs)
      BY DEF objs
    <3>5. \A k \in Keys : Store!CollectionOf(objs)[k] \in Object \cup {None}
      BY <3>2, <3>3 DEF Store!CollectionOf, objs
    <3>6. Store!CollectionOf(objs) =
              [k \in Keys |-> Store!CollectionOf(objs)[k]]
      BY DEF Store!CollectionOf
    <3> HIDE DEF row
    <3> QED
      BY <3>4, <3>5, <3>6
  <2> HIDE DEF row
  <2>2. TablesOK'
    BY <1>1, <2>1 DEF TablesOK
  <2>3. \A k : SaidBy(answer, profile, type, k) = None
    BY <1>3, RestTypes DEF SaidBy
  <2> QED
    BY <1>1, <1>3, <2>2, <2>3, RestTypes DEF TablesOK, Store!GetObject
<1> QED
  BY <1>2, <1>3, RestTypes

-----------------------------------------------------------------------------
(* The objects are the answers                                             *)

(* Before an endpoint is asked there is nothing of its type, for each type *)
(* is asked for once; and what an answer says depends on the version only  *)
(* once the contest, which comes first, has settled it.                    *)
HeldInv ==
    /\ answers \in Seq(Answers) /\ Len(answers) <= Len(Endpoints)
    /\ TablesOK
    /\ \A t \in Types, k \in Keys :
           (\A i \in DOMAIN answers : Endpoints[i].type # t)
               => Store!GetObject(t, k) = None
    /\ \A i \in DOMAIN answers, k \in Keys :
           Store!GetObject(Endpoints[i].type, k) =
               SaidBy(answers[i], resolved_version, Endpoints[i].type, k)

LEMMA CurrentEndpoint ==
    ASSUME HeldInv, NEW answer \in Answers, Asked(answer)
    PROVE  /\ Len(answers) \in Nat /\ Current \in DOMAIN Endpoints
           /\ DOMAIN answers = 1..Len(answers)
           /\ DOMAIN answers \subseteq DOMAIN Endpoints
           /\ Endpoint.type \in Types
           /\ \A i \in DOMAIN answers : Endpoints[i].type # Endpoint.type
           /\ Endpoint.type = "contest" => answers = <<>>
           /\ \A k \in Keys : Store!GetObject(Endpoint.type, k) = None
           /\ answers' \in Seq(Answers) /\ Len(answers') <= Len(Endpoints)
           /\ DOMAIN answers' = DOMAIN answers \cup {Current}
           /\ answers'[Current] = answer
           /\ \A i \in DOMAIN answers : answers'[i] = answers[i]
<1>1. /\ answers \in Seq(Answers) /\ Len(answers) \in Nat
      /\ DOMAIN answers = 1..Len(answers)
      /\ Current = Len(answers) + 1 /\ Current <= Len(Endpoints)
      /\ answers' = Append(answers, answer)
  BY DEF HeldInv, Asked, Current
<1>2. /\ Endpoints \in Seq([type : Types, required : BOOLEAN])
      /\ Len(Endpoints) \in Nat /\ DOMAIN Endpoints = 1..Len(Endpoints)
  BY RestAssumption
<1>3. /\ Current \in DOMAIN Endpoints /\ Current \notin DOMAIN answers
      /\ DOMAIN answers \subseteq DOMAIN Endpoints
  BY <1>1, <1>2
<1>4. Endpoint.type \in Types
  BY <1>3, EndpointTypes DEF Endpoint
<1>5. \A i \in DOMAIN answers : Endpoints[i].type # Endpoint.type
  BY <1>3, RestAssumption DEF Endpoint
<1>6. Endpoint.type = "contest" => answers = <<>>
  <2>1. ASSUME Endpoint.type = "contest"
        PROVE  Len(answers) = 0
    <3>1. Current = 1
      BY <1>3, <2>1, RestAssumption DEF Endpoint
    <3> QED
      BY <1>1, <3>1
  <2> QED
    BY <1>1, <2>1
<1>7. \A k \in Keys : Store!GetObject(Endpoint.type, k) = None
  BY <1>4, <1>5 DEF HeldInv
<1>8. /\ answers' \in Seq(Answers) /\ Len(answers') = Current
      /\ DOMAIN answers' = 1..Current
      /\ answers'[Current] = answer
      /\ \A i \in DOMAIN answers : answers'[i] = answers[i]
  BY <1>1
<1>9. 1..Current = DOMAIN answers \cup {Current}
  BY <1>1
<1> QED
  BY <1>1, <1>3, <1>4, <1>5, <1>6, <1>7, <1>8, <1>9

(* A request that writes what its answer says, and nothing else, keeps it. *)
LEMMA AnswerKept ==
    ASSUME HeldInv, NEW answer \in Answers, Asked(answer), TablesOK',
           resolved_version' # resolved_version => Endpoint.type = "contest",
           \A t \in Types, k \in Keys :
               Store!GetObject(t, k)' =
                   IF t = Endpoint.type
                   THEN SaidBy(answer, resolved_version', t, k)
                   ELSE Store!GetObject(t, k)
    PROVE  HeldInv'
<1>0. /\ DOMAIN answers \subseteq DOMAIN Endpoints
      /\ Endpoint.type \in Types
      /\ \A i \in DOMAIN answers : Endpoints[i].type # Endpoint.type
      /\ Endpoint.type = "contest" => answers = <<>>
      /\ answers' \in Seq(Answers) /\ Len(answers') <= Len(Endpoints)
      /\ DOMAIN answers' = DOMAIN answers \cup {Current}
      /\ answers'[Current] = answer
      /\ \A i \in DOMAIN answers : answers'[i] = answers[i]
      /\ Endpoint = Endpoints[Current]
  BY CurrentEndpoint DEF Endpoint
<1>1. ASSUME NEW t \in Types, NEW k \in Keys,
             \A i \in DOMAIN answers' : Endpoints[i].type # t
      PROVE  Store!GetObject(t, k)' = None
  <2>1. t # Endpoint.type /\ \A i \in DOMAIN answers : Endpoints[i].type # t
    BY <1>0, <1>1
  <2> QED
    BY <2>1 DEF HeldInv
<1>2. ASSUME NEW i \in DOMAIN answers', NEW k \in Keys
      PROVE  Store!GetObject(Endpoints[i].type, k)' =
                 SaidBy(answers'[i], resolved_version', Endpoints[i].type, k)
  <2>1. CASE i = Current
    BY <1>0, <2>1
  <2>2. CASE i \in DOMAIN answers
    <3>1. resolved_version' = resolved_version
      BY <1>0, <2>2
    <3>2. Endpoints[i].type \in Types
      BY <1>0, <2>2, EndpointTypes
    <3> QED
      BY <1>0, <2>2, <3>1, <3>2 DEF HeldInv
  <2> QED
    BY <1>0, <2>1, <2>2
<1>3. /\ \A t \in Types, k \in Keys :
             (\A i \in DOMAIN answers' : Endpoints[i].type # t)
                 => Store!GetObject(t, k)' = None
      /\ \A i \in DOMAIN answers', k \in Keys :
             Store!GetObject(Endpoints[i].type, k)' =
                 SaidBy(answers'[i], resolved_version', Endpoints[i].type, k)
  BY <1>1, <1>2
<1> QED
  BY <1>0, <1>3 DEF HeldInv

LEMMA HeldStep == HeldInv /\ [Next]_vars => HeldInv'
<1> SUFFICES ASSUME HeldInv, [Next]_vars
             PROVE  HeldInv'
  OBVIOUS
<1>1. ASSUME NEW answer \in Answers, Asked(answer),
             UNCHANGED <<resolved_version, objectVars>>,
             \A t, k : SaidBy(answer, resolved_version, t, k) = None
      PROVE  HeldInv'
  <2>1. TablesOK' /\ \A t, k : Store!GetObject(t, k)' = Store!GetObject(t, k)
    BY <1>1 DEF objectVars, TablesOK, Store!GetObject, HeldInv
  <2> QED
    BY <1>1, <2>1, AnswerKept, CurrentEndpoint
<1>2. ASSUME NEW answer \in Answers,
             \/ FailedFetch(answer) \/ Thrown(answer)
             \/ NoContent(answer) \/ Refused(answer)
      PROVE  HeldInv'
  <2>1. /\ Asked(answer) /\ UNCHANGED <<resolved_version, objectVars>>
        /\ \/ answer.kind \in {"internal", "unavailable", "malformed",
                               "overflow", "null"}
           \/ answer.kind = "array" /\ ~CollectionDecodes(answer.docs)
    BY <1>2 DEF FailedFetch, Thrown, NoContent, Refused, FetchError
  <2>2. \A t, k : SaidBy(answer, resolved_version, t, k) = None
    BY <2>1 DEF SaidBy
  <2> QED
    BY <1>1, <2>1, <2>2
<1>3. ASSUME NEW answer \in Answers, Applied(answer)
      PROVE  HeldInv'
  <2> DEFINE profile == DetectedVersion(answer)
  <2>1. /\ Asked(answer) /\ resolved_version' = profile
        /\ profile # resolved_version =>
               Endpoint.type = "contest" /\ answer.kind = "object"
    BY <1>3 DEF Applied, DetectedVersion
  <2>2. /\ TablesOK /\ Endpoint.type \in Types
        /\ \A k \in Keys : Store!GetObject(Endpoint.type, k) = None
    BY <2>1, CurrentEndpoint DEF HeldInv
  <2>3. CASE answer.kind = "array"
    <3>1. CollectionDecodes(answer.docs) /\ ApplyArray(answer.docs, profile)
      BY <1>3, <2>3 DEF Applied
    <3> HIDE DEF profile
    <3> QED
      BY <2>1, <2>2, <2>3, <3>1, ArrayWrites, AnswerKept
  <2>4. CASE answer.kind = "object"
    <3>1. ApplyObject(answer.docs[1], profile)
      BY <1>3, <2>4 DEF Applied
    <3> HIDE DEF profile
    <3> QED
      BY <2>1, <2>2, <2>4, <3>1, ObjectWrites, AnswerKept
  <2>5. CASE answer.kind = "scalar"
    <3>1. UNCHANGED <<resolved_version, objectVars>>
      BY <1>3, <2>1, <2>5 DEF Applied
    <3>2. \A t, k : SaidBy(answer, resolved_version, t, k) = None
      BY <2>5 DEF SaidBy
    <3> QED
      BY <1>1, <2>1, <3>1, <3>2
  <2> QED
    BY <1>3, <2>3, <2>4, <2>5 DEF Applied
<1>4. CASE Return \/ UNCHANGED vars
  BY <1>4 DEF Return, vars, objectVars, HeldInv, TablesOK, Store!GetObject
<1> QED
  BY <1>2, <1>3, <1>4 DEF Next

LEMMA HeldInit == Init => HeldInv
<1> SUFFICES ASSUME Init
             PROVE  HeldInv
  OBVIOUS
<1>1. /\ answers = <<>> /\ Len(answers) = 0 /\ DOMAIN answers = {}
      /\ Len(Endpoints) \in Nat
  BY RestAssumption DEF Init
<1>2. /\ singletons = [t \in SingletonTypes |-> None]
      /\ collections = [t \in Types |-> [k \in Keys |-> None]]
  BY RestTypes DEF Init, Store!Init, Store!NoObjects, Store!Types, Types
<1>3. \A t \in Types, k \in Keys : Store!GetObject(t, k) = None
  BY <1>2, RestTypes DEF Store!GetObject
<1> QED
  BY <1>1, <1>2, <1>3 DEF HeldInv, TablesOK

(* The objects of a fetch are what the answers say, under the version of   *)
(* its result: for any list that has each type once and the contest first, *)
(* as the code's has, and any server.                                      *)
THEOREM ObjectsAreAnswered == Spec => []ObjectsAreTheAnswers
<1>1. HeldInv => ObjectsAreTheAnswers
  <2> SUFFICES ASSUME HeldInv, NEW type \in Types, NEW id \in Keys
               PROVE  LET said == {i \in DOMAIN answers :
                                       Endpoints[i].type = type}
                      IN  IF said = {} THEN Store!GetObject(type, id) = None
                          ELSE \A i \in said : Store!GetObject(type, id) =
                                                   Said(i, type, id)
    BY DEF ObjectsAreTheAnswers
  <2> QED
    BY SaidIs DEF HeldInv
<1> QED
  BY <1>1, HeldInit, HeldStep, PTL DEF Spec

-----------------------------------------------------------------------------
(* Failures are reported                                                   *)

Note == [code : {"kMissingData", "kInvalidTime"}, endpoint : Nat]

NotesMissing(notes) == {n \in DOMAIN notes : notes[n].code = "kMissingData"}

(* Every failure of an optional endpoint has its note, the cap is no bound *)
(* for them.                                                               *)
EveryFailureIsNoted ==
    LET noted  == {n \in DOMAIN diagnostics :
                       diagnostics[n].code = "kMissingData"}
        failed == {i \in DOMAIN answers : /\ FetchError(answers[i]) # None
                                          /\ ~Endpoints[i].required}
    IN  /\ {diagnostics[n].endpoint : n \in noted} = failed
        /\ \A m, n \in noted :
               m < n => diagnostics[m].endpoint < diagnostics[n].endpoint

(* What is noted is about endpoints that were asked, in their order.       *)
NotesInv ==
    /\ answers \in Seq(Answers)
    /\ diagnostics \in Seq(Note)
    /\ EveryFailureIsNoted

(* The failure of an optional endpoint, as a set of at most one.           *)
FailedNow(answer) ==
    {i \in {Current} : FetchError(answer) # None /\ ~Endpoint.required}

(* Notes of the endpoint asked join the others, one for a failure.         *)
LEMMA NotesKept ==
    ASSUME NotesInv, NEW answer \in Answers, Asked(answer),
           NEW notes \in Seq(Note), diagnostics' = diagnostics \o notes,
           \A n \in DOMAIN notes : notes[n].endpoint = Current,
           \A m, n \in NotesMissing(notes) : m = n,
           NotesMissing(notes) = {} <=> FailedNow(answer) = {}
    PROVE  NotesInv'
<1> DEFINE k == Len(diagnostics)
           noted == NotesMissing(diagnostics)
           failed == {i \in DOMAIN answers : /\ FetchError(answers[i]) # None
                                             /\ ~Endpoints[i].required}
<1>1. /\ Len(answers) \in Nat /\ Current = Len(answers) + 1
      /\ DOMAIN answers = 1..Len(answers)
      /\ answers' \in Seq(Answers) /\ DOMAIN answers' = 1..Current
      /\ answers'[Current] = answer
      /\ \A i \in DOMAIN answers : answers'[i] = answers[i]
  BY DEF NotesInv, Asked, Current
<1>2. /\ \A i \in DOMAIN answers : i < Current
      /\ DOMAIN answers' = DOMAIN answers \cup {Current}
  BY <1>1
<1>3. /\ {diagnostics[n].endpoint : n \in noted} = failed
      /\ \A m, n \in noted :
             m < n => diagnostics[m].endpoint < diagnostics[n].endpoint
  BY DEF NotesInv, EveryFailureIsNoted, NotesMissing
<1>4. {i \in DOMAIN answers' : /\ FetchError(answers'[i]) # None
                               /\ ~Endpoints[i].required}
          = failed \cup FailedNow(answer)
  BY <1>1, <1>2 DEF FailedNow, Endpoint
<1>5. /\ k \in Nat /\ DOMAIN diagnostics = 1..k /\ Len(notes) \in Nat
      /\ DOMAIN notes = 1..Len(notes)
      /\ diagnostics' \in Seq(Note)
      /\ DOMAIN diagnostics' = 1..(k + Len(notes))
      /\ \A i \in 1..k : diagnostics'[i] = diagnostics[i]
      /\ \A i \in 1..Len(notes) : diagnostics'[k + i] = notes[i]
  BY DEF NotesInv
<1> HIDE DEF k
<1>6. \A i \in DOMAIN diagnostics' :
          \/ i \in 1..k
          \/ i - k \in 1..Len(notes) /\ i = k + (i - k)
  BY <1>5
<1>7. /\ \A i \in 1..k : i \in DOMAIN diagnostics'
      /\ \A i \in 1..Len(notes) : k + i \in DOMAIN diagnostics'
  BY <1>5
<1>8. \A n \in NotesMissing(diagnostics)' :
          \/ n \in noted /\ diagnostics'[n] = diagnostics[n]
          \/ /\ n - k \in NotesMissing(notes) /\ n = k + (n - k)
             /\ diagnostics'[n].endpoint = Current
  BY <1>5, <1>6 DEF NotesMissing
<1>9. /\ \A n \in noted : /\ n \in NotesMissing(diagnostics)'
                          /\ diagnostics'[n] = diagnostics[n]
      /\ \A n \in NotesMissing(notes) :
             /\ k + n \in NotesMissing(diagnostics)'
             /\ diagnostics'[k + n].endpoint = Current
  BY <1>5, <1>7 DEF NotesMissing
<1>10. {diagnostics'[n].endpoint : n \in NotesMissing(diagnostics)'}
           = failed \cup FailedNow(answer)
  <2> DEFINE now == {diagnostics'[n].endpoint :
                         n \in NotesMissing(diagnostics)'}
  <2>1. ASSUME NEW e \in now
        PROVE  e \in failed \cup FailedNow(answer)
    <3>1. PICK n \in NotesMissing(diagnostics)' :
              e = diagnostics'[n].endpoint
      BY <2>1
    <3>2. CASE n \in noted /\ diagnostics'[n] = diagnostics[n]
      BY <1>3, <3>1, <3>2
    <3>3. CASE n - k \in NotesMissing(notes) /\ e = Current
      BY <3>3 DEF FailedNow
    <3> QED
      BY <1>8, <3>1, <3>2, <3>3
  <2>2. ASSUME NEW e \in failed
        PROVE  e \in now
    BY <1>3, <1>9, <2>2
  <2>3. ASSUME NEW e \in FailedNow(answer)
        PROVE  e \in now
    <3>1. e = Current /\ NotesMissing(notes) # {}
      BY <2>3 DEF FailedNow
    <3> QED
      BY <1>9, <3>1
  <2> QED
    BY <2>1, <2>2, <2>3
<1>11. ASSUME NEW m \in NotesMissing(diagnostics)',
              NEW n \in NotesMissing(diagnostics)', m < n
       PROVE  diagnostics'[m].endpoint < diagnostics'[n].endpoint
  <2>1. \A i \in noted : i \in 1..k /\ diagnostics[i].endpoint < Current
    <3>1. noted \subseteq 1..k
      BY <1>5 DEF NotesMissing
    <3> QED
      BY <1>2, <1>3, <3>1
  <2>2. CASE n \in noted /\ diagnostics'[n] = diagnostics[n]
    <3>1. \A j \in NotesMissing(notes) : j \in Nat /\ j > 0
      BY <1>5 DEF NotesMissing
    <3>2. ~(m - k \in NotesMissing(notes) /\ m = k + (m - k))
      <4>1. n \in Nat /\ n <= k
        BY <1>5, <2>1, <2>2
      <4>2. ASSUME NEW j \in Nat, j > 0, m = k + j
            PROVE  FALSE
        BY <1>5, <1>11, <4>1, <4>2
      <4> QED
        BY <3>1, <4>2
    <3> QED
      BY <1>3, <1>8, <1>11, <2>2, <3>2
  <2>3. CASE /\ n - k \in NotesMissing(notes) /\ n = k + (n - k)
             /\ diagnostics'[n].endpoint = Current
    <3>1. m \in noted /\ diagnostics'[m] = diagnostics[m]
      <4>1. ASSUME m - k \in NotesMissing(notes), m = k + (m - k)
            PROVE  FALSE
        <5>1. m - k = n - k
          BY <2>3, <4>1
        <5>2. m = n
          BY <2>3, <4>1, <5>1
        <5>3. n \in Nat
          BY <1>5 DEF NotesMissing
        <5> QED
          BY <1>11, <5>2, <5>3
      <4> QED
        BY <1>8, <4>1
    <3> QED
      BY <2>1, <2>3, <3>1
  <2> QED
    BY <1>8, <2>2, <2>3
<1> HIDE DEF noted, failed
<1>12. EveryFailureIsNoted'
  BY <1>4, <1>10, <1>11 DEF EveryFailureIsNoted, NotesMissing, failed
<1> QED
  BY <1>1, <1>5, <1>12 DEF NotesInv

(* The warnings of a sequence of documents are finitely many.              *)
LEMMA WarningsAreFinite ==
    ASSUME NEW docs \in Seq(Doc)
    PROVE  WarningsOf(docs) \in Nat
<1> DEFINE D == DOMAIN docs
           Of(d) == {d} \X (1..docs[d].warns)
           parts == {Of(d) : d \in D}
<1>1. IsFiniteSet(D)
  <2>1. D = 1..Len(docs) /\ Len(docs) \in Nat
    OBVIOUS
  <2> QED
    BY <2>1, FS_Interval
<1>2. ASSUME NEW d \in D
      PROVE  IsFiniteSet(Of(d))
  <2>1. docs[d] \in Doc
    OBVIOUS
  <2> DEFINE n == docs[d].warns
  <2>2. n \in Nat
    BY <2>1 DEF Doc
  <2>3. IsFiniteSet({d})
    BY FS_Singleton
  <2> HIDE DEF n
  <2>4. IsFiniteSet(1..n)
    BY <2>2, FS_Interval
  <2>5. IsFiniteSet({d} \X (1..n))
    BY <2>3, <2>4, FS_Product
  <2> QED
    BY <2>5 DEF n
<1>3. IsFiniteSet(parts)
  <2>1. [d \in D |-> Of(d)] \in Surjection(D, parts)
    BY DEF Surjection
  <2> HIDE DEF D, parts
  <2> QED
    BY <1>1, <2>1, FS_Surjection
<1>4. \A part \in parts : IsFiniteSet(part)
  BY <1>2
<1>5. WarningsOf(docs) = Cardinality(UNION parts)
  BY DEF WarningsOf
<1> HIDE DEF parts
<1> QED
  BY <1>3, <1>4, <1>5, FS_UNION, FS_CardinalityType

(* Warnings, whole or cut, note no failure.                                *)
LEMMA WarningsKept ==
    ASSUME NotesInv, NEW answer \in Answers, Asked(answer),
           FetchError(answer) = None,
           NEW docs \in Seq(Doc), AddWarnings(docs)
    PROVE  NotesInv'
<1> DEFINE count == WarningsOf(docs)
           warning == [code |-> "kInvalidTime", endpoint |-> Current]
           warnings == [i \in 1..count |-> warning]
           room == MaxDiagnostics - Len(diagnostics)
<1>1. /\ answers \in Seq(Answers) /\ Current \in Nat
      /\ Len(diagnostics) \in Nat /\ MaxDiagnostics \in Nat
      /\ diagnostics \in Seq(Note)
  BY RestAssumption DEF NotesInv, Current
<1>2. count \in Nat
  BY WarningsAreFinite
<1> HIDE DEF count
<1>3. warning \in Note
  BY <1>1 DEF Note
<1>4. ASSUME NEW n \in Nat, diagnostics' = diagnostics \o [i \in 1..n |-> warning]
      PROVE  NotesInv'
  <2> DEFINE notes == [i \in 1..n |-> warning]
  <2>1. notes \in Seq(Note) /\ \A i \in DOMAIN notes : notes[i] = warning
    BY <1>3
  <2>2. NotesMissing(notes) = {}
    BY <2>1 DEF NotesMissing
  <2>3. \A i \in DOMAIN notes : notes[i].endpoint = Current
    BY <2>1
  <2>4. FailedNow(answer) = {}
    BY DEF FailedNow
  <2>5. diagnostics' = diagnostics \o notes
    BY <1>4
  <2> HIDE DEF notes
  <2> QED
    BY <2>1, <2>2, <2>3, <2>4, <2>5, NotesKept
<1>5. diagnostics' = IF Len(diagnostics) >= MaxDiagnostics THEN diagnostics
                     ELSE diagnostics \o
                          IF Len(warnings) <= room THEN warnings
                          ELSE SubSeq(warnings, 1, room)
  BY DEF AddWarnings, count
<1> HIDE DEF warning
<1>6. CASE Len(diagnostics) >= MaxDiagnostics
  <2>1. [i \in 1..0 |-> warning] = <<>>
    OBVIOUS
  <2>2. diagnostics \o <<>> = diagnostics
    BY <1>1
  <2> QED
    BY <1>4, <1>5, <1>6, <2>1, <2>2
<1>7. CASE ~(Len(diagnostics) >= MaxDiagnostics)
  <2>1. room \in Nat
    BY <1>1, <1>7
  <2>2. Len(warnings) = count /\ warnings \in Seq({warning})
    BY <1>2
  <2>3. CASE Len(warnings) <= room
    BY <1>2, <1>4, <1>5, <1>7, <2>3
  <2>4. CASE ~(Len(warnings) <= room)
    <3>1. room <= count
      BY <1>2, <2>1, <2>2, <2>4
    <3> HIDE DEF room
    <3>2. SubSeq(warnings, 1, room) = [i \in 1..room |-> warning]
      BY <1>2, <2>1, <3>1
    <3> QED
      BY <1>4, <1>5, <1>7, <2>1, <2>4, <3>2
  <2> QED
    BY <2>3, <2>4
<1> QED
  BY <1>6, <1>7

LEMMA NotesStep == NotesInv /\ [Next]_vars => NotesInv'
<1> SUFFICES ASSUME NotesInv, [Next]_vars
             PROVE  NotesInv'
  OBVIOUS
<1>1. Current \in Nat /\ diagnostics \in Seq(Note)
  BY DEF NotesInv, Current
<1>2. ASSUME NEW answer \in Answers, Asked(answer), UNCHANGED diagnostics,
             FailedNow(answer) = {}
      PROVE  NotesInv'
  <2>1. /\ <<>> \in Seq(Note) /\ DOMAIN <<>> = {}
        /\ diagnostics' = diagnostics \o <<>>
    BY <1>1, <1>2
  <2>2. NotesMissing(<<>>) = {}
    BY DEF NotesMissing
  <2> QED
    BY <1>2, <2>1, <2>2, NotesKept
<1>3. ASSUME NEW answer \in Answers, FailedFetch(answer)
      PROVE  NotesInv'
  <2>1. Asked(answer) /\ FetchError(answer) # None
    BY <1>3 DEF FailedFetch
  <2>2. CASE Endpoint.required
    BY <1>2, <1>3, <2>1, <2>2 DEF FailedFetch, FailedNow
  <2>3. CASE ~Endpoint.required
    <3> DEFINE note == [code |-> "kMissingData", endpoint |-> Current]
    <3>1. note \in Note /\ note.endpoint = Current
      BY <1>1 DEF Note
    <3>2. /\ <<note>> \in Seq(Note) /\ DOMAIN <<note>> = {1}
          /\ <<note>>[1] = note
      BY <3>1
    <3>3. NotesMissing(<<note>>) = {1}
      BY <3>2 DEF NotesMissing
    <3>4. diagnostics' = diagnostics \o <<note>>
      <4>1. diagnostics' = Append(diagnostics, note)
        BY <1>3, <2>3 DEF FailedFetch
      <4> HIDE DEF note
      <4> QED
        BY <1>1, <4>1
    <3>5. FailedNow(answer) = {Current}
      BY <2>1, <2>3 DEF FailedNow
    <3> HIDE DEF note
    <3> QED
      BY <2>1, <3>1, <3>2, <3>3, <3>4, <3>5, NotesKept
  <2> QED
    BY <2>2, <2>3
<1>4. ASSUME NEW answer \in Answers,
             Thrown(answer) \/ NoContent(answer) \/ Refused(answer)
      PROVE  NotesInv'
  <2>1. /\ Asked(answer) /\ UNCHANGED diagnostics
        /\ FetchError(answer) = None
    BY <1>4 DEF Thrown, NoContent, Refused, FetchError
  <2> QED
    BY <1>2, <2>1 DEF FailedNow
<1>5. ASSUME NEW answer \in Answers, Applied(answer)
      PROVE  NotesInv'
  <2>1. Asked(answer) /\ FetchError(answer) = None
    BY <1>5 DEF Applied, FetchError
  <2>2. answer.docs \in Seq(Doc)
    BY RestAssumption DEF Answer
  <2>3. CASE answer.kind = "array"
    BY <1>5, <2>1, <2>2, <2>3, WarningsKept DEF Applied, ApplyArray
  <2>4. CASE answer.kind = "object"
    <3>1. answer.docs[1] \in Doc
      BY <2>2, <2>4, RestAssumption
    <3>2. <<answer.docs[1]>> \in Seq(Doc)
      BY <3>1
    <3> QED
      BY <1>5, <2>1, <2>4, <3>2, WarningsKept DEF Applied, ApplyObject
  <2>5. CASE answer.kind = "scalar"
    BY <1>2, <1>5, <2>1, <2>5 DEF Applied, FailedNow
  <2> QED
    BY <1>5, <2>3, <2>4, <2>5 DEF Applied
<1>6. CASE Return \/ UNCHANGED vars
  BY <1>6 DEF Return, vars, NotesInv, EveryFailureIsNoted
<1> QED
  BY <1>3, <1>4, <1>5, <1>6 DEF Next

(* An optional endpoint whose fetch failed has its note, in the order of   *)
(* the endpoints, for any server and any cap.                              *)
THEOREM FailuresAreNoted == Spec => []FailuresAreReported
<1>1. Init => NotesInv
  BY DEF Init, NotesInv, EveryFailureIsNoted
<1>2. NotesInv => FailuresAreReported
  BY DEF NotesInv, EveryFailureIsNoted, FailuresAreReported
<1> QED
  BY <1>1, <1>2, NotesStep, PTL DEF Spec

-----------------------------------------------------------------------------
(* Objects are counted                                                     *)

HeldSingletons == {t \in SingletonTypes : singletons[t] # None}

HeldEntries ==
    {e \in CollectionTypes \X Keys : collections[e[1]][e[2]] # None}

CountInv ==
    /\ HeldInv
    /\ fetched_count \in Nat
    /\ IsFiniteSet(HeldEntries)
    /\ Cardinality(HeldSingletons) + Cardinality(HeldEntries) <= fetched_count

LEMMA CardinalityGrows ==
    ASSUME NEW S, IsFiniteSet(S), NEW T, IsFiniteSet(T), NEW n \in Nat,
           Cardinality(T) <= n, NEW U, U \subseteq S \cup T
    PROVE  IsFiniteSet(U) /\ Cardinality(U) <= Cardinality(S) + n
<1>1. /\ IsFiniteSet(S \cup T)
      /\ Cardinality(S \cup T) =
             Cardinality(S) + Cardinality(T) - Cardinality(S \cap T)
  BY FS_Union
<1>2. IsFiniteSet(S \cap T)
  BY FS_Intersection
<1>3. /\ Cardinality(S \cap T) \in Nat /\ Cardinality(S) \in Nat
      /\ Cardinality(T) \in Nat /\ Cardinality(S \cup T) \in Nat
  BY <1>1, <1>2, FS_CardinalityType
<1>4. /\ IsFiniteSet(U) /\ Cardinality(U) <= Cardinality(S \cup T)
      /\ Cardinality(U) \in Nat
  BY <1>1, FS_Subset, FS_CardinalityType
<1>5. Cardinality(S \cup T) <= Cardinality(S) + n
  BY <1>1, <1>3
<1> QED
  BY <1>3, <1>4, <1>5

(* An array of n documents has at most n entries.                          *)
LEMMA EntriesOf ==
    ASSUME NEW docs \in Seq(Doc), NEW type
    PROVE  LET entries == {<<type, docs[d].id>> : d \in DOMAIN docs}
           IN  /\ IsFiniteSet(entries) /\ Cardinality(entries) <= Len(docs)
<1> DEFINE entries == {<<type, docs[d].id>> : d \in DOMAIN docs}
           f == [d \in DOMAIN docs |-> <<type, docs[d].id>>]
<1>1. f \in Surjection(DOMAIN docs, entries)
  BY DEF Surjection
<1>2. DOMAIN docs = 1..Len(docs) /\ Len(docs) \in Nat
  OBVIOUS
<1>3. IsFiniteSet(DOMAIN docs) /\ Cardinality(DOMAIN docs) = Len(docs)
  BY <1>2, FS_Interval
<1> HIDE DEF f, entries
<1>4. IsFiniteSet(entries) /\ Cardinality(entries) <= Cardinality(DOMAIN docs)
  BY <1>1, <1>3, FS_Surjection
<1> QED
  BY <1>3, <1>4 DEF entries

(* A request that counts n adds at most n objects.                         *)
LEMMA CountKept ==
    ASSUME CountInv, HeldInv', NEW n \in Nat,
           fetched_count' = fetched_count + n,
           NEW singles, IsFiniteSet(singles),
           NEW entries, IsFiniteSet(entries),
           Cardinality(singles) + Cardinality(entries) <= n,
           HeldSingletons' \subseteq HeldSingletons \cup singles,
           HeldEntries' \subseteq HeldEntries \cup entries
    PROVE  CountInv'
<1>1. IsFiniteSet(HeldSingletons)
  <2>1. IsFiniteSet({"contest"})
    BY FS_Singleton
  <2>2. IsFiniteSet({"contest"} \cup {"state"})
    BY <2>1, FS_AddElement
  <2>3. HeldSingletons \subseteq {"contest"} \cup {"state"}
    BY DEF HeldSingletons, SingletonTypes
  <2> QED
    BY <2>2, <2>3, FS_Subset
<1>2. /\ Cardinality(singles) \in Nat /\ Cardinality(entries) \in Nat
      /\ Cardinality(HeldSingletons) \in Nat
      /\ Cardinality(HeldEntries) \in Nat
  BY <1>1, FS_CardinalityType DEF CountInv
<1>3. /\ IsFiniteSet(HeldSingletons')
      /\ Cardinality(HeldSingletons') <=
             Cardinality(HeldSingletons) + Cardinality(singles)
  BY <1>1, <1>2, CardinalityGrows
<1>4. /\ IsFiniteSet(HeldEntries')
      /\ Cardinality(HeldEntries') <=
             Cardinality(HeldEntries) + Cardinality(entries)
  BY <1>2, CardinalityGrows DEF CountInv
<1>5. Cardinality(HeldSingletons') \in Nat /\ Cardinality(HeldEntries') \in Nat
  BY <1>3, <1>4, FS_CardinalityType
<1>6. Cardinality(HeldSingletons') + Cardinality(HeldEntries')
          <= fetched_count'
  BY <1>2, <1>3, <1>4, <1>5 DEF CountInv
<1>7. fetched_count' \in Nat
  BY DEF CountInv
<1> QED
  BY <1>4, <1>6, <1>7 DEF CountInv

(* What is held under no type but that of the endpoint is held before.     *)
LEMMA HeldGrows ==
    ASSUME HeldInv, HeldInv', NEW type \in Types,
           \A t \in Types \ {type}, k \in Keys :
               Store!GetObject(t, k)' = Store!GetObject(t, k)
    PROVE  /\ type \in SingletonTypes =>
                  /\ HeldSingletons' \subseteq HeldSingletons \cup {type}
                  /\ HeldEntries' \subseteq HeldEntries
           /\ type \in CollectionTypes =>
                  /\ HeldSingletons' \subseteq HeldSingletons
                  /\ \A e \in HeldEntries' : e \in HeldEntries \/ e[1] = type
<1>1. "" \in Keys
  BY DEF Keys
<1>2. \A t \in SingletonTypes \ {type} : singletons'[t] = singletons[t]
  BY <1>1, RestTypes DEF Store!GetObject
<1>3. \A t \in CollectionTypes \ {type}, k \in Keys :
          collections'[t][k] = collections[t][k]
  BY RestTypes DEF Store!GetObject
<1>4. HeldSingletons' \subseteq HeldSingletons \cup {type}
  BY <1>2 DEF HeldSingletons
<1>5. \A e \in HeldEntries' : e \in HeldEntries \/ e[1] = type
  BY <1>3 DEF HeldEntries
<1>6. type \in SingletonTypes => HeldEntries' \subseteq HeldEntries
  <2>1. \A e \in HeldEntries' : e[1] \in CollectionTypes
    BY DEF HeldEntries
  <2> QED
    BY <1>5, <2>1, RestTypes
<1>7. type \in CollectionTypes => HeldSingletons' \subseteq HeldSingletons
  <2>1. HeldSingletons' \subseteq SingletonTypes
    BY DEF HeldSingletons
  <2> QED
    BY <1>4, <2>1, RestTypes
<1> QED
  BY <1>4, <1>5, <1>6, <1>7

LEMMA CountStep == CountInv /\ [Next]_vars => CountInv'
<1> SUFFICES ASSUME CountInv, [Next]_vars
             PROVE  CountInv'
  OBVIOUS
<1>0. HeldInv /\ HeldInv' /\ fetched_count \in Nat
  BY HeldStep DEF CountInv
<1>1. IsFiniteSet({}) /\ Cardinality({}) = 0
  BY FS_EmptySet
<1>2. ASSUME UNCHANGED objectVars, NEW n \in Nat,
             fetched_count' = fetched_count + n
      PROVE  CountInv'
  <2>1. HeldSingletons' = HeldSingletons /\ HeldEntries' = HeldEntries
    BY <1>2 DEF objectVars, HeldSingletons, HeldEntries
  <2>2. Cardinality({}) + Cardinality({}) <= n
    BY <1>1, <1>2
  <2> QED
    BY <1>0, <1>1, <1>2, <2>1, <2>2, CountKept
<1>3. ASSUME UNCHANGED <<objectVars, fetched_count>>
      PROVE  CountInv'
  BY <1>0, <1>2, <1>3
<1>4. ASSUME NEW answer \in Answers, Count(answer)
      PROVE  \E n \in Nat : fetched_count' = fetched_count + n
  <2>1. answer.docs \in Seq(Doc)
    BY RestAssumption DEF Answer
  <2> QED
    BY <1>4, <2>1 DEF Count
<1>5. ASSUME NEW answer \in Answers,
             \/ FailedFetch(answer) \/ Thrown(answer)
             \/ NoContent(answer) \/ Refused(answer)
      PROVE  CountInv'
  BY <1>2, <1>3, <1>4, <1>5 DEF FailedFetch, Thrown, NoContent, Refused
<1>6. ASSUME NEW answer \in Answers, Applied(answer)
      PROVE  CountInv'
  <2>0. PICK type \in Types : type = Endpoint.type
    BY <1>0, <1>6, CurrentEndpoint DEF Applied
  <2> DEFINE profile == DetectedVersion(answer)
             docs == answer.docs
  <2>1. /\ Asked(answer) /\ Endpoint.type = type /\ TablesOK /\ Count(answer)
        /\ \A k \in Keys : Store!GetObject(type, k) = None
        /\ docs \in Seq(Doc) /\ Len(docs) \in Nat
    <3>1. docs \in Seq(Doc)
      BY RestAssumption DEF Answer
    <3> QED
      BY <1>0, <1>6, <2>0, <3>1, CurrentEndpoint DEF Applied, HeldInv
  <2>2. CASE answer.kind = "array"
    <3>1. /\ CollectionDecodes(docs) /\ ApplyArray(docs, profile)
          /\ fetched_count' = fetched_count + Len(docs)
      BY <1>6, <2>2 DEF Applied, Count
    <3> HIDE DEF profile
    <3>2. \A t \in Types, k \in Keys :
              Store!GetObject(t, k)' =
                  IF t = type THEN SaidBy(answer, profile, type, k)
                  ELSE Store!GetObject(t, k)
      BY <2>1, <2>2, <3>1, ArrayWrites
    <3>3. CASE type \in SingletonTypes
      <4>1. UNCHANGED singletons
        BY <3>1 DEF ApplyArray, Store!ApplyCollectionReplace
      <4>2. /\ HeldSingletons' = HeldSingletons
            /\ HeldEntries' \subseteq HeldEntries
        BY <1>0, <2>1, <3>2, <3>3, <4>1, HeldGrows DEF HeldSingletons
      <4>3. Cardinality({}) + Cardinality({}) <= Len(docs)
        BY <1>1, <2>1
      <4> QED
        BY <1>0, <1>1, <2>1, <3>1, <4>2, <4>3, CountKept
    <3>4. CASE type \in CollectionTypes
      <4> DEFINE entries == {<<type, docs[d].id>> : d \in DOMAIN docs}
      <4>1. /\ HeldSingletons' \subseteq HeldSingletons
            /\ \A e \in HeldEntries' : e \in HeldEntries \/ e[1] = type
        BY <1>0, <2>1, <3>2, <3>4, HeldGrows
      <4>2. ASSUME NEW e \in HeldEntries', e[1] = type
            PROVE  e \in entries
        <5>1. /\ e = <<e[1], e[2]>> /\ e[2] \in Keys
              /\ collections'[type][e[2]] # None
          BY <4>2 DEF HeldEntries
        <5>2. SaidBy(answer, profile, type, e[2]) # None
          <6>1. Store!GetObject(type, e[2])' = collections'[type][e[2]]
            BY <2>1, <3>4, RestTypes DEF Store!GetObject
          <6> QED
            BY <2>1, <3>2, <5>1, <6>1
        <5>3. \E d \in DOMAIN docs : docs[d].id = e[2]
          BY <2>2, <3>1, <3>4, <5>2 DEF SaidBy
        <5> QED
          BY <4>2, <5>1, <5>3
      <4>3. IsFiniteSet(entries) /\ Cardinality(entries) <= Len(docs)
        BY <2>1, EntriesOf
      <4>4. HeldEntries' \subseteq HeldEntries \cup entries
        BY <4>1, <4>2
      <4> HIDE DEF entries
      <4>5. Cardinality({}) + Cardinality(entries) <= Len(docs)
        <5>1. Cardinality(entries) \in Nat
          BY <4>3, FS_CardinalityType
        <5> QED
          BY <1>1, <4>3, <5>1
      <4>6. HeldSingletons' \subseteq HeldSingletons \cup {}
        BY <4>1
      <4> QED
        BY <1>0, <1>1, <2>1, <3>1, <4>3, <4>4, <4>5, <4>6, CountKept
    <3> QED
      BY <2>1, <3>3, <3>4, RestTypes
  <2>3. CASE answer.kind = "object"
    <3>1. /\ ApplyObject(docs[1], profile)
          /\ fetched_count' = fetched_count + 1
      BY <1>6, <2>3 DEF Applied, Count
    <3> HIDE DEF profile
    <3>2. \A t \in Types, k \in Keys :
              Store!GetObject(t, k)' =
                  IF t = type THEN SaidBy(answer, profile, type, k)
                  ELSE Store!GetObject(t, k)
      BY <2>1, <2>3, <3>1, ObjectWrites
    <3>3. CASE type \in SingletonTypes
      <4>1. /\ HeldSingletons' \subseteq HeldSingletons \cup {type}
            /\ HeldEntries' \subseteq HeldEntries \cup {}
        BY <1>0, <2>1, <3>2, <3>3, HeldGrows
      <4>2. IsFiniteSet({type}) /\ Cardinality({type}) = 1
        BY FS_Singleton
      <4>3. Cardinality({type}) + Cardinality({}) <= 1
        BY <1>1, <4>2
      <4> QED
        BY <1>0, <1>1, <3>1, <4>1, <4>2, <4>3, CountKept
    <3>4. CASE type \in CollectionTypes
      <4> DEFINE id == DecodeObject(profile, type, docs[1]).id
      <4>1. /\ HeldSingletons' \subseteq HeldSingletons \cup {}
            /\ \A e \in HeldEntries' : e \in HeldEntries \/ e[1] = type
        BY <1>0, <2>1, <3>2, <3>4, HeldGrows
      <4>2. ASSUME NEW e \in HeldEntries', e[1] = type
            PROVE  e \in {<<type, id>>}
        <5>1. /\ e = <<e[1], e[2]>> /\ e[2] \in Keys
              /\ collections'[type][e[2]] # None
          BY <4>2 DEF HeldEntries
        <5>2. SaidBy(answer, profile, type, e[2]) # None
          <6>1. Store!GetObject(type, e[2])' = collections'[type][e[2]]
            BY <2>1, <3>4, RestTypes DEF Store!GetObject
          <6> QED
            BY <2>1, <3>2, <5>1, <6>1
        <5>3. type \notin SingletonTypes
          BY <2>1, <3>4, RestTypes
        <5>4. e[2] = id
          BY <2>3, <5>2, <5>3 DEF SaidBy
        <5> QED
          BY <4>2, <5>1, <5>4
      <4> HIDE DEF id
      <4>3. HeldEntries' \subseteq HeldEntries \cup {<<type, id>>}
        BY <4>1, <4>2
      <4>4. IsFiniteSet({<<type, id>>}) /\ Cardinality({<<type, id>>}) = 1
        BY FS_Singleton
      <4>5. Cardinality({}) + Cardinality({<<type, id>>}) <= 1
        BY <1>1, <4>4
      <4> QED
        BY <1>0, <1>1, <3>1, <4>1, <4>3, <4>4, <4>5, CountKept
    <3> QED
      BY <2>1, <3>3, <3>4, RestTypes
  <2>4. CASE answer.kind = "scalar"
    <3>1. UNCHANGED objectVars
      BY <1>6, <2>4 DEF Applied
    <3> QED
      BY <1>2, <1>4, <2>1, <3>1
  <2> QED
    BY <1>6, <2>2, <2>3, <2>4 DEF Applied
<1>7. CASE Return \/ UNCHANGED vars
  BY <1>3, <1>7 DEF Return, vars
<1> QED
  BY <1>5, <1>6, <1>7 DEF Next

LEMMA CountInit == Init => CountInv
<1> SUFFICES ASSUME Init
             PROVE  CountInv
  OBVIOUS
<1>1. /\ singletons = [t \in SingletonTypes |-> None]
      /\ collections = [t \in Types |-> [k \in Keys |-> None]]
  BY RestTypes DEF Init, Store!Init, Store!NoObjects, Store!Types, Types
<1>2. HeldSingletons = {} /\ HeldEntries = {}
  BY <1>1, RestTypes DEF HeldSingletons, HeldEntries
<1>3. fetched_count = 0
  BY DEF Init
<1> QED
  BY <1>2, <1>3, HeldInit, FS_EmptySet DEF CountInv

(* The count of a result's cursor is at least the number of its objects,   *)
(* for any server: an array is counted whole, whatever it holds.           *)
THEOREM NoObjectUncounted == Spec => []ObjectsAreCounted
<1>1. CountInv => ObjectsAreCounted
  BY DEF CountInv, HeldSingletons, HeldEntries, ObjectsAreCounted
<1> QED
  BY <1>1, CountInit, CountStep, PTL DEF Spec

=============================================================================
