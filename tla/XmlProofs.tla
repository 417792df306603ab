----------------------------- MODULE XmlProofs -----------------------------
(***************************************************************************)
(* What the XML parser makes of a document, for any documents, types and   *)
(* ids: the objects it leaves and the words of the document it counts.     *)
(***************************************************************************)
EXTENDS XmlFeed, FiniteSetTheorems, SequenceTheorems, TLAPS

StoreProofs == INSTANCE ContestStoreProofs
                   WITH Objects <- Object, LogEvents <- {}, Diagnostics <- {},
                        event_log <- <<>>, heard <- <<>>

-----------------------------------------------------------------------------
(* The store, seen through GetObject                                       *)

LEMMA StoreAssumed == StoreProofs!StoreAssumption
BY DataAssumption, ObjectAssumption
   DEF StoreProofs!StoreAssumption, SingletonTypes, Object

LEMMA UpsertSeen ==
    ASSUME Store!ObjectsOK, NEW type \in Types, NEW id \in Keys,
           NEW obj \in Object, Store!ApplyUpsert(type, id, obj)
    PROVE  /\ Store!ObjectsOK'
           /\ event_count' = event_count + 1
           /\ \A t \in Types, k \in Keys :
                  Store!GetObject(t, k)' =
                      IF t = type /\ (type \in SingletonTypes \/ k = id)
                      THEN obj ELSE Store!GetObject(t, k)
<1> USE DEF Types, Store!Types, StoreProofs!Types, SingletonTypes,
            Store!SingletonTypes, StoreProofs!SingletonTypes
<1>1. Store!ObjectsOK'
  <2>1. StoreProofs!ObjectsOK /\ StoreProofs!ApplyUpsert(type, id, obj)
    BY DEF Store!ObjectsOK, StoreProofs!ObjectsOK, Store!ApplyUpsert,
           StoreProofs!ApplyUpsert, Store!Mirrored, StoreProofs!Mirrored
  <2>2. StoreProofs!ObjectsOK'
    BY <2>1, StoreAssumed, StoreProofs!ApplyUpsertType
  <2> QED
    BY <2>2 DEF Store!ObjectsOK, StoreProofs!ObjectsOK
<1>2. event_count' = event_count + 1
  BY DEF Store!ApplyUpsert
<1>3. ASSUME NEW t \in Types, NEW k \in Keys
      PROVE  Store!GetObject(t, k)' =
                 IF t = type /\ (type \in SingletonTypes \/ k = id)
                 THEN obj ELSE Store!GetObject(t, k)
  BY DEF Store!ApplyUpsert, Store!GetObject, Store!ObjectsOK
<1> QED
  BY <1>1, <1>2, <1>3

LEMMA DeleteSeen ==
    ASSUME Store!ObjectsOK, NEW type \in Types, NEW id \in Keys,
           Store!ApplyDelete(type, id)
    PROVE  /\ Store!ObjectsOK'
           /\ event_count' = event_count + 1
           /\ \A t \in Types, k \in Keys :
                  Store!GetObject(t, k)' =
                      IF t = type /\ (type \in SingletonTypes \/ k = id)
                      THEN None ELSE Store!GetObject(t, k)
<1> USE DEF Types, Store!Types, StoreProofs!Types, SingletonTypes,
            Store!SingletonTypes, StoreProofs!SingletonTypes
<1>1. Store!ObjectsOK'
  <2>1. StoreProofs!ObjectsOK /\ StoreProofs!ApplyDelete(type, id)
    BY DEF Store!ObjectsOK, StoreProofs!ObjectsOK, Store!ApplyDelete,
           StoreProofs!ApplyDelete, Store!Mirrored, StoreProofs!Mirrored
  <2>2. StoreProofs!ObjectsOK'
    BY <2>1, StoreAssumed, StoreProofs!ApplyDeleteType
  <2> QED
    BY <2>2 DEF Store!ObjectsOK, StoreProofs!ObjectsOK
<1>2. event_count' = event_count + 1
  BY DEF Store!ApplyDelete
<1>3. ASSUME NEW t \in Types, NEW k \in Keys
      PROVE  Store!GetObject(t, k)' =
                 IF t = type /\ (type \in SingletonTypes \/ k = id)
                 THEN None ELSE Store!GetObject(t, k)
  BY DEF Store!ApplyDelete, Store!GetObject, Store!ObjectsOK
<1> QED
  BY <1>1, <1>2, <1>3

-----------------------------------------------------------------------------
(* Documents and their words                                               *)

(* The JSON of an element is a document, under the id of the element.      *)
LEMMA ToJsonType ==
    ASSUME NEW type, NEW object \in XmlObject
    PROVE  ToJson(type, object) \in Doc
           /\ ToJson(type, object).id = object.doc.id
<1>1. object.doc \in Doc
  BY DEF XmlObject
<1>2. /\ object.doc.members \cup {"penalty_reltime"} \in SUBSET VersionMembers
      /\ object.doc.members \cup {"penalty_minutes"} \in SUBSET VersionMembers
  BY <1>1 DEF Doc, VersionMembers
<1> DEFINE doc == object.doc
<1>3. /\ [doc EXCEPT !.members = @ \cup {"penalty_reltime"}] \in Doc
      /\ [doc EXCEPT !.members = @ \cup {"penalty_minutes"}] \in Doc
      /\ [doc EXCEPT !.warns = @ + 1] \in Doc
      /\ [doc EXCEPT !.members = @ \cup {"penalty_reltime"}].id = doc.id
      /\ [doc EXCEPT !.members = @ \cup {"penalty_minutes"}].id = doc.id
      /\ [doc EXCEPT !.warns = @ + 1].id = doc.id
  BY <1>1, <1>2 DEF Doc
<1> QED
  BY <1>1, <1>3 DEF ToJson

LEMMA DecodeType ==
    ASSUME NEW type, NEW doc \in Doc
    PROVE  DecodeObject(resolved_version, type, doc) \in Object
           /\ DecodeObject(resolved_version, type, doc).id \in Keys
BY DEF DecodeObject, ClarificationMembers, Object, Doc, Keys

LEMMA ChildType ==
    ASSUME document \in Documents \cup {<<>>}, NEW i \in DOMAIN document
    PROVE  /\ document[i] \in Element
           /\ i \in 1..Len(document)
           /\ FindMapping(document[i].name) \in Types \cup {None}
           /\ FindMapping(document[i].type) \in Types \cup {None}
           /\ FlatObjects(document[i]) \in Seq([type : Types, object : XmlObject])
<1>1. document \in Documents
  OBVIOUS
<1>2. document \in Seq(Element)
  BY <1>1, XmlAssumption
<1>3. document[i] \in Element /\ i \in 1..Len(document)
  BY <1>2
<1>4. {FindMapping(document[i].name), FindMapping(document[i].type)}
          \subseteq Types \cup {None}
  BY <1>1, XmlAssumption
<1> DEFINE child == document[i]
           type  == FindMapping(child.name)
<1>5. child.object \in XmlObject /\ child.inner \in Seq(XmlObject)
  BY <1>3 DEF Element
<1>6. FlatObjects(child) \in Seq([type : Types, object : XmlObject])
  <2>1. CASE type = None
    BY <2>1 DEF FlatObjects
  <2>2. CASE type # None
    <3>1. type \in Types
      BY <1>4, <2>2
    <3> HIDE DEF type
    <3>2. <<[type |-> type, object |-> child.object]>>
              \in Seq([type : Types, object : XmlObject])
      BY <1>5, <3>1
    <3>3. ASSUME NEW j \in DOMAIN child.inner
          PROVE  child.inner[j] \in XmlObject
      BY <1>5
    <3>4. /\ DOMAIN child.inner = 1..Len(child.inner)
          /\ Len(child.inner) \in Nat
      BY <1>5
    <3>5. [j \in DOMAIN child.inner |->
              [type |-> type, object |-> child.inner[j]]]
              \in [1..Len(child.inner) -> [type : Types, object : XmlObject]]
      BY <3>1, <3>3, <3>4
    <3>6. [j \in DOMAIN child.inner |->
              [type |-> type, object |-> child.inner[j]]]
              \in Seq([type : Types, object : XmlObject])
      BY <3>4, <3>5
    <3> QED
      BY <2>2, <3>2, <3>6 DEF FlatObjects, type
  <2> QED
    BY <2>1, <2>2
<1> QED
  BY <1>3, <1>4, <1>6

(* What a document says at one place.                                      *)
WordType == [type : Types, delete : BOOLEAN, doc : Doc]

LEMMA PlaceType ==
    ASSUME document \in Documents \cup {<<>>}, NEW p \in Words
    PROVE  /\ p = <<p[1], p[2]>>
           /\ p[1] \in DOMAIN document /\ p[1] \in 1..Len(document)
           /\ p[2] \in Nat \ {0}
           /\ IF Operations # {}
              THEN p[1] \in Operations \ Unknown /\ p[2] = 1
              ELSE p[2] \in 1..Len(FlatObjects(document[p[1]]))
<1>1. CASE Operations # {}
  <2>1. p \in (Operations \ Unknown) \X {1}
    BY <1>1 DEF Words
  <2>2. p = <<p[1], p[2]>> /\ p[1] \in Operations \ Unknown /\ p[2] = 1
    BY <2>1
  <2>3. p[1] \in DOMAIN document
    BY <2>2 DEF Operations
  <2> QED
    BY <1>1, <2>2, <2>3, ChildType
<1>2. CASE Operations = {}
  <2>1. PICK i \in DOMAIN document : p \in {i} \X DOMAIN FlatObjects(document[i])
    BY <1>2 DEF Words
  <2>2. p = <<p[1], p[2]>> /\ p[1] = i /\ p[2] \in DOMAIN FlatObjects(document[i])
    BY <2>1
  <2>3. /\ FlatObjects(document[i]) \in Seq([type : Types, object : XmlObject])
        /\ i \in 1..Len(document)
    BY ChildType
  <2>4. p[2] \in 1..Len(FlatObjects(document[i]))
        /\ Len(FlatObjects(document[i])) \in Nat
    BY <2>2, <2>3
  <2> QED
    BY <1>2, <2>2, <2>3, <2>4
<1> QED
  BY <1>1, <1>2

LEMMA WordIsTyped ==
    ASSUME document \in Documents \cup {<<>>}, NEW p \in Words
    PROVE  Word(p) \in WordType
<1> DEFINE child == document[p[1]]
           flat  == FlatObjects(child)[p[2]]
<1>1. p[1] \in DOMAIN document
  BY PlaceType
<1>2. /\ child \in Element
      /\ FindMapping(child.type) \in Types \cup {None}
      /\ FlatObjects(child) \in Seq([type : Types, object : XmlObject])
  BY <1>1, ChildType
<1>3. CASE Operations # {}
  <2>1. p[1] \in Operations \ Unknown
    BY <1>3, PlaceType
  <2>2. FindMapping(child.type) \in Types
    BY <1>2, <2>1 DEF Unknown
  <2>3. ToJson(FindMapping(child.type), child.object) \in Doc
    <3>1. child.object \in XmlObject
      BY <1>2 DEF Element
    <3> QED
      BY <3>1, ToJsonType
  <2>4. Word(p) = [type |-> FindMapping(child.type),
                   delete |-> child.op = "delete",
                   doc |-> ToJson(FindMapping(child.type), child.object)]
    BY <1>3 DEF Word
  <2> QED
    BY <2>2, <2>3, <2>4 DEF WordType
<1>4. CASE Operations = {}
  <2>1. flat \in [type : Types, object : XmlObject]
    <3> DEFINE R    == [type : Types, object : XmlObject]
               flats == FlatObjects(child)
    <3>1. p[2] \in 1..Len(flats)
      BY <1>4, PlaceType
    <3>2. flats \in Seq(R)
      BY <1>2
    <3> HIDE DEF R, flats
    <3>3. flats[p[2]] \in R
      BY <3>1, <3>2
    <3> QED
      BY <3>3 DEF R, flats
  <2>2. ToJson(flat.type, flat.object) \in Doc
    BY <2>1, ToJsonType
  <2>3. Word(p) = [type |-> flat.type, delete |-> FALSE,
                   doc |-> ToJson(flat.type, flat.object)]
    BY <1>4 DEF Word
  <2> QED
    BY <2>1, <2>2, <2>3 DEF WordType
<1> QED
  BY <1>3, <1>4

LEMMA WordsAreFinite ==
    ASSUME document \in Documents \cup {<<>>}
    PROVE  IsFiniteSet(Words) /\ IsFiniteSet(Unknown)
<1>1. IsFiniteSet(DOMAIN document)
  <2>1. document \in Seq(Element) \cup {<<>>}
    BY XmlAssumption
  <2>2. DOMAIN document = 1..Len(document) /\ Len(document) \in Nat
    BY <2>1
  <2> QED
    BY <2>2, FS_Interval
<1>2. IsFiniteSet(Operations) /\ IsFiniteSet(Unknown)
      /\ IsFiniteSet(Operations \ Unknown)
  BY <1>1, FS_Subset DEF Operations, Unknown
<1>3. CASE Operations # {}
  <2>1. IsFiniteSet({1})
    BY FS_Singleton
  <2>2. IsFiniteSet((Operations \ Unknown) \X {1})
    BY <1>2, <2>1, FS_Product
  <2> QED
    BY <1>2, <1>3, <2>2 DEF Words
<1>4. CASE Operations = {}
  <2> DEFINE At(i) == {i} \X DOMAIN FlatObjects(document[i])
             Ats   == {At(i) : i \in DOMAIN document}
  <2>1. ASSUME NEW i \in DOMAIN document
        PROVE  IsFiniteSet(At(i))
    <3>1. FlatObjects(document[i]) \in Seq([type : Types, object : XmlObject])
      BY ChildType
    <3>2. /\ DOMAIN FlatObjects(document[i]) = 1..Len(FlatObjects(document[i]))
          /\ Len(FlatObjects(document[i])) \in Nat
      BY <3>1
    <3>3. IsFiniteSet(1..Len(FlatObjects(document[i])))
      BY <3>2, FS_Interval
    <3>4. IsFiniteSet(DOMAIN FlatObjects(document[i]))
      BY <3>2, <3>3
    <3>5. IsFiniteSet({i})
      BY FS_Singleton
    <3> QED
      BY <3>4, <3>5, FS_Product
  <2>2. IsFiniteSet(Ats)
    <3> DEFINE D == DOMAIN document
    <3>1. [i \in D |-> At(i)] \in Surjection(D, Ats)
      BY DEF Surjection
    <3>2. IsFiniteSet(D)
      BY <1>1
    <3> HIDE DEF D, Ats
    <3> QED
      BY <3>1, <3>2, FS_Surjection
  <2>3. \A S \in Ats : IsFiniteSet(S)
    BY <2>1
  <2>4. IsFiniteSet(UNION Ats)
    <3> HIDE DEF Ats
    <3> QED
      BY <2>2, <2>3, FS_UNION
  <2> QED
    BY <1>2, <1>4, <2>4 DEF Words
<1> QED
  BY <1>3, <1>4

(* Words stay what they are while the document and the version do.         *)
LEMMA SameWords ==
    ASSUME UNCHANGED <<document, version>>
    PROVE  /\ Operations' = Operations /\ Unknown' = Unknown /\ Words' = Words
           /\ \A p : Word(p)' = Word(p) /\ NumberOf(p)' = NumberOf(p)
           /\ \A p : Says(Word(p))' = Says(Word(p))
           /\ \A p, type, id :
                  About(Word(p), type, id)' <=> About(Word(p), type, id)
<1>1. Operations' = Operations
  BY DEF Operations
<1>2. Unknown' = Unknown
  BY <1>1 DEF Unknown
<1>3. Words' = Words
  BY <1>1, <1>2 DEF Words
<1>4. ASSUME NEW p
      PROVE  Word(p)' = Word(p) /\ NumberOf(p)' = NumberOf(p)
  BY <1>1, <1>3 DEF Word, NumberOf
<1>5. resolved_version' = resolved_version
  BY DEF resolved_version
<1>6. ASSUME NEW p
      PROVE  Says(Word(p))' = Says(Word(p))
  BY <1>4, <1>5 DEF Says
<1>7. ASSUME NEW p, NEW type, NEW id
      PROVE  About(Word(p), type, id)' <=> About(Word(p), type, id)
  BY <1>4, <1>5 DEF About
<1> QED
  BY <1>1, <1>2, <1>3, <1>4, <1>6, <1>7

-----------------------------------------------------------------------------
(* The invariant                                                           *)

XmlTypes ==
    /\ document \in Documents \cup {<<>>}
    /\ at \in Nat /\ inner \in Nat /\ counted \in Nat
    /\ pc \in {"loading", "operations", "flat", "done"}
    /\ found_op_events \in BOOLEAN
    /\ diagnostics \in Seq([code : {"kInvalidTime", "kUnknownEventType"},
                            line_no : Nat])
    /\ Store!ObjectsOK

(* How far the document has been read.                                     *)
ReadsOn ==
    /\ at <= Len(document)
    /\ pc = "loading" => document = <<>> /\ status = None
    /\ pc # "flat" => inner = 0
    /\ pc = "flat" =>
           /\ Operations = {}
           /\ IF at = Len(document) THEN inner = 0
              ELSE inner <= Len(FlatObjects(document[at + 1]))
    /\ pc \in {"loading", "operations"} =>
           (found_op_events <=> \E i \in Operations : i <= at)
    /\ status = "kOk" => pc = "done" /\ at = Len(document)

(* The words applied so far.                                               *)
Taken ==
    IF pc = "operations" /\ Operations = {} THEN {}
    ELSE {p \in Words : p[1] <= at \/ (p[1] = at + 1 /\ p[2] <= inner)}

ObjectsStand == \A type \in Types, id \in Keys : StandsFor(Taken, type, id)

WordsAreCounted ==
    /\ counted = Cardinality(Taken)
    /\ event_count = Cardinality({p \in Taken : ~Pointless(Word(p))})

UnknownAreReported ==
    Cardinality(Coded("kUnknownEventType")) =
        Cardinality({i \in Unknown : i <= at})

WarningsAreNumbered ==
    /\ {diagnostics[i].line_no : i \in Coded("kInvalidTime")} =
           {NumberOf(p) : p \in {q \in Taken : Warns(Word(q))}}
    /\ \A i \in Coded("kInvalidTime") : diagnostics[i].line_no < counted
    /\ \A i, j \in Coded("kInvalidTime") :
           i < j => diagnostics[i].line_no < diagnostics[j].line_no

XmlInv ==
    /\ XmlTypes /\ ReadsOn
    /\ ObjectsStand /\ WordsAreCounted /\ UnknownAreReported
    /\ WarningsAreNumbered

-----------------------------------------------------------------------------
(* Taking a word                                                           *)

(* What is done for a word of the document.                                *)
Effect(word) ==
    IF word.delete
    THEN /\ IF word.doc.id = None THEN UNCHANGED objectVars
            ELSE Store!ApplyDelete(word.type, word.doc.id)
         /\ UNCHANGED diagnostics
    ELSE /\ Store!ApplyUpsert(word.type, Says(word).id, Says(word))
         /\ diagnostics' = IF word.doc.warns > 0
                           THEN Append(diagnostics, [code |-> "kInvalidTime",
                                                     line_no |-> counted])
                           ELSE diagnostics

LEMMA WordSeen ==
    ASSUME Store!ObjectsOK, NEW word \in WordType, Effect(word)
    PROVE  /\ Store!ObjectsOK'
           /\ event_count' = IF Pointless(word) THEN event_count
                             ELSE event_count + 1
           /\ \A t \in Types, k \in Keys :
                  Store!GetObject(t, k)' =
                      IF About(word, t, k) THEN Says(word)
                      ELSE Store!GetObject(t, k)
<1> DEFINE object == DecodeObject(resolved_version, word.type, word.doc)
<1>1. word.type \in Types /\ word.doc \in Doc /\ word.delete \in BOOLEAN
  BY DEF WordType
<1>2. object \in Object /\ object.id \in Keys
  BY <1>1, DecodeType
<1>3. word.type \notin SingletonTypes /\ word.doc.id # None
          => object.id = word.doc.id
  BY DEF DecodeObject, SingletonTypes
<1> HIDE DEF object
<1>4. ASSUME NEW t, NEW k
      PROVE  About(word, t, k) <=>
                 /\ t = word.type /\ ~Pointless(word)
                 /\ word.type \in SingletonTypes \/ k = object.id
  BY DEF About, object
<1>5. CASE Pointless(word)
  <2>1. UNCHANGED objectVars
    BY <1>5 DEF Effect, Pointless
  <2>2. \A t, k : ~About(word, t, k)
    BY <1>4, <1>5
  <2> QED
    BY <1>5, <2>1, <2>2 DEF objectVars, Store!ObjectsOK, Store!GetObject
<1>6. CASE word.delete /\ ~Pointless(word)
  <2>1. word.doc.id # None /\ Store!ApplyDelete(word.type, word.doc.id)
    BY <1>6 DEF Effect, Pointless
  <2>2. word.doc.id \in Keys
    BY <1>1, <2>1 DEF Doc
  <2>3. Says(word) = None
    BY <1>6 DEF Says
  <2>4. ASSUME NEW t, NEW k
        PROVE  About(word, t, k) <=>
                   /\ t = word.type
                   /\ word.type \in SingletonTypes \/ k = word.doc.id
    BY <1>3, <1>4, <1>6, <2>1
  <2> QED
    BY <1>1, <1>6, <2>1, <2>2, <2>3, <2>4, DeleteSeen
<1>7. CASE ~word.delete
  <2>1. Says(word) = object
    BY <1>7 DEF Says, object
  <2>2. Store!ApplyUpsert(word.type, object.id, object)
    BY <1>7, <2>1 DEF Effect
  <2>3. ~Pointless(word)
    BY <1>7 DEF Pointless
  <2> QED
    BY <1>1, <1>2, <1>4, <2>1, <2>2, <2>3, UpsertSeen
<1> QED
  BY <1>5, <1>6, <1>7

(* The next word is the one after those taken.                             *)
TakesWord(p) ==
    /\ p \in Words
    /\ Taken = {q \in Words : Before(q, p)}
    /\ Taken' = Taken \cup {p}
    /\ UNCHANGED <<document, version>>
    /\ counted' = counted + 1
    /\ Effect(Word(p))

LEMMA NextWordIsLater ==
    ASSUME XmlTypes, NEW p, TakesWord(p)
    PROVE  /\ p \notin Taken
           /\ IsFiniteSet(Taken) /\ Cardinality(Taken) \in Nat
           /\ Cardinality(Taken') = Cardinality(Taken) + 1
<1>1. p[1] \in Nat /\ p[2] \in Nat
  <2>1. document \in Documents \cup {<<>>} /\ p \in Words
    BY DEF XmlTypes, TakesWord
  <2>2. p[1] \in 1..Len(document) /\ p[2] \in Nat
    BY <2>1, PlaceType
  <2>3. document \in Seq(Element) \cup {<<>>}
    BY <2>1, XmlAssumption
  <2>4. Len(document) \in Nat
    BY <2>3
  <2> QED
    BY <2>2, <2>4
<1>2. ~Before(p, p)
  BY <1>1 DEF Before
<1>3. p \notin Taken
  BY <1>2 DEF TakesWord
<1>4. IsFiniteSet(Words)
  BY WordsAreFinite DEF XmlTypes
<1>5. Taken \subseteq Words
  BY DEF TakesWord
<1>6. IsFiniteSet(Taken) /\ Cardinality(Taken) \in Nat
  BY <1>4, <1>5, FS_Subset, FS_CardinalityType
<1> DEFINE taken == Taken
           new   == Taken'
<1>7. IsFiniteSet(taken) /\ p \notin taken /\ new = taken \cup {p}
  BY <1>3, <1>6 DEF TakesWord
<1>8. Cardinality(new) = Cardinality(taken) + 1
  <2> HIDE DEF taken, new
  <2>1. Cardinality(taken \cup {p}) = Cardinality(taken) + 1
    BY <1>7, FS_AddElement
  <2> QED
    BY <1>7, <2>1
<1> QED
  BY <1>3, <1>6, <1>8

LEMMA TakenStands ==
    ASSUME XmlTypes, ObjectsStand, NEW p, TakesWord(p)
    PROVE  Store!ObjectsOK' /\ ObjectsStand'
<1>1. document \in Documents \cup {<<>>} /\ Store!ObjectsOK
  BY DEF XmlTypes
<1>2. p \in Words /\ UNCHANGED <<document, version>> /\ Effect(Word(p))
      /\ Taken' = Taken \cup {p}
  BY DEF TakesWord
<1>3. Word(p) \in WordType
  BY <1>1, <1>2, WordIsTyped
<1>4. /\ Store!ObjectsOK'
      /\ \A t \in Types, k \in Keys :
             Store!GetObject(t, k)' =
                 IF About(Word(p), t, k) THEN Says(Word(p))
                 ELSE Store!GetObject(t, k)
  BY <1>1, <1>2, <1>3, WordSeen
<1>5. ASSUME NEW type \in Types, NEW id \in Keys
      PROVE  StandsFor(Taken, type, id)'
  <2> DEFINE about == {q \in Taken : About(Word(q), type, id)}
             later == {q \in Taken' : About(Word(q), type, id)'}
  <2>1. later = {q \in Taken \cup {p} : About(Word(q), type, id)}
    BY <1>2, SameWords
  <2>2. p \notin Taken
    BY NextWordIsLater
  <2>3. CASE About(Word(p), type, id)
    <3>1. p \in later
      BY <2>1, <2>3
    <3>2. Store!GetObject(type, id)' = Says(Word(p))'
      BY <1>2, <1>4, <2>3, SameWords
    <3>3. \A q \in later \ {p} : Before(q, p)
      BY <2>1 DEF TakesWord
    <3>4. \A q : Before(q, p)' <=> Before(q, p)
      BY DEF Before
    <3> QED
      BY <3>1, <3>2, <3>3, <3>4 DEF StandsFor
  <2>4. CASE ~About(Word(p), type, id)
    <3>1. later = about
      BY <2>1, <2>4
    <3>2. Store!GetObject(type, id)' = Store!GetObject(type, id)
      BY <1>4, <2>4
    <3>3. StandsFor(Taken, type, id)
      BY DEF ObjectsStand
    <3>4. \A q : Says(Word(q))' = Says(Word(q))
      BY <1>2, SameWords
    <3>5. \A q, r : Before(q, r)' <=> Before(q, r)
      BY DEF Before
    <3> QED
      BY <3>1, <3>2, <3>3, <3>4, <3>5 DEF StandsFor
  <2> QED
    BY <2>3, <2>4
<1> QED
  BY <1>4, <1>5 DEF ObjectsStand

LEMMA TakenCounts ==
    ASSUME XmlTypes, WordsAreCounted, NEW p, TakesWord(p)
    PROVE  WordsAreCounted'
<1> DEFINE told == {q \in Taken : ~Pointless(Word(q))}
           next == {q \in Taken' : ~Pointless(Word(q))'}
<1>1. /\ p \in Words /\ UNCHANGED <<document, version>> /\ Effect(Word(p))
      /\ Taken' = Taken \cup {p} /\ counted' = counted + 1
  BY DEF TakesWord
<1>2. /\ p \notin Taken /\ IsFiniteSet(Taken)
      /\ Cardinality(Taken') = Cardinality(Taken) + 1
  BY NextWordIsLater
<1>3. counted' = Cardinality(Taken')
  BY <1>1, <1>2 DEF WordsAreCounted
<1>4. \A q : Pointless(Word(q))' <=> Pointless(Word(q))
  BY <1>1, SameWords DEF Pointless
<1>5. next = told \cup (IF Pointless(Word(p)) THEN {} ELSE {p})
  BY <1>1, <1>4
<1>6. IsFiniteSet(told) /\ p \notin told
  BY <1>2, FS_Subset
<1>7. Cardinality(next) = IF Pointless(Word(p)) THEN Cardinality(told)
                          ELSE Cardinality(told) + 1
  <2>1. CASE Pointless(Word(p))
    BY <1>5, <2>1
  <2>2. CASE ~Pointless(Word(p))
    <3>1. next = told \cup {p}
      BY <1>5, <2>2
    <3> HIDE DEF told, next
    <3>2. Cardinality(told \cup {p}) = Cardinality(told) + 1
      BY <1>6, FS_AddElement
    <3> QED
      BY <2>2, <3>1, <3>2
  <2> QED
    BY <2>1, <2>2
<1>8. event_count' = IF Pointless(Word(p)) THEN event_count ELSE event_count + 1
  <2>1. document \in Documents \cup {<<>>} /\ Store!ObjectsOK
    BY DEF XmlTypes
  <2>2. Word(p) \in WordType
    BY <1>1, <2>1, WordIsTyped
  <2> QED
    BY <1>1, <2>1, <2>2, WordSeen
<1>9. event_count = Cardinality(told)
  BY DEF WordsAreCounted
<1>10. event_count' = Cardinality(next)
  BY <1>7, <1>8, <1>9
<1> QED
  BY <1>3, <1>10 DEF WordsAreCounted

Diagnostic == [code : {"kInvalidTime", "kUnknownEventType"}, line_no : Nat]

(* What a diagnostic more does to those there are.                         *)
LEMMA OneDiagnosticMore ==
    ASSUME NEW diags \in Seq(Diagnostic), NEW d \in Diagnostic,
           diagnostics = diags, diagnostics' = Append(diags, d), NEW code
    PROVE  /\ diagnostics' \in Seq(Diagnostic)
           /\ Len(diags) \in Nat /\ Coded(code) \in SUBSET (1..Len(diags))
           /\ Coded(code)' = Coded(code) \cup
                  (IF d.code = code THEN {Len(diags) + 1} ELSE {})
           /\ \A i \in Coded(code) : diagnostics'[i] = diagnostics[i]
           /\ diagnostics'[Len(diags) + 1] = d
<1>1. /\ diagnostics' \in Seq(Diagnostic)
      /\ Len(diags) \in Nat /\ DOMAIN diags = 1..Len(diags)
      /\ DOMAIN diagnostics' = 1..(Len(diags) + 1)
      /\ \A i \in 1..Len(diags) : diagnostics'[i] = diags[i]
      /\ diagnostics'[Len(diags) + 1] = d
  BY AppendProperties
<1>2. Coded(code) = {i \in 1..Len(diags) : diags[i].code = code}
  BY <1>1 DEF Coded
<1>3. Coded(code)' = {i \in 1..(Len(diags) + 1) : diagnostics'[i].code = code}
  BY <1>1 DEF Coded
<1>4. 1..(Len(diags) + 1) = 1..Len(diags) \cup {Len(diags) + 1}
  BY <1>1
<1> QED
  BY <1>1, <1>2, <1>3, <1>4

LEMMA TakenWarns ==
    ASSUME XmlTypes, WordsAreCounted, WarningsAreNumbered,
           NEW p, TakesWord(p)
    PROVE  /\ diagnostics' \in Seq(Diagnostic) /\ WarningsAreNumbered'
           /\ Coded("kUnknownEventType")' = Coded("kUnknownEventType")
<1> DEFINE warned == Coded("kInvalidTime")
           n      == Len(diagnostics)
           d      == [code |-> "kInvalidTime", line_no |-> counted]
<1>1. /\ p \in Words /\ UNCHANGED <<document, version>> /\ Effect(Word(p))
      /\ Taken' = Taken \cup {p} /\ counted' = counted + 1
      /\ Taken = {q \in Words : Before(q, p)}
  BY DEF TakesWord
<1>2. diagnostics \in Seq(Diagnostic) /\ counted \in Nat
  BY DEF XmlTypes, Diagnostic
<1>3. NumberOf(p) = counted
  BY <1>1 DEF NumberOf, WordsAreCounted
<1>4. \A q : (Warns(Word(q))' <=> Warns(Word(q))) /\ NumberOf(q)' = NumberOf(q)
  BY <1>1, SameWords DEF Warns
<1>5. {NumberOf(q)' : q \in {r \in Taken' : Warns(Word(r))'}} =
          {NumberOf(q) : q \in {r \in Taken : Warns(Word(r))}}
              \cup (IF Warns(Word(p)) THEN {counted} ELSE {})
  BY <1>1, <1>3, <1>4
<1>6. CASE Warns(Word(p))
  <2>1. diagnostics' = Append(diagnostics, d)
    BY <1>1, <1>6 DEF Effect, Warns
  <2>2. d \in Diagnostic
    BY <1>2 DEF Diagnostic
  <2>3. /\ diagnostics' \in Seq(Diagnostic)
        /\ n \in Nat /\ warned \in SUBSET (1..n)
        /\ warned' = warned \cup {n + 1}
        /\ \A i \in warned : diagnostics'[i] = diagnostics[i]
        /\ diagnostics'[n + 1] = d
    BY <1>2, <2>1, <2>2, OneDiagnosticMore
  <2>4. Coded("kUnknownEventType")' = Coded("kUnknownEventType")
    <3>1. Coded("kUnknownEventType")' = Coded("kUnknownEventType") \cup
              (IF d.code = "kUnknownEventType" THEN {n + 1} ELSE {})
      BY <1>2, <2>1, <2>2, OneDiagnosticMore
    <3>2. d.code # "kUnknownEventType"
      OBVIOUS
    <3> QED
      BY <3>1, <3>2
  <2>5. d.line_no = counted
    OBVIOUS
  <2>6. {diagnostics'[i].line_no : i \in warned'} =
            {diagnostics[i].line_no : i \in warned} \cup {counted}
    BY <2>3, <2>5
  <2>7. \A i \in warned' : diagnostics'[i].line_no < counted'
    <3>1. ASSUME NEW i \in warned
          PROVE  diagnostics'[i].line_no < counted'
      <4>1. diagnostics[i].line_no < counted /\ diagnostics[i].line_no \in Nat
        <5>1. diagnostics[i] \in Diagnostic
          BY <1>2, <2>3
        <5> QED
          BY <5>1 DEF WarningsAreNumbered, Diagnostic
      <4> QED
        BY <1>1, <1>2, <2>3, <4>1
    <3>2. diagnostics'[n + 1].line_no < counted'
      BY <1>1, <1>2, <2>3, <2>5
    <3> QED
      BY <2>3, <3>1, <3>2
  <2>8. ASSUME NEW i \in warned', NEW j \in warned', i < j
        PROVE  diagnostics'[i].line_no < diagnostics'[j].line_no
    <3>1. CASE j \in warned
      <4>1. i \in warned
        BY <2>3, <2>8, <3>1
      <4> QED
        BY <2>3, <2>8, <3>1, <4>1 DEF WarningsAreNumbered
    <3>2. CASE j = n + 1
      <4>1. i \in warned
        BY <2>3, <2>8, <3>2
      <4> QED
        BY <2>3, <2>5, <3>2, <4>1 DEF WarningsAreNumbered
    <3> QED
      BY <2>3, <3>1, <3>2
  <2> QED
    BY <1>5, <1>6, <2>3, <2>4, <2>6, <2>7, <2>8 DEF WarningsAreNumbered
<1>7. CASE ~Warns(Word(p))
  <2>1. diagnostics' = diagnostics
    BY <1>1, <1>7 DEF Effect, Warns
  <2>2. \A code : Coded(code)' = Coded(code)
    BY <2>1 DEF Coded
  <2>3. \A i \in warned : diagnostics[i].line_no < counted'
    <3>1. ASSUME NEW i \in warned
          PROVE  diagnostics[i].line_no < counted'
      <4>1. diagnostics[i] \in Diagnostic
        BY <1>2 DEF Coded
      <4>2. diagnostics[i].line_no \in Nat
        BY <4>1 DEF Diagnostic
      <4>3. diagnostics[i].line_no < counted
        BY DEF WarningsAreNumbered
      <4> QED
        BY <1>1, <1>2, <4>2, <4>3
    <3> QED
      BY <3>1
  <2> QED
    BY <1>2, <1>5, <1>7, <2>1, <2>2, <2>3 DEF WarningsAreNumbered
<1> QED
  BY <1>6, <1>7

-----------------------------------------------------------------------------
(* The steps                                                               *)

LEMMA Bounds ==
    ASSUME XmlTypes
    PROVE  /\ document \in Documents \cup {<<>>}
           /\ Len(document) \in Nat /\ DOMAIN document = 1..Len(document)
           /\ Operations \in SUBSET (1..Len(document))
           /\ Unknown \in SUBSET Operations
           /\ \A p \in Words : p[1] \in 1..Len(document) /\ p[2] \in Nat \ {0}
           /\ \A i \in 1..Len(document) : Len(FlatObjects(document[i])) \in Nat
<1>1. document \in Documents \cup {<<>>}
  BY DEF XmlTypes
<1>2. document \in Seq(Element) \cup {<<>>}
  BY <1>1, XmlAssumption
<1>3. Len(document) \in Nat /\ DOMAIN document = 1..Len(document)
  BY <1>2
<1>4. Operations \in SUBSET (1..Len(document)) /\ Unknown \in SUBSET Operations
  BY <1>3 DEF Operations, Unknown
<1>5. \A p \in Words : p[1] \in 1..Len(document) /\ p[2] \in Nat \ {0}
  BY <1>1, PlaceType
<1>6. ASSUME NEW i \in 1..Len(document)
      PROVE  Len(FlatObjects(document[i])) \in Nat
  <2>1. FlatObjects(document[i]) \in Seq([type : Types, object : XmlObject])
    BY <1>1, <1>3, ChildType
  <2> QED
    BY <2>1
<1> QED
  BY <1>1, <1>3, <1>4, <1>5, <1>6

Within ==
    /\ Len(document) \in Nat
    /\ Operations \in SUBSET (1..Len(document)) /\ Unknown \in SUBSET Operations
    /\ \A p \in Words : p[1] \in 1..Len(document) /\ p[2] \in Nat \ {0}

LEMMA WordsAreWithin == XmlTypes => Within
BY Bounds DEF Within

(* What stays while no word is taken.                                      *)
LEMMA StandsStill ==
    ASSUME ObjectsStand, WordsAreCounted, Taken' = Taken,
           UNCHANGED <<version, document, counted, objectVars>>
    PROVE  ObjectsStand' /\ WordsAreCounted'
<1>1. \A p : (Pointless(Word(p))' <=> Pointless(Word(p)))
             /\ Says(Word(p))' = Says(Word(p))
  BY SameWords DEF Pointless
<1>2. \A p, type, id : About(Word(p), type, id)' <=> About(Word(p), type, id)
  BY SameWords
<1>3. \A type, id : Store!GetObject(type, id)' = Store!GetObject(type, id)
  BY DEF Store!GetObject, objectVars
<1>4. \A q, r : Before(q, r)' <=> Before(q, r)
  BY DEF Before
<1>5. ASSUME NEW type \in Types, NEW id \in Keys
      PROVE  StandsFor(Taken, type, id)'
  <2>1. StandsFor(Taken, type, id)
    BY DEF ObjectsStand
  <2> QED
    BY <1>1, <1>2, <1>3, <1>4, <2>1 DEF StandsFor
<1>6. WordsAreCounted'
  BY <1>1 DEF WordsAreCounted, objectVars
<1> QED
  BY <1>5, <1>6 DEF ObjectsStand

LEMMA WarnsStill ==
    ASSUME WarningsAreNumbered, Taken' = Taken,
           UNCHANGED <<version, document, counted>>,
           Coded("kInvalidTime")' = Coded("kInvalidTime"),
           \A i \in Coded("kInvalidTime") : diagnostics'[i] = diagnostics[i]
    PROVE  WarningsAreNumbered'
<1>1. \A q : (Warns(Word(q))' <=> Warns(Word(q))) /\ NumberOf(q)' = NumberOf(q)
  BY SameWords DEF Warns
<1> DEFINE lines == {diagnostics[i].line_no : i \in Coded("kInvalidTime")}
           numbers == {NumberOf(p) : p \in {q \in Taken : Warns(Word(q))}}
<1>2. lines' = lines
  OBVIOUS
<1>3. numbers' = numbers
  <2>1. {q \in Taken : Warns(Word(q))}' = {q \in Taken : Warns(Word(q))}
    BY <1>1
  <2> QED
    BY <1>1, <2>1
<1>4. lines' = numbers'
  BY <1>2, <1>3 DEF WarningsAreNumbered
<1>5. \A i \in Coded("kInvalidTime")' : diagnostics'[i].line_no < counted'
  BY DEF WarningsAreNumbered
<1>6. \A i, j \in Coded("kInvalidTime")' :
          i < j => diagnostics'[i].line_no < diagnostics'[j].line_no
  BY DEF WarningsAreNumbered
<1> QED
  BY <1>4, <1>5, <1>6 DEF WarningsAreNumbered

(* A step that takes no word and reports nothing.                          *)
LEMMA NothingTaken ==
    ASSUME XmlInv, Taken' = Taken, ReadsOn',
           UNCHANGED <<version, document, diagnostics, counted, objectVars>>,
           at' \in Nat, inner' \in Nat, found_op_events' \in BOOLEAN,
           pc' \in {"loading", "operations", "flat", "done"},
           {i \in Unknown : i <= at'} = {i \in Unknown : i <= at}
    PROVE  XmlInv'
<1>1. XmlTypes'
  BY DEF XmlInv, XmlTypes, objectVars, Store!ObjectsOK
<1>2. ObjectsStand' /\ WordsAreCounted'
  BY StandsStill DEF XmlInv
<1>3. \A code : Coded(code)' = Coded(code)
  BY DEF Coded
<1>4. WarningsAreNumbered'
  BY <1>3, WarnsStill DEF XmlInv
<1>5. UnknownAreReported'
  <2>1. Unknown' = Unknown
    BY SameWords
  <2> QED
    BY <1>3, <2>1 DEF XmlInv, UnknownAreReported
<1> QED
  BY <1>1, <1>2, <1>4, <1>5 DEF XmlInv

(* A step that takes a word.                                               *)
LEMMA OneTaken ==
    ASSUME XmlInv, ReadsOn', NEW p, TakesWord(p),
           at' \in Nat, inner' \in Nat, found_op_events' \in BOOLEAN,
           UNCHANGED pc, {i \in Unknown : i <= at'} = {i \in Unknown : i <= at}
    PROVE  XmlInv'
<1>1. UNCHANGED <<document, version>> /\ counted' = counted + 1
  BY DEF TakesWord
<1>2. Store!ObjectsOK' /\ ObjectsStand'
  BY TakenStands DEF XmlInv
<1>3. WordsAreCounted'
  BY TakenCounts DEF XmlInv
<1>4. /\ diagnostics' \in Seq(Diagnostic) /\ WarningsAreNumbered'
      /\ Coded("kUnknownEventType")' = Coded("kUnknownEventType")
  BY TakenWarns DEF XmlInv
<1>5. UnknownAreReported'
  <2>1. Unknown' = Unknown
    BY <1>1, SameWords
  <2> QED
    BY <1>4, <2>1 DEF XmlInv, UnknownAreReported
<1>6. XmlTypes'
  BY <1>1, <1>2, <1>4 DEF XmlInv, XmlTypes, Diagnostic
<1> QED
  BY <1>2, <1>3, <1>4, <1>5, <1>6 DEF XmlInv

LEMMA ApplyEffect ==
    ASSUME NEW type \in Types, NEW object, Apply(type, object)
    PROVE  Effect([type |-> type, delete |-> FALSE,
                   doc |-> ToJson(type, object)])
<1> DEFINE word == [type |-> type, delete |-> FALSE,
                    doc |-> ToJson(type, object)]
           obj  == DecodeObject(resolved_version, type, ToJson(type, object))
<1>1. Says(word) = obj
  BY DEF Says
<1>2. Store!ApplyUpsert(type, obj.id, obj)
  BY DEF Apply, Store!ApplySingletonUpdate
<1> QED
  BY <1>1, <1>2 DEF Effect, Apply

LEMMA InitKept == Init => XmlInv
<1> SUFFICES ASSUME Init
             PROVE  XmlInv
  OBVIOUS
<1>1. document = <<>> /\ diagnostics = <<>>
  BY DEF Init
<1>2. DOMAIN document = {} /\ DOMAIN diagnostics = {} /\ Len(document) = 0
  BY <1>1
<1>3. Operations = {} /\ Unknown = {} /\ Words = {}
  BY <1>2 DEF Operations, Unknown, Words
<1>4. Taken = {} /\ \A code : Coded(code) = {}
  BY <1>2, <1>3 DEF Taken, Coded
<1>5. Cardinality({}) = 0
  BY FS_EmptySet
<1>6. \A type \in Types, id \in Keys : Store!GetObject(type, id) = None
  BY DEF Init, Store!Init, Store!NoObjects, Store!GetObject, Types,
         Store!Types, SingletonTypes, Store!SingletonTypes
<1>7. XmlTypes
  <2>1. Store!ObjectsOK
    BY DEF Init, Store!Init, Store!ObjectsOK, Store!NoObjects
  <2>2. <<>> \in Seq(Diagnostic)
    OBVIOUS
  <2>3. diagnostics \in Seq([code : {"kInvalidTime", "kUnknownEventType"},
                             line_no : Nat])
    BY <1>1, <2>2 DEF Diagnostic
  <2>4. /\ document \in Documents \cup {<<>>}
        /\ at \in Nat /\ inner \in Nat /\ counted \in Nat
        /\ pc \in {"loading", "operations", "flat", "done"}
        /\ found_op_events \in BOOLEAN
    BY DEF Init
  <2> QED
    BY <2>1, <2>3, <2>4 DEF XmlTypes
<1>8. ReadsOn
  BY <1>2, <1>3, XmlAssumption DEF ReadsOn, Init
<1>9. ObjectsStand
  BY <1>4, <1>6 DEF ObjectsStand, StandsFor
<1>10. WordsAreCounted /\ UnknownAreReported /\ WarningsAreNumbered
  BY <1>3, <1>4, <1>5
     DEF WordsAreCounted, UnknownAreReported, WarningsAreNumbered, Init,
         Store!Init
<1> QED
  BY <1>7, <1>8, <1>9, <1>10 DEF XmlInv

LEMMA LoadKept ==
    ASSUME XmlInv, NEW children \in Documents, Load(children)
    PROVE  XmlInv'
<1> USE DEF XmlInv
<1>1. /\ pc = "loading" /\ document = <<>> /\ status = None
      /\ at = 0 /\ inner = 0 /\ at' = 0 /\ inner' = 0
      /\ pc' = "operations" /\ status' = None
      /\ document' = children
      /\ UNCHANGED <<found_op_events, diagnostics, counted, objectVars>>
  <2>1. pc = "loading"
    BY DEF Load
  <2>2. document = <<>> /\ status = None /\ inner = 0 /\ at <= Len(document)
    BY <2>1 DEF ReadsOn
  <2>3. Len(document) = 0 /\ at \in Nat
    BY <2>2 DEF XmlTypes
  <2>4. at = 0
    BY <2>2, <2>3
  <2> QED
    BY <2>1, <2>2, <2>4 DEF Load
<1>2. XmlTypes'
  BY <1>1 DEF XmlTypes, objectVars, Store!ObjectsOK
<1>3. /\ Len(document') \in Nat
      /\ \A p \in Words' : p[1] \in Nat \ {0} /\ p[2] \in Nat \ {0}
      /\ \A i \in Operations' \cup Unknown' : i \in Nat \ {0}
  <2>1. Within'
    BY <1>2, WordsAreWithin, PTL
  <2> QED
    BY <2>1 DEF Within
<1>4. Taken' = {} /\ {i \in Unknown' : i <= at'} = {}
      /\ ~ \E i \in Operations' : i <= at'
  <2>1. \A p \in Words' : ~(p[1] <= 0) /\ ~(p[2] <= 0)
    BY <1>3
  <2>2. \A i \in Operations' \cup Unknown' : ~(i <= 0)
    BY <1>3
  <2>3. Taken' = {}
    BY <1>1, <2>1 DEF Taken
  <2> QED
    BY <1>1, <2>2, <2>3
<1>5. /\ DOMAIN document = {} /\ Operations = {} /\ Unknown = {} /\ Words = {}
      /\ Taken = {}
  BY <1>1 DEF Operations, Unknown, Words, Taken
<1>6. ReadsOn'
  BY <1>1, <1>3, <1>4, <1>5, XmlAssumption DEF ReadsOn
<1>7. ASSUME NEW type \in Types, NEW id \in Keys
      PROVE  StandsFor(Taken, type, id)'
  <2>1. StandsFor(Taken, type, id)
    BY DEF ObjectsStand
  <2>2. Store!GetObject(type, id)' = Store!GetObject(type, id)
    BY <1>1 DEF Store!GetObject, objectVars
  <2> QED
    BY <1>4, <1>5, <2>1, <2>2 DEF StandsFor
<1>8. WordsAreCounted'
  BY <1>1, <1>4, <1>5 DEF WordsAreCounted, objectVars
<1>9. \A code : Coded(code)' = Coded(code)
  BY <1>1 DEF Coded
<1>10. UnknownAreReported'
  BY <1>4, <1>5, <1>9 DEF UnknownAreReported
<1>11. WarningsAreNumbered'
  BY <1>1, <1>4, <1>5, <1>9 DEF WarningsAreNumbered
<1> QED
  BY <1>2, <1>6, <1>7, <1>8, <1>10, <1>11 DEF ObjectsStand

LEMMA FailToLoadKept ==
    ASSUME XmlInv, FailToLoad
    PROVE  XmlInv'
<1>1. /\ pc = "loading" /\ pc' = "done" /\ status' = "kParseError"
      /\ UNCHANGED <<version, document, at, inner, found_op_events,
                     diagnostics, counted, objectVars>>
  BY DEF FailToLoad
<1>2. document = <<>> /\ inner = 0 /\ at <= Len(document)
  BY <1>1 DEF XmlInv, ReadsOn
<1>3. DOMAIN document = {} /\ Words = {} /\ Words' = {}
  BY <1>1, <1>2 DEF Words, Operations, Unknown
<1>4. Taken' = Taken
  BY <1>3 DEF Taken
<1>5. ReadsOn'
  BY <1>1, <1>2 DEF ReadsOn
<1> QED
  BY <1>1, <1>4, <1>5, NothingTaken DEF XmlInv, XmlTypes

LEMMA PassOverKept ==
    ASSUME XmlInv, PassOver
    PROVE  XmlInv'
<1>1. /\ pc = "operations" /\ at < Len(document)
      /\ ~IsOpBasedEvent(document[at + 1]) /\ at' = at + 1
      /\ UNCHANGED <<version, document, inner, pc, found_op_events,
                     diagnostics, counted, status, objectVars>>
  BY DEF PassOver
<1>2. at \in Nat /\ inner = 0 /\ Len(document) \in Nat
      /\ Operations \in SUBSET (1..Len(document)) /\ Unknown \in SUBSET Operations
      /\ \A p \in Words : p[1] \in 1..Len(document) /\ p[2] \in Nat \ {0}
  BY <1>1, Bounds DEF XmlInv, XmlTypes, ReadsOn
<1>3. at + 1 \notin Operations
  BY <1>1 DEF Operations
<1>4. \A i \in Operations : i <= at + 1 <=> i <= at
  <2>1. \A i \in Operations : i \in Nat /\ i # at + 1
    BY <1>2, <1>3
  <2> QED
    BY <1>2, <2>1
<1>5. {i \in Unknown : i <= at'} = {i \in Unknown : i <= at}
  BY <1>1, <1>2, <1>4
<1>6. Operations' = Operations /\ Words' = Words
  BY <1>1, SameWords
<1>7. Taken' = Taken
  <2>1. CASE Operations = {}
    BY <1>1, <1>6, <2>1 DEF Taken
  <2>2. CASE Operations # {}
    <3>1. \A p \in Words : p[1] \in Operations
      BY <2>2, PlaceType DEF XmlInv, XmlTypes
    <3>2. \A p \in Words :
              (p[1] <= at + 1 \/ (p[1] = at + 1 + 1 /\ p[2] <= 0))
                  <=> (p[1] <= at \/ (p[1] = at + 1 /\ p[2] <= 0))
      BY <1>2, <1>4, <3>1
    <3>3. Taken = {p \in Words : p[1] <= at \/ (p[1] = at + 1 /\ p[2] <= 0)}
      BY <1>2, <2>2 DEF Taken
    <3>4. Taken' = {p \in Words : p[1] <= at + 1
                                  \/ (p[1] = at + 1 + 1 /\ p[2] <= 0)}
      BY <1>1, <1>2, <1>6, <2>2 DEF Taken
    <3> QED
      BY <3>2, <3>3, <3>4
  <2> QED
    BY <2>1, <2>2
<1>8. ReadsOn'
  <2>1. at + 1 <= Len(document)
    BY <1>1, <1>2
  <2>2. found_op_events <=> \E i \in Operations : i <= at
    BY <1>1 DEF XmlInv, ReadsOn
  <2>3. status # "kOk"
    BY <1>1 DEF XmlInv, ReadsOn
  <2> QED
    BY <1>1, <1>2, <1>4, <1>6, <2>1, <2>2, <2>3 DEF ReadsOn
<1> QED
  BY <1>1, <1>2, <1>5, <1>7, <1>8, NothingTaken DEF XmlInv, XmlTypes

(* What every operation does to the loop.                                  *)
LEMMA OperationReads ==
    ASSUME XmlInv, NEW event, Operation(event)
    PROVE  /\ at \in Nat /\ inner = 0 /\ pc = "operations" /\ pc' = pc
           /\ at' = at + 1 /\ inner' = 0 /\ found_op_events' = TRUE
           /\ UNCHANGED <<version, document>>
           /\ at + 1 \in Operations /\ event = document[at + 1]
           /\ ReadsOn'
<1>1. /\ pc = "operations" /\ at < Len(document) /\ event = document[at + 1]
      /\ IsOpBasedEvent(event) /\ at' = at + 1 /\ found_op_events' = TRUE
      /\ UNCHANGED <<version, document, inner, pc, status>>
  BY DEF Operation
<1>2. at \in Nat /\ inner = 0 /\ Len(document) \in Nat
      /\ DOMAIN document = 1..Len(document)
  BY <1>1, Bounds DEF XmlInv, XmlTypes, ReadsOn
<1>3. at + 1 \in Operations
  BY <1>1, <1>2 DEF Operations
<1>4. Operations' = Operations
  BY <1>1, SameWords
<1>5. ReadsOn'
  <2>1. at + 1 <= Len(document)
    BY <1>1, <1>2
  <2>2. status # "kOk"
    BY <1>1 DEF XmlInv, ReadsOn
  <2>3. \E i \in Operations : i <= at + 1
    BY <1>2, <1>3
  <2> QED
    BY <1>1, <1>2, <1>4, <2>1, <2>2, <2>3 DEF ReadsOn
<1> QED
  BY <1>1, <1>2, <1>3, <1>5

LEMMA ReportUnknownTypeKept ==
    ASSUME XmlInv, NEW event, ReportUnknownType(event)
    PROVE  XmlInv'
<1> DEFINE d == [code |-> "kUnknownEventType", line_no |-> 0]
           n == Len(diagnostics)
<1>1. /\ Operation(event) /\ FindMapping(event.type) = None
      /\ diagnostics' = Append(diagnostics, d)
      /\ UNCHANGED <<counted, objectVars>>
  BY DEF ReportUnknownType
<1>2. /\ at \in Nat /\ inner = 0 /\ pc = "operations" /\ pc' = pc
      /\ at' = at + 1 /\ inner' = 0 /\ found_op_events' = TRUE
      /\ UNCHANGED <<version, document>>
      /\ at + 1 \in Operations /\ event = document[at + 1]
      /\ ReadsOn'
  BY <1>1, OperationReads
<1>3. Len(document) \in Nat /\ DOMAIN document = 1..Len(document)
      /\ Operations \in SUBSET (1..Len(document)) /\ Unknown \in SUBSET Operations
      /\ \A p \in Words : p[1] \in 1..Len(document) /\ p[2] \in Nat \ {0}
  BY Bounds DEF XmlInv
<1>4. at + 1 \in Unknown
  BY <1>1, <1>2 DEF Unknown
<1>5. Operations' = Operations /\ Unknown' = Unknown /\ Words' = Words
  BY <1>2, SameWords
<1>6. Taken' = Taken
  <2>1. \A p \in Words : p[1] \in Nat /\ p[1] # at + 1 /\ p[2] \in Nat \ {0}
    BY <1>2, <1>3, <1>4, PlaceType DEF XmlInv, XmlTypes
  <2>2. \A p \in Words :
            (p[1] <= at + 1 \/ (p[1] = at + 1 + 1 /\ p[2] <= 0))
                <=> (p[1] <= at \/ (p[1] = at + 1 /\ p[2] <= 0))
    BY <1>2, <2>1
  <2>3. Taken = {p \in Words : p[1] <= at \/ (p[1] = at + 1 /\ p[2] <= 0)}
    BY <1>2 DEF Taken
  <2>4. Taken' = {p \in Words : p[1] <= at + 1
                                \/ (p[1] = at + 1 + 1 /\ p[2] <= 0)}
    BY <1>2, <1>5 DEF Taken
  <2> QED
    BY <2>2, <2>3, <2>4
<1>7. ObjectsStand' /\ WordsAreCounted'
  BY <1>1, <1>2, <1>6, StandsStill DEF XmlInv
<1>8. diagnostics \in Seq(Diagnostic) /\ d \in Diagnostic
  BY DEF XmlInv, XmlTypes, Diagnostic
<1>9. /\ diagnostics' \in Seq(Diagnostic) /\ n \in Nat
      /\ Coded("kUnknownEventType") \in SUBSET (1..n)
      /\ Coded("kUnknownEventType")' = Coded("kUnknownEventType") \cup
             (IF d.code = "kUnknownEventType" THEN {n + 1} ELSE {})
  BY <1>1, <1>8, OneDiagnosticMore
<1>10. /\ Coded("kInvalidTime")' = Coded("kInvalidTime") \cup
              (IF d.code = "kInvalidTime" THEN {n + 1} ELSE {})
       /\ \A i \in Coded("kInvalidTime") : diagnostics'[i] = diagnostics[i]
  BY <1>1, <1>8, OneDiagnosticMore
<1>11. WarningsAreNumbered'
  BY <1>1, <1>2, <1>6, <1>10, WarnsStill DEF XmlInv
<1>12. UnknownAreReported'
  <2> DEFINE known   == Coded("kUnknownEventType")
             before  == {i \in Unknown : i <= at}
  <2>1. {i \in Unknown' : i <= at'} = before \cup {at + 1}
    <3>1. \A i \in Unknown : i \in Nat
      BY <1>3
    <3>2. \A i \in Unknown : i <= at + 1 <=> (i <= at \/ i = at + 1)
      BY <1>2, <3>1
    <3> QED
      BY <1>2, <1>4, <1>5, <3>2
  <2>2. at + 1 \notin before
    BY <1>2
  <2>3. known' = known \cup {n + 1} /\ n + 1 \notin known
    BY <1>9
  <2>4. IsFiniteSet(before)
    <3>1. IsFiniteSet(Unknown)
      BY WordsAreFinite DEF XmlInv, XmlTypes
    <3> QED
      BY <3>1, FS_Subset
  <2>5. IsFiniteSet(known)
    <3>1. IsFiniteSet(1..n)
      BY <1>9, FS_Interval
    <3> QED
      BY <1>9, <3>1, FS_Subset
  <2>6. Cardinality(known) = Cardinality(before)
    BY DEF XmlInv, UnknownAreReported
  <2>7. Cardinality(known \cup {n + 1}) = Cardinality(known) + 1
    <3> HIDE DEF known, n
    <3> QED
      BY <2>3, <2>5, FS_AddElement
  <2>8. Cardinality(before \cup {at + 1}) = Cardinality(before) + 1
    <3> HIDE DEF before
    <3> QED
      BY <2>2, <2>4, FS_AddElement
  <2> QED
    BY <2>1, <2>3, <2>6, <2>7, <2>8 DEF UnknownAreReported
<1>13. XmlTypes'
  <2>1. at' \in Nat /\ inner' \in Nat
    BY <1>2
  <2> QED
    BY <1>1, <1>2, <1>9, <2>1
       DEF XmlInv, XmlTypes, Diagnostic, objectVars, Store!ObjectsOK
<1> QED
  BY <1>2, <1>7, <1>11, <1>12, <1>13 DEF XmlInv

(* An operation of a known type is the word after those taken.             *)
LEMMA OperationIsNextWord ==
    ASSUME XmlInv, NEW event, Operation(event), FindMapping(event.type) # None
    PROVE  /\ <<at + 1, 1>> \in Words
           /\ Taken = {q \in Words : Before(q, <<at + 1, 1>>)}
           /\ Taken' = Taken \cup {<<at + 1, 1>>}
           /\ {i \in Unknown : i <= at'} = {i \in Unknown : i <= at}
           /\ Word(<<at + 1, 1>>) =
                  [type |-> FindMapping(event.type),
                   delete |-> event.op = "delete",
                   doc |-> ToJson(FindMapping(event.type), event.object)]
           /\ FindMapping(event.type) \in Types /\ event.object \in XmlObject
<1> DEFINE p == <<at + 1, 1>>
<1>1. /\ at \in Nat /\ inner = 0 /\ pc = "operations" /\ pc' = pc
      /\ at' = at + 1 /\ inner' = 0
      /\ UNCHANGED <<version, document>>
      /\ at + 1 \in Operations /\ event = document[at + 1]
  BY OperationReads
<1>2. /\ DOMAIN document = 1..Len(document)
      /\ Operations \in SUBSET (1..Len(document)) /\ Unknown \in SUBSET Operations
      /\ document \in Documents \cup {<<>>}
  BY Bounds DEF XmlInv
<1>3. at + 1 \notin Unknown
  BY <1>1 DEF Unknown
<1>4. Words = (Operations \ Unknown) \X {1}
  BY <1>1 DEF Words
<1>5. p \in Words
  BY <1>1, <1>3, <1>4
<1>6. Words' = Words /\ Operations' = Operations
  BY <1>1, SameWords
<1>7. \A q \in Words : q = <<q[1], 1>> /\ q[1] \in Nat /\ q[2] = 1
  <2>1. ASSUME NEW q \in Words
        PROVE  q = <<q[1], 1>> /\ q[1] \in Operations /\ q[2] = 1
    BY <1>4
  <2>2. \A i \in Operations : i \in Nat
    BY <1>2
  <2> QED
    BY <2>1, <2>2
<1>8. Taken = {q \in Words : Before(q, p)}
  <2>1. Taken = {q \in Words : q[1] <= at \/ (q[1] = at + 1 /\ q[2] <= 0)}
    BY <1>1 DEF Taken
  <2>2. \A q \in Words : (q[1] <= at \/ (q[1] = at + 1 /\ q[2] <= 0))
                             <=> Before(q, p)
    BY <1>1, <1>7 DEF Before
  <2> QED
    BY <2>1, <2>2
<1>9. Taken' = Taken \cup {p}
  <2>1. Taken = {q \in Words : q[1] <= at \/ (q[1] = at + 1 /\ q[2] <= 0)}
    BY <1>1 DEF Taken
  <2>2. Taken' = {q \in Words : q[1] <= at + 1
                                \/ (q[1] = at + 1 + 1 /\ q[2] <= 0)}
    BY <1>1, <1>6 DEF Taken
  <2>3. ASSUME NEW q \in Words
        PROVE  q \in Taken' <=> q \in Taken \/ q = p
    <3>1. q = <<q[1], 1>> /\ q[1] \in Nat /\ q[2] = 1
      BY <1>7
    <3>2. q = p <=> q[1] = at + 1
      BY <3>1
    <3> QED
      BY <1>1, <2>1, <2>2, <3>1, <3>2
  <2> QED
    BY <1>5, <2>1, <2>2, <2>3
<1>10. {i \in Unknown : i <= at'} = {i \in Unknown : i <= at}
  <2>1. \A i \in Unknown : i \in Nat /\ i # at + 1
    BY <1>2, <1>3
  <2> QED
    BY <1>1, <2>1
<1>11. Word(p) = [type |-> FindMapping(event.type),
                  delete |-> event.op = "delete",
                  doc |-> ToJson(FindMapping(event.type), event.object)]
  <2>1. p[1] = at + 1
    OBVIOUS
  <2> HIDE DEF p
  <2> QED
    BY <1>1, <2>1 DEF Word
<1>12. FindMapping(event.type) \in Types /\ event.object \in XmlObject
  BY <1>1, <1>2, ChildType DEF Element
<1> QED
  BY <1>5, <1>8, <1>9, <1>10, <1>11, <1>12

LEMMA DeleteKept ==
    ASSUME XmlInv, NEW event, Delete(event)
    PROVE  XmlInv'
<1> DEFINE p    == <<at + 1, 1>>
           type == FindMapping(event.type)
           id   == event.object.doc.id
<1>1. /\ Operation(event) /\ type # None /\ event.op = "delete"
      /\ IF id = None THEN UNCHANGED objectVars
         ELSE Store!ApplyDelete(type, id)
      /\ counted' = counted + 1
      /\ UNCHANGED diagnostics
  BY DEF Delete
<1>2. /\ p \in Words /\ Taken = {q \in Words : Before(q, p)}
      /\ Taken' = Taken \cup {p}
      /\ {i \in Unknown : i <= at'} = {i \in Unknown : i <= at}
      /\ Word(p) = [type |-> type, delete |-> event.op = "delete",
                    doc |-> ToJson(type, event.object)]
      /\ type \in Types /\ event.object \in XmlObject
  BY <1>1, OperationIsNextWord
<1>3. /\ at \in Nat /\ pc' = pc /\ at' = at + 1 /\ inner' = 0
      /\ found_op_events' = TRUE /\ UNCHANGED <<version, document>> /\ ReadsOn'
  BY <1>1, OperationReads
<1>4. Effect(Word(p))
  <2>1. ToJson(type, event.object).id = id
    BY <1>2, ToJsonType
  <2> DEFINE doc  == ToJson(type, event.object)
             word == [type |-> type, delete |-> event.op = "delete",
                      doc |-> doc]
  <2>2. Word(p).delete /\ Word(p).type = type /\ Word(p).doc.id = id
    <3>1. word.delete = (event.op = "delete") /\ word.type = type
          /\ word.doc = doc
      OBVIOUS
    <3>2. Word(p) = word
      BY <1>2
    <3> HIDE DEF word
    <3> QED
      BY <1>1, <2>1, <3>1, <3>2
  <2> QED
    BY <1>1, <2>2 DEF Effect
<1>5. TakesWord(p)
  BY <1>1, <1>2, <1>3, <1>4 DEF TakesWord
<1>6. at' \in Nat /\ inner' \in Nat /\ found_op_events' \in BOOLEAN
  BY <1>3
<1> QED
  BY <1>2, <1>3, <1>5, <1>6, OneTaken

LEMMA UpsertKept ==
    ASSUME XmlInv, NEW event, Upsert(event)
    PROVE  XmlInv'
<1> DEFINE p    == <<at + 1, 1>>
           type == FindMapping(event.type)
<1>1. /\ Operation(event) /\ type # None /\ event.op # "delete"
      /\ Apply(type, event.object) /\ counted' = counted + 1
  BY DEF Upsert
<1>2. /\ p \in Words /\ Taken = {q \in Words : Before(q, p)}
      /\ Taken' = Taken \cup {p}
      /\ {i \in Unknown : i <= at'} = {i \in Unknown : i <= at}
      /\ Word(p) = [type |-> type, delete |-> event.op = "delete",
                    doc |-> ToJson(type, event.object)]
      /\ type \in Types
  BY <1>1, OperationIsNextWord
<1>3. /\ at \in Nat /\ pc' = pc /\ at' = at + 1 /\ inner' = 0
      /\ found_op_events' = TRUE /\ UNCHANGED <<version, document>> /\ ReadsOn'
  BY <1>1, OperationReads
<1>4. Effect(Word(p))
  <2>1. (event.op = "delete") = FALSE
    BY <1>1
  <2> QED
    BY <1>1, <1>2, <2>1, ApplyEffect
<1>5. TakesWord(p)
  BY <1>1, <1>2, <1>3, <1>4 DEF TakesWord
<1>6. at' \in Nat /\ inner' \in Nat /\ found_op_events' \in BOOLEAN
  BY <1>3
<1> QED
  BY <1>2, <1>3, <1>5, <1>6, OneTaken

LEMMA EndOfOperationsKept ==
    ASSUME XmlInv, EndOfOperations
    PROVE  XmlInv'
<1>1. /\ pc = "operations" /\ at = Len(document)
      /\ UNCHANGED <<version, document, inner, found_op_events, diagnostics,
                     counted, objectVars>>
      /\ inner = 0 /\ at \in Nat /\ inner \in Nat
      /\ pc' \in {"done", "flat"} /\ at' \in Nat
      /\ found_op_events \in BOOLEAN
      /\ found_op_events <=> \E i \in Operations : i <= at
  BY DEF EndOfOperations, XmlInv, XmlTypes, ReadsOn
<1>2. Within
  BY WordsAreWithin DEF XmlInv
<1>3. /\ Len(document) \in Nat
      /\ Operations \in SUBSET (1..Len(document)) /\ Unknown \in SUBSET Operations
      /\ \A p \in Words : p[1] \in 1..Len(document) /\ p[2] \in Nat \ {0}
  BY <1>2 DEF Within
<1>4. found_op_events <=> Operations # {}
  <2>1. \A i \in Operations : i <= at
    BY <1>1, <1>3
  <2> QED
    BY <1>1, <2>1
<1>5. Operations' = Operations /\ Words' = Words
  BY <1>1, SameWords
<1>6. CASE found_op_events
  <2>1. pc' = "done" /\ status' = "kOk" /\ at' = at
    BY <1>6 DEF EndOfOperations
  <2>2. Taken' = Taken
    BY <1>1, <1>4, <1>5, <1>6, <2>1 DEF Taken
  <2>3. ReadsOn'
    BY <1>1, <1>3, <2>1 DEF ReadsOn
  <2> QED
    BY <1>1, <2>1, <2>2, <2>3, NothingTaken
<1>7. CASE ~found_op_events
  <2>1. pc' = "flat" /\ status' = status /\ at' = 0
    BY <1>7 DEF EndOfOperations
  <2>2. Operations = {} /\ Unknown = {}
    BY <1>3, <1>4, <1>7
  <2>3. Taken = {}
    BY <1>1, <2>2 DEF Taken
  <2>4. Taken' = {}
    <3>1. \A p \in Words : ~(p[1] <= 0) /\ ~(p[2] <= 0)
      BY <1>3
    <3> QED
      BY <1>1, <1>5, <2>1, <3>1 DEF Taken
  <2>5. ReadsOn'
    <3>1. status # "kOk"
      BY <1>1 DEF XmlInv, ReadsOn
    <3>2. 0 <= Len(document)
      BY <1>3
    <3>3. ASSUME 0 # Len(document)
          PROVE  0 <= Len(FlatObjects(document[0 + 1]))
      <4>1. 0 + 1 \in 1..Len(document)
        BY <1>3, <3>3
      <4>2. Len(FlatObjects(document[0 + 1])) \in Nat
        BY <4>1, Bounds DEF XmlInv
      <4> QED
        BY <4>2
    <3> QED
      BY <1>1, <1>5, <2>1, <2>2, <3>1, <3>2, <3>3 DEF ReadsOn
  <2> QED
    BY <1>1, <2>1, <2>2, <2>3, <2>4, <2>5, NothingTaken
<1> QED
  BY <1>6, <1>7

(* In the flat loop.                                                       *)
LEMMA FlatReads ==
    ASSUME XmlInv, pc = "flat", UNCHANGED <<version, document>>
    PROVE  /\ at \in Nat /\ inner \in Nat /\ Len(document) \in Nat
           /\ DOMAIN document = 1..Len(document)
           /\ status # "kOk"
           /\ Operations = {} /\ Unknown = {} /\ Operations' = {}
           /\ Words' = Words
           /\ Taken = {q \in Words : q[1] <= at
                                     \/ (q[1] = at + 1 /\ q[2] <= inner)}
           /\ \A q \in Words :
                  /\ q = <<q[1], q[2]>> /\ q[1] \in 1..Len(document)
                  /\ q[2] \in 1..Len(FlatObjects(document[q[1]]))
                  /\ q[1] \in Nat /\ q[2] \in Nat
           /\ \A i \in 1..Len(document) :
                  /\ FlatObjects(document[i])
                         \in Seq([type : Types, object : XmlObject])
                  /\ Len(FlatObjects(document[i])) \in Nat
<1>1. /\ at \in Nat /\ inner \in Nat /\ status # "kOk" /\ Operations = {}
      /\ document \in Documents \cup {<<>>}
  BY DEF XmlInv, XmlTypes, ReadsOn
<1>2. Unknown = {} /\ Operations' = {} /\ Words' = Words
  BY <1>1, SameWords DEF Unknown
<1>3. /\ Len(document) \in Nat /\ DOMAIN document = 1..Len(document)
      /\ \A i \in 1..Len(document) : Len(FlatObjects(document[i])) \in Nat
  BY Bounds DEF XmlInv
<1>4. \A i \in 1..Len(document) :
          FlatObjects(document[i]) \in Seq([type : Types, object : XmlObject])
  BY <1>1, <1>3, ChildType
<1>5. ASSUME NEW q \in Words
      PROVE  /\ q = <<q[1], q[2]>> /\ q[1] \in 1..Len(document)
             /\ q[2] \in 1..Len(FlatObjects(document[q[1]]))
             /\ q[1] \in Nat /\ q[2] \in Nat
  <2>1. /\ q = <<q[1], q[2]>> /\ q[1] \in 1..Len(document)
        /\ q[2] \in 1..Len(FlatObjects(document[q[1]])) /\ q[2] \in Nat
    BY <1>1, PlaceType
  <2>2. q[1] \in Nat
    BY <1>3, <2>1
  <2> QED
    BY <2>1, <2>2
<1>6. Taken = {q \in Words : q[1] <= at \/ (q[1] = at + 1 /\ q[2] <= inner)}
  BY DEF Taken
<1> QED
  BY <1>1, <1>2, <1>3, <1>4, <1>5, <1>6

LEMMA ApplyFlatKept ==
    ASSUME XmlInv, ApplyFlat
    PROVE  XmlInv'
<1> DEFINE p       == <<at + 1, inner + 1>>
           objects == FlatObjects(document[at + 1])
           flat    == objects[inner + 1]
<1>1. /\ pc = "flat" /\ at < Len(document) /\ inner < Len(objects)
      /\ Apply(flat.type, flat.object)
      /\ inner' = inner + 1 /\ counted' = counted + 1
      /\ UNCHANGED <<version, document, at, pc, found_op_events, status>>
  BY DEF ApplyFlat
<1>2. UNCHANGED <<version, document>>
  BY <1>1
<1>3. /\ at \in Nat /\ inner \in Nat /\ Len(document) \in Nat
      /\ DOMAIN document = 1..Len(document)
      /\ status # "kOk"
      /\ Operations = {} /\ Unknown = {} /\ Operations' = {} /\ Words' = Words
  BY <1>1, <1>2, FlatReads
<1>4. Taken = {q \in Words : q[1] <= at \/ (q[1] = at + 1 /\ q[2] <= inner)}
  BY <1>1, <1>2, FlatReads
<1>5. \A q \in Words : q = <<q[1], q[2]>> /\ q[1] \in Nat /\ q[2] \in Nat
  BY <1>1, <1>2, FlatReads
<1>6. /\ at + 1 \in 1..Len(document)
      /\ objects \in Seq([type : Types, object : XmlObject])
      /\ Len(objects) \in Nat
  <2>1. at + 1 \in 1..Len(document)
    BY <1>1, <1>3
  <2> QED
    BY <1>1, <1>2, <2>1, FlatReads
<1>7. inner + 1 \in 1..Len(objects) /\ DOMAIN objects = 1..Len(objects)
  BY <1>1, <1>3, <1>6
<1>8. p \in Words
  <2>1. p \in {at + 1} \X DOMAIN objects
    BY <1>7
  <2>2. Words = UNION {{i} \X DOMAIN FlatObjects(document[i])
                           : i \in DOMAIN document}
    BY <1>3 DEF Words
  <2> QED
    BY <1>3, <1>6, <2>1, <2>2
<1>9. Taken = {q \in Words : Before(q, p)}
  <2>1. \A q \in Words : (q[1] <= at \/ (q[1] = at + 1 /\ q[2] <= inner))
                             <=> Before(q, p)
    BY <1>3, <1>5 DEF Before
  <2> QED
    BY <1>4, <2>1
<1>10. Taken' = Taken \cup {p}
  <2>1. Taken' = {q \in Words : q[1] <= at
                                \/ (q[1] = at + 1 /\ q[2] <= inner + 1)}
    BY <1>1, <1>3 DEF Taken
  <2>2. ASSUME NEW q \in Words
        PROVE  q \in Taken' <=> q \in Taken \/ q = p
    <3>1. q = <<q[1], q[2]>> /\ q[1] \in Nat /\ q[2] \in Nat
      BY <1>5
    <3>2. q = p <=> q[1] = at + 1 /\ q[2] = inner + 1
      BY <3>1
    <3> QED
      BY <1>3, <1>4, <2>1, <3>1, <3>2
  <2> QED
    BY <1>4, <1>8, <2>1, <2>2
<1>11. Effect(Word(p))
  <2>1. flat \in [type : Types, object : XmlObject]
    <3> DEFINE R == [type : Types, object : XmlObject]
    <3>1. objects \in Seq(R) /\ inner + 1 \in 1..Len(objects)
      BY <1>6, <1>7
    <3> HIDE DEF R, objects
    <3>2. flat \in R
      BY <3>1
    <3> QED
      BY <3>2 DEF R
  <2>2. flat.type \in Types
    BY <2>1
  <2>3. Word(p) = [type |-> flat.type, delete |-> FALSE,
                   doc |-> ToJson(flat.type, flat.object)]
    <3>1. p[1] = at + 1 /\ p[2] = inner + 1
      OBVIOUS
    <3> HIDE DEF p
    <3> QED
      BY <1>3, <3>1 DEF Word
  <2> HIDE DEF flat, p
  <2> QED
    BY <1>1, <2>2, <2>3, ApplyEffect
<1>12. TakesWord(p)
  BY <1>1, <1>8, <1>9, <1>10, <1>11 DEF TakesWord
<1>13. ReadsOn'
  <2>1. inner + 1 <= Len(objects)
    <3> HIDE DEF objects
    <3> QED
      BY <1>1, <1>3, <1>6
  <2>2. at # Len(document) /\ at <= Len(document)
    <3>1. at < Len(document)
      BY <1>1
    <3>2. at \in Nat /\ Len(document) \in Nat
      BY <1>3
    <3> QED
      BY <3>1, <3>2
  <2> QED
    BY <1>1, <1>3, <2>1, <2>2 DEF ReadsOn
<1>14. /\ at' \in Nat /\ inner' \in Nat /\ found_op_events' \in BOOLEAN
       /\ UNCHANGED pc
       /\ {i \in Unknown : i <= at'} = {i \in Unknown : i <= at}
  BY <1>1, <1>3 DEF XmlInv, XmlTypes
<1> QED
  BY <1>12, <1>13, <1>14, OneTaken

LEMMA NextChildKept ==
    ASSUME XmlInv, NextChild
    PROVE  XmlInv'
<1>1. /\ pc = "flat" /\ at < Len(document)
      /\ inner = Len(FlatObjects(document[at + 1]))
      /\ at' = at + 1 /\ inner' = 0
      /\ UNCHANGED <<version, document, pc, found_op_events, diagnostics,
                     counted, status, objectVars>>
  BY DEF NextChild
<1>2. UNCHANGED <<version, document>>
  BY <1>1
<1>3. /\ at \in Nat /\ inner \in Nat /\ Len(document) \in Nat
      /\ status # "kOk"
      /\ Operations = {} /\ Unknown = {} /\ Operations' = {} /\ Words' = Words
  BY <1>1, <1>2, FlatReads
<1>4. Taken = {q \in Words : q[1] <= at \/ (q[1] = at + 1 /\ q[2] <= inner)}
  BY <1>1, <1>2, FlatReads
<1>5. \A q \in Words : /\ q[1] \in Nat /\ q[2] \in Nat
                       /\ q[2] \in 1..Len(FlatObjects(document[q[1]]))
  BY <1>1, <1>2, FlatReads
<1>6. \A i \in 1..Len(document) : Len(FlatObjects(document[i])) \in Nat
  BY <1>1, <1>2, FlatReads
<1>7. Taken' = Taken
  <2>1. Taken' = {q \in Words : q[1] <= at + 1
                                \/ (q[1] = at + 1 + 1 /\ q[2] <= 0)}
    BY <1>1, <1>3 DEF Taken
  <2>2. ASSUME NEW q \in Words
        PROVE  (q[1] <= at + 1 \/ (q[1] = at + 1 + 1 /\ q[2] <= 0))
                   <=> (q[1] <= at \/ (q[1] = at + 1 /\ q[2] <= inner))
    <3>1. q[1] = at + 1 => q[2] <= inner
      BY <1>1, <1>3, <1>5
    <3>2. q[1] \in Nat /\ q[2] \in Nat /\ ~(q[2] <= 0)
      BY <1>5
    <3> QED
      BY <1>3, <3>1, <3>2
  <2> QED
    BY <1>4, <2>1, <2>2
<1>8. ReadsOn'
  <2>1. at + 1 <= Len(document)
    BY <1>1, <1>3
  <2>2. ASSUME at + 1 # Len(document)
        PROVE  0 <= Len(FlatObjects(document[(at + 1) + 1]))
    <3>1. (at + 1) + 1 \in 1..Len(document)
      BY <1>3, <2>1, <2>2
    <3>2. Len(FlatObjects(document[(at + 1) + 1])) \in Nat
      BY <1>6, <3>1
    <3> QED
      BY <3>2
  <2> QED
    BY <1>1, <1>3, <2>1, <2>2 DEF ReadsOn
<1>9. /\ at' \in Nat /\ inner' \in Nat /\ found_op_events' \in BOOLEAN
      /\ pc' \in {"loading", "operations", "flat", "done"}
      /\ {i \in Unknown : i <= at'} = {i \in Unknown : i <= at}
  BY <1>1, <1>3 DEF XmlInv, XmlTypes
<1> QED
  BY <1>1, <1>7, <1>8, <1>9, NothingTaken

LEMMA EndOfFlatKept ==
    ASSUME XmlInv, EndOfFlat
    PROVE  XmlInv'
<1>1. /\ pc = "flat" /\ at = Len(document) /\ pc' = "done" /\ status' = "kOk"
      /\ UNCHANGED <<version, document, at, inner, found_op_events,
                     diagnostics, counted, objectVars>>
  BY DEF EndOfFlat
<1>2. UNCHANGED <<version, document>>
  BY <1>1
<1>3. /\ at \in Nat /\ inner \in Nat /\ Len(document) \in Nat
      /\ Operations = {} /\ Unknown = {} /\ Operations' = {} /\ Words' = Words
  BY <1>1, <1>2, FlatReads
<1>4. inner = 0
  BY <1>1 DEF XmlInv, ReadsOn
<1>5. Taken' = Taken
  BY <1>1, <1>3 DEF Taken
<1>6. ReadsOn'
  BY <1>1, <1>3, <1>4 DEF ReadsOn
<1> QED
  BY <1>1, <1>3, <1>5, <1>6, NothingTaken DEF XmlInv, XmlTypes

-----------------------------------------------------------------------------
(* The theorems                                                            *)

LEMMA InvKept == XmlInv /\ [Next]_vars => XmlInv'
<1> SUFFICES ASSUME XmlInv, [Next]_vars
             PROVE  XmlInv'
  OBVIOUS
<1>1. CASE \E children \in Documents : Load(children)
  BY <1>1, LoadKept
<1>2. CASE FailToLoad
  BY <1>2, FailToLoadKept
<1>3. CASE PassOver
  BY <1>3, PassOverKept
<1>4. CASE \E event \in ToSet(document) : ReportUnknownType(event)
  BY <1>4, ReportUnknownTypeKept
<1>5. CASE \E event \in ToSet(document) : Delete(event)
  BY <1>5, DeleteKept
<1>6. CASE \E event \in ToSet(document) : Upsert(event)
  BY <1>6, UpsertKept
<1>7. CASE EndOfOperations
  BY <1>7, EndOfOperationsKept
<1>8. CASE ApplyFlat
  BY <1>8, ApplyFlatKept
<1>9. CASE NextChild
  BY <1>9, NextChildKept
<1>10. CASE EndOfFlat
  BY <1>10, EndOfFlatKept
<1>11. CASE UNCHANGED vars
  <2>1. /\ UNCHANGED <<version, document, at, inner, pc, found_op_events,
                       diagnostics, counted, status, objectVars>>
    BY <1>11 DEF vars
  <2>2. Operations' = Operations /\ Words' = Words
    BY <2>1, SameWords
  <2>3. Taken' = Taken
    BY <2>1, <2>2 DEF Taken
  <2>4. ReadsOn'
    BY <2>1, <2>2 DEF XmlInv, ReadsOn
  <2> QED
    BY <2>1, <2>3, <2>4, NothingTaken DEF XmlInv, XmlTypes
<1> QED
  BY <1>1, <1>2, <1>3, <1>4, <1>5, <1>6, <1>7, <1>8, <1>9, <1>10, <1>11
     DEF Next

LEMMA AllTaken ==
    ASSUME XmlInv, status = "kOk"
    PROVE  Taken = Words /\ Unknown = {i \in Unknown : i <= at}
<1>1. pc = "done" /\ at = Len(document)
  BY DEF XmlInv, ReadsOn
<1>2. /\ Len(document) \in Nat
      /\ Operations \in SUBSET (1..Len(document)) /\ Unknown \in SUBSET Operations
      /\ \A p \in Words : p[1] \in 1..Len(document) /\ p[2] \in Nat \ {0}
  BY Bounds DEF XmlInv
<1>3. \A p \in Words : p[1] <= at
  BY <1>1, <1>2
<1>4. \A i \in Unknown : i <= at
  BY <1>1, <1>2
<1>5. Taken = {p \in Words : p[1] <= at \/ (p[1] = at + 1 /\ p[2] <= inner)}
  BY <1>1 DEF Taken
<1> QED
  BY <1>3, <1>4, <1>5

LEMMA InvStands == XmlInv => LastWordStands
<1> SUFFICES ASSUME XmlInv, status = "kOk",
                    NEW type \in Types, NEW id \in Keys
             PROVE  StandsFor(Words, type, id)
  BY DEF LastWordStands
<1>1. Taken = Words
  BY AllTaken
<1>2. StandsFor(Taken, type, id)
  BY DEF XmlInv, ObjectsStand
<1> QED
  BY <1>1, <1>2

LEMMA InvAccounts == XmlInv => EveryWordIsAccountedFor
<1> SUFFICES ASSUME XmlInv, status = "kOk"
             PROVE  /\ counted = Cardinality(Words)
                    /\ Cardinality(Coded("kUnknownEventType"))
                           = Cardinality(Unknown)
                    /\ event_count = counted
                           - Cardinality({p \in Words : Pointless(Word(p))})
                    /\ {diagnostics[i].line_no : i \in Coded("kInvalidTime")} =
                           {NumberOf(p) : p \in {q \in Words : Warns(Word(q))}}
                    /\ \A i, j \in Coded("kInvalidTime") :
                           i < j => diagnostics[i].line_no < diagnostics[j].line_no
  BY DEF EveryWordIsAccountedFor
<1>1. Taken = Words /\ Unknown = {i \in Unknown : i <= at}
  BY AllTaken
<1> DEFINE pointless == {p \in Words : Pointless(Word(p))}
           told      == {p \in Words : ~Pointless(Word(p))}
<1>2. counted = Cardinality(Words) /\ event_count = Cardinality(told)
  BY <1>1 DEF XmlInv, WordsAreCounted
<1>3. event_count = counted - Cardinality(pointless)
  <2>1. IsFiniteSet(Words)
    BY WordsAreFinite DEF XmlInv, XmlTypes
  <2>2. told = Words \ pointless /\ pointless \in SUBSET Words
    OBVIOUS
  <2>3. IsFiniteSet(pointless) /\ Cardinality(pointless) \in Nat
    BY <2>1, <2>2, FS_Subset, FS_CardinalityType
  <2>4. Words \cap pointless = pointless
    BY <2>2
  <2>5. Cardinality(Words \ pointless) =
            Cardinality(Words) - Cardinality(pointless)
    <3> HIDE DEF pointless
    <3>1. Cardinality(Words \ pointless) =
              Cardinality(Words) - Cardinality(Words \cap pointless)
      BY <2>1, FS_Difference
    <3> QED
      BY <2>4, <3>1
  <2> QED
    BY <1>2, <2>2, <2>5
<1>4. Cardinality(Coded("kUnknownEventType")) = Cardinality(Unknown)
  BY <1>1 DEF XmlInv, UnknownAreReported
<1> QED
  BY <1>1, <1>2, <1>3, <1>4 DEF XmlInv, WarningsAreNumbered

(* Whatever the document, every object is, once it has been read, what the *)
(* last word about it says (XmlFeedParser): operations alone speak where   *)
(* there are any, an object without an id is one with id "", and a delete  *)
(* without an id says nothing.                                             *)
THEOREM LastWordsStand == Spec => []LastWordStands
<1>1. Spec => []XmlInv
  BY InitKept, InvKept, PTL DEF Spec
<1> QED
  BY <1>1, InvStands, PTL

(* Whatever the document, the events counted are its words, every operation*)
(* of an unknown type is reported once, the store counts all words but the *)
(* pointless deletes, and the decoders' warnings carry, in order, the      *)
(* numbers of the words that warn (XmlFeedParser, event_count).            *)
THEOREM WordsAreAccountedFor == Spec => []EveryWordIsAccountedFor
<1>1. Spec => []XmlInv
  BY InitKept, InvKept, PTL DEF Spec
<1> QED
  BY <1>1, InvAccounts, PTL

=============================================================================
