----------------------------- MODULE ZipProofs -----------------------------
(***************************************************************************)
(* What calls of ParsePackageZip make of the directory they share, for any *)
(* number of calls, any packages and any list of endpoint files.           *)
(***************************************************************************)
EXTENDS ZipExtract, FiniteSetTheorems, SequenceTheorems, TLAPS

-----------------------------------------------------------------------------
(* Files and sequences of them                                             *)

LEMMA CandidatesType ==
    /\ Candidates \in Seq(Files)
    /\ ToSet(Candidates) = Files \ {EventFeed}
    /\ Len(Candidates) >= 1 /\ Candidates[1] = Contest
    /\ EventFeed # Contest
<1>1. Endpoints \in Seq(STRING) /\ EventFeed \notin ToSet(Endpoints)
  BY ZipAssumption DEF ToSet
<1>2. Candidates = <<Contest>> \o Endpoints
  BY DEF Candidates
<1>3. Len(Candidates) = 1 + Len(Endpoints)
      /\ \A i \in 1..Len(Candidates) :
             Candidates[i] = IF i = 1 THEN Contest ELSE Endpoints[i - 1]
  BY <1>1, <1>2 DEF Contest
<1>4. DOMAIN Candidates = 1..Len(Candidates) /\ DOMAIN Endpoints = 1..Len(Endpoints)
      /\ Len(Endpoints) \in Nat
  BY <1>1, <1>2 DEF Contest
<1>5. EventFeed # Contest
  BY DEF EventFeed, Contest
<1>6. ASSUME NEW i \in DOMAIN Candidates
      PROVE  Candidates[i] \in {Contest} \cup ToSet(Endpoints)
  BY <1>3, <1>4 DEF ToSet
<1>7. ASSUME NEW f \in {Contest} \cup ToSet(Endpoints)
      PROVE  \E i \in DOMAIN Candidates : Candidates[i] = f
  <2>1. CASE f = Contest
    BY <1>3, <1>4, <2>1
  <2>2. CASE f \in ToSet(Endpoints)
    <3>1. PICK j \in DOMAIN Endpoints : Endpoints[j] = f
      BY <2>2 DEF ToSet
    <3>2. j + 1 \in DOMAIN Candidates /\ Candidates[j + 1] = f
      BY <1>3, <1>4, <3>1
    <3> QED
      BY <3>2
  <2> QED
    BY <2>1, <2>2
<1>8. ToSet(Candidates) = {Contest} \cup ToSet(Endpoints)
  BY <1>6, <1>7 DEF ToSet
<1>9. {Contest} \cup ToSet(Endpoints) = Files \ {EventFeed}
  BY <1>1, <1>5 DEF Files
<1>10. Candidates \in Seq(Files)
  <2>1. \A i \in 1..Len(Endpoints) : Endpoints[i] \in Files
    BY <1>1 DEF Files, ToSet
  <2>2. Endpoints \in Seq(Files)
    <3>1. Endpoints \in [1..Len(Endpoints) -> Files]
      BY <1>1, <2>1
    <3> QED
      BY <1>4, <3>1
  <2>3. Contest \in Files
    BY DEF Files
  <2> QED
    BY <1>2, <2>2, <2>3
<1> QED
  BY <1>3, <1>4, <1>5, <1>8, <1>9, <1>10

LEMMA FilesAreFinite == IsFiniteSet(Files)
<1>1. IsFiniteSet(DOMAIN Endpoints)
  <2>1. DOMAIN Endpoints = 1..Len(Endpoints) /\ Len(Endpoints) \in Nat
    BY ZipAssumption
  <2> QED
    BY <2>1, FS_Interval
<1>2. IsFiniteSet(ToSet(Endpoints))
  <2> DEFINE S == DOMAIN Endpoints
             T == ToSet(Endpoints)
  <2>1. [i \in S |-> Endpoints[i]] \in Surjection(S, T)
    BY DEF ToSet, Surjection
  <2>2. IsFiniteSet(S)
    BY <1>1
  <2> HIDE DEF S, T
  <2>3. IsFiniteSet(T)
    BY <2>1, <2>2, FS_Surjection
  <2> QED
    BY <2>3 DEF T
<1>3. IsFiniteSet({EventFeed, Contest})
  <2>1. IsFiniteSet({EventFeed}) /\ IsFiniteSet({Contest})
    BY FS_Singleton
  <2>2. {EventFeed, Contest} = {EventFeed} \cup {Contest}
    OBVIOUS
  <2> QED
    BY <2>1, <2>2, FS_Union
<1> QED
  BY <1>2, <1>3, FS_Union DEF Files

(* remove_all and unzip go through each file of a set once.                *)
LEMMA SetToSeqHas ==
    ASSUME NEW S, IsFiniteSet(S)
    PROVE  SetToSeq(S) \in Seq(S) /\ ToSet(SetToSeq(S)) = S
<1> DEFINE n == Cardinality(S)
           I == {f \in [1..n -> S] : IsInjective(f)}
           s == SetToSeq(S)
<1>1. n \in Nat
  BY FS_CardinalityType
<1>2. PICK f : f \in Bijection(1..n, S)
  <2>1. ExistsBijection(1..n, S)
    BY FS_CardinalityType
  <2> QED
    BY <2>1 DEF ExistsBijection
<1>3. f \in [1..n -> S] /\ IsInjective(f)
  BY <1>2 DEF Bijection, Injection, IsInjective
<1>4. s = CHOOSE g \in [1..n -> S] : IsInjective(g)
  BY DEF SetToSeq
<1>5. s \in [1..n -> S] /\ IsInjective(s)
  <2> HIDE DEF s, n
  <2> QED
    BY <1>3, <1>4
<1>6. s \in Seq(S) /\ DOMAIN s = 1..n
  BY <1>1, <1>5
<1>7. s \in Injection(1..n, S)
  BY <1>5 DEF Injection, IsInjective
<1>8. s \in Surjection(1..n, S)
  <2>1. IsFiniteSet(1..n) /\ Cardinality(1..n) = n
    BY <1>1, FS_Interval
  <2> HIDE DEF s
  <2> QED
    BY <1>7, <2>1, FS_Injection
<1>9. ToSet(s) = S
  BY <1>5, <1>8 DEF ToSet, Surjection
<1> QED
  BY <1>6, <1>9

LEMMA ListedFiles ==
    ASSUME NEW S \in SUBSET Files
    PROVE  SetToSeq(S) \in Seq(Files) /\ ToSet(SetToSeq(S)) = S
<1>1. IsFiniteSet(S)
  BY FilesAreFinite, FS_Subset
<1> DEFINE s == SetToSeq(S)
<1>2. s \in Seq(S) /\ ToSet(s) = S
  BY <1>1, SetToSeqHas
<1> HIDE DEF s
<1>3. s \in [1..Len(s) -> Files] /\ Len(s) \in Nat
  BY <1>2
<1>4. s \in Seq(Files)
  BY <1>3
<1> QED
  BY <1>2, <1>4 DEF s

(* Going on to the next file of a list.                                    *)
LEMMA NextFile ==
    ASSUME NEW s \in Seq(Files), s # <<>>
    PROVE  /\ Head(s) \in Files /\ Head(s) = s[1]
           /\ Tail(s) \in Seq(Files)
           /\ Len(s) \in Nat /\ Len(s) >= 1 /\ Len(Tail(s)) = Len(s) - 1
           /\ \A i \in 1..(Len(s) - 1) : Tail(s)[i] = s[i + 1]
           /\ ToSet(s) = {Head(s)} \cup ToSet(Tail(s))
<1>1. /\ Head(s) \in Files /\ Head(s) = s[1]
      /\ Tail(s) \in Seq(Files)
      /\ Len(s) \in Nat /\ Len(s) >= 1 /\ Len(Tail(s)) = Len(s) - 1
      /\ \A i \in 1..(Len(s) - 1) : Tail(s)[i] = s[i + 1]
  BY HeadTailProperties
<1>2. DOMAIN s = 1..Len(s) /\ DOMAIN Tail(s) = 1..(Len(s) - 1)
  BY <1>1
<1>3. ASSUME NEW f \in ToSet(s), f # Head(s)
      PROVE  f \in ToSet(Tail(s))
  <2>1. PICK i \in 1..Len(s) : s[i] = f
    BY <1>2 DEF ToSet
  <2>2. i - 1 \in 1..(Len(s) - 1) /\ Tail(s)[i - 1] = s[(i - 1) + 1]
    BY <1>1, <1>3, <2>1
  <2>3. (i - 1) + 1 = i
    BY <1>1
  <2> QED
    BY <1>2, <2>1, <2>2, <2>3 DEF ToSet
<1>4. ASSUME NEW f \in ToSet(Tail(s))
      PROVE  f \in ToSet(s)
  <2>1. PICK i \in 1..(Len(s) - 1) : Tail(s)[i] = f
    BY <1>2 DEF ToSet
  <2>2. i + 1 \in 1..Len(s) /\ s[i + 1] = f
    BY <1>1, <2>1
  <2> QED
    BY <1>2, <2>2 DEF ToSet
<1>5. Head(s) \in ToSet(s)
  BY <1>1, <1>2 DEF ToSet
<1> QED
  BY <1>1, <1>3, <1>4, <1>5

-----------------------------------------------------------------------------
(* Types                                                                   *)

Places == {"start", "extracting", "looking", "opening", "reading", "removing"}
              \cup Over

ZipTypes ==
    /\ package \in [Calls -> SUBSET Files]
    /\ exists \in BOOLEAN
    /\ temp_dir \in [Files -> Calls \cup {None}]
    /\ pc \in [Calls -> Places]
    /\ todo \in [Calls -> Seq(Files)]
    /\ feed \in [Calls -> Seq(Files \X (Calls \cup {None}))]
    /\ outcome \in [Calls -> {"kOk", "kNotFound", "kInternal",
                              "kInvalidArgument"}]
    /\ disturbed \in [Calls -> BOOLEAN]

LEMMA CleanUpTypes ==
    ASSUME ZipTypes, NEW c \in Calls,
           NEW result \in {"kOk", "kNotFound", "kInternal", "kInvalidArgument"},
           CleanUp(c, result)
    PROVE  /\ pc' \in [Calls -> Places]
           /\ todo' \in [Calls -> Seq(Files)]
           /\ outcome' \in [Calls -> {"kOk", "kNotFound", "kInternal",
                                      "kInvalidArgument"}]
<1>1. Present \in SUBSET Files
  BY DEF Present
<1>2. SetToSeq(Present) \in Seq(Files)
  BY <1>1, ListedFiles
<1> QED
  BY <1>2 DEF CleanUp, GoTo, ZipTypes, Places

LEMMA Append1Type ==
    ASSUME ZipTypes, NEW c \in Calls, NEW file \in Files
    PROVE  Append1(c, file) \in Seq(Files \X (Calls \cup {None}))
<1>1. <<file, temp_dir[file]>> \in Files \X (Calls \cup {None})
  BY DEF ZipTypes
<1>2. feed[c] \in Seq(Files \X (Calls \cup {None}))
  BY DEF ZipTypes
<1> QED
  BY <1>1, <1>2, AppendProperties DEF Append1

LEMMA InitTypes == Init => ZipTypes
<1> SUFFICES ASSUME Init
             PROVE  ZipTypes
  OBVIOUS
<1>1. <<>> \in Seq(Files) /\ <<>> \in Seq(Files \X (Calls \cup {None}))
  OBVIOUS
<1>2. /\ todo \in [Calls -> Seq(Files)]
      /\ feed \in [Calls -> Seq(Files \X (Calls \cup {None}))]
  BY <1>1 DEF Init
<1> QED
  BY <1>2 DEF Init, ZipTypes, Places

LEMMA TypesAreKept ==
    ASSUME ZipTypes, NEW c \in Calls, Step(c) \/ Crash(c)
    PROVE  ZipTypes'
<1> USE DEF ZipTypes
<1>1. CASE ZipMissing(c)
  BY <1>1 DEF ZipMissing, GoTo, Places, Over
<1>2. CASE CreateDirectories(c)
  <2>1. package[c] \in SUBSET Files
    OBVIOUS
  <2>2. SetToSeq(package[c]) \in Seq(Files)
    BY <2>1, ListedFiles
  <2> QED
    BY <1>2, <2>2 DEF CreateDirectories, GoTo, Places
<1>3. CASE ExtractFile(c)
  <2>1. Head(todo[c]) \in Files /\ Tail(todo[c]) \in Seq(Files)
    BY <1>3, NextFile DEF ExtractFile
  <2> QED
    BY <1>3, <2>1 DEF ExtractFile
<1>4. CASE UnzipFails(c)
  BY <1>4, CleanUpTypes DEF UnzipFails
<1>5. CASE UnzipSucceeds(c)
  BY <1>5 DEF UnzipSucceeds, GoTo, Places
<1>6. CASE FindPackage(c)
  <2>1. UNCHANGED <<package, exists, temp_dir, feed, disturbed>>
    BY <1>6 DEF FindPackage
  <2>2. CASE CleanUp(c, "kInvalidArgument") \/ CleanUp(c, "kNotFound")
    BY <2>1, <2>2, CleanUpTypes
  <2>3. CASE GoTo(c, "opening") /\ UNCHANGED <<todo, outcome>>
    BY <2>1, <2>3 DEF GoTo, Places
  <2>4. CASE /\ GoTo(c, "reading")
             /\ todo' = [todo EXCEPT ![c] = Candidates]
             /\ UNCHANGED outcome
    BY <2>1, <2>4, CandidatesType DEF GoTo, Places
  <2> QED
    BY <1>6, <2>2, <2>3, <2>4 DEF FindPackage
<1>7. CASE OpenEventFeed(c)
  <2>1. EventFeed \in Files
    BY DEF Files
  <2>2. feed' \in [Calls -> Seq(Files \X (Calls \cup {None}))]
    <3>1. Append1(c, EventFeed) \in Seq(Files \X (Calls \cup {None}))
      BY <2>1, Append1Type
    <3>2. \/ feed' = feed
          \/ feed' = [feed EXCEPT ![c] = Append1(c, EventFeed)]
      BY <1>7 DEF OpenEventFeed
    <3> QED
      BY <3>1, <3>2
  <2>3. UNCHANGED <<package, exists, temp_dir, disturbed>>
    BY <1>7 DEF OpenEventFeed
  <2>4. CleanUp(c, "kOk") \/ CleanUp(c, "kNotFound")
    BY <1>7 DEF OpenEventFeed
  <2> QED
    BY <2>2, <2>3, <2>4, CleanUpTypes
<1>8. CASE ReadEndpoint(c)
  <2>1. Head(todo[c]) \in Files /\ Tail(todo[c]) \in Seq(Files)
    BY <1>8, NextFile DEF ReadEndpoint
  <2>2. feed' \in [Calls -> Seq(Files \X (Calls \cup {None}))]
    BY <1>8, <2>1, Append1Type DEF ReadEndpoint
  <2> QED
    BY <1>8, <2>1, <2>2 DEF ReadEndpoint
<1>9. CASE ParseSyntheticFeed(c)
  BY <1>9, CleanUpTypes DEF ParseSyntheticFeed
<1>10. CASE RemoveFile(c)
  <2>1. Head(todo[c]) \in Files /\ Tail(todo[c]) \in Seq(Files)
    BY <1>10, NextFile DEF RemoveFile
  <2> QED
    BY <1>10, <2>1 DEF RemoveFile
<1>11. CASE RemoveDirectory(c)
  BY <1>11 DEF RemoveDirectory, GoTo, Places, Over
<1>12. CASE Crash(c)
  BY <1>12 DEF Crash, GoTo, Places, Over
<1> QED
  BY <1>1, <1>2, <1>3, <1>4, <1>5, <1>6, <1>7, <1>8, <1>9, <1>10,
     <1>11, <1>12 DEF Step

-----------------------------------------------------------------------------
(* A call that is left alone                                               *)

(* The directory holds the package of a call and nothing else.             *)
HoldsPackageOf(c) ==
    /\ exists
    /\ \A f \in Files : temp_dir[f] = IF f \in package[c] THEN c ELSE None

(* The candidates before those still to be tried have been read.           *)
HasReadPart(c) ==
    LET n == Len(Candidates) - Len(todo[c])
    IN  /\ n >= 0
        /\ \A i \in 1..Len(todo[c]) : todo[c][i] = Candidates[n + i]
        /\ ToSet(feed[c]) = {<<Candidates[i], c>> :
                                 i \in {j \in 1..n : Candidates[j] \in package[c]}}
        /\ \A i, j \in DOMAIN feed[c] :
               i < j => ReadBefore(feed[c][i][1], feed[c][j][1])

(* How far a call has come that has met nobody.                            *)
GoesItsWay(c) ==
    /\ pc[c] \in {"start", "extracting", "looking", "opening"} => feed[c] = <<>>
    /\ pc[c] = "extracting" =>
           /\ exists
           /\ ToSet(todo[c]) \subseteq package[c]
           /\ \A f \in package[c] \ ToSet(todo[c]) : temp_dir[f] = c
           /\ \A f \in ToSet(todo[c]) : temp_dir[f] \in {c, None}
           /\ \A f \in Files \ package[c] : temp_dir[f] = None
    /\ pc[c] \in {"looking", "opening", "reading"} => HoldsPackageOf(c)
    /\ pc[c] = "opening" => EventFeed \in package[c]
    /\ pc[c] = "reading" => /\ EventFeed \notin package[c]
                            /\ Contest \in package[c]
                            /\ HasReadPart(c)
    /\ pc[c] = "removing" => \A f \in Files \ ToSet(todo[c]) : temp_dir[f] = None
    /\ pc[c] \in {"removing", "returned"} /\ outcome[c] = "kOk" => OwnFeed(c)
    /\ pc[c] # "threw" /\ outcome[c] # "kInvalidArgument"

Undisturbed == \A c \in Calls :
                  ~disturbed[c] => /\ c \in Active => Active = {c}
                                   /\ GoesItsWay(c)

(* No step of another call changes what a call keeps for itself.           *)
Keeps(c) ==
    /\ package'[c] = package[c] /\ pc'[c] = pc[c] /\ todo'[c] = todo[c]
    /\ feed'[c] = feed[c] /\ outcome'[c] = outcome[c]

LEMMA OthersKeep ==
    ASSUME ZipTypes, NEW c \in Calls, NEW d \in Calls, c # d,
           Step(d) \/ Crash(d)
    PROVE  Keeps(c)
<1> USE DEF ZipTypes, Keeps, GoTo, CleanUp
<1>1. CASE ZipMissing(d)
  BY <1>1 DEF ZipMissing
<1>2. CASE CreateDirectories(d)
  BY <1>2 DEF CreateDirectories
<1>3. CASE ExtractFile(d)
  BY <1>3 DEF ExtractFile
<1>4. CASE UnzipFails(d)
  BY <1>4 DEF UnzipFails
<1>5. CASE UnzipSucceeds(d)
  BY <1>5 DEF UnzipSucceeds
<1>6. CASE FindPackage(d)
  BY <1>6 DEF FindPackage
<1>7. CASE OpenEventFeed(d)
  BY <1>7 DEF OpenEventFeed
<1>8. CASE ReadEndpoint(d)
  BY <1>8 DEF ReadEndpoint
<1>9. CASE ParseSyntheticFeed(d)
  BY <1>9 DEF ParseSyntheticFeed
<1>10. CASE RemoveFile(d)
  BY <1>10 DEF RemoveFile
<1>11. CASE RemoveDirectory(d)
  BY <1>11 DEF RemoveDirectory
<1>12. CASE Crash(d)
  BY <1>12 DEF Crash
<1> QED
  BY <1>1, <1>2, <1>3, <1>4, <1>5, <1>6, <1>7, <1>8, <1>9, <1>10,
     <1>11, <1>12 DEF Step

LEMMA IdleIsUntouched ==
    ASSUME NEW c \in Calls, ZipTypes, c \notin Active, Keeps(c), GoesItsWay(c)
    PROVE  GoesItsWay(c)'
<1>1. pc[c] \in {"start"} \cup Over
  BY DEF Active
<1>2. OwnFeed(c)' <=> OwnFeed(c)
  BY DEF OwnFeed, Keeps
<1> QED
  BY <1>1, <1>2 DEF GoesItsWay, Keeps, Over

(* Every step of a call but the first two is taken while it is active.     *)
LEMMA StepsAreOfActive ==
    ASSUME NEW c \in Calls, Step(c) \/ Crash(c)
    PROVE  \/ c \in Active /\ UNCHANGED disturbed
           \/ CreateDirectories(c)
           \/ ZipMissing(c)
BY DEF Step, Crash, ExtractFile, UnzipFails, UnzipSucceeds, FindPackage,
       OpenEventFeed, ReadEndpoint, ParseSyntheticFeed, RemoveFile,
       RemoveDirectory, Active, Over

LEMMA CleanUpOfOwn ==
    ASSUME ZipTypes, NEW c \in Calls,
           NEW result \in {"kOk", "kNotFound", "kInternal"},
           CleanUp(c, result), UNCHANGED temp_dir,
           result = "kOk" => OwnFeed(c)'
    PROVE  GoesItsWay(c)'
<1>1. Present \in SUBSET Files
  BY DEF Present
<1>2. ToSet(SetToSeq(Present)) = Present
  BY <1>1, ListedFiles
<1>3. pc'[c] = "removing" /\ outcome'[c] = result /\ todo'[c] = SetToSeq(Present)
  BY DEF CleanUp, GoTo, ZipTypes
<1>4. \A f \in Files \ ToSet(todo'[c]) : temp_dir'[f] = None
  BY <1>2, <1>3 DEF Present
<1> QED
  BY <1>3, <1>4 DEF GoesItsWay

(* A package that is held is what is present.                              *)
LEMMA HeldIsPresent ==
    ASSUME ZipTypes, NEW c \in Calls, HoldsPackageOf(c)
    PROVE  Present = package[c]
<1>1. c # None /\ package[c] \in SUBSET Files
  BY ZipAssumption DEF ZipTypes
<1> QED
  BY <1>1 DEF Present, HoldsPackageOf

(* One more candidate has been tried.                                      *)
LEMMA ReadsOneMore ==
    ASSUME ZipTypes, NEW c \in Calls, ReadEndpoint(c), HoldsPackageOf(c),
           HasReadPart(c)
    PROVE  HasReadPart(c)'
<1> DEFINE s == todo[c]
           h == Head(s)
           read(k) == {<<Candidates[i], c>> :
                          i \in {j \in 1..k : Candidates[j] \in package[c]}}
           F == Files \X (Calls \cup {None})
<1>1. /\ s \in Seq(Files) /\ s # <<>>
      /\ todo'[c] = Tail(s) /\ package' = package
      /\ feed' = IF h \in Present THEN [feed EXCEPT ![c] = Append1(c, h)] ELSE feed
  BY DEF ReadEndpoint, ZipTypes
<1>2. /\ h \in Files /\ h = s[1] /\ Tail(s) \in Seq(Files)
      /\ Len(s) \in Nat /\ Len(s) >= 1 /\ Len(Tail(s)) = Len(s) - 1
      /\ \A i \in 1..(Len(s) - 1) : Tail(s)[i] = s[i + 1]
  BY <1>1, NextFile
<1>3. /\ Len(Candidates) \in Nat
      /\ DOMAIN Candidates = 1..Len(Candidates)
  BY CandidatesType
<1>4. PICK n \in Nat : n = Len(Candidates) - Len(s)
  <2>1. Len(Candidates) - Len(s) >= 0
    BY DEF HasReadPart
  <2>2. Len(s) \in Nat
    BY <1>2
  <2>3. Len(Candidates) \in Nat
    BY <1>3
  <2> HIDE DEF s, h, read
  <2>4. Len(Candidates) - Len(s) \in Nat
    BY <2>1, <2>2, <2>3
  <2> QED
    BY <2>4
<1>5. /\ \A i \in 1..Len(s) : s[i] = Candidates[n + i]
      /\ ToSet(feed[c]) = read(n)
      /\ \A i, j \in DOMAIN feed[c] :
             i < j => ReadBefore(feed[c][i][1], feed[c][j][1])
  BY <1>4 DEF HasReadPart
<1> HIDE DEF s, h, read
<1>6. h = Candidates[n + 1] /\ n + 1 \in 1..Len(Candidates)
  BY <1>2, <1>3, <1>4, <1>5
<1>7. /\ n + 1 = Len(Candidates) - Len(todo'[c])
      /\ \A i \in 1..Len(todo'[c]) : todo'[c][i] = Candidates[(n + 1) + i]
  <2>1. n + 1 = Len(Candidates) - Len(todo'[c])
    BY <1>1, <1>2, <1>3, <1>4
  <2>2. ASSUME NEW i \in 1..Len(todo'[c])
        PROVE  todo'[c][i] = Candidates[(n + 1) + i]
    <3>1. i \in 1..(Len(s) - 1) /\ i + 1 \in 1..Len(s)
      BY <1>1, <1>2
    <3>2. todo'[c][i] = s[i + 1] /\ s[i + 1] = Candidates[n + (i + 1)]
      BY <1>1, <1>2, <1>5, <3>1
    <3>3. n + (i + 1) = (n + 1) + i
      BY <1>4, <3>1
    <3> QED
      BY <3>2, <3>3
  <2> QED
    BY <2>1, <2>2
<1>8. Present = package[c] /\ (h \in package[c] => temp_dir[h] = c)
  BY <1>2, HeldIsPresent DEF HoldsPackageOf
<1>9. feed[c] \in Seq(F)
  BY DEF ZipTypes
<1>10. /\ ToSet(feed'[c]) = read(n + 1)
      /\ \A i, j \in DOMAIN feed'[c] :
             i < j => ReadBefore(feed'[c][i][1], feed'[c][j][1])
  <2>1. CASE h \notin package[c]
    <3>1. feed'[c] = feed[c]
      BY <1>1, <1>8, <2>1
    <3>2. read(n + 1) = read(n)
      <4>1. {j \in 1..(n + 1) : Candidates[j] \in package[c]}
                = {j \in 1..n : Candidates[j] \in package[c]}
        BY <1>4, <1>6, <2>1
      <4> QED
        BY <4>1 DEF read
    <3> QED
      BY <1>5, <3>1, <3>2
  <2>2. CASE h \in package[c]
    <3>1. feed'[c] = Append(feed[c], <<h, c>>)
      BY <1>1, <1>8, <2>2 DEF Append1, ZipTypes
    <3>2. /\ Len(feed[c]) \in Nat /\ DOMAIN feed[c] = 1..Len(feed[c])
          /\ DOMAIN feed'[c] = 1..(Len(feed[c]) + 1)
          /\ \A i \in 1..Len(feed[c]) : feed'[c][i] = feed[c][i]
          /\ feed'[c][Len(feed[c]) + 1] = <<h, c>>
      <4>1. <<h, c>> \in F
        BY <1>2
      <4> HIDE DEF F
      <4> QED
        BY <1>9, <3>1, <4>1, AppendProperties
    <3>3. ToSet(feed'[c]) = ToSet(feed[c]) \cup {<<h, c>>}
      <4> DEFINE m == Len(feed[c])
                 g == feed'[c]
      <4>1. /\ m \in Nat /\ DOMAIN feed[c] = 1..m /\ DOMAIN g = 1..(m + 1)
            /\ \A i \in 1..m : g[i] = feed[c][i]
            /\ g[m + 1] = <<h, c>>
        BY <3>2
      <4> HIDE DEF m, g
      <4>2. {g[i] : i \in 1..(m + 1)} = {g[i] : i \in 1..m} \cup {g[m + 1]}
        <5>1. 1..(m + 1) = 1..m \cup {m + 1}
          BY <4>1
        <5> QED
          BY <5>1
      <4>3. {g[i] : i \in 1..m} = {feed[c][i] : i \in 1..m}
        BY <4>1
      <4> QED
        BY <4>1, <4>2, <4>3 DEF ToSet, g
    <3>4. read(n + 1) = read(n) \cup {<<h, c>>}
      <4>1. {j \in 1..(n + 1) : Candidates[j] \in package[c]}
                = {j \in 1..n : Candidates[j] \in package[c]} \cup {n + 1}
        BY <1>4, <1>6, <2>2
      <4> QED
        BY <1>6, <4>1 DEF read
    <3>5. ASSUME NEW i \in DOMAIN feed'[c], NEW j \in DOMAIN feed'[c], i < j
          PROVE  ReadBefore(feed'[c][i][1], feed'[c][j][1])
      <4>1. i \in DOMAIN feed[c] /\ feed'[c][i] = feed[c][i]
        BY <3>2, <3>5
      <4>2. CASE j \in DOMAIN feed[c]
        BY <1>5, <3>2, <3>5, <4>1, <4>2
      <4>3. CASE j = Len(feed[c]) + 1
        <5>1. feed[c][i] \in read(n)
          BY <1>5, <4>1 DEF ToSet
        <5>2. PICK k \in 1..n : feed[c][i] = <<Candidates[k], c>>
          BY <5>1 DEF read
        <5>3. k \in DOMAIN Candidates /\ n + 1 \in DOMAIN Candidates /\ k < n + 1
          BY <1>3, <1>4, <1>6, <5>2
        <5>4. feed'[c][i][1] = Candidates[k] /\ feed'[c][j][1] = Candidates[n + 1]
          BY <1>6, <3>2, <4>1, <4>3, <5>2
        <5> QED
          BY <5>3, <5>4 DEF ReadBefore
      <4> QED
        BY <3>2, <4>2, <4>3
    <3> QED
      BY <1>5, <3>3, <3>4, <3>5
  <2> QED
    BY <2>1, <2>2
<1> QED
  <2>1. n + 1 >= 0 /\ package'[c] = package[c]
    BY <1>1, <1>4
  <2> QED
    BY <1>7, <1>10, <2>1 DEF HasReadPart, read

(* Candidates that have all been tried are a package.                      *)
LEMMA AllIsRead ==
    ASSUME ZipTypes, NEW c \in Calls, HasReadPart(c), todo[c] = <<>>,
           Contest \in package[c], EventFeed \notin package[c]
    PROVE  OwnFeed(c)
<1> DEFINE n == Len(Candidates)
<1>1. n \in Nat /\ DOMAIN Candidates = 1..n
  BY CandidatesType
<1>2. n - Len(todo[c]) = n
  BY <1>1
<1>3. ToSet(feed[c]) = {<<Candidates[i], c>> :
                           i \in {j \in 1..n : Candidates[j] \in package[c]}}
  BY <1>2 DEF HasReadPart
<1>4. package[c] \subseteq ToSet(Candidates)
  BY CandidatesType DEF ZipTypes
<1>5. ToSet(feed[c]) = package[c] \X {c}
  BY <1>1, <1>3, <1>4 DEF ToSet
<1> QED
  BY <1>5 DEF OwnFeed, HasReadPart

(* A call that meets nobody goes its way, step by step.                    *)
LEMMA OwnStep ==
    ASSUME ZipTypes, NEW c \in Calls, Step(c) \/ Crash(c),
           ~disturbed[c], ~disturbed'[c], GoesItsWay(c)
    PROVE  GoesItsWay(c)'
<1>1. /\ c # None /\ package[c] \in SUBSET Files
      /\ todo[c] \in Seq(Files)
  BY ZipAssumption DEF ZipTypes
<1>2. CASE ZipMissing(c)
  <2>1. pc'[c] = "returned" /\ outcome'[c] = "kNotFound"
    BY <1>2 DEF ZipMissing, GoTo, ZipTypes
  <2> QED
    BY <2>1 DEF GoesItsWay
<1>3. CASE CreateDirectories(c)
  <2>1. /\ pc'[c] = "extracting" /\ exists' /\ package' = package
        /\ todo'[c] = SetToSeq(package[c]) /\ temp_dir' = temp_dir
        /\ feed' = feed /\ outcome' = outcome /\ pc[c] = "start"
    BY <1>3 DEF CreateDirectories, GoTo, ZipTypes
  <2>2. Present = {}
    BY <1>3 DEF CreateDirectories
  <2>3. \A f \in Files : temp_dir'[f] = None
    BY <2>1, <2>2 DEF Present
  <2>4. ToSet(todo'[c]) = package'[c]
    BY <1>1, <2>1, ListedFiles
  <2>5. feed'[c] = <<>> /\ outcome'[c] # "kInvalidArgument"
    BY <2>1 DEF GoesItsWay
  <2>6. /\ ToSet(todo'[c]) \subseteq package'[c]
        /\ \A f \in package'[c] \ ToSet(todo'[c]) : temp_dir'[f] = c
        /\ \A f \in ToSet(todo'[c]) : temp_dir'[f] \in {c, None}
        /\ \A f \in Files \ package'[c] : temp_dir'[f] = None
    BY <1>1, <2>1, <2>3, <2>4
  <2> QED
    BY <2>1, <2>5, <2>6 DEF GoesItsWay
<1>4. CASE ExtractFile(c)
  <2> DEFINE f0 == Head(todo[c])
  <2>1. /\ pc'[c] = "extracting" /\ pc[c] = "extracting" /\ exists'
        /\ package' = package /\ feed' = feed /\ outcome' = outcome
        /\ todo[c] # <<>> /\ todo'[c] = Tail(todo[c])
        /\ temp_dir' = [temp_dir EXCEPT ![f0] = c]
    BY <1>4 DEF ExtractFile, ZipTypes
  <2>2. /\ ToSet(todo[c]) \subseteq package[c]
        /\ \A f \in package[c] \ ToSet(todo[c]) : temp_dir[f] = c
        /\ \A f \in ToSet(todo[c]) : temp_dir[f] \in {c, None}
        /\ \A f \in Files \ package[c] : temp_dir[f] = None
    BY <2>1 DEF GoesItsWay
  <2>3. /\ f0 \in Files
        /\ ToSet(todo[c]) = {f0} \cup ToSet(Tail(todo[c]))
    BY <1>1, <2>1, NextFile
  <2>4. \A f \in Files : temp_dir'[f] = IF f = f0 THEN c ELSE temp_dir[f]
    <3> HIDE DEF f0
    <3> QED
      BY <2>1 DEF ZipTypes
  <2> HIDE DEF f0
  <2>5. /\ ToSet(todo'[c]) \subseteq package'[c]
        /\ \A f \in package'[c] \ ToSet(todo'[c]) : temp_dir'[f] = c
        /\ \A f \in ToSet(todo'[c]) : temp_dir'[f] \in {c, None}
        /\ \A f \in Files \ package'[c] : temp_dir'[f] = None
    BY <1>1, <2>1, <2>2, <2>3, <2>4
  <2>6. feed'[c] = <<>> /\ outcome'[c] # "kInvalidArgument"
    BY <2>1 DEF GoesItsWay
  <2> QED
    BY <2>1, <2>5, <2>6 DEF GoesItsWay
<1>5. CASE UnzipFails(c)
  BY <1>5, CleanUpOfOwn DEF UnzipFails
<1>6. CASE UnzipSucceeds(c)
  <2>1. /\ pc'[c] = "looking" /\ pc[c] = "extracting" /\ exists' = exists
        /\ package' = package /\ feed' = feed /\ outcome' = outcome
        /\ temp_dir' = temp_dir /\ todo[c] = <<>>
    BY <1>6 DEF UnzipSucceeds, GoTo, ZipTypes
  <2>2. ToSet(todo[c]) = {}
    BY <2>1 DEF ToSet
  <2>3. HoldsPackageOf(c)'
    BY <2>1, <2>2 DEF GoesItsWay, HoldsPackageOf
  <2> QED
    BY <2>1, <2>3 DEF GoesItsWay
<1>7. CASE FindPackage(c)
  <2>1. /\ pc[c] = "looking" /\ HoldsPackageOf(c) /\ exists /\ feed[c] = <<>>
        /\ UNCHANGED <<package, exists, temp_dir, feed>>
        /\ outcome[c] # "kInvalidArgument"
    BY <1>7 DEF FindPackage, GoesItsWay, HoldsPackageOf
  <2>2. Present = package[c] /\ HoldsPackageOf(c)'
    BY <2>1, HeldIsPresent DEF HoldsPackageOf
  <2>3. CASE CleanUp(c, "kNotFound")
    BY <2>1, <2>3, CleanUpOfOwn
  <2>4. CASE /\ EventFeed \in Present
             /\ GoTo(c, "opening") /\ UNCHANGED <<todo, outcome>>
    <3>1. pc'[c] = "opening"
      BY <2>4 DEF GoTo, ZipTypes
    <3> QED
      BY <2>1, <2>2, <2>4, <3>1 DEF GoesItsWay
  <2>5. CASE /\ EventFeed \notin Present /\ Contest \in Present
             /\ GoTo(c, "reading")
             /\ todo' = [todo EXCEPT ![c] = Candidates]
             /\ UNCHANGED outcome
    <3>1. pc'[c] = "reading" /\ todo'[c] = Candidates /\ feed'[c] = <<>>
      BY <2>1, <2>5 DEF GoTo, ZipTypes
    <3>2. Len(Candidates) \in Nat
      BY CandidatesType
    <3> DEFINE n == Len(Candidates) - Len(Candidates)
    <3>3. n = 0
      BY <3>2
    <3> HIDE DEF n
    <3>4. \A i \in 1..Len(Candidates) : Candidates[i] = Candidates[n + i]
      BY <3>3
    <3>5. ToSet(feed'[c]) = {} /\ DOMAIN feed'[c] = {}
      BY <3>1 DEF ToSet
    <3>6. {<<Candidates[i], c>> :
              i \in {j \in 1..n : Candidates[j] \in package'[c]}} = {}
      BY <3>3
    <3>7. HasReadPart(c)'
      BY <3>1, <3>3, <3>4, <3>5, <3>6 DEF HasReadPart, n
    <3> QED
      BY <2>1, <2>2, <2>5, <3>1, <3>7 DEF GoesItsWay
  <2> QED
    BY <1>7, <2>1, <2>3, <2>4, <2>5 DEF FindPackage
<1>8. CASE OpenEventFeed(c)
  <2>1. /\ pc[c] = "opening" /\ HoldsPackageOf(c) /\ feed[c] = <<>>
        /\ EventFeed \in package[c]
        /\ UNCHANGED <<package, temp_dir>>
    BY <1>8 DEF OpenEventFeed, GoesItsWay
  <2>2. EventFeed \in Present /\ temp_dir[EventFeed] = c
    BY <1>1, <2>1, HeldIsPresent DEF HoldsPackageOf
  <2>3. /\ feed' = [feed EXCEPT ![c] = Append1(c, EventFeed)]
        /\ CleanUp(c, "kOk")
    BY <1>8, <2>2 DEF OpenEventFeed
  <2>4. feed'[c] = <<<<EventFeed, c>>>>
    BY <2>1, <2>2, <2>3 DEF Append1, ZipTypes
  <2>5. OwnFeed(c)'
    BY <2>1, <2>4 DEF OwnFeed
  <2> QED
    BY <2>1, <2>3, <2>5, CleanUpOfOwn
<1>9. CASE ReadEndpoint(c)
  <2>1. /\ pc[c] = "reading" /\ HoldsPackageOf(c) /\ HasReadPart(c)
        /\ EventFeed \notin package[c] /\ Contest \in package[c]
        /\ outcome[c] # "kInvalidArgument"
        /\ UNCHANGED <<package, exists, temp_dir, pc, outcome>>
    BY <1>9 DEF ReadEndpoint, GoesItsWay
  <2>2. HasReadPart(c)'
    BY <1>9, <2>1, ReadsOneMore
  <2>3. HoldsPackageOf(c)'
    BY <2>1 DEF HoldsPackageOf
  <2> QED
    BY <2>1, <2>2, <2>3 DEF GoesItsWay
<1>10. CASE ParseSyntheticFeed(c)
  <2>1. /\ pc[c] = "reading" /\ HasReadPart(c) /\ todo[c] = <<>>
        /\ EventFeed \notin package[c] /\ Contest \in package[c]
        /\ CleanUp(c, "kOk") /\ UNCHANGED <<package, temp_dir, feed>>
    BY <1>10 DEF ParseSyntheticFeed, GoesItsWay
  <2>2. OwnFeed(c)'
    BY <2>1, AllIsRead DEF OwnFeed
  <2> QED
    BY <2>1, <2>2, CleanUpOfOwn
<1>11. CASE RemoveFile(c)
  <2> DEFINE f0 == Head(todo[c])
  <2>1. /\ pc[c] = "removing" /\ todo[c] # <<>> /\ todo'[c] = Tail(todo[c])
        /\ temp_dir' = [temp_dir EXCEPT ![f0] = None]
        /\ UNCHANGED <<package, pc, feed, outcome>>
    BY <1>11 DEF RemoveFile, ZipTypes
  <2>2. /\ f0 \in Files
        /\ ToSet(todo[c]) = {f0} \cup ToSet(Tail(todo[c]))
    BY <1>1, <2>1, NextFile
  <2>3. \A f \in Files \ ToSet(todo[c]) : temp_dir[f] = None
    BY <2>1 DEF GoesItsWay
  <2>4. \A f \in Files : temp_dir'[f] = IF f = f0 THEN None ELSE temp_dir[f]
    <3> HIDE DEF f0
    <3> QED
      BY <2>1 DEF ZipTypes
  <2> HIDE DEF f0
  <2>5. \A f \in Files \ ToSet(todo'[c]) : temp_dir'[f] = None
    BY <2>1, <2>2, <2>3, <2>4
  <2>6. outcome'[c] = "kOk" => OwnFeed(c)'
    BY <2>1 DEF GoesItsWay, OwnFeed
  <2> QED
    BY <2>1, <2>5, <2>6 DEF GoesItsWay
<1>12. CASE RemoveDirectory(c)
  <2>1. /\ pc[c] = "removing" /\ todo[c] = <<>>
        /\ UNCHANGED <<package, feed, outcome>>
    BY <1>12 DEF RemoveDirectory
  <2>2. ToSet(todo[c]) = {}
    BY <2>1 DEF ToSet
  <2>3. Present = {}
    BY <2>1, <2>2 DEF GoesItsWay, Present
  <2>4. pc'[c] = "returned"
    BY <1>12, <2>3 DEF RemoveDirectory, GoTo, ZipTypes
  <2>5. outcome'[c] = "kOk" => OwnFeed(c)'
    BY <2>1 DEF GoesItsWay, OwnFeed
  <2> QED
    BY <2>1, <2>4, <2>5 DEF GoesItsWay
<1>13. CASE Crash(c)
  <2>1. pc'[c] = "crashed" /\ outcome' = outcome
    BY <1>13 DEF Crash, GoTo, ZipTypes
  <2> QED
    BY <2>1 DEF GoesItsWay
<1> QED
  BY <1>2, <1>3, <1>4, <1>5, <1>6, <1>7, <1>8, <1>9, <1>10, <1>11,
     <1>12, <1>13 DEF Step

LEMMA UndisturbedIsKept ==
    ASSUME ZipTypes, ZipTypes', Undisturbed, NEW d \in Calls, Step(d) \/ Crash(d)
    PROVE  Undisturbed'
<1> SUFFICES ASSUME NEW c \in Calls, ~disturbed'[c]
             PROVE  /\ c \in Active' => Active' = {c}
                    /\ GoesItsWay(c)'
  BY DEF Undisturbed
<1>1. /\ d \in Active /\ UNCHANGED disturbed
      \/ CreateDirectories(d)
      \/ ZipMissing(d)
  BY StepsAreOfActive
<1>2. ~disturbed[c]
  BY <1>1 DEF CreateDirectories, ZipMissing
<1>3. /\ c \in Active => Active = {c}
      /\ GoesItsWay(c)
  BY <1>2 DEF Undisturbed
<1>4. \A e \in Calls : e # d => pc'[e] = pc[e]
  BY OthersKeep DEF Keeps
<1>5. /\ CreateDirectories(d) /\ c # d => c \notin Active
      /\ CreateDirectories(d) /\ c = d => Active = {}
  BY DEF CreateDirectories
<1>6. ZipMissing(d) => pc[d] = "start" /\ pc'[d] = "returned"
  BY DEF ZipMissing, GoTo, ZipTypes
<1>7. CASE c = d
  <2>1. GoesItsWay(c)'
    BY <1>2, <1>3, <1>7, OwnStep
  <2>2. Active \subseteq {c} \/ ZipMissing(d)
    BY <1>1, <1>3, <1>5, <1>7
  <2>3. c \in Active' => Active' = {c}
    BY <1>4, <1>6, <1>7, <2>2 DEF Active, Over
  <2> QED
    BY <2>1, <2>3
<1>8. CASE c # d
  <2>1. Keeps(c)
    BY <1>8, OthersKeep
  <2>2. CASE c \notin Active
    <3>1. c \notin Active'
      BY <2>1, <2>2 DEF Active, Keeps
    <3> QED
      BY <1>3, <2>1, <2>2, <3>1, IdleIsUntouched
  <2>3. CASE c \in Active
    <3>1. ZipMissing(d)
      <4>1. d \notin Active
        BY <1>3, <1>8, <2>3
      <4>2. ~CreateDirectories(d)
        BY <1>5, <1>8, <2>3
      <4> QED
        BY <1>1, <4>1, <4>2
    <3>2. Active' = {c}
      <4>1. Active' = Active
        BY <1>4, <1>6, <3>1 DEF Active, Over
      <4> QED
        BY <1>3, <2>3, <4>1
    <3>3. /\ package' = package /\ exists' = exists /\ temp_dir' = temp_dir
          /\ todo' = todo /\ feed' = feed
      BY <3>1 DEF ZipMissing
    <3>4. /\ OwnFeed(c)' <=> OwnFeed(c)
          /\ HoldsPackageOf(c)' <=> HoldsPackageOf(c)
          /\ HasReadPart(c)' <=> HasReadPart(c)
      BY <3>3 DEF OwnFeed, HoldsPackageOf, HasReadPart
    <3>5. GoesItsWay(c)'
      BY <1>3, <2>1, <3>3, <3>4 DEF GoesItsWay, Keeps
    <3> QED
      BY <3>2, <3>5
  <2> QED
    BY <2>2, <2>3
<1> QED
  BY <1>7, <1>8

-----------------------------------------------------------------------------
IInv == ZipTypes /\ Undisturbed /\ NothingIsLeft

LEMMA InitIInv == Init => IInv
<1> SUFFICES ASSUME Init
             PROVE  IInv
  OBVIOUS
<1>1. ZipTypes
  BY InitTypes
<1>2. Active = {}
  BY DEF Init, Active
<1>3. ASSUME NEW c \in Calls
      PROVE  GoesItsWay(c)
  <2>1. pc[c] = "start" /\ feed[c] = <<>> /\ outcome[c] = "kOk"
    BY DEF Init
  <2> QED
    BY <2>1 DEF GoesItsWay
<1>4. NothingIsLeft
  BY DEF Init, NothingIsLeft
<1> QED
  BY <1>1, <1>2, <1>3, <1>4 DEF IInv, Undisturbed

(* The directory is there only while a call is at work on it or after one  *)
(* that did not get to the end.                                            *)
LEMMA RemovedAtTheEnd ==
    ASSUME ZipTypes, ZipTypes', NothingIsLeft, NEW d \in Calls, Step(d) \/ Crash(d)
    PROVE  NothingIsLeft'
<1> SUFFICES ASSUME \A c \in Calls : pc'[c] \in {"start", "returned"}
             PROVE  ~exists'
  BY DEF NothingIsLeft
<1>1. \A e \in Calls : e # d => pc'[e] = pc[e]
  BY OthersKeep DEF Keeps
<1>2. pc'[d] \in {"start", "returned"}
  OBVIOUS
<1>3. ZipMissing(d) \/ RemoveDirectory(d)
  BY <1>2 DEF Step, Crash, CreateDirectories, ExtractFile, UnzipFails,
     UnzipSucceeds, FindPackage, OpenEventFeed, ReadEndpoint,
     ParseSyntheticFeed, RemoveFile, CleanUp, GoTo, ZipTypes
<1>4. CASE ZipMissing(d)
  <2>1. pc[d] = "start" /\ exists' = exists
    BY <1>4 DEF ZipMissing
  <2>2. \A c \in Calls : pc[c] \in {"start", "returned"}
    BY <1>1, <2>1
  <2> QED
    BY <2>1, <2>2 DEF NothingIsLeft
<1>5. CASE RemoveDirectory(d)
  BY <1>2, <1>5 DEF RemoveDirectory, GoTo, ZipTypes
<1> QED
  BY <1>3, <1>4, <1>5

LEMMA NextIInv == IInv /\ [Next]_vars => IInv'
<1> SUFFICES ASSUME IInv, [Next]_vars
             PROVE  IInv'
  OBVIOUS
<1>1. ASSUME NEW c \in Calls, Step(c) \/ Crash(c)
      PROVE  IInv'
  <2>1. ZipTypes'
    BY <1>1, TypesAreKept DEF IInv
  <2> QED
    BY <1>1, <2>1, UndisturbedIsKept, RemovedAtTheEnd DEF IInv
<1>2. CASE UNCHANGED vars
  <2>1. /\ UNCHANGED <<package, exists, temp_dir, disturbed>>
        /\ UNCHANGED <<pc, todo, feed, outcome>>
    BY <1>2 DEF vars, callVars
  <2>2. ZipTypes' /\ NothingIsLeft'
    BY <2>1 DEF IInv, ZipTypes, NothingIsLeft
  <2>3. Active' = Active
    BY <2>1 DEF Active
  <2>4. ASSUME NEW c \in Calls
        PROVE  GoesItsWay(c)' <=> GoesItsWay(c)
    <3>1. OwnFeed(c)' <=> OwnFeed(c)
      BY <2>1 DEF OwnFeed
    <3>2. HoldsPackageOf(c)' <=> HoldsPackageOf(c)
      BY <2>1 DEF HoldsPackageOf
    <3>3. HasReadPart(c)' <=> HasReadPart(c)
      BY <2>1 DEF HasReadPart
    <3> QED
      BY <2>1, <3>1, <3>2, <3>3 DEF GoesItsWay
  <2>5. Undisturbed'
    BY <2>1, <2>3, <2>4 DEF IInv, Undisturbed
  <2> QED
    BY <2>2, <2>5 DEF IInv
<1> QED
  BY <1>1, <1>2 DEF Next

LEMMA Inductive == Spec => []IInv
BY InitIInv, NextIInv, PTL DEF Spec

(* However many calls overlap, and whatever dies: a call that met nobody   *)
(* else's files and no other call parses its own package, whole and in     *)
(* order, or says that there is none.                                      *)
THEOREM LeftAloneParsesItsOwn == Spec => []AloneParsesItsOwn
<1>1. IInv => AloneParsesItsOwn
  BY DEF IInv, Undisturbed, GoesItsWay, AloneParsesItsOwn
<1> QED
  BY <1>1, Inductive, PTL

(* However many calls overlap: when all of them have returned the directory*)
(* is gone.                                                                *)
THEOREM DirectoryIsRemoved == Spec => []NothingIsLeft
<1>1. IInv => NothingIsLeft
  BY DEF IInv
<1> QED
  BY <1>1, Inductive, PTL

-----------------------------------------------------------------------------
(* The way of a call                                                       *)

(* A step of a call takes it to a later stage, or a file further.          *)
Advances(c) ==
    \/ Stage(c) < Stage(c)'
    \/ Stage(c)' = Stage(c) /\ todo[c] # <<>> /\ todo'[c] = Tail(todo[c])

(* A file further.                                                         *)
LEMMA FileFurther ==
    ASSUME ZipTypes, NEW c \in Calls, UNCHANGED pc, todo[c] # <<>>,
           todo' = [todo EXCEPT ![c] = Tail(@)]
    PROVE  Advances(c)
<1>1. todo'[c] = Tail(todo[c])
  BY DEF ZipTypes
<1>2. Stage(c)' = Stage(c)
  BY DEF Stage
<1> QED
  BY <1>1, <1>2 DEF Advances

(* To another place.                                                       *)
LEMMA StageOf ==
    ASSUME ZipTypes, NEW c \in Calls, NEW place \in Places, GoTo(c, place)
    PROVE  /\ pc'[c] = place
           /\ place = "extracting" => Stage(c)' = 1
           /\ place = "looking" => Stage(c)' = 2
           /\ place \in {"opening", "reading"} => Stage(c)' = 3
           /\ place = "removing" => Stage(c)' = 4
           /\ place \in Over => Stage(c)' = 5
<1>1. pc'[c] = place
  BY DEF GoTo, ZipTypes
<1> QED
  BY <1>1 DEF Stage, Over

LEMMA StageNow ==
    ASSUME NEW c \in Calls
    PROVE  /\ pc[c] = "start" => Stage(c) = 0
           /\ pc[c] = "extracting" => Stage(c) = 1
           /\ pc[c] = "looking" => Stage(c) = 2
           /\ pc[c] \in {"opening", "reading"} => Stage(c) = 3
           /\ pc[c] = "removing" => Stage(c) = 4
BY DEF Stage

LEMMA CleaningUpAdvances ==
    ASSUME ZipTypes, NEW c \in Calls, NEW result, CleanUp(c, result),
           pc[c] \in {"extracting", "looking", "opening", "reading"}
    PROVE  Advances(c)
<1>1. GoTo(c, "removing") /\ "removing" \in Places
  BY DEF CleanUp, Places
<1>2. Stage(c)' = 4
  BY <1>1, StageOf
<1>3. Stage(c) \in {1, 2, 3}
  BY StageNow
<1> QED
  BY <1>2, <1>3 DEF Advances

LEMMA OwnStepAdvances ==
    ASSUME ZipTypes, NEW c \in Calls, Step(c) \/ Crash(c)
    PROVE  Advances(c)
<1> USE StageNow
<1>1. \A place \in {"extracting", "looking", "opening", "reading"} \cup Over :
          place \in Places
  BY DEF Places
<1>2. CASE ZipMissing(c)
  <2>1. Stage(c)' = 5
    BY <1>1, <1>2, StageOf DEF ZipMissing, Over
  <2> QED
    BY <1>2, <2>1 DEF ZipMissing, Advances
<1>3. CASE CreateDirectories(c)
  <2>1. Stage(c)' = 1
    BY <1>1, <1>3, StageOf DEF CreateDirectories
  <2> QED
    BY <1>3, <2>1 DEF CreateDirectories, Advances
<1>4. CASE ExtractFile(c)
  BY <1>4, FileFurther DEF ExtractFile
<1>5. CASE UnzipFails(c)
  BY <1>5, CleaningUpAdvances DEF UnzipFails
<1>6. CASE UnzipSucceeds(c)
  <2>1. Stage(c)' = 2
    BY <1>1, <1>6, StageOf DEF UnzipSucceeds
  <2> QED
    BY <1>6, <2>1 DEF UnzipSucceeds, Advances
<1>7. CASE FindPackage(c)
  <2>1. CASE CleanUp(c, "kInvalidArgument") \/ CleanUp(c, "kNotFound")
    BY <1>7, <2>1, CleaningUpAdvances DEF FindPackage
  <2>2. CASE GoTo(c, "opening") \/ GoTo(c, "reading")
    <3>1. Stage(c)' = 3
      BY <1>1, <2>2, StageOf
    <3> QED
      BY <1>7, <3>1 DEF FindPackage, Advances
  <2> QED
    BY <1>7, <2>1, <2>2 DEF FindPackage
<1>8. CASE OpenEventFeed(c)
  <2>1. CleanUp(c, "kOk") \/ CleanUp(c, "kNotFound")
    BY <1>8 DEF OpenEventFeed
  <2> QED
    BY <1>8, <2>1, CleaningUpAdvances DEF OpenEventFeed
<1>9. CASE ReadEndpoint(c)
  BY <1>9, FileFurther DEF ReadEndpoint
<1>10. CASE ParseSyntheticFeed(c)
  BY <1>10, CleaningUpAdvances DEF ParseSyntheticFeed
<1>11. CASE RemoveFile(c)
  BY <1>11, FileFurther DEF RemoveFile
<1>12. CASE RemoveDirectory(c)
  <2>1. GoTo(c, "returned") \/ GoTo(c, "threw")
    BY <1>12 DEF RemoveDirectory
  <2>2. Stage(c)' = 5
    BY <1>1, <2>1, StageOf DEF Over
  <2> QED
    BY <1>12, <2>2 DEF RemoveDirectory, Advances
<1>13. CASE Crash(c)
  <2>1. Stage(c)' = 5
    BY <1>1, <1>13, StageOf DEF Crash, Over
  <2>2. pc[c] \in Places \ ({"start"} \cup Over)
    BY <1>13 DEF Crash, Active, ZipTypes
  <2>3. Stage(c) \in 1..4
    BY <2>2 DEF Places, Over
  <2> QED
    BY <2>1, <2>3 DEF Advances
<1> QED
  BY <1>2, <1>3, <1>4, <1>5, <1>6, <1>7, <1>8, <1>9, <1>10, <1>11, <1>12,
     <1>13 DEF Step

(* No call is ever set back, in the files it has to go through or in its   *)
(* way to the end, whatever the others do to the directory meanwhile: it   *)
(* can take only so many steps, and only its own take it there.            *)
THEOREM CallsGoForward == Spec => CallsAdvance
<1>1. ASSUME ZipTypes, [Next]_vars
      PROVE  [\E c \in Calls :
                 /\ \/ Stage(c) < Stage(c)'
                    \/ Stage(c)' = Stage(c) /\ todo[c] # <<>>
                       /\ todo'[c] = Tail(todo[c])
                 /\ \A d \in Calls \ {c} :
                        UNCHANGED <<pc[d], todo[d], feed[d], outcome[d]>>]_vars
  <2>1. CASE Next
    <3>1. PICK c \in Calls : Step(c) \/ Crash(c)
      BY <2>1 DEF Next
    <3>2. Advances(c)
      BY <1>1, <3>1, OwnStepAdvances
    <3>3. ASSUME NEW d \in Calls \ {c}
          PROVE  UNCHANGED <<pc[d], todo[d], feed[d], outcome[d]>>
      BY <1>1, <3>1, OthersKeep DEF Keeps
    <3> QED
      BY <3>2, <3>3 DEF Advances
  <2>2. CASE UNCHANGED vars
    BY <2>2
  <2> QED
    BY <1>1, <2>1, <2>2
<1>2. IInv => ZipTypes
  BY DEF IInv
<1> QED
  BY <1>1, <1>2, Inductive, PTL DEF Spec, CallsAdvance

=============================================================================
