----------------------------- MODULE ZipExtract -----------------------------
(***************************************************************************)
(* PackageParser::ParsePackageZip and ParsePackageDirectory.  Every call,  *)
(* in whatever thread or process, unpacks its zip file into the same       *)
(* directory, parses what it finds there and removes the directory.  Calls *)
(* may overlap, and a process may die at any point of one.                 *)
(*                                                                         *)
(* A file stands for its contents: what matters is whose package it is     *)
(* from.  The feed that is parsed is the sequence of the files it is made  *)
(* of; StreamParser models what becomes of it.                             *)
(***************************************************************************)
EXTENDS Naturals, Sequences, FiniteSets, SequencesExt

CONSTANTS
    Calls,      \* the calls of ParsePackageZip
    Endpoints,  \* the optional endpoint files, in the order they are read
    None        \* no such file

EventFeed == "event-feed.ndjson"
Contest   == "contest.json"

(* The files looked for, in this order, where there is no event feed.      *)
Candidates == <<Contest>> \o Endpoints

Files == {EventFeed, Contest} \cup ToSet(Endpoints)

ASSUME ZipAssumption ==
    /\ Endpoints \in Seq(STRING \ {EventFeed, Contest})
    /\ IsInjective(Endpoints)
    /\ None \notin Calls

VARIABLES
    package,    \* package[c]: the files in the zip file of call c
    exists,     \* the temporary directory exists
    temp_dir,   \* temp_dir[f]: the call whose file f is, or None
    pc,         \* where each call is
    todo,       \* the files a call has still to extract, read or remove
    feed,       \* the files a call parses, with their owners
    outcome,    \* what a call returns once it has cleaned up
    disturbed   \* the call met files or a call that were not its own

callVars == <<pc, todo, feed, outcome>>
vars == <<package, exists, temp_dir, callVars, disturbed>>

Present == {f \in Files : temp_dir[f] # None}

Over == {"returned", "threw", "crashed"}

Active == {c \in Calls : pc[c] \notin {"start"} \cup Over}

Init ==
    /\ package \in [Calls -> SUBSET Files]
    /\ exists = FALSE
    /\ temp_dir = [f \in Files |-> None]
    /\ pc = [c \in Calls |-> "start"]
    /\ todo = [c \in Calls |-> <<>>]
    /\ feed = [c \in Calls |-> <<>>]
    /\ outcome = [c \in Calls |-> "kOk"]
    /\ disturbed = [c \in Calls |-> FALSE]

-----------------------------------------------------------------------------
GoTo(c, place) == pc' = [pc EXCEPT ![c] = place]

(* The call is done but for remove_all, which lists the directory first.   *)
CleanUp(c, result) ==
    /\ GoTo(c, "removing")
    /\ outcome' = [outcome EXCEPT ![c] = result]
    /\ todo' = [todo EXCEPT ![c] = SetToSeq(Present)]

ZipMissing(c) ==
    /\ pc[c] = "start"
    /\ GoTo(c, "returned")
    /\ outcome' = [outcome EXCEPT ![c] = "kNotFound"]
    /\ UNCHANGED <<package, exists, temp_dir, todo, feed, disturbed>>

(* The directory may be there already, with anything in it.                *)
CreateDirectories(c) ==
    /\ pc[c] = "start"
    /\ GoTo(c, "extracting")
    /\ exists' = TRUE
    /\ todo' = [todo EXCEPT ![c] = SetToSeq(package[c])]
    /\ disturbed' = [d \in Calls |->
                        \/ disturbed[d]
                        \/ d = c /\ (Present # {} \/ Active # {})
                        \/ d \in Active]
    /\ UNCHANGED <<package, temp_dir, feed, outcome>>

(* unzip -o replaces a file of that name, and makes the directory anew if  *)
(* it is gone.                                                             *)
ExtractFile(c) ==
    /\ pc[c] = "extracting"
    /\ todo[c] # <<>>
    /\ temp_dir' = [temp_dir EXCEPT ![Head(todo[c])] = c]
    /\ exists' = TRUE
    /\ todo' = [todo EXCEPT ![c] = Tail(@)]
    /\ UNCHANGED <<package, pc, feed, outcome, disturbed>>

(* A slip: a failed extraction returns without removing the directory.     *)
FailWithoutCleanUp(c) ==
    /\ pc[c] = "extracting"
    /\ GoTo(c, "returned")
    /\ outcome' = [outcome EXCEPT ![c] = "kInternal"]
    /\ UNCHANGED <<package, exists, temp_dir, todo, feed, disturbed>>

UnzipFails(c) ==
    /\ pc[c] = "extracting"
    /\ CleanUp(c, "kInternal")
    /\ UNCHANGED <<package, exists, temp_dir, feed, disturbed>>

UnzipSucceeds(c) ==
    /\ pc[c] = "extracting"
    /\ todo[c] = <<>>
    /\ GoTo(c, "looking")
    /\ UNCHANGED <<package, exists, temp_dir, todo, feed, outcome, disturbed>>

-----------------------------------------------------------------------------
(* A slip: a directory that is gone is extracted again.                    *)
FindPackageOrRetry(c) ==
    /\ pc[c] = "looking"
    /\ IF ~exists
       THEN /\ GoTo(c, "extracting")
            /\ todo' = [todo EXCEPT ![c] = SetToSeq(package[c])]
            /\ UNCHANGED outcome
       ELSE IF EventFeed \in Present
       THEN GoTo(c, "opening") /\ UNCHANGED <<todo, outcome>>
       ELSE IF Contest \in Present
       THEN /\ GoTo(c, "reading")
            /\ todo' = [todo EXCEPT ![c] = Candidates]
            /\ UNCHANGED outcome
       ELSE CleanUp(c, "kNotFound")
    /\ UNCHANGED <<package, exists, temp_dir, feed, disturbed>>

(* ParsePackageDirectory: an event feed is preferred, a package without    *)
(* one needs a contest.                                                    *)
FindPackage(c) ==
    /\ pc[c] = "looking"
    /\ IF ~exists THEN CleanUp(c, "kInvalidArgument")
       ELSE IF EventFeed \in Present
       THEN GoTo(c, "opening") /\ UNCHANGED <<todo, outcome>>
       ELSE IF Contest \in Present
       THEN /\ GoTo(c, "reading")
            /\ todo' = [todo EXCEPT ![c] = Candidates]
            /\ UNCHANGED outcome
       ELSE CleanUp(c, "kNotFound")
    /\ UNCHANGED <<package, exists, temp_dir, feed, disturbed>>

Append1(c, file) == Append(feed[c], <<file, temp_dir[file]>>)

(* ParseFile, which may find the feed gone.                                *)
OpenEventFeed(c) ==
    /\ pc[c] = "opening"
    /\ IF EventFeed \in Present
       THEN /\ feed' = [feed EXCEPT ![c] = Append1(c, EventFeed)]
            /\ CleanUp(c, "kOk")
       ELSE CleanUp(c, "kNotFound") /\ UNCHANGED feed
    /\ UNCHANGED <<package, exists, temp_dir, disturbed>>

(* A slip: reading goes on only as long as files are there.                *)
ReadUntilMissing(c) ==
    /\ pc[c] = "reading"
    /\ todo[c] # <<>>
    /\ IF Head(todo[c]) \in Present
       THEN /\ feed' = [feed EXCEPT ![c] = Append1(c, Head(todo[c]))]
            /\ todo' = [todo EXCEPT ![c] = Tail(@)]
       ELSE todo' = [todo EXCEPT ![c] = <<>>] /\ UNCHANGED feed
    /\ UNCHANGED <<package, exists, temp_dir, pc, outcome, disturbed>>

(* A slip: a file that is missing is tried again.                          *)
ReadAgain(c) ==
    /\ pc[c] = "reading"
    /\ todo[c] # <<>>
    /\ Head(todo[c]) \in Present
    /\ feed' = [feed EXCEPT ![c] = Append1(c, Head(todo[c]))]
    /\ todo' = [todo EXCEPT ![c] = Tail(@)]
    /\ UNCHANGED <<package, exists, temp_dir, pc, outcome, disturbed>>

(* A file that is missing, or cannot be opened, is left out.               *)
ReadEndpoint(c) ==
    /\ pc[c] = "reading"
    /\ todo[c] # <<>>
    /\ feed' = IF Head(todo[c]) \in Present
               THEN [feed EXCEPT ![c] = Append1(c, Head(todo[c]))]
               ELSE feed
    /\ todo' = [todo EXCEPT ![c] = Tail(@)]
    /\ UNCHANGED <<package, exists, temp_dir, pc, outcome, disturbed>>

ParseSyntheticFeed(c) ==
    /\ pc[c] = "reading"
    /\ todo[c] = <<>>
    /\ CleanUp(c, "kOk")
    /\ UNCHANGED <<package, exists, temp_dir, feed, disturbed>>

-----------------------------------------------------------------------------
(* remove_all: the files that were listed, gone or not, then the directory.*)
RemoveFile(c) ==
    /\ pc[c] = "removing"
    /\ todo[c] # <<>>
    /\ temp_dir' = [temp_dir EXCEPT ![Head(todo[c])] = None]
    /\ todo' = [todo EXCEPT ![c] = Tail(@)]
    /\ UNCHANGED <<package, exists, pc, feed, outcome, disturbed>>

(* A directory that is not empty by then makes remove_all throw.           *)
RemoveDirectory(c) ==
    /\ pc[c] = "removing"
    /\ todo[c] = <<>>
    /\ IF Present = {} THEN GoTo(c, "returned") /\ exists' = FALSE
       ELSE GoTo(c, "threw") /\ UNCHANGED exists
    /\ UNCHANGED <<package, temp_dir, todo, feed, outcome, disturbed>>

Step(c) ==
    \/ ZipMissing(c) \/ CreateDirectories(c)
    \/ ExtractFile(c) \/ UnzipFails(c) \/ UnzipSucceeds(c)
    \/ FindPackage(c) \/ OpenEventFeed(c)
    \/ ReadEndpoint(c) \/ ParseSyntheticFeed(c)
    \/ RemoveFile(c) \/ RemoveDirectory(c)

(* The process dies; the directory stays as it is.                         *)
Crash(c) ==
    /\ c \in Active
    /\ GoTo(c, "crashed")
    /\ UNCHANGED <<package, exists, temp_dir, todo, feed, outcome, disturbed>>

Next == \E c \in Calls : Step(c) \/ Crash(c)

(* Each call is sequential code that goes on until it returns or dies.     *)
Spec == Init /\ [][Next]_vars /\ \A c \in Calls : WF_vars(Step(c))

-----------------------------------------------------------------------------
(* One file is read before another, where there is no event feed.          *)
ReadBefore(f, g) ==
    \E i, j \in DOMAIN Candidates :
        i < j /\ Candidates[i] = f /\ Candidates[j] = g

(* The feed is the package's event feed, or its contest and its endpoint   *)
(* files, each once and in the order they are read, and nobody else's.     *)
OwnFeed(c) ==
    IF EventFeed \in package[c] THEN feed[c] = <<<<EventFeed, c>>>>
    ELSE /\ Contest \in package[c]
         /\ ToSet(feed[c]) = package[c] \X {c}
         /\ \A i, j \in DOMAIN feed[c] :
                i < j => ReadBefore(feed[c][i][1], feed[c][j][1])

(* A call that met nobody else's files and overlapped with no other call   *)
(* parses its own package, whole and in order, or says that there is none, *)
(* and never throws.  Everything a call can get wrong it gets from others. *)
AloneParsesItsOwn ==
    \A c \in Calls :
        ~disturbed[c] =>
            /\ pc[c] # "threw"
            /\ pc[c] = "returned" /\ outcome[c] = "kOk" => OwnFeed(c)
            /\ outcome[c] # "kInvalidArgument"

(* Whatever the calls do to each other, when all of them have returned the *)
(* directory is gone: only a call that died or threw leaves files.         *)
NothingIsLeft ==
    (\A c \in Calls : pc[c] \in {"start", "returned"}) => ~exists

(* How far a call has come.                                                *)
Stage(c) == CASE pc[c] = "start" -> 0 [] pc[c] = "extracting" -> 1
              [] pc[c] = "looking" -> 2 [] pc[c] \in {"opening", "reading"} -> 3
              [] pc[c] = "removing" -> 4 [] OTHER -> 5

(* A call is never set back, whatever the others take away from it: each   *)
(* step is of one call, which enters a later stage or is done with one     *)
(* more file, and no other call is any nearer to its end or further away.  *)
CallsAdvance ==
    [][\E c \in Calls :
           /\ \/ Stage(c) < Stage(c)'
              \/ Stage(c)' = Stage(c) /\ todo[c] # <<>> /\ todo'[c] = Tail(todo[c])
           /\ \A d \in Calls \ {c} :
                  UNCHANGED <<pc[d], todo[d], feed[d], outcome[d]>>]_vars

(* No call waits for another: each ends, though its files be taken away.   *)
CallsEnd == \A c \in Calls : <>(pc[c] \in Over)

=============================================================================
