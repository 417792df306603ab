# CCSParser in TLA+

CCSParser is a C++ library that turns the data of a programming contest, as a
CCS (Contest Control System) publishes it, into an object store and a
scoreboard. This directory holds TLA+ models of its components, the TLC runs
that check them on small instances, and theorems about the models that tlapm
proves for every instance. All paths below are relative to the repository.

    tlc -workers 2 -config MCSession.cfg MCSession     check a run
    tlapm SessionProofs.tla                            check the proofs of a module

`PROJECT.json` lists the components, the runs with the properties they check,
for every definition the lines of code it stands for, the hazards the
properties are aimed at, the divergences found and the theorems.

## 1. The system

The library is sequential code without threads of its own. What is hard about
it is the order in which one operation updates several pieces of state, what is
left when an operation stops half-way, and the one thing calls share: the
directory zip packages are unpacked into.

| Component | State | Operations | Talks to |
|---|---|---|---|
| `ContestStore` (`src/store`) | objects by type and id, two singletons, event log, event count, observers | upsert, delete, replace a collection, update a singleton, record, checkpoint, rollback | notifies observers from inside each operation |
| `StreamingParseSession` (`src/api/parser.cc`) | options, cursor, diagnostics, resolved version and profile, count of consecutive errors, finished | `ConsumeLine`, `Finish`, accessors, `mutable_store()` | line parser, profile, store |
| `EventFeedParser` (`src/api/parser.cc`) | a stream and a session | `ParseFile`, `ParseStream` | session |
| NDJSON line parser (`src/event`) | none | classify a line: keepalive, error, or one of four shapes | |
| Version profile (`src/profile`) | the version | decode an object, decode a collection | line parser's documents |
| Scoreboard builder (`src/scoreboard`) | local maps | `BuildScoreboard` | reads a store |
| REST parser (`src/api/rest_api_parser.cc`) | result under construction | fetch twelve endpoints, or the feed | HTTP client, profile, store |
| XML parser (`src/api/xml_feed_parser.cc`) | result under construction | parse a document | store |
| Package loader (`src/io`) | a shared temporary directory | parse a directory, parse a zip | file system, `EventFeedParser` |
| Core types, time (`src/core`) | none | types, ids, times and their formats | |
| HTTP client, file references, tools | none that lasts | I/O and rendering | |

What makes each correct, and what could go wrong:

* **Store.** Readers see a table of objects; each call changes what it says and
  nothing else; an observer that listens from the start can keep a copy; a
  checkpoint names the log it was taken from. Hard: rollback keeps the
  observers but tells them nothing, a checkpoint is only an index, a type
  without entries and a singleton take different paths in every operation.
* **Session.** A line is applied as a whole or not at all; cursor, log, error
  count, diagnostics, version and objects agree although each is updated at
  another point of `ApplyEvent`; the returned status tells what the caller has
  to do. Hard: the log, the token and the version move before it is known
  whether the event decodes; the profile changes in mid-event; the error count
  is touched on four paths; limits of 0 and 1.
* **Stream.** What is skipped is skipped for a reason the caller configured, and
  every report and every logged event names the line it is about. Hard: the
  session numbers lines itself, on each of its paths, apart from the stream
  they are taken from.
* **Scoreboard.** It is a function of the store: iterating over hash tables
  must not show in it, except between ties. Hard: rejudgements, attempts after
  an accept, compile errors, equal times, places of tied teams, times before
  the contest.
* **REST.** The objects are the answers received before the first endpoint that
  stops the fetch; what failed without stopping it is reported.
* **XML.** The last word of a document about an object stands. Hard: operations
  and flat objects exclude each other for the whole document, plural names
  change what the children are, and skipping, counting and reporting differ
  from path to path.
* **Packages.** A package is parsed to what its files hold, a file that cannot
  be read as one line costs its own objects only, and parses do not disturb
  each other. Hard: files are pasted into lines, so a line break in a file is
  the end of an event, and limits meant for lines fall on files; the temporary
  directory is shared.
* **Time.** What is written is read again as the same time. Hard: signs that
  belong to fields, quotients of negative numbers, fractions of any length,
  dates counted in eras that begin in March.

## 2. The modules

| Module | Models | Role |
|---|---|---|
| `CcsData` | `types.h`, `event.h`, `objects.h` | documents, events, decoded objects |
| `NdjsonLineParser` | `ndjson_line_parser.cc` | the checks in the order they are made, the four shapes |
| `VersionProfile` | `version_profile.cc`, `DetectVersion` | version-dependent decoding and detection |
| `ContestStore` | `contest_store.cc` | variables and operations of the store |
| `ObjectTable` | | abstract: what a store promises its readers |
| `StoreClient` | `contest_store.h` | the store driven through its whole interface |
| `ParseSession` | `parser.cc` | a session over a store, one action per public call |
| `AtomicFeed` | | abstract: what a session promises its caller |
| `SessionProperties`, `SessionClaims` | | what holds of a session, and what documents say and does not |
| `StreamParser` | `parser.cc`, `rest_api_parser.cc` | opening or downloading a feed, and the loop around a session |
| `PackageLoader` | `package_loader.cc` | directories as synthetic feeds for that loop |
| `CheckpointedSession` | `parser.cc`, `contest_store.cc` | rollback of a session's store and re-feeding of the log |
| `Scoreboard` | `scoreboard_builder.cc` | the loops of `BuildScoreboard` in every order |
| `ScoreboardProperties`, `ScoreboardClaims` | | what holds of a scoreboard, and what documents and comments say and does not |
| `RestFetch` | `rest_api_parser.cc` | the twelve requests against a server that answers as it likes |
| `XmlFeed` | `xml_feed_parser.cc` | both strategies of reading a document |
| `ZipExtract` | `package_loader.cc` | calls that unpack into one directory, overlap and die |
| `CxxIntegers` | | quotients and remainders that are cut toward zero |
| `TimeUtils` | `time_utils.cc`, `types.cc` | times read, written and read again |
| `ContestStoreProofs`, `StoreClientProofs` | | what the store's calls do; the store as a table |
| `SessionProofs` | | types, steps, observer, log order, kept diagnostics, status, the refinement; what the log, the version, the objects, the errors and the counts of a session have to do with each other; restoration of a checkpoint; parsing of a whole stream, and the same of the parsers that drive a session |
| `ScoreboardProofs` | | verdicts, attempts, first solves, places, the board as a function of the store |
| `ZipProofs` | | calls that share a directory |
| `RestProofs` | | end, objects, reports and count of a fetch |
| `XmlProofs` | | the words of a document |
| `TimeProofs` | | times written and read again, the calendar |
| `MC*` | | small constants for TLC |

`StoreClient` and `ParseSession` both build on `ContestStore`: the first
extends it, the second instantiates it as `Store` with decoded objects and raw
events, `RestFetch` with decoded objects and without a log or observers.
`StreamParser` and `CheckpointedSession` extend the session, and
`PackageLoader` extends `StreamParser`: a package is parsed by the same loop,
the same session and the same store as a stream. `XmlFeed` instantiates the
store without a log, for it records nothing and has no observers.

### How they correspond to the code

* One call of `ConsumeLine` is one step. `ApplyEvent` is the disjunction of the
  five ways it can go; `Begin`, `AdvanceCursor`, `Commit` and `FailEvent` are
  the parts the five share, in the order of the code.
* The store's operators assign only the variables the operation touches, so a
  session's step can contain several calls, as the code does (`RecordEvent`,
  `ApplyUpsert`, `NotifyDiagnostic` in one `ConsumeLine`).
* `mirror` is the state of one observer registered from the start that acts on
  its notifications alone. `heard` is what `OnDiagnostic` gave it. They make
  the order of notification and update visible.
* `singletons` are the two typed pointers; `collections` has an entry for every
  type, since a collection replace of `contest` or `state` does reach the map,
  where no reader looks.
* A JSON document is a record with an id or none, a revision that stands for
  all fields that are copied through, the members whose form depends on the
  version (`penalty_time` as a number or a string, three forms of recipients),
  whether it sets `end_of_updates`, and how many warnings its decoder emits. A
  line is what the line parser looks at: length, kind of root, and the presence
  and JSON type of `type`, `id`, `token` and `data`.
* `ParseLine` catches `json::parse_error` alone. A number that does not fit a
  double throws another exception, which leaves `ConsumeLine` and its callers:
  `Escapes` is its condition, `Throw` its step, and the session is `Lost`, for
  every caller in the repository destroys it on the way.
* In `StreamParser`, `taken` is what `std::getline` has taken from the stream, and
  `cursor.line_no` what the session has counted. Only `ReadLine` moves the first
  and only `AdvanceCursor` the second; that they agree is no part of the model
  but follows from it (`LineNumbersAreTrue`, and the invariant of its proof).
* Operators marked *a slip* are wrong versions of a definition, as a plausible
  bug would leave it. No module uses them; replacing the definition by its slip
  has to break the property paired with it in `PROJECT.json`.

In `Scoreboard` each loop of `BuildScoreboard` takes its elements one at a time
in an order the code allows: any order for a loop over the store, any order
that respects the comparator for a loop over a sorted vector (`std::sort` is
not stable). Objects of one type have distinct ids and are listed once, which
is what the store's maps give unless an object is filed under another id than
its own. Names are numbers, and labels, colours, organizations, columns and
awards, which are copied through, are left out.

In `RestFetch` an endpoint is a type and whether it is required, and an answer
is what `FetchJsonEndpoint` makes of a response: an error of three kinds (no
curl handle, no response or a refusal, no JSON), an exception it does not catch
(a number no double holds), null, an array, an object or a scalar. That each
type is asked for once, and the contest first, is
assumed of the list, as it is of the code's twelve. One request with all that
follows from its answer is one step; the result is local, so no step of it can
be observed.

In `PackageLoader` an endpoint file is the value it holds, the bytes of the line
it is pasted into, whether a number no double holds is met on that line, and the
lines that follow its first line break.
`SyntheticFeed` puts them behind the state line, endpoint by endpoint in the
order of the code (`EndpointLines`);
whether a file exists, and whether it can be opened, are separate, as they are
looked at separately. What is parsed is then a stream like any other.

In `XmlFeed` a document is the sequence of the root's children. A child is its
name, whether it is plural, its `op` and `type`, and the objects it can be taken
for. `ToJson` is the conversion and renaming of `XmlNodeToJson` and
`NormalizeLegacyFields` as far as decoding depends on it: what a penalty is
after attributes and text have become strings. One child that is an operation,
and one object of the flat loop, are one step each; `NextChild` goes on to the
next child when all objects this one stands for have been taken. A diagnostic
is the number of the object it is about: several warnings of one object stand
as one.

In `TimeUtils` a string is the record of the fields its reader cuts it into, a
fraction the sequence of its characters' classes, so that reading, writing and
reading again are functions between records and integers, with the divisions of
C++. `gmtime` is given by the calendar itself (`DayNumber`), which also is the
reference `CivilDays` is held against. Hours and offsets can take a date out of
the years of four characters: such a time is written as a string that no reader
takes, and its steps end in `"abs lost"`.

In `ZipExtract` the steps are the single accesses to the file system, since
other calls may come between any two of them: creating the directory, unpacking
a file, looking for the feed, opening it, reading an endpoint file, removing a
file, removing the directory. A file is named by the call whose package it came
from; the feed a call parses is the sequence of files it read. The behaviour of
`unzip` (`-o` overwrites, a missing directory is made anew, it may fail at any
point) and of `remove_all` (it lists the files, removes those, and throws when
the directory is not empty then) are assumptions about code outside the
repository, as is that a child `unzip` dies with its parent.

## 3. What TLC checks

| Run | Instance | Question |
|---|---|---|
| `store` | one collection type, 2 keys, 2 objects, 2 operations, 2 log entries, replacements of up to 2 | any order of calls: observers agree until a rollback, checkpoints name their log, readers see an `ObjectTable` |
| `session` | 17 kinds of line, feeds of up to 4, 4 sets of options | cursor, log, version, errors, diagnostics, objects and observer agree after every line; the session implements `AtomicFeed` |
| `stream` | streams of up to 3 of 6 kinds of line, 183 packages, limits 0, 1, 2 and 9, both policies, a cap on lines | lines are skipped for a configured reason only; reports and the log name the line they are about; a package is what its files hold |
| `checkpoint` | 8 kinds of line, up to 4 fed and re-fed | what re-feeding restores, what the log becomes, and what the session has told its caller by then |
| `scoreboard` | 4 families of stores, about 12,000 in all | verdicts, attempts, places, first solves, and the solved problems, penalties and cells of the whole board where nothing is tied, under every iteration order |
| `rest` | 5 endpoints, 11 answers, cap of 2, automatic and explicit version | when the fetch fails, what the objects are then, that failures are reported while there is room |
| `zip` | 2 calls, any packages of up to 4 files | a call left alone parses its own package; the directory is gone when all return; every call goes its way, is never set back by another, and ends |
| `xml` | documents of up to 3 of 20 elements, two versions | which words of a document count, what the objects are then, what is counted and reported |
| `time` | every edge of every field: 9,284 states | dates are the calendar's; which times survive being written and read again |
| `claim_order`, `claim_ranking`, `claim_offset` | as `session`, `scoreboard`, `time` | the documented statements of section 5, each refuted |

Bounds, and why they are enough:

* `MaxCount`, `MaxLog`, `MaxHeard`, `MaxElements` (`StoreClient`) stop
  counters that otherwise grow for ever. Two objects, two keys and two writes
  reach every pair of calls on the same and on different entries; a third write
  only repeats one. `ObserverAgrees`, `CheckpointKeepsItsLog` and
  `ImplementsTable` are also proved without the bounds.
* `MaxLines` (`ParseSession`) bounds the feed. Four lines are enough for: a run
  of errors to reach the limit of 2 or 3 and be broken; an object before the
  evidence, the evidence, contrary evidence, and an object after it; and for
  diagnostics to pass caps of 0, 1 and 2 (and to stay below 5). One collection
  type is enough because collections are treated alike; `clarifications` is the
  one whose decoding depends on the version. The option sets pair automatic and
  explicit versions, both policies, logs kept and not kept.
* In `stream`, three lines reach the limits 0, 1 and 2 on every path and stay
  below 9, and packages of three files reach it with the lines of broken files.
  `MaxLines` is 20 there, more than any input has, so that it never cuts one
  off. The packages pair every state of a contest file with files of a
  collection whose decoding depends on the contest and of one whose decoding
  does not: whole, ended by a line break, one object per line, too long, empty,
  null, with an element that does not decode, with a number out of range.
* Three elements are enough for `xml`: an operation, an unknown one and a flat
  object in any order, and three words about one object.
* `time` reads fields at and beyond both ends of their ranges, and dates of
  26 years from -999 to 9999 on both sides of every kind of leap year. Times are computed to the
  millisecond only within `MaxDays` = 18 days of 1970, where they fit the
  32-bit integers of TLC; the theorems hold for every bound, the years of five
  characters among them, which no run reaches.
* `MaxFed` (`CheckpointedSession`) bounds the lines before the rollback; every
  one may be re-fed, so `MaxLines` is twice that.
* `Lines` in each `MC` module holds one line of every kind the line parser and
  `ApplyEvent` tell apart, among them the odd ones: a collection replace of the
  contest, a singleton update of a collection, ids of event and object that
  differ, elements without an id, a collection with the same id twice.
* `MsPerMinute` is 2, so that times below, on and between minutes, and negative
  ones, stay small. Three judgements of one submission, three submissions of
  two teams, and three teams on two problems are the smallest instances in
  which the three comparisons (latest verdict, attempts before the accept,
  first to solve) can go wrong with something before and something after.

* The five endpoints of `rest` are both singletons and optional, required,
  optional collections: each kind before and after each other kind. The twelve
  of the code differ from them in their types only.
* Two calls are enough for `zip`: what a third could do to a call, a second can
  do by itself, and a crash leaves at most the files of one package over, which
  a single later call then meets.

`CHECK_DEADLOCK FALSE` is set where the code comes to an end: a stream that is
parsed, a restored session, a finished scoreboard or fetch, calls that are all
over, a time that has been read again. A session stops in one case only, when
an exception has left it; a call after `Finish` returns `kFailedPrecondition`.

**Refinement.** `ImplementsTable` maps `GetObject` over all types and ids to
the table of `ObjectTable`. `ImplementsAtomicFeed` maps the objects, the line
number, the count of consecutive errors and whether the session is finished or
lost to `AtomicFeed`, in which a line is committed with at most one change of
one type, discarded with none, or costs the session. It is the statement of "each event is atomic" of
`docs/architecture.md`, read for the objects.

**Fairness.** One specification states any. `ZipExtract` has weak fairness of
each call's next step, but none of a crash: a call is sequential code that the
system schedules, and no step of it waits for another call, which is what
`CallsEnd` needs. Everything else is straight sequential code over finite
input, each loop of which takes its next element whatever came of the last: that
it ends is the shape of the code, and no property is spent on it.

## 4. What is proved

The proofs hold for all values of the constants that satisfy the assumptions of
the modules: any types, ids, tokens, documents and options, feeds of any lines,
and any bounds. Assumptions on constants only say that the special values
(`None`, the unknown type) are not ordinary ones and that an object's id is an
id; that a line that is an object has at least the bytes of its brackets; that
every type of collection has a file in a package, and that what stands behind a
line break of such a file is no event under any limit of bytes; and that a store
holds finitely many objects, which is what lets a scoreboard count them.
`TimeUtils` assumes months 1 to 12 and days 1 to 99 (`TimeAssumption`), since
for others `civil_days` wraps its unsigned integers; the code accepts such dates,
and `DaysAreTheCalendars` says nothing of them. 64-bit milliseconds are taken
to be wide enough. The years `gmtime` chooses from (`Years`) are assumed to contain
those around 1970 that the dates within `MaxDays` and 99 hours can be in; that
it finds a date there is proved.

| Theorem | States |
|---|---|
| `StoreClientProofs!ClientTypeCorrect` | types of the store, under any caller |
| `StoreClientProofs!ObserverIsTold` | `ObserverAgrees` |
| `StoreClientProofs!CheckpointIsKept` | `CheckpointKeepsItsLog` |
| `StoreClientProofs!StoreIsATable` | the store implements `ObjectTable` |
| `SessionProofs!TypeCorrect` | types of session and store |
| `SessionProofs!ObserverIsTold` | `ObserverAgrees` of a session |
| `SessionProofs!LogKeepsFeedOrder` | `LogInFeedOrder` |
| `SessionProofs!FirstHeardAreKept` | `DiagnosticsAreFirstHeard` |
| `SessionProofs!StatusTellsTheRun` | `ReturnTellsTheRun` |
| `SessionProofs!EndOfUpdatesStays` | `EndOfUpdatesIsKept` |
| `SessionProofs!FirstEvidenceDecides` | `VersionFromFirstEvidence` |
| `SessionProofs!LogDeterminesObjects` | `ObjectsFollowLog` |
| `SessionProofs!ErrorRunsAreReported` | `ErrorRunIsReported` |
| `SessionProofs!AllEventsAccountedFor` | `EventsAccountedFor` |
| `SessionProofs!SessionIsAtomicFeed` | the session implements `AtomicFeed` |
| `SessionProofs!CheckpointIsRestored` | `ExplicitVersionRestored` |
| `SessionProofs!RestorationRepeatsLog` | `RefedLogRepeats` |
| `SessionProofs!ParsingStopsForAReason` | `StopsForAReason` of files, downloads and packages |
| `SessionProofs!PackagesAreTheirFiles` | `PackageIsItsFiles` |
| `SessionProofs!ParsersKeepPromises` | nine of the invariants above, of the parsers that drive a session |
| `SessionProofs!ParsersFeedAtomically` | the parsers implement `AtomicFeed` |
| `SessionProofs!LineNumbersHold` | `LineNumbersAreTrue` of files, downloads and packages |
| `SessionProofs!SessionsOutliveRollbacks` | `SessionOutlivesRollback` |
| `ScoreboardProofs!BoardTypeCorrect` | types of the scoreboard's tables and rows |
| `ScoreboardProofs!LatestVerdictCounts` | `VerdictIsLatest` |
| `ScoreboardProofs!AttemptsAreCounted` | `AttemptsUpToAccept` |
| `ScoreboardProofs!FirstIsUnique` | `OneFirstToSolve` |
| `ScoreboardProofs!PlacesRank` | `PlacesAreRanks` |
| `ScoreboardProofs!BoardIsDefined` | `BoardIsItsDefinition` |
| `TimeProofs!RelTimesSurvive` | `RelTimesRoundTrip` |
| `TimeProofs!OffsetsSurviveIfWritable` | `OffsetsRoundTrip` |
| `TimeProofs!InstantsSurvive` | `AbsTimesRoundTrip` |
| `TimeProofs!DaysAreTheCalendars` | `CalendarIsGregorian`, of months 1 to 12 and days from 1 |
| `ZipProofs!LeftAloneParsesItsOwn` | `AloneParsesItsOwn` |
| `ZipProofs!DirectoryIsRemoved` | `NothingIsLeft` |
| `ZipProofs!CallsGoForward` | `CallsAdvance` |
| `RestProofs!FirstFatalStops` | `StopsAtFirstFatal` |
| `RestProofs!ObjectsAreAnswered` | `ObjectsAreTheAnswers` |
| `RestProofs!FailuresAreNoted` | `FailuresAreReported` |
| `RestProofs!NoObjectUncounted` | `ObjectsAreCounted` |
| `XmlProofs!LastWordsStand` | `LastWordStands` |
| `XmlProofs!WordsAreAccountedFor` | `EveryWordIsAccountedFor` |

The argument in each:

* `ContestStoreProofs` has the lemmas about the store's operators, free of any
  specification: what an operation does to types (`Apply*Type`), to `View`
  (`PutEntry`, `EntrySeen`, `ReplacementSeen`, `SingletonSeen`) and that it
  keeps `mirror` equal to `View` (`Apply*Agrees`). `SessionProofs` instantiates
  the module and cites the same lemmas for the session's store.
* The observer's agreement is inductive together with the type invariant: the
  case of a delete of a missing member needs that the entry is `None` already,
  the case of a replacement that `CollectionOf` gives a value for every key.
* `StoreIsATable` goes call by call to a step of `ObjectTable` or a stutter: a
  replace of a singleton type is a stutter, a delete of nothing too, a replaced
  collection has each entry under its own id.
* `CheckpointKeepsItsLog` is inductive by itself, given types: appending keeps
  prefixes, a rollback above the held index too, and one below sets `overtaken`.
* For the session, `StepCases` splits a step into the five outcomes of a line
  and the calls around it, and `ApplyEventSession`, `ApplyEventObjects`,
  `ApplyEventEnds` say once for all shapes of events what happens to the
  session's variables, to the objects, and to errors and diagnostics.
* `LogInFeedOrder` needs that the event being logged has the line number after
  the cursor's, hence above all logged ones; it is inductive with `TypeOK`.
* `DiagnosticsAreFirstHeard` and `ReturnTellsTheRun` are inductive with
  `TypeOK`: capping what was already capped keeps the first of all diagnostics
  (`AddDiagnosticsKeepsFirst`, by whether the cap has been reached), and every
  path through `ConsumeLine` ends in `ReturnOk` or `ReturnError`
  (`ApplyEventEnds`).

* `EndOfUpdatesIsKept` and `VersionFromFirstEvidence` are inductive with
  `TypeOK`. `EventBegins` says that an event either leaves the log as it is
  or is begun; the rest is what one more entry does to a statement about a log
  (`LogGrows`, `EvidenceGrows`): an event that speaks for a version is the
  first to do so exactly when none was detected.
* `ObjectsFollowLog` is inductive with `TypeOK` and `VersionFromFirstEvidence`.
  `LogWrites` says what an entry writes as a function of the event and the
  version it was decoded under (`EventWrites`, `EventWritten`), so that it can be
  compared before and after a step. The version of an entry does not change
  when the log grows (`VersionStays`), that of the new entry is the one in force
  (`VersionNowNext`), and the event itself sets what it writes and nothing else
  (`EventSets`). A collection holds the last document of every id
  (`CollectionHolds`), which exists because sets of numbers have a least member
  (`HasFirst`, from the library's theorems on well-founded relations).
* `ErrorRunIsReported` is not inductive: that a success ends the run needs that
  no error was heard of the line beforehand. `HeardOfLinesConsumed`, by which
  nothing is heard of lines to come, makes it so. `EventReports` and
  `RejectReports` say what is heard of a line: warnings only if it is
  committed, an error if it fails.
* `EventsAccountedFor` compares cardinalities. `CountGrows` says how often a
  code is heard after more diagnostics, by the library's theorems on finite
  sets, and `EventCounts` that an event adds to exactly one of the three sides.
* `SessionIsAtomicFeed` takes what each call of the store does to `View` from
  `SeenUpsert`, `SeenDelete` and `SeenReplacement` and names the change of the table it is; an event then
  is a `Commit` or a `Discard`, by the way it ends. Only an open session
  consumes (`ConsumesWhileOpen`).
* The time theorems are arithmetic. A number of milliseconds is cut into fields
  that put together give it again (`RelTimesSurvive`); an offset is, too, but
  for the sign of its hours (`OffsetsSurviveIfWritable`); the days of an era are
  those of its years, its leap days and its months, month by month
  (`DaysAreTheCalendars`).
* The two theorems on checkpoints share `ClientInv`. Of an event it is known
  that it `Returns`: the line made of it passes all checks of the line parser
  and becomes the same event but for its number (`PassingReturns`). This is
  where the bytes of a line matter: with a limit of 0 bytes the event of a line
  without any would come back as a line of one byte and be refused, which is
  why a line that is an object is assumed to have some. Under an explicit
  version `LeadsTo` gives the objects and the count that a log leads to as a
  function of the log alone (`LeadsToOne`), events add to it one at a time
  (`LeadsToGrows`), and line numbers do not matter to it (`SameBody`). While
  events are fed a second time, the objects are those a prefix of the held log
  leads to (`FeedingOK`), and the prefix is the whole at the end. Without an
  explicit version only the log repeats itself, and `RefedLogRepeats` is all
  that is left.
* What a step of a session preserves is stated of `SessionStep`, the calls
  without the bound on the feed (`ObserverStep`, `LogOrderStep`, `ErrorRunStep`
  and so on), since three specifications take such steps: the session's own, that
  of the parsers, and that of the caller who rolls back. `ParserDrivesSession`
  says that a step of a parser is one of a session or touches nothing of it;
  `ParsersKeepPromises` and `ParsersFeedAtomically` then need no case of their
  own for any kind of line (`PromisesStep`).
* `CallsAdvance` is the safety half of `CallsEnd`: the stages of a call are
  ordered, and what is left to read grows less within one (`OwnStepAdvances`
  goes through the steps of a call; that no other call sets it back is
  `OthersKeep`). What the proof does not say is that a step is taken at all,
  which is fairness.
* `LineNumbersAreTrue` is inductive with `ParserInv`, by which the session has
  counted as many lines as `getline` has taken. `LineSays` is what one line adds
  to what was heard and to the log: the code `RejectSays` gives for a line that
  is refused, nothing of the kind for an event (`EventSays`), and an event under
  its own number if the line is logged. `Joined` says what the codes of a line
  are after more diagnostics of it; `NumbersKept` puts the lines before it and
  itself together, `NumbersStay` is for the steps that read none.
* `SessionsOutliveRollbacks` adds to the steps of a session those of the caller
  who rolls back. A cut log has the order of the whole, and the line numbers of what
  is fed again go on where they were (`RefedLogKeepsOrder`). A rollback leaves cursor, diagnostics,
  status and the count of errors as they are: what a caller was told before it
  is still in force after it.
* `StopsForAReason` is inductive in `ParserInv`, of which the point is that
  while a fail-fast parser reads no error has been heard: a call that hears one
  returns it (`ReturnTellsTheRun`) and the loop ends (`LineHeard`, `ReadKept`).
  `SyntheticFeedType` makes a package a stream of lines like any other.
* `PackageIsItsFiles` is inductive in `FilesInv` with `ParserInv`. Which line is
  which file's is a function from the types to places in the feed, put together
  file by file (`PlacesJoin`, `EndpointsCover`, `FeedPlaces`): every other line
  is `Silent`, an event under no limit of bytes. `FilesRead` says of the files
  whose lines have been read that their objects are what the version now in
  force makes of them. That stays true of a file when the version changes later
  because only two lines can change it (`FileRead`): the contest's, before all
  others that matter (`ContestFirst`), and that of the clarifications, the only
  ones decoded as the version says (`VersionMatters`). A line with a number out
  of range that is reached ends the parse without a result. Files and reports
  are counted by the places, which differ.
* `BoardTypeCorrect` is inductive with `TodoIsJudged`. That rows have a type
  needs that a sum of penalties and a chain of places exist. A sum over a
  finite set is given by a recursive function on its subsets; that there is one
  such function, and that it gives integers, is shown without induction over
  data: a set of counterexamples would have a smallest one (`HasSmallest`), as
  the order of finite sets by inclusion is well founded (`SumExists`,
  `SumIsUnique`). Places are given by the last row above that differs in solved
  problems or penalty (`Leads`, `PlacesExist`).
* `VerdictIsLatest` is `VerdictsSoFar`, the same said of the judgements visited
  so far, when none is left.
* `AttemptsUpToAccept` needs more than its words: that the submissions counted
  and those to come are in the order of their times, and `Tallies`, by which
  what was counted is a set of submissions that ends with one that solves or
  contains none that does. `TallyGrows` adds one submission to it, and
  `TallyMeans` compares the set with those of the property.
* `OneFirstToSolve` is `FirstsSoFar`, the best of the teams visited so far, and
  that each of them has one row (`OrderIsBijection`).
* `PlacesAreRanks` holds of any order the comparator allows. A team's place is
  the row at which its equals begin (`PlaceIsShared`), and the rows above that
  are exactly those of better teams (`OutranksFromPlace`).
* `BoardIsItsDefinition` adds `Untied` to the invariants of the others: a tally
  is then the set of the definition (`UntiedTally`), and two sums of equal
  parts over equal sets are equal by `SumIsUnique` (`PenaltyAgrees`). The
  definition floors times to minutes and the code cuts them: from the start of
  the contest on these are the same, and problems solved before it are excepted
  (`SolvedBeforeStart`), see `claim_ranking`.
* `AbsTimesRoundTrip` needs that `gmtime` finds a date at all: a day has a year,
  the one before the first that begins later (`YearOfDay`, with the least
  element of a set of naturals), and in it a month (`MonthOfDay`), so that
  `Gmtime` is a date with that number (`GmtimeIsADate`). Seconds and thousandths
  put together again what `Split` took apart (`SplitIs`, `FieldsOfSecond`,
  `FractionIsRead`), and `AbsTimeIsReread` says how far off what is read again
  is: as far as its offset. The invariant keeps times `Near` 1970, so that the
  years suffice.
* `AloneParsesItsOwn` is inductive in `Undisturbed`: a call that met nobody is
  the only active one, and at every point of it (`GoesItsWay`) the directory and
  the feed are what its own package has made of them: extracted but for `todo`,
  held whole, read up to `todo`, removed but for `todo`. A step of another call
  changes nothing it keeps (`OthersKeep`), and cannot touch the directory
  without being active or disturbing it. `NothingIsLeft` needs types only: a
  call ends in `"returned"` by removing the directory or without having seen it.
* `StopsAtFirstFatal` is inductive with the type of the answers and the fact
  that there are no more of them than endpoints: a request adds one answer, the
  only one that can be fatal (`AskedAddsOne`).
* `ObjectsAreTheAnswers` is inductive in `HeldInv`, which says of every answer
  what it put under its type. It needs both assumptions on the list: a type
  asked for once has no entries before it is asked, and a version that the
  contest, asked first, gives away is in force for all others. `ObjectWrites`
  and `ArrayWrites` say what one answer does to all types; that an array without
  an element of some id leaves nothing there, and one with several the last, is
  `CollectionSaid`.
* `FailuresAreReported` needs that notes are of endpoints already asked; what is
  appended then keeps their order (`NotesKept`), and warnings, cut at the cap or
  not, are no notes of failures (`WarningsKept`). It asks for a note only while
  there is room under the cap, so that it holds of the code as it is and would of
  code that keeps the cap, see section 5.
* `ObjectsAreCounted` is inductive with `HeldInv`. An array of `n` elements
  fills at most `n` entries, of a type that had none (`EntriesOf`,
  `HeldGrows`), by the library's theorems on cardinalities.
* The two theorems about XML documents share `XmlInv`. `Taken` is the set of the
  words applied so far, always those before some place of the document; every
  object is what the last of them says, and counts, reports and numbers of
  warnings are those of `Taken`. Both loops take the next word in the same way
  (`TakesWord`, `OneTaken`), and the two places where no word may be lost or
  taken twice are the change of loops (no operation has been found, hence there
  is none) and the end of a child of several objects.

Model-checked only, and why. Liveness (`CallsEnd`) is out of the prover's reach;
what can be said of it without fairness is proved (`CallsGoForward`). Every
other property of a passing run is a theorem: the invariants, the refinements
and the action properties. The documented statements of section 5 are no
theorems, for TLC refutes them. The other way round, the types of the store and
of the scoreboard are theorems that no run repeats.

No leaf is near the time the provers are given: each is found within a sixth of
it on four processors under load, so that the proofs do not depend on the
machine they are checked on.

## 5. Where documents and code part

Each of these has a run whose property is the documented statement and whose
outcome is the counterexample.

* `claim_order`: "Events may arrive in any order — final state must be
  correct" (`docs/test_matrix.md:99`). What precedes the detection of the
  version keeps its 2023-06 decoding.
* `claim_ranking`: solved, penalty, then "team_id (ascending, stable tie-break)"
  (`include/ccsparser/scoreboard_builder.h:25`; also `README.md:157` and
  `docs/api_reference.md:197`). Teams of equal tallies are listed by name, and
  those of one name in any order: that is the counterexample TLC prints. The
  same statement fails in a second way. Penalties are "floor each problem's
  solve time to minutes individually" (`src/scoreboard/scoreboard_builder.cc:314`,
  and `:335` likewise), while C++ divides toward zero, so that times before the
  contest, which `:332` calls valid, are rounded up and teams tie that should
  not. Only a comparator that ends in the ids together with a floor makes TLC
  find no violation; with one of them alone it still does.
* `claim_offset`: "Original timezone offset in minutes for faithful round-trip"
  (`include/ccsparser/types.h:95`). The sign is printed with the hours, so
  -00:30 is written as +00:30. `OffsetsRoundTrip` says exactly which offsets
  are lost.

Met on the way and described by the models, without a run of their own. Where a
checked property touches one of the first two, it is stated so that it holds
whichever side is right:

* Streams. "Consecutive errors exceed limit | Abort with `kLimitExceeded`"
  (`docs/api_reference.md:224`): `ConsumeLine` returns that status, `ParseStream`
  ends its loop on it and returns a success, with the rest of the stream unread
  (`StopsForAReason`).
* REST, the cap. "`max_diagnostics` | 10 000 | Cap stored diagnostics"
  (`docs/api_reference.md:80`): warnings are capped, the diagnostic of a failed
  optional endpoint is stored past the cap (`FailuresAreReported`).

* Session. "If any decode step fails, the store is untouched"
  (`docs/architecture.md:75`): the event is in the log by then; for the objects
  the statement is true, see `ImplementsAtomicFeed`. "Full restoration requires
  re-feeding events through the session" (`docs/architecture.md:131`): true
  with an explicit version, see `ExplicitVersionRestored`; a detected version
  survives the rollback and decodes what was decoded with another before.
  `Rollback` alone empties the objects (`docs/test_matrix.md:104`). The token
  of an event that fails is taken (`docs/parser_research.md:104` "only on valid
  events"). An event without id whose data is null stores an empty object
  instead of emptying the collection (`docs/parser_research.md:101`, `:103`).
  `end_of_updates` is looked at only when the state comes without an id
  (`docs/test_matrix.md:60`). Contrary evidence of a version passes without a
  diagnostic (`docs/test_matrix.md:103`). `kPreserveRaw` does what
  `kWarnAndIgnore` does. An exception other than `json::parse_error` leaves the
  session.
* Packages. `api.json`, named in `docs/parser_research.md:53`, is never read.
  An endpoint file of several lines, the usual form of a JSON file, loses all
  its objects, and with the default policy the parse is still a success.
* XML. Policies, caps and limits of the options are not looked at. An operation
  takes the names of types in the singular only, so that the plural names of
  the API are unknown.
* REST, the answers. A contest answered as an array, which `src/api/rest_api_parser.cc:175`
  allows for, is stored where `GetContest` does not find it. A number no
  double holds throws out of the fetch, of an optional endpoint too, although
  failures of those are skipped (`src/api/rest_api_parser.cc:151`).
* Time. A fraction of ten digits or more is cut in a RELTIME and makes a TIME
  invalid, where `src/core/time_utils.cc:99` calls the two consistent. Hours and
  offset can carry the last days of 9999 into the year 10000, which is written
  with five digits and not read again (`src/core/types.cc:111`).

`ZipExtract` has no claim to contradict, the documents being silent on
concurrent calls. It shows why `AloneParsesItsOwn` needs its condition: a call
that overlaps with another, or follows one that died, may parse a mixture of
two packages, report `kInvalidArgument` or `kNotFound` for a good package, or
throw out of `remove_all`.

## 6. Not modelled

* The HTTP client makes one libcurl request per call, without retries and
  without state between calls. What a request can come to is the environment of
  `RestFetch` (`Answer`) and of `StreamParser` (`DownloadFeed`); nothing in the
  library calls `GetStreaming`.
* The file reference resolver looks three paths up and returns the first that
  exists; the command line tools parse options and render. Neither keeps state,
  and there is nothing to hold them against but their own code.
* Of the version profile, the fields that no component looks at are one
  revision of the object's payload (`rev`). Their decoders copy optional JSON
  members one by one.
* The texts of JSON, XML and colours, and the wording of diagnostics.
* Integers wider than TLC's: hours of a RELTIME so large that their milliseconds
  pass 64 bits, and dates with a day below 1 or a month outside 1 to 12, for
  which `civil_days` wraps unsigned integers (2000-03-00 lands eleven million
  years later). Both are accepted by the code without a check.
* Failure to allocate.

## 7. What could be added

1. The decoders field by field, of which `VersionProfile` has what depends on
   the version and on ids.
2. The refusal of dates that `civil_days` cannot count, once the code refuses
   them.
