---------------------------- MODULE StreamParser ----------------------------
(***************************************************************************)
(* EventFeedParser::ParseFile and ParseStream, and FetchEventFeed, which   *)
(* downloads the stream first: the loop that feeds a whole stream to a     *)
(* session and turns the session into a result.                            *)
(***************************************************************************)
EXTENDS SessionProperties

CONSTANT Inputs  \* the streams that may be parsed, sequences of lines

ASSUME InputsAssumption ==
    /\ Inputs \subseteq Seq(Lines)
    /\ \A input \in Inputs : Len(input) <= MaxLines

VARIABLES
    input,   \* the stream, once it is open
    taken,   \* the lines std::getline has taken from it
    pc,      \* where the loop is
    result   \* the status of the StatusOr<ParseResult>, or None

parserVars == <<input, taken, pc, result>>
allVars == <<vars, parserVars>>

ParserInit ==
    /\ Init
    /\ input = <<>>
    /\ taken = 0
    /\ pc = "opening"
    /\ result = None

Open(stream) ==
    /\ pc = "opening"
    /\ input' = stream
    /\ pc' = "reading"
    /\ UNCHANGED <<vars, taken, result>>

FailToOpen(status) ==
    /\ pc = "opening"
    /\ pc' = "done"
    /\ result' = status
    /\ UNCHANGED <<vars, input, taken>>

OpenFile(stream) == Open(stream) \/ FailToOpen("kNotFound")

(* The whole body is downloaded before a line of it is parsed: a transfer  *)
(* that fails or times out leaves nothing of it, and one without a curl    *)
(* handle does not begin.                                                  *)
DownloadFeed(stream) ==
    Open(stream) \/ FailToOpen("kUnavailable") \/ FailToOpen("kInternal")

(* A slip: fail-fast leaves the loop where it should leave the function.   *)
ReadLineBreaks ==
    /\ pc = "reading"
    /\ taken < Len(input)
    /\ taken' = taken + 1
    /\ ConsumeLine(input[taken + 1])
    /\ pc' = IF returned' = "kOk" THEN pc ELSE "finishing"
    /\ UNCHANGED <<input, result>>

(* getline takes the next line whatever the session makes of the one       *)
(* before.  A status other than kOk stops the loop: at the limit the       *)
(* session is finished as if the stream had ended, in fail-fast mode it is *)
(* abandoned.  An exception is let through.                                *)
ReadLine ==
    /\ pc = "reading"
    /\ taken < Len(input)
    /\ taken' = taken + 1
    /\ ConsumeLine(input[taken + 1])
    /\ IF returned' = "kLimitExceeded"
       THEN pc' = "finishing" /\ UNCHANGED result
       ELSE IF \/ returned' # "kOk" /\ options.error_policy = "kFailFast"
               \/ Lost'
       THEN pc' = "done" /\ result' = returned'
       ELSE UNCHANGED <<pc, result>>
    /\ UNCHANGED input

EndOfStream ==
    /\ pc = "reading"
    /\ taken = Len(input)
    /\ pc' = "finishing"
    /\ UNCHANGED <<vars, input, taken, result>>

(* The result is built from whatever the session holds, and is a success.  *)
BuildResult ==
    /\ pc = "finishing"
    /\ Finish
    /\ pc' = "done"
    /\ result' = "kOk"
    /\ UNCHANGED <<input, taken>>

ParserNext ==
    \/ \E stream \in Inputs : OpenFile(stream) \/ DownloadFeed(stream)
    \/ ReadLine
    \/ EndOfStream
    \/ BuildResult

-----------------------------------------------------------------------------
(* The diagnostic code the line itself calls for, and whether it is logged.*)
Refusal(line) ==
    IF IsKeepalive(line) \/ Escapes(line, options.max_line_bytes) THEN None
    ELSE LineError(line, options.max_line_bytes)

IsLogged(line) ==
    /\ options.keep_event_log
    /\ line.root = "object" /\ line.type \in Types
    /\ Refusal(line) = None

(* Diagnostics and logged events name the lines of the stream they are     *)
(* about.  The session numbers lines itself, on each path of ConsumeLine   *)
(* that returns or throws, while getline moves on regardless: one path     *)
(* that counts no line, or two, and every report behind it names a wrong   *)
(* one.  So each line taken has under its number the error it calls for    *)
(* and no other, and the log has its event and no other.                   *)
LineNumbersAreTrue ==
    /\ \A i \in DOMAIN heard : heard[i].line_no \in 1..taken
    /\ \A i \in DOMAIN event_log : event_log[i].line_no \in 1..taken
    /\ \A n \in 1..taken :
           LET line   == input[n]
               codes  == {heard[i].code :
                              i \in {j \in DOMAIN heard : heard[j].line_no = n}}
               events == {event_log[i] :
                              i \in {j \in DOMAIN event_log :
                                         event_log[j].line_no = n}}
           IN  /\ codes \cap LineErrors = {Refusal(line)} \ {None}
               /\ events = IF IsLogged(line) THEN {EventOf(line, n)} ELSE {}

(* Lines are skipped only for a reason the caller configured: a result     *)
(* that is a success covers the whole stream unless the run of errors      *)
(* reached its limit, and an error is returned only by the first line that *)
(* fails in fail-fast mode, with the limit not reached.  No exception but  *)
(* that of a number out of range leaves the parser.  What is returned at   *)
(* the limit, a success by the code and kLimitExceeded by                  *)
(* docs/api_reference.md:224, this leaves open.                            *)
StopsForAReason ==
    LET limit == consecutive_errors >= options.max_consecutive_errors
    IN  pc = "done" =>
        CASE result = "kOk" ->
                 \/ taken = Len(input)
                 \/ consecutive_errors > 0 /\ limit
          [] result = "kParseError" ->
                 /\ options.error_policy = "kFailFast"
                 /\ consecutive_errors = 1 /\ ~limit
                 /\ Reported("error") = {taken}
          [] result = "kLimitExceeded" -> consecutive_errors > 0 /\ limit
          [] result = "threw" -> input[taken].root = "overflow"
          [] result \in {"kNotFound", "kUnavailable", "kInternal",
                        "kInvalidArgument"} ->
                 taken = 0 /\ input = <<>>
          [] OTHER -> FALSE

=============================================================================
