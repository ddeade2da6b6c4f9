----------------------------- MODULE AgentTurns -----------------------------
(***************************************************************************)
(* A coding agent talking to the bridge: the user asks, ChatGPT answers in *)
(* text, the bridge reads tool calls out of the text, the client runs them *)
(* and sends the transcript again with their results.                      *)
(*                                                                         *)
(* Before calls reach the client the bridge drops those that have already  *)
(* succeeded, asks ChatGPT again when they break the file policy or the    *)
(* quality gate, or when a call seems to be missing, and says "Done." when *)
(* ChatGPT goes on calling tools after the work was done.                  *)
(*                                                                         *)
(* Words are kept where the code tells texts apart by them.  How an answer *)
(* is fetched (accounts, limiters) is in BridgeRequests.                   *)
(***************************************************************************)
EXTENDS Naturals, FiniteSets

CONSTANTS
    Calls,     \* tool calls, [tool, arg]: a call is its name and arguments
    Texts,     \* answers of ChatGPT, [brace, json, calls, abandons, claims]
    Results,   \* what tools answer: sets of the words the code looks for
    Wishes     \* what a user message asks for: sets of "tool", "mutation", "polished"

FileTools == {"apply_patch", "edit", "write", "write_file"}
Tools == FileTools \cup {"bash", "read"}
Arguments == {"plain", "mutating", "poor page", "good page"}

ASSUME CallsAssumption == IsFiniteSet(Calls) /\ Calls \subseteq [tool : Tools, arg : Arguments]
ASSUME TextsAssumption ==
    Texts \subseteq [brace : BOOLEAN, json : BOOLEAN, calls : SUBSET Calls,
                     abandons : BOOLEAN, claims : BOOLEAN]
ASSUME WishesAssumption == Wishes \subseteq SUBSET {"tool", "mutation", "polished"}

VARIABLES
    streaming, fallback,          \* how the client asks, whether a second model is configured
    wants, choice,                \* the latest user message, tool_choice
    results, fileDone,            \* results since that message; a file tool worked
    succeeded,                    \* calls that have succeeded in the transcript
    stage, second,                \* the answer awaited; after the retry for a missing call
    answer                        \* what the client got

configVars == <<streaming, fallback>>
transcriptVars == <<wants, choice, results, fileDone, succeeded>>
turnVars == <<stage, second, answer>>
vars == <<configVars, transcriptVars, turnVars>>

------------------------------------------------------------------------------
(* Reading the transcript: three vocabularies for the results of tools *)

\* _tool_result_looks_failed
LooksFailed(words) == words \cap {"error", "failed", "not found", "traceback"} # {}

\* _has_successful_tool_result_after_latest_user
SuccessfulResult ==
    \E words \in results :
        ~LooksFailed(words) /\ words \cap {"completed", "created", "success", "updated", "wrote"} # {}

\* _tool_result_succeeded
Succeeded(words) ==
    /\ words \cap {"success", "succeeded", "completed", "updated the following files", "done"} # {}
    /\ words \cap {"error", "failed", "failure", "traceback", "exception"} = {}

Mutates(call) == call.tool = "bash" /\ call.arg = "mutating"

\* _has_completed_file_action_after_latest_user, for one result.
FileAction(call, words) == ~LooksFailed(words) /\ (call.tool \in FileTools \/ Mutates(call))

------------------------------------------------------------------------------
(* Judging an answer *)

\* A mutant of New: calls are taken as they come.
NewUnfiltered(text) == text.calls

\* The calls of a text that have not succeeded before.
New(text) == text.calls \ succeeded

PolicyIssue(calls) == "mutation" \in wants /\ \E c \in calls : Mutates(c)

QualityIssue(calls) ==
    "polished" \in wants /\ \E c \in calls : c.tool \in FileTools /\ c.arg = "poor page"

\* _should_retry_for_missing_tool_call
MissingCall(text) ==
    IF results # {} THEN "tool" \in wants /\ text.abandons
    ELSE choice \/ "tool" \in wants \/ text.claims

WorkIsDone(text) ==
    \/ fileDone /\ (text.json \/ text.abandons)
    \/ SuccessfulResult /\ text.json

------------------------------------------------------------------------------
NoAnswer == [what |-> "none", calls |-> {}, from |-> "idle"]

Init ==
    /\ streaming \in BOOLEAN /\ fallback \in BOOLEAN
    /\ wants = {} /\ choice = FALSE
    /\ results = {} /\ fileDone = FALSE /\ succeeded = {}
    /\ stage = "idle" /\ second = FALSE
    /\ answer = NoAnswer

\* The client sends the transcript.
Send == stage' = "ask" /\ second' = FALSE /\ answer' = NoAnswer

\* A mutant of UserSays: what was done for the message before still counts.
UserSaysMore ==
    /\ stage = "idle"
    /\ wants' \in Wishes /\ choice' \in BOOLEAN
    /\ results' = {}
    /\ Send
    /\ UNCHANGED <<configVars, fileDone, succeeded>>

UserSays ==
    /\ stage = "idle"
    /\ wants' \in Wishes /\ choice' \in BOOLEAN
    /\ results' = {} /\ fileDone' = FALSE
    /\ Send
    /\ UNCHANGED <<configVars, succeeded>>

\* The client runs the calls it was given and sends their results.
RunTools ==
    /\ stage = "idle" /\ answer.what = "calls"
    /\ \E of \in [answer.calls -> Results] :
        /\ results' = results \cup {of[c] : c \in answer.calls}
        /\ fileDone' = (fileDone \/ \E c \in answer.calls : FileAction(c, of[c]))
        /\ succeeded' = succeeded \cup {c \in answer.calls : Succeeded(of[c])}
    /\ Send
    /\ UNCHANGED <<configVars, wants, choice>>

------------------------------------------------------------------------------
(* The bridge *)

Await(next) == stage' = next /\ UNCHANGED <<second, answer>>

Deliver(what, calls) ==
    /\ stage' = "idle"
    /\ answer' = [what |-> what, calls |-> calls, from |-> stage]
    /\ UNCHANGED second

DeliverText(text) ==
    IF New(text) # {} THEN Deliver("calls", New(text)) ELSE Deliver("text", {})

AwaitMissing == stage' = "missing" /\ second' = TRUE /\ UNCHANGED answer

\* A mutant of Settle: a call is asked for whenever one seems to be missing.
SettleAlways(text) ==
    IF New(text) = {} /\ MissingCall(text)
    THEN AwaitMissing
    ELSE DeliverText(text)

\* What follows a text that passed the checks: once, a call that seems to be
\* missing is asked for.
Settle(text) ==
    IF New(text) = {} /\ ~second /\ MissingCall(text)
    THEN AwaitMissing
    ELSE DeliverText(text)

CheckQuality(text) ==
    IF QualityIssue(New(text)) THEN Await("quality") ELSE Settle(text)

CheckPolicy(text) ==
    IF PolicyIssue(New(text)) THEN Await("policy") ELSE CheckQuality(text)

\* The first answer, of the model asked for or of the fallback.  (It is never
\* empty: the account loop makes an error of that.)
FirstAnswer(text) ==
    /\ stage \in {"ask", "fallback"} /\ ~streaming
    /\ IF WorkIsDone(text) THEN Deliver("done", {}) ELSE CheckPolicy(text)

\* A streamed answer is passed on unless it begins with a brace; its calls are
\* not checked.
StreamedAnswer(text) ==
    /\ stage = "ask" /\ streaming
    /\ IF text.brace THEN DeliverText(text) ELSE Deliver("text", {})

\* A mutant of PolicyAnswer: the second answer is taken as it is.
PolicyAnswerUnchecked(text) == stage = "policy" /\ CheckQuality(text)

PolicyAnswer(text) ==
    /\ stage = "policy"
    /\ IF PolicyIssue(New(text)) THEN Deliver("error", {}) ELSE CheckQuality(text)

\* A mutant of QualityAnswer: the second answer is taken as it is.
QualityAnswerUnchecked(text) == stage = "quality" /\ Settle(text)

QualityAnswer(text) ==
    /\ stage = "quality"
    /\ IF QualityIssue(New(text)) THEN Deliver("error", {}) ELSE Settle(text)

MissingAnswer(text) == stage = "missing" /\ CheckPolicy(text)

\* The model is limited or answers nothing: the fallback model is tried once.
TryFallback ==
    /\ stage = "ask" /\ ~streaming /\ fallback
    /\ Await("fallback")

\* ChatGPT fails or answers nothing; a failure of the network ends the request
\* without an answer, but for the retry for a missing call.
Fails ==
    /\ stage # "idle"
    /\ \/ Deliver("error", {})
       \/ stage # "missing" /\ Deliver("dropped", {})

Serve ==
    /\ \/ \E text \in Texts :
            \/ FirstAnswer(text) \/ StreamedAnswer(text)
            \/ PolicyAnswer(text) \/ QualityAnswer(text) \/ MissingAnswer(text)
       \/ TryFallback
       \/ Fails
    /\ UNCHANGED <<configVars, transcriptVars>>

Next == UserSays \/ RunTools \/ Serve

\* ChatGPT answers or the transport times out.
Spec == Init /\ [][Next]_vars /\ WF_vars(Serve)

------------------------------------------------------------------------------
(* Properties *)

Stages == {"idle", "ask", "fallback", "policy", "quality", "missing"}

\* Types of the variables.
TypeOK ==
    /\ streaming \in BOOLEAN /\ fallback \in BOOLEAN
    /\ wants \subseteq {"tool", "mutation", "polished"} /\ choice \in BOOLEAN
    /\ results \subseteq Results /\ fileDone \in BOOLEAN
    /\ succeeded \subseteq Calls
    /\ stage \in Stages /\ second \in BOOLEAN
    /\ answer \in [what : {"none", "text", "calls", "done", "error", "dropped"},
                   calls : SUBSET Calls, from : Stages]

\* A call that has succeeded is never given to the client again, whichever of
\* the up to six answers of a turn it is read from
\* (_filter_repeated_successful_tool_calls).
NoRepeatedSuccess == answer.calls \cap succeeded = {}

\* When the user wants files changed, a call that changes them with the shell
\* reaches the client of a request that is not streamed only out of the
\* answer to a quality retry: that answer alone is not checked again for the
\* policy (_retry_tool_policy_issues runs before _retry_low_quality_tool_calls).
PolicyKept == ~streaming /\ PolicyIssue(answer.calls) => answer.from = "quality"

\* A page of poor quality never reaches the client of a request that is not
\* streamed, after any number of retries (_retry_low_quality_tool_calls).
QualityKept == ~streaming => ~QualityIssue(answer.calls)

\* "Done." is said only after a tool has worked since the latest message of
\* the user: not for work done before, nor after failures only.
DoneMeansWorked ==
    answer.what = "done" => \E words \in results : ~LooksFailed(words)

\* ChatGPT is not asked again for ever in one turn, whatever it answers: the checks
\* that ask again, nested in one another and passed a second time after the retry
\* for a missing call, leave fewer answers to come each time.
AnswersLeft ==
    IF second THEN [ask |-> 7, fallback |-> 6, missing |-> 3, policy |-> 2, quality |-> 1,
                    idle |-> 0][stage]
    ELSE [ask |-> 7, fallback |-> 6, policy |-> 5, quality |-> 4, idle |-> 0][stage]

TurnIsBounded == [][stage # "idle" => AnswersLeft' < AnswersLeft]_vars

\* The agent does not run in circles: tools are run for ever only if results
\* that do not read like success go on coming.
AgentLoopEnds ==
    []<><<RunTools>>_vars => []<>(\E words \in results : ~Succeeded(words))
=============================================================================
