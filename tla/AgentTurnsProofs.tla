-------------------------- MODULE AgentTurnsProofs --------------------------
(***************************************************************************)
(* Proofs about AgentTurns, for any calls, texts, results and wishes.      *)
(*                                                                         *)
(* The checks of one turn read the transcript and the answer at hand; what *)
(* makes them an invariant of the conversation is that a turn leaves the   *)
(* transcript alone, and that the client's next request forgets the last   *)
(* answer.                                                                 *)
(***************************************************************************)
EXTENDS AgentTurns, TLAPS

\* A file tool is held to have worked only if a result says so.
FileDoneBacked == fileDone => \E words \in results : ~LooksFailed(words)

Inv == TypeOK /\ NoRepeatedSuccess /\ PolicyKept /\ QualityKept /\ DoneMeansWorked
         /\ FileDoneBacked

USE DEF configVars, transcriptVars, turnVars, vars

\* What one answer of the bridge may be, given to a client that does not stream.
GoodAnswer(text) ==
    /\ stage' \in Stages /\ second' \in BOOLEAN
    /\ \/ answer' = answer
       \/ \E calls \in {{}, New(text)}, what \in {"text", "calls", "done", "error", "dropped"} :
            /\ answer' = [what |-> what, calls |-> calls, from |-> stage]
            /\ what = "done" => WorkIsDone(text)
            /\ ~streaming => /\ ~QualityIssue(calls)
                             /\ PolicyIssue(calls) => stage = "quality"

\* Nothing can be wrong with no calls at all.
LEMMA NoCallsNoIssue == ~PolicyIssue({}) /\ ~QualityIssue({})
BY DEF PolicyIssue, QualityIssue

\* Delivering a text: its new calls, if there are any, must have passed both checks.
LEMMA SettleGood ==
    ASSUME TypeOK, NEW text, Settle(text),
           ~streaming => /\ ~QualityIssue(New(text))
                         /\ PolicyIssue(New(text)) => stage = "quality"
    PROVE  GoodAnswer(text)
<1>1. CASE AwaitMissing
  BY <1>1 DEF AwaitMissing, GoodAnswer, TypeOK, Stages
<1>2. CASE DeliverText(text)
  <2>1. CASE Deliver("calls", New(text))
    BY <2>1 DEF Deliver, GoodAnswer, TypeOK, Stages
  <2>2. CASE Deliver("text", {})
    BY <2>2, NoCallsNoIssue DEF Deliver, GoodAnswer, TypeOK, Stages
  <2> QED BY <1>2, <2>1, <2>2 DEF DeliverText
<1> QED BY <1>1, <1>2 DEF Settle

LEMMA CheckQualityGood ==
    ASSUME TypeOK, NEW text, CheckQuality(text),
           ~streaming => (PolicyIssue(New(text)) => stage = "quality")
    PROVE  GoodAnswer(text)
<1>1. CASE QualityIssue(New(text))
  BY <1>1 DEF CheckQuality, Await, GoodAnswer, TypeOK, Stages
<1>2. CASE ~QualityIssue(New(text))
  BY <1>2, SettleGood DEF CheckQuality
<1> QED BY <1>1, <1>2

LEMMA CheckPolicyGood ==
    ASSUME TypeOK, NEW text, CheckPolicy(text)
    PROVE  GoodAnswer(text)
<1>1. CASE PolicyIssue(New(text))
  BY <1>1 DEF CheckPolicy, Await, GoodAnswer, TypeOK, Stages
<1>2. CASE ~PolicyIssue(New(text))
  BY <1>2, CheckQualityGood DEF CheckPolicy
<1> QED BY <1>1, <1>2

\* Delivering no calls is never wrong.
LEMMA DeliverNone ==
    ASSUME TypeOK, NEW text, NEW what \in {"text", "done", "error", "dropped"},
           Deliver(what, {}), what = "done" => WorkIsDone(text)
    PROVE  GoodAnswer(text)
BY NoCallsNoIssue DEF Deliver, GoodAnswer, TypeOK, Stages

\* Every answer of the bridge is a good one.
LEMMA ServeGood ==
    ASSUME TypeOK, Serve
    PROVE  (\E text \in Texts : GoodAnswer(text)) \/ GoodAnswer(NoAnswer)
<1>1. CASE \E text \in Texts :
            \/ FirstAnswer(text) \/ StreamedAnswer(text)
            \/ PolicyAnswer(text) \/ QualityAnswer(text) \/ MissingAnswer(text)
  <2>1. PICK text \in Texts :
            \/ FirstAnswer(text) \/ StreamedAnswer(text)
            \/ PolicyAnswer(text) \/ QualityAnswer(text) \/ MissingAnswer(text)
    BY <1>1
  <2>2. CASE FirstAnswer(text)
    BY <2>2, DeliverNone, CheckPolicyGood DEF FirstAnswer
  <2>3. CASE StreamedAnswer(text)
    <3>1. CASE DeliverText(text) /\ New(text) # {}
      BY <2>3, <3>1 DEF StreamedAnswer, DeliverText, Deliver, GoodAnswer, TypeOK, Stages
    <3>2. CASE Deliver("text", {})
      BY <3>2, DeliverNone
    <3> QED BY <2>3, <3>1, <3>2 DEF StreamedAnswer, DeliverText
  <2>4. CASE PolicyAnswer(text)
    BY <2>4, DeliverNone, CheckQualityGood DEF PolicyAnswer
  <2>5. CASE QualityAnswer(text)
    BY <2>5, DeliverNone, SettleGood DEF QualityAnswer
  <2>6. CASE MissingAnswer(text)
    BY <2>6, CheckPolicyGood DEF MissingAnswer
  <2> QED BY <2>1, <2>2, <2>3, <2>4, <2>5, <2>6
<1>2. CASE TryFallback
  BY <1>2 DEF TryFallback, Await, GoodAnswer, TypeOK, Stages
<1>3. CASE Fails
  BY <1>3, DeliverNone DEF Fails
<1> QED BY <1>1, <1>2, <1>3 DEF Serve

\* A good answer keeps the invariant while the transcript stays.
LEMMA GoodAnswerKeepsInv ==
    ASSUME Inv, NEW text, New(text) \subseteq Calls, GoodAnswer(text),
           UNCHANGED <<configVars, transcriptVars>>
    PROVE  Inv'
<1>1. TypeOK'
  BY DEF Inv, TypeOK, GoodAnswer, Stages
<1>2. FileDoneBacked'
  BY DEF Inv, FileDoneBacked, LooksFailed
<1>3. CASE answer' = answer
  BY <1>1, <1>2, <1>3 DEF Inv, NoRepeatedSuccess, PolicyKept, QualityKept, DoneMeansWorked,
       PolicyIssue, QualityIssue, LooksFailed
<1>4. ASSUME NEW calls \in {{}, New(text)},
             NEW what \in {"text", "calls", "done", "error", "dropped"},
             answer' = [what |-> what, calls |-> calls, from |-> stage],
             what = "done" => WorkIsDone(text),
             ~streaming => /\ ~QualityIssue(calls)
                           /\ PolicyIssue(calls) => stage = "quality"
      PROVE  Inv'
  <2>1. answer'.calls = calls /\ answer'.what = what /\ answer'.from = stage
    BY <1>4
  <2>2. NoRepeatedSuccess'
    BY <1>4, <2>1 DEF NoRepeatedSuccess, New
  <2>3. PolicyKept' /\ QualityKept'
    BY <1>4, <2>1 DEF PolicyKept, QualityKept, PolicyIssue, QualityIssue
  <2>4. what = "done" => \E words \in results : ~LooksFailed(words)
    BY <1>4 DEF Inv, FileDoneBacked, WorkIsDone, SuccessfulResult
  <2>5. DoneMeansWorked'
    BY <2>1, <2>4 DEF DoneMeansWorked, LooksFailed
  <2> QED BY <1>1, <1>2, <2>2, <2>3, <2>5 DEF Inv
<1> QED BY <1>3, <1>4 DEF GoodAnswer

\* The client's request starts from no answer; a result that marks a file as done
\* is among the results.
LEMMA ClientKeepsInv ==
    ASSUME Inv, UserSays \/ RunTools
    PROVE  Inv'
<1>1. answer' = NoAnswer /\ stage' = "ask" /\ second' = FALSE /\ UNCHANGED configVars
  BY DEF UserSays, RunTools, Send
<1>2. NoRepeatedSuccess' /\ PolicyKept' /\ QualityKept' /\ DoneMeansWorked'
  BY <1>1 DEF NoAnswer, NoRepeatedSuccess, PolicyKept, QualityKept, DoneMeansWorked,
       PolicyIssue, QualityIssue
<1>3. CASE UserSays
  <2>1. TypeOK'
    BY <1>1, <1>3, WishesAssumption DEF UserSays, Inv, TypeOK, NoAnswer, Stages
  <2>2. FileDoneBacked'
    BY <1>3 DEF UserSays, FileDoneBacked
  <2> QED BY <1>2, <2>1, <2>2 DEF Inv
<1>4. CASE RunTools
  <2>1. PICK of \in [answer.calls -> Results] :
          /\ results' = results \cup {of[c] : c \in answer.calls}
          /\ fileDone' = (fileDone \/ \E c \in answer.calls : FileAction(c, of[c]))
          /\ succeeded' = succeeded \cup {c \in answer.calls : Succeeded(of[c])}
    BY <1>4 DEF RunTools
  <2>2. wants' = wants /\ choice' = choice
    BY <1>4 DEF RunTools
  <2>3. TypeOK'
    <3>1. answer.calls \subseteq Calls
      BY DEF Inv, TypeOK
    <3>2. results' \subseteq Results
      BY <2>1 DEF Inv, TypeOK
    <3>3. succeeded' \subseteq Calls
      BY <2>1, <3>1 DEF Inv, TypeOK
    <3>4. fileDone' \in BOOLEAN
      BY <2>1 DEF Inv, TypeOK
    <3> QED BY <1>1, <2>2, <3>2, <3>3, <3>4 DEF Inv, TypeOK, NoAnswer, Stages
  <2>4. FileDoneBacked'
    <3>1. CASE fileDone
      BY <2>1, <3>1 DEF Inv, FileDoneBacked, LooksFailed
    <3>2. CASE \E c \in answer.calls : FileAction(c, of[c])
      BY <2>1, <3>2 DEF FileDoneBacked, FileAction, LooksFailed
    <3>3. CASE ~fileDone'
      BY <3>3 DEF FileDoneBacked
    <3> QED BY <2>1, <3>1, <3>2, <3>3
  <2> QED BY <1>2, <2>3, <2>4 DEF Inv
<1> QED BY <1>3, <1>4

LEMMA InitInv == Init => Inv
<1> SUFFICES ASSUME Init PROVE Inv
  OBVIOUS
<1>1. answer.calls = {} /\ answer.what = "none" /\ answer.from = "idle"
  BY DEF Init, NoAnswer
<1>2. TypeOK
  BY DEF Init, TypeOK, NoAnswer, Stages
<1>3. NoRepeatedSuccess /\ PolicyKept /\ QualityKept /\ DoneMeansWorked
  BY <1>1, NoCallsNoIssue DEF NoRepeatedSuccess, PolicyKept, QualityKept, DoneMeansWorked
<1>4. FileDoneBacked
  BY DEF Init, FileDoneBacked
<1> QED BY <1>2, <1>3, <1>4 DEF Inv

LEMMA NextInv == Inv /\ [Next]_vars => Inv'
<1> SUFFICES ASSUME Inv, [Next]_vars PROVE Inv'
  OBVIOUS
<1>1. CASE UserSays \/ RunTools
  BY <1>1, ClientKeepsInv
<1>2. CASE Serve
  <2>1. UNCHANGED <<configVars, transcriptVars>>
    BY <1>2 DEF Serve
  <2>2. TypeOK
    BY DEF Inv
  <2>3. CASE \E text \in Texts : GoodAnswer(text)
    <3>1. PICK text \in Texts : GoodAnswer(text)
      BY <2>3
    <3>2. New(text) \subseteq Calls
      BY TextsAssumption DEF New
    <3> QED BY <2>1, <3>1, <3>2, GoodAnswerKeepsInv
  <2>4. CASE GoodAnswer(NoAnswer)
    <3>1. New(NoAnswer) \subseteq Calls
      BY DEF New, NoAnswer
    <3> QED BY <2>1, <2>4, <3>1, GoodAnswerKeepsInv
  <2> QED BY <1>2, <2>2, <2>3, <2>4, ServeGood
<1>3. CASE UNCHANGED vars
  BY <1>3 DEF Inv, TypeOK, NoRepeatedSuccess, PolicyKept, QualityKept, DoneMeansWorked,
       FileDoneBacked, PolicyIssue, QualityIssue, LooksFailed
<1> QED BY <1>1, <1>2, <1>3 DEF Next

THEOREM InvHolds == Spec => []Inv
BY InitInv, NextInv, PTL DEF Spec

\* The variables keep their types through every conversation.
THEOREM TypeCorrect == Spec => []TypeOK
BY InvHolds, PTL DEF Inv

\* No call that has succeeded is ever given out again, for any calls and answers.
THEOREM NeverRepeats == Spec => []NoRepeatedSuccess
BY InvHolds, PTL DEF Inv

\* A call that breaks the file policy gets past it only from a quality retry.
THEOREM PolicyStands == Spec => []PolicyKept
BY InvHolds, PTL DEF Inv

\* A page of poor quality never gets past the quality gate.
THEOREM QualityStands == Spec => []QualityKept
BY InvHolds, PTL DEF Inv

\* Done. is only said when a tool has worked for the latest request of the user.
THEOREM DoneIsEarned == Spec => []DoneMeansWorked
BY InvHolds, PTL DEF Inv
------------------------------------------------------------------------------
(* One turn *)

\* The retry for a missing call is the second round of the checks.
SecondRound == stage = "missing" => second

LEMMA Left ==
    /\ stage = "ask" => AnswersLeft = 7
    /\ stage = "fallback" => AnswersLeft = 6
    /\ stage = "policy" => AnswersLeft = IF second THEN 2 ELSE 5
    /\ stage = "quality" => AnswersLeft = IF second THEN 1 ELSE 4
    /\ stage = "missing" /\ second => AnswersLeft = 3
    /\ stage' = "fallback" => AnswersLeft' = 6
    /\ stage' = "policy" => AnswersLeft' = IF second' THEN 2 ELSE 5
    /\ stage' = "quality" => AnswersLeft' = IF second' THEN 1 ELSE 4
    /\ stage' = "missing" /\ second' => AnswersLeft' = 3
    /\ stage' = "idle" => AnswersLeft' = 0
BY DEF AnswersLeft

\* Fewer answers are left, and the second round stays the second.
Shorter == AnswersLeft' < AnswersLeft /\ SecondRound'

LEMMA EndShorter ==
    ASSUME TypeOK, SecondRound, stage # "idle", stage' = "idle"
    PROVE  Shorter
BY Left DEF TypeOK, Stages, Shorter, SecondRound

LEMMA SettleShorter ==
    ASSUME TypeOK, SecondRound, stage # "idle", NEW text, Settle(text)
    PROVE  Shorter
<1>1. CASE ~second /\ AwaitMissing
  BY <1>1, Left DEF AwaitMissing, TypeOK, Stages, Shorter, SecondRound
<1>2. CASE DeliverText(text)
  BY <1>2, EndShorter DEF DeliverText, Deliver
<1> QED BY <1>1, <1>2 DEF Settle

LEMMA QualityShorter ==
    ASSUME TypeOK, SecondRound, stage \notin {"idle", "quality"}, NEW text, CheckQuality(text)
    PROVE  Shorter
<1>1. CASE Await("quality")
  BY <1>1, Left DEF Await, TypeOK, Stages, Shorter, SecondRound
<1> QED BY <1>1, SettleShorter DEF CheckQuality

LEMMA PolicyShorter ==
    ASSUME TypeOK, SecondRound, stage \notin {"idle", "policy", "quality"}, NEW text,
           CheckPolicy(text)
    PROVE  Shorter
<1>1. CASE Await("policy")
  BY <1>1, Left DEF Await, TypeOK, Stages, Shorter, SecondRound
<1> QED BY <1>1, QualityShorter DEF CheckPolicy

LEMMA ServeShorter ==
    ASSUME TypeOK, SecondRound, Serve
    PROVE  stage # "idle" /\ Shorter
<1>1. ASSUME NEW what, NEW calls, stage # "idle", Deliver(what, calls) PROVE Shorter
  BY <1>1, EndShorter DEF Deliver
<1>2. ASSUME NEW text, FirstAnswer(text) PROVE stage # "idle" /\ Shorter
  BY <1>1, <1>2, PolicyShorter DEF FirstAnswer
<1>3. ASSUME NEW text, StreamedAnswer(text) PROVE stage # "idle" /\ Shorter
  BY <1>1, <1>3 DEF StreamedAnswer, DeliverText
<1>4. ASSUME NEW text, PolicyAnswer(text) PROVE stage # "idle" /\ Shorter
  BY <1>1, <1>4, QualityShorter DEF PolicyAnswer
<1>5. ASSUME NEW text, QualityAnswer(text) PROVE stage # "idle" /\ Shorter
  BY <1>1, <1>5, SettleShorter DEF QualityAnswer
<1>6. ASSUME NEW text, MissingAnswer(text) PROVE stage # "idle" /\ Shorter
  BY <1>6, PolicyShorter DEF MissingAnswer
<1>7. CASE TryFallback
  BY <1>7, Left DEF TryFallback, Await, Shorter, SecondRound
<1>8. CASE Fails
  BY <1>1, <1>8 DEF Fails
<1> QED BY <1>2, <1>3, <1>4, <1>5, <1>6, <1>7, <1>8 DEF Serve

\* However ChatGPT answers, a turn asks it a bounded number of times.
THEOREM TurnsAreBounded == Spec => TurnIsBounded
<1>1. Init => SecondRound
  BY DEF Init, SecondRound
<1>2. TypeOK /\ SecondRound /\ [Next]_vars => SecondRound'
  <2> SUFFICES ASSUME TypeOK, SecondRound, [Next]_vars PROVE SecondRound'
    OBVIOUS
  <2>1. CASE UserSays \/ RunTools
    BY <2>1 DEF UserSays, RunTools, Send, SecondRound
  <2>2. CASE Serve
    BY <2>2, ServeShorter DEF Shorter
  <2> QED BY <2>1, <2>2 DEF Next, SecondRound
<1>3. TypeOK /\ SecondRound /\ [Next]_vars
        => [stage # "idle" => AnswersLeft' < AnswersLeft]_vars
  <2> SUFFICES ASSUME TypeOK, SecondRound, Next, stage # "idle"
               PROVE  AnswersLeft' < AnswersLeft
    OBVIOUS
  <2>1. Serve
    BY DEF Next, UserSays, RunTools
  <2> QED BY <2>1, ServeShorter DEF Shorter
<1> QED BY <1>1, <1>2, <1>3, TypeCorrect, PTL DEF Spec, TurnIsBounded
=============================================================================
