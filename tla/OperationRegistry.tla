-------------------------- MODULE OperationRegistry --------------------------
(***************************************************************************)
(* The in-memory registry of ChatGPT operations (openai_compat.py,         *)
(* _CHATGPT_OPERATIONS) as the deep-research jobs use it.  Every attempt   *)
(* of a job registers a new record under the same operation id; the        *)
(* provider reports the identifiers of its research session late; handlers *)
(* of other threads look the operation up, mark it and stop it.            *)
(*                                                                         *)
(* One job, and thus one operation id, is enough: operations share nothing *)
(* but the lock.  A record is identified by its number: the n-th attempt   *)
(* registers the n-th record.  The conversation, message and session       *)
(* identifiers, which the provider reports together, are represented by    *)
(* the account whose research they name.                                   *)
(***************************************************************************)
EXTENDS Naturals, Sequences

CONSTANTS Account,     \* accounts the attempt may go through
          Canceller,   \* threads that handle cancellations
          Runner,      \* the executor's thread
          None,        \* no account
          MaxRuns      \* max_attempts of the job

ASSUME RegistryAssumption ==
  /\ None \notin Account
  /\ Runner \notin Canceller
  /\ MaxRuns \in Nat \ {0}

Stopper == Canceller \cup {Runner}

VARIABLES jobStatus,   \* agent_jobs.status
          records,     \* all operations created under the id, oldest first
          current,     \* the record found under the id, 0: none
          pc,          \* where the executor is
          tried,       \* accounts its current attempt has gone through
          outcome,     \* what its current attempt has come to
          remote,      \* the research of each attempt and account at ChatGPT
          stopPc,      \* where each thread is in _stop_chatgpt_operation
          stopRecord,  \* the record it holds
          stopAccount, \* the provider it read from the record
          stopFailed   \* whether ChatGPT has ever refused a stop

registryVars == <<records, current>>
runnerVars == <<pc, tried, outcome>>
stopVars == <<stopPc, stopRecord, stopAccount>>
vars == <<jobStatus, registryVars, runnerVars, remote, stopVars, stopFailed>>

NewRecord == [account |-> None, session |-> None,
              cancel |-> FALSE, completed |-> FALSE]

Run == Len(records)

Init ==
  /\ jobStatus = "running"
  /\ records = << >>
  /\ current = 0
  /\ pc = "create"
  /\ tried = {}
  /\ outcome = "none"
  /\ remote = [n \in 1..MaxRuns |-> [a \in Account |-> "none"]]
  /\ stopPc = [s \in Stopper |-> "no"]
  /\ stopRecord = [s \in Stopper |-> 0]
  /\ stopAccount = [s \in Stopper |-> None]
  /\ stopFailed = FALSE

(***************************************************************************)
(* Stopping an operation.  The record is looked up twice under the lock;   *)
(* its fields are read after that without it.                              *)
(***************************************************************************)
StopGoto(s, label) == stopPc' = [stopPc EXCEPT ![s] = label]

StopKeeps == UNCHANGED <<jobStatus, runnerVars>>

Lookup(s) ==
  /\ stopPc[s] = "lookup"
  /\ StopGoto(s, IF current = 0 THEN "no" ELSE "mark")
  /\ stopRecord' = [stopRecord EXCEPT ![s] = current]
  /\ StopKeeps
  /\ UNCHANGED <<registryVars, remote, stopAccount, stopFailed>>

Mark(s) ==
  /\ stopPc[s] = "mark"
  /\ StopGoto(s, "provider")
  /\ \/ /\ current # 0
        /\ records' = [records EXCEPT ![current].cancel = TRUE]
        /\ stopRecord' = [stopRecord EXCEPT ![s] = current]
     \/ current = 0 /\ UNCHANGED <<records, stopRecord>>
  /\ StopKeeps
  /\ UNCHANGED <<current, remote, stopAccount, stopFailed>>

ReadProvider(s) ==
  LET account == records[stopRecord[s]].account IN
  /\ stopPc[s] = "provider"
  /\ StopGoto(s, IF account = None THEN "no" ELSE "session")
  /\ stopAccount' = [stopAccount EXCEPT ![s] = account]
  /\ StopKeeps
  /\ UNCHANGED <<registryVars, remote, stopRecord, stopFailed>>

StopResearch(n, a) ==
  remote' = [remote EXCEPT ![n][a] = IF @ = "running" THEN "stopped" ELSE @]

\* Wrong: an operation that has completed is not stopped any more.
StopUnlessCompleted(s) ==
  LET n == stopRecord[s]
      session == records[n].session IN
  /\ stopPc[s] = "session"
  /\ StopGoto(s, "no")
  /\ \/ /\ session = stopAccount[s] /\ ~records[n].completed
        /\ StopResearch(n, session)
        /\ UNCHANGED stopFailed
     \/ session = None /\ UNCHANGED <<remote, stopFailed>>
     \/ session # None /\ stopFailed' = TRUE /\ UNCHANGED remote
     \/ records[n].completed /\ UNCHANGED <<remote, stopFailed>>
  /\ StopKeeps
  /\ UNCHANGED <<registryVars, stopRecord, stopAccount>>

\* ChatGPT may refuse the call, and it does when the session is another
\* account's.
StopSession(s) ==
  LET n == stopRecord[s]
      session == records[n].session IN
  /\ stopPc[s] = "session"
  /\ StopGoto(s, "no")
  /\ \/ session = None /\ UNCHANGED <<remote, stopFailed>>
     \/ /\ session = stopAccount[s]
        /\ StopResearch(n, session)
        /\ UNCHANGED stopFailed
     \/ session # None /\ stopFailed' = TRUE /\ UNCHANGED remote
  /\ StopKeeps
  /\ UNCHANGED <<registryVars, stopRecord, stopAccount>>


(***************************************************************************)
(* Requests of clients.                                                    *)
(***************************************************************************)
\* POST /v1/agent/jobs/{id}/cancel: the job first, then the callback, also when
\* the job was being cancelled already.
CancelJob(c) ==
  /\ stopPc[c] = "no"
  /\ jobStatus \in {"running", "retry_wait", "cancel_requested"}
  /\ jobStatus' = "cancel_requested"
  /\ StopGoto(c, "lookup")
  /\ UNCHANGED <<registryVars, runnerVars, remote, stopRecord, stopAccount, stopFailed>>

\* POST /v1/chatgpt/operations/{id}/cancel.
CancelOperation(c) ==
  /\ stopPc[c] = "no"
  /\ current # 0
  /\ records' = [records EXCEPT ![current].cancel = TRUE]
  /\ StopGoto(c, "mark")
  /\ stopRecord' = [stopRecord EXCEPT ![c] = current]
  /\ UNCHANGED <<jobStatus, current, runnerVars, remote, stopAccount, stopFailed>>

\* GET /v1/chatgpt/operations/{id} drops a completed record that is old enough.
Prune ==
  /\ current # 0
  /\ records[current].completed
  /\ current' = 0
  /\ UNCHANGED <<jobStatus, records, runnerVars, remote, stopVars, stopFailed>>

\* The coordinator finalizes a job cancelled while it waited for a retry.
FinalizeCancelled ==
  /\ pc = "waiting"
  /\ jobStatus = "cancel_requested"
  /\ jobStatus' = "cancelled"
  /\ UNCHANGED <<registryVars, runnerVars, remote, stopVars, stopFailed>>

(***************************************************************************)
(* The executor.  It stops the operation itself in the places where the    *)
(* code calls _stop_chatgpt_operation_by_id, and goes on when that is done.*)
(***************************************************************************)
At(label) == pc = label /\ stopPc[Runner] = "no"

StopsItself == StopGoto(Runner, "lookup") /\ UNCHANGED <<stopRecord, stopAccount>>

RunnerKeeps == UNCHANGED <<jobStatus, stopFailed>>

Create ==
  /\ At("create")
  /\ records' = Append(records, NewRecord)
  /\ current' = Run + 1
  /\ pc' = "recheck"
  /\ tried' = {}
  /\ outcome' = "none"
  /\ RunnerKeeps
  /\ UNCHANGED <<remote, stopVars>>

\* Wrong: the job is not looked at again once its operation is registered.
RecheckSkipped ==
  /\ At("recheck")
  /\ pc' = "choose"
  /\ RunnerKeeps
  /\ UNCHANGED <<registryVars, tried, outcome, remote, stopVars>>

\* A job cancelled before its operation could be found by the callback.
Recheck ==
  /\ At("recheck")
  /\ IF jobStatus = "cancel_requested"
       THEN pc' = "settle" /\ outcome' = "cancelled" /\ StopsItself
       ELSE pc' = "choose" /\ UNCHANGED <<outcome, stopVars>>
  /\ RunnerKeeps
  /\ UNCHANGED <<registryVars, tried, remote>>

\* Fields are set under the lock; a stop requested before is repeated as soon as
\* the identifiers it needs are known.
Update(record) ==
  /\ records' = [records EXCEPT ![Run] = record]
  /\ UNCHANGED current
  /\ IF record.cancel /\ ~record.completed /\ record.session # None
       THEN StopsItself ELSE UNCHANGED stopVars

Bind(a) ==
  /\ At("choose")
  /\ a \notin tried
  /\ Update([records[Run] EXCEPT !.account = a])
  /\ tried' = tried \cup {a}
  /\ pc' = "post"
  /\ RunnerKeeps
  /\ UNCHANGED <<outcome, remote>>

\* The preflight refuses the account, before the operation knows of it.
Skip(a) ==
  /\ At("choose")
  /\ a \notin tried
  /\ tried' = tried \cup {a}
  /\ RunnerKeeps
  /\ UNCHANGED <<registryVars, pc, outcome, remote, stopVars>>

EndRun(result) == pc' = "finish" /\ outcome' = result

NoAccountLeft ==
  /\ At("choose")
  /\ EndRun("error")
  /\ RunnerKeeps
  /\ UNCHANGED <<registryVars, tried, remote, stopVars>>

\* After an error another account may be tried, if any is left.
NextAccount ==
  \/ tried # Account /\ pc' = "choose" /\ UNCHANGED outcome
  \/ EndRun("error")

\* The stop procedure catches what ChatGPT refuses; a request that does not get
\* through at all leaves it by an exception, which route and callback answer, and
\* which costs the executor its account.
StopRaises(s) ==
  /\ stopPc[s] = "session"
  /\ records[stopRecord[s]].session # None
  /\ StopGoto(s, "no")
  /\ stopFailed' = TRUE
  /\ IF s = Runner /\ pc \in {"post", "check"}
       THEN NextAccount ELSE UNCHANGED <<pc, outcome>>
  /\ UNCHANGED <<jobStatus, registryVars, tried, remote, stopRecord, stopAccount>>

StopStep(s) ==
  Lookup(s) \/ Mark(s) \/ ReadProvider(s) \/ StopSession(s) \/ StopRaises(s)

Post ==
  /\ At("post")
  /\ \/ /\ remote' = [remote EXCEPT ![Run][records[Run].account] = "running"]
        /\ pc' = "report"
        /\ UNCHANGED outcome
     \/ NextAccount /\ UNCHANGED remote
  /\ RunnerKeeps
  /\ UNCHANGED <<registryVars, tried, stopVars>>

Report ==
  /\ At("report")
  /\ Update([records[Run] EXCEPT !.session = records[Run].account])
  /\ pc' = "check"
  /\ RunnerKeeps
  /\ UNCHANGED <<tried, outcome, remote>>

\* The transport stops its own session, whatever account the record names.
StopOwnSession ==
  \/ /\ StopResearch(Run, records[Run].account)
     /\ EndRun("cancelled")
     /\ UNCHANGED stopFailed
  \/ stopFailed' = TRUE /\ NextAccount /\ UNCHANGED remote

CheckCancelled ==
  /\ At("check") \/ At("poll")
  /\ \/ records[Run].cancel /\ StopOwnSession
     \/ /\ ~records[Run].cancel
        /\ pc = "check"
        /\ pc' = "poll"
        /\ UNCHANGED <<outcome, remote, stopFailed>>
  /\ UNCHANGED <<jobStatus, registryVars, tried, stopVars>>

\* An answer, or an error, may come at any time, also just before the transport
\* looks whether it was cancelled.
Answer ==
  /\ At("report") \/ At("poll")
  /\ remote' = [remote EXCEPT ![Run][records[Run].account] =
                  IF @ = "running" THEN "ended" ELSE @]
  /\ EndRun("answered")
  /\ RunnerKeeps
  /\ UNCHANGED <<registryVars, tried, stopVars>>

Error ==
  /\ At("report") \/ At("poll")
  /\ NextAccount
  /\ RunnerKeeps
  /\ UNCHANGED <<registryVars, tried, remote, stopVars>>

Finish ==
  /\ At("finish")
  /\ Update([records[Run] EXCEPT !.completed = TRUE])
  /\ pc' = "settle"
  /\ RunnerKeeps
  /\ UNCHANGED <<tried, outcome, remote>>

\* What the executor makes of the attempt; the lost cancellation of
\* AgentJobExecution leaves the job as it is.
Settle ==
  /\ At("settle")
  /\ \/ /\ jobStatus = "running" /\ outcome = "answered"
        /\ jobStatus' = "succeeded"
        /\ pc' = "done"
     \/ /\ jobStatus = "running" /\ outcome # "answered"
        /\ jobStatus' = "failed"
        /\ pc' = "done"
     \/ /\ jobStatus = "running" /\ outcome = "error" /\ Run < MaxRuns
        /\ jobStatus' = "retry_wait"
        /\ pc' = "waiting"
     \/ /\ jobStatus = "cancel_requested"
        /\ jobStatus' \in {"cancelled", "cancel_requested"}
        /\ pc' = "done"
  /\ UNCHANGED <<registryVars, tried, outcome, remote, stopVars, stopFailed>>

\* The job is promoted and claimed again.
Retry ==
  /\ At("waiting")
  /\ jobStatus = "retry_wait"
  /\ jobStatus' = "running"
  /\ pc' = "create"
  /\ UNCHANGED <<registryVars, tried, outcome, remote, stopVars, stopFailed>>

ChooseStep == NoAccountLeft \/ \E a \in Account : Bind(a) \/ Skip(a)

RunnerStep ==
  \/ Create \/ Recheck \/ ChooseStep \/ Post \/ Report \/ CheckCancelled
  \/ Answer \/ Error \/ Finish \/ Settle \/ Retry

Next ==
  \/ RunnerStep \/ FinalizeCancelled \/ Prune
  \/ \E s \in Stopper : StopStep(s)
  \/ \E c \in Canceller : CancelJob(c) \/ CancelOperation(c)

Spec == Init /\ [][Next]_vars

(***************************************************************************)
(* Threads make progress, and the request that starts a research returns   *)
(* its first events; the research itself may take for ever.                *)
(***************************************************************************)
Fairness ==
  /\ WF_vars(Create \/ Recheck \/ ChooseStep \/ Post \/ Finish \/ Settle)
  /\ WF_vars(Report \/ (pc = "report" /\ (Answer \/ Error)))
  /\ WF_vars(CheckCancelled)
  /\ \A s \in Stopper : WF_vars(StopStep(s))

FairSpec == Spec /\ Fairness

(***************************************************************************)
(* Properties.                                                             *)
(***************************************************************************)
Label == {"create", "recheck", "choose", "post", "report", "check", "poll",
          "finish", "settle", "waiting", "done"}

TypeOK ==
  /\ jobStatus \in {"running", "retry_wait", "cancel_requested", "cancelled",
                    "succeeded", "failed"}
  /\ records \in Seq([account : Account \cup {None}, session : Account \cup {None},
                      cancel : BOOLEAN, completed : BOOLEAN])
  /\ Run \in 0..MaxRuns
  /\ current \in 0..Run
  /\ pc \in Label
  /\ tried \subseteq Account
  /\ outcome \in {"none", "answered", "cancelled", "error"}
  /\ remote \in [1..MaxRuns -> [Account -> {"none", "running", "stopped", "ended"}]]
  /\ stopPc \in [Stopper -> {"no", "lookup", "mark", "provider", "session"}]
  /\ stopRecord \in [Stopper -> 0..Run]
  /\ stopAccount \in [Stopper -> Account \cup {None}]
  /\ stopFailed \in BOOLEAN

Calling == {"choose", "post", "report", "check", "poll"}

\* A cancellation of the job is never missed by the attempt in progress: once the
\* callback has run, either the operation is marked or the executor has yet to look
\* at the job again.  The callback may run before the operation exists, or find the
\* operation of the attempt before.
CancelReachesOperation ==
  /\ pc \in Calling
  /\ jobStatus = "cancel_requested"
  /\ \A c \in Canceller : stopPc[c] \notin {"lookup", "mark"}
  => records[Run].cancel

\* When a cancelled job has come to rest, the research its operation names does not
\* go on at ChatGPT, unless a stop was refused: it does not matter whether the
\* identifiers arrived before, during or after the cancellation, or the attempt had
\* already ended in an error.
CancelledResearchIsStopped ==
  /\ jobStatus \in {"cancel_requested", "cancelled"}
  /\ pc \in {"waiting", "done"}
  /\ \A s \in Stopper : stopPc[s] = "no"
  /\ current # 0
  /\ ~stopFailed
  => \A a \in Account : records[current].session = a => remote[current][a] # "running"

\* An attempt whose job is cancelled ends without waiting for the research.
CancelledAttemptEnds ==
  jobStatus = "cancel_requested" /\ pc \in Calling ~> pc \notin Calling

(***************************************************************************)
(* What the documentation says and the code does not do.                   *)
(***************************************************************************)
\* README.md: once deep_research_ready is shown, the stop call may be expected to
\* happen immediately.  It is shown when the identifiers are set; the stop call
\* needs them to be those of the account that is bound.
ReadyMeansStoppable ==
  current # 0 =>
    LET operation == records[current] IN
    operation.session # None /\ ~operation.completed
      => operation.session = operation.account
=============================================================================
