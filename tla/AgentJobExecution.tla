------------------------- MODULE AgentJobExecution -------------------------
(***************************************************************************)
(* The bridge processes around the agent-job repository: submission and    *)
(* cancellation handlers (agent_job_routes.py), the coordinator loop       *)
(* (agent_job_coordinator.py), the executor with its lease renewer         *)
(* (openai_compat.py, _build_agent_job_executor), the request, response    *)
(* and report files, crashes and restarts.                                 *)
(*                                                                         *)
(* One step is at most one repository transaction or one file replacement: *)
(* between any two of them another thread may run or the process may die.  *)
(***************************************************************************)
EXTENDS AgentJobs

CONSTANTS Worker,       \* bridge processes that share the database
          Research,     \* the jobs of type deep_research, the others are chat
          NoJob,        \* no job in hand
          MaxCrashes,   \* bound: how often a process may die
          MaxFaults     \* bound: how often the storage may refuse an operation

ASSUME ExecutionAssumption ==
  /\ Worker # {}
  /\ Research \subseteq Job
  /\ NoJob \notin Job
  /\ MaxCrashes \in Nat
  /\ MaxFaults \in Nat

VARIABLES pc,            \* where the coordinator thread of a process is
          job,           \* the job its executor works on
          attempt,       \* claim.attempt_no, which also names the lease owner
          stale,         \* the stale jobs its startup recovery has read
          leaseLost,     \* the executor's lease_lost event
          renewing,      \* whether its renewer thread runs
          outcome,       \* what became of the attempt, and what is done about it
          submit,        \* progress of the handler that submits a job
          submitAt,      \* the process that handler runs in
          requestFile,   \* jobs whose request.json is on disk
          responseFile,  \* the attempt that last wrote response.json, 0: none
          artifacts,     \* attempts whose report has a row in artifacts
          crashes, faults

workerVars == <<pc, stale, job, attempt, leaseLost, renewing, outcome>>
submitVars == <<submit, submitAt>>
fileVars == <<requestFile, responseFile, artifacts>>
boundVars == <<crashes, faults>>
vars == <<repoVars, workerVars, submitVars, fileVars, boundVars>>

\* Inside the executor's try block any exception ends in "failing"; outside of
\* it, it escapes to the coordinator loop, which logs it and goes on.
TryPcs == {"load", "check", "recheck", "provider", "verify", "register",
           "write", "complete", "lostRace", "finish",
           "cancelAttempt", "cancelJob"}
TailPcs == {"failing", "failAttempt", "retry", "fail",
            "tailCancelAttempt", "tailCancelJob"}
CyclePcs == {"idle", "finalize", "select", "claim"}
Pc == TryPcs \cup TailPcs \cup CyclePcs \cup {"down", "recover"}

NothingStale == [j \in Job |-> 0]

Init ==
  /\ RepoInit
  /\ pc = [w \in Worker |-> "down"]
  /\ stale = [w \in Worker |-> NothingStale]
  /\ job = [w \in Worker |-> NoJob]
  /\ attempt = [w \in Worker |-> 0]
  /\ leaseLost = [w \in Worker |-> FALSE]
  /\ renewing = [w \in Worker |-> FALSE]
  /\ outcome = [w \in Worker |-> "none"]
  /\ submit = [j \in Job |-> "none"]
  /\ submitAt = [j \in Job |-> CHOOSE w \in Worker : TRUE]
  /\ requestFile = {}
  /\ responseFile = [j \in Job |-> 0]
  /\ artifacts = [j \in Job |-> {}]
  /\ crashes = 0
  /\ faults = 0

Goto(w, label) == pc' = [pc EXCEPT ![w] = label]

KeepJob == UNCHANGED <<stale, job, attempt, leaseLost, renewing, outcome>>

\* The executor returns, or an exception leaves it.
Drop(w, label) ==
  /\ Goto(w, label)
  /\ stale' = [stale EXCEPT ![w] = NothingStale]
  /\ job' = [job EXCEPT ![w] = NoJob]
  /\ attempt' = [attempt EXCEPT ![w] = 0]
  /\ leaseLost' = [leaseLost EXCEPT ![w] = FALSE]
  /\ renewing' = [renewing EXCEPT ![w] = FALSE]
  /\ outcome' = [outcome EXCEPT ![w] = "none"]

\* An exception inside the try block: its handler decides whether the error may
\* be retried.  The renewer runs until the finally clause has joined it.
Raise(w, error) ==
  /\ Goto(w, "failing")
  /\ outcome' = [outcome EXCEPT ![w] = error]
  /\ UNCHANGED <<stale, job, attempt, leaseLost, renewing>>

(***************************************************************************)
(* Submission, POST /v1/agent/jobs.                                        *)
(***************************************************************************)
Serving(w) == pc[w] \notin {"down", "recover"}

Create(w, j) ==
  /\ Serving(w)
  /\ submit[j] = "none"
  /\ CreateJob(j)
  /\ submit' = [submit EXCEPT ![j] = "accepted"]
  /\ submitAt' = [submitAt EXCEPT ![j] = w]
  /\ UNCHANGED <<workerVars, fileVars, boundVars>>

SubmitTo(j, label) ==
  /\ submit' = [submit EXCEPT ![j] = label]
  /\ UNCHANGED <<submitAt, workerVars, boundVars>>

Validate(j) ==
  /\ submit[j] = "accepted"
  /\ UNCHANGED fileVars
  /\ \/ /\ Transition(j, "accepted", "validating")
        /\ SubmitTo(j, "persist")
     \/ /\ status[j] # "accepted"
        /\ SubmitTo(j, "reject")
        /\ UNCHANGED repoVars

\* Wrong: a failed write is not noticed.
PersistUnchecked(j) ==
  /\ submit[j] = "persist"
  /\ requestFile' \in {requestFile, requestFile \cup {j}}
  /\ SubmitTo(j, "enqueue")
  /\ UNCHANGED <<repoVars, responseFile, artifacts>>

PersistRequest(j) ==
  /\ submit[j] = "persist"
  /\ UNCHANGED <<repoVars, responseFile, artifacts>>
  /\ \/ /\ requestFile' = requestFile \cup {j}
        /\ SubmitTo(j, "enqueue")
     \/ /\ requestFile' = requestFile
        /\ SubmitTo(j, "reject")

Reject(j) ==
  /\ submit[j] = "reject"
  /\ SubmitTo(j, "done")
  /\ UNCHANGED fileVars
  /\ \/ Transition(j, "validating", "failed")
     \/ status[j] # "validating" /\ UNCHANGED repoVars

Enqueue(j) ==
  /\ submit[j] = "enqueue"
  /\ SubmitTo(j, "done")
  /\ UNCHANGED fileVars
  /\ \/ Transition(j, "validating", "queued")
     \/ status[j] # "validating" /\ UNCHANGED repoVars

SubmitStep(j) == Validate(j) \/ PersistRequest(j) \/ Reject(j) \/ Enqueue(j)

(***************************************************************************)
(* Cancellation, POST /v1/agent/jobs/{id}/cancel.  The handler reads the   *)
(* status and updates the row only if it still has it, so a cancel that    *)
(* takes effect does so atomically; one that loses the race changes        *)
(* nothing.                                                                *)
(***************************************************************************)
Cancel(j) ==
  /\ \E w \in Worker : Serving(w)
  /\ RequestCancel(j)
  /\ UNCHANGED <<workerVars, submitVars, fileVars, boundVars>>

(***************************************************************************)
(* The coordinator: recovery at the start, before the process serves any   *)
(* request, then one cycle after another.                                  *)
(***************************************************************************)
Start(w) ==
  /\ pc[w] = "down"
  /\ Goto(w, "recover")
  /\ stale' = [stale EXCEPT ![w] = StaleJobs]
  /\ UNCHANGED <<job, attempt, leaseLost, renewing, outcome>>
  /\ UNCHANGED <<repoVars, submitVars, fileVars, boundVars>>

Recover(w) ==
  /\ pc[w] = "recover"
  /\ RecoverStaleJobs(stale[w])
  /\ Drop(w, "idle")
  /\ UNCHANGED <<submitVars, fileVars, boundVars>>

Promote(w) ==
  /\ pc[w] = "idle"
  /\ PromoteDueRetries
  /\ Goto(w, "finalize")
  /\ KeepJob
  /\ UNCHANGED <<submitVars, fileVars, boundVars>>

FinalizeCancellations(w) ==
  /\ pc[w] = "finalize"
  /\ FinalizePendingCancellations
  /\ Goto(w, "select")
  /\ KeepJob
  /\ UNCHANGED <<submitVars, fileVars, boundVars>>

\* The order among queued jobs is left open here.
SelectJob(w) ==
  /\ pc[w] = "select"
  /\ \/ \E j \in Job :
          /\ status[j] = "queued"
          /\ job' = [job EXCEPT ![w] = j]
          /\ Goto(w, "claim")
     \/ /\ \A j \in Job : status[j] # "queued"
        /\ UNCHANGED job
        /\ Goto(w, "idle")
  /\ UNCHANGED <<stale, attempt, leaseLost, renewing, outcome>>
  /\ UNCHANGED <<repoVars, submitVars, fileVars, boundVars>>

Claim(w) ==
  /\ pc[w] = "claim"
  /\ UNCHANGED <<submitVars, fileVars, boundVars>>
  /\ \/ /\ ClaimJob(job[w])
        /\ Goto(w, "load")
        /\ attempt' = [attempt EXCEPT ![w] = attemptCount[job[w]] + 1]
        /\ renewing' = [renewing EXCEPT ![w] = TRUE]
        /\ UNCHANGED <<stale, job, leaseLost, outcome>>
     \/ /\ status[job[w]] # "queued"
        /\ Drop(w, "idle")
        /\ UNCHANGED repoVars

CoordinatorStep(w) ==
  \/ Start(w) \/ Recover(w) \/ Promote(w) \/ FinalizeCancellations(w)
  \/ SelectJob(w) \/ Claim(w)

(***************************************************************************)
(* The lease renewer.  It stops, and tells the executor, when the lease is *)
(* no longer its own or the job no longer executes.                        *)
(***************************************************************************)
Renew(w) ==
  /\ renewing[w]
  /\ UNCHANGED <<pc, stale, job, attempt, outcome>>
  /\ UNCHANGED <<submitVars, fileVars, boundVars>>
  /\ \/ /\ RenewLease(job[w], attempt[w])
        /\ UNCHANGED <<leaseLost, renewing>>
     \/ /\ ~LeaseRenewable(job[w], attempt[w])
        /\ leaseLost' = [leaseLost EXCEPT ![w] = TRUE]
        /\ renewing' = [renewing EXCEPT ![w] = FALSE]
        /\ UNCHANGED repoVars

(***************************************************************************)
(* The executor, from the claimed job to its result.                       *)
(***************************************************************************)
MustStop(w) == status[job[w]] = "cancel_requested" \/ leaseLost[w]

LoadRequest(w) ==
  /\ pc[w] = "load"
  /\ IF job[w] \in requestFile THEN Goto(w, "check") /\ KeepJob
                               ELSE Raise(w, "fatal")
  /\ UNCHANGED <<repoVars, submitVars, fileVars, boundVars>>

\* The three places where the executor looks at the persisted job before it
\* goes on; a research job is checked once more when its operation exists.
AfterCheck(w) ==
  CASE pc[w] = "check"   -> IF job[w] \in Research THEN "recheck" ELSE "provider"
    [] pc[w] = "recheck" -> "provider"
    [] pc[w] = "verify"  -> IF job[w] \in Research THEN "register" ELSE "write"

CheckCancelled(w) ==
  /\ pc[w] \in {"check", "recheck", "verify"}
  /\ Goto(w, IF MustStop(w) THEN "cancelAttempt" ELSE AfterCheck(w))
  /\ KeepJob
  /\ UNCHANGED <<repoVars, submitVars, fileVars, boundVars>>

ProviderReturns(w) ==
  /\ pc[w] = "provider"
  /\ \/ Goto(w, "verify") /\ KeepJob
     \/ \E error \in {"retryable", "fatal"} : Raise(w, error)
  /\ UNCHANGED <<repoVars, submitVars, fileVars, boundVars>>

RegisterArtifact(w) ==
  /\ pc[w] = "register"
  /\ \/ /\ artifacts' = [artifacts EXCEPT ![job[w]] = @ \cup {attempt[w]}]
        /\ Goto(w, "write") /\ KeepJob
     \/ artifacts' = artifacts /\ Raise(w, "fatal")
  /\ UNCHANGED <<repoVars, submitVars, requestFile, responseFile, boundVars>>

\* Wrong: a failed write is not noticed.
WriteUnchecked(w) ==
  /\ pc[w] = "write"
  /\ responseFile' \in {responseFile,
                       [responseFile EXCEPT ![job[w]] = attempt[w]]}
  /\ Goto(w, "complete") /\ KeepJob
  /\ UNCHANGED <<repoVars, submitVars, requestFile, artifacts, boundVars>>

WriteResponse(w) ==
  /\ pc[w] = "write"
  /\ \/ /\ responseFile' = [responseFile EXCEPT ![job[w]] = attempt[w]]
        /\ Goto(w, "complete") /\ KeepJob
     \/ responseFile' = responseFile /\ Raise(w, "fatal")
  /\ UNCHANGED <<repoVars, submitVars, requestFile, artifacts, boundVars>>

\* Wrong: a lost race is taken for success.
CompleteIgnoresRace(w) ==
  /\ pc[w] = "complete"
  /\ UNCHANGED <<submitVars, fileVars, boundVars>>
  /\ Goto(w, "finish") /\ KeepJob
  /\ \/ CompleteJobWithResult(job[w], attempt[w])
     \/ status[job[w]] # "running" /\ UNCHANGED repoVars

\* A chat job that lost the race raises; a research job withdraws its report
\* first (ignoring any error of that) and then looks why.
Complete(w) ==
  /\ pc[w] = "complete"
  /\ UNCHANGED <<submitVars, requestFile, responseFile, boundVars>>
  /\ \/ /\ CompleteJobWithResult(job[w], attempt[w])
        /\ Goto(w, "finish") /\ KeepJob
        /\ UNCHANGED artifacts
     \/ /\ status[job[w]] # "running"
        /\ UNCHANGED repoVars
        /\ IF job[w] \in Research
             THEN /\ artifacts' \in
                       {artifacts,
                        [artifacts EXCEPT ![job[w]] = @ \ {attempt[w]}]}
                  /\ Goto(w, "lostRace") /\ KeepJob
             ELSE UNCHANGED artifacts /\ Raise(w, "fatal")

LostRace(w) ==
  /\ pc[w] = "lostRace"
  /\ IF MustStop(w) THEN Goto(w, "cancelAttempt") /\ KeepJob
                    ELSE Raise(w, "fatal")
  /\ UNCHANGED <<repoVars, submitVars, fileVars, boundVars>>

Finish(w) ==
  /\ pc[w] = "finish"
  /\ FinishAttempt(job[w], attempt[w], "succeeded")
  /\ Drop(w, "idle")
  /\ UNCHANGED <<submitVars, fileVars, boundVars>>

(***************************************************************************)
(* After an error: the renewer is stopped, the job is read once, and what  *)
(* was read decides whether the attempt is retried, failed or left alone.  *)
(***************************************************************************)
Verdict(w) ==
  IF status[job[w]] # "running" THEN "leave"
  ELSE IF outcome[w] = "retryable" /\ attemptCount[job[w]] < MaxAttempts[job[w]]
    THEN "retry" ELSE "fail"

ReadAfterError(w) ==
  /\ pc[w] = "failing"
  /\ renewing' = [renewing EXCEPT ![w] = FALSE]
  /\ IF MustStop(w)
       THEN Goto(w, "tailCancelAttempt") /\ UNCHANGED outcome
       ELSE /\ Goto(w, "failAttempt")
            /\ outcome' = [outcome EXCEPT ![w] = Verdict(w)]
  /\ UNCHANGED <<stale, job, attempt, leaseLost>>
  /\ UNCHANGED <<repoVars, submitVars, fileVars, boundVars>>

\* Wrong: the attempt is closed and the job forgotten.
FailAttemptOnly(w) ==
  /\ pc[w] = "failAttempt"
  /\ FinishAttempt(job[w], attempt[w], "failed")
  /\ Drop(w, "idle")
  /\ UNCHANGED <<submitVars, fileVars, boundVars>>

\* Wrong: the report of an attempt that ended in an error is withdrawn.
FailAttemptCleansUp(w) ==
  /\ pc[w] = "failAttempt"
  /\ FinishAttempt(job[w], attempt[w], "failed")
  /\ IF outcome[w] = "leave" THEN Drop(w, "idle")
                             ELSE Goto(w, outcome[w]) /\ KeepJob
  /\ artifacts' = [artifacts EXCEPT ![job[w]] = @ \ {attempt[w]}]
  /\ UNCHANGED <<submitVars, requestFile, responseFile, boundVars>>

FailAttempt(w) ==
  /\ pc[w] = "failAttempt"
  /\ FinishAttempt(job[w], attempt[w], "failed")
  /\ IF outcome[w] = "leave" THEN Drop(w, "idle")
                             ELSE Goto(w, outcome[w]) /\ KeepJob
  /\ UNCHANGED <<submitVars, fileVars, boundVars>>

\* If the status has changed since it was read, InvalidTransition leaves the
\* executor and nobody handles the job any further.
Retry(w) ==
  /\ pc[w] = "retry"
  /\ ScheduleRetry(job[w]) \/ (status[job[w]] # "running" /\ UNCHANGED repoVars)
  /\ Drop(w, "idle")
  /\ UNCHANGED <<submitVars, fileVars, boundVars>>

Fail(w) ==
  /\ pc[w] = "fail"
  /\ \/ Transition(job[w], "running", "failed")
     \/ status[job[w]] # "running" /\ UNCHANGED repoVars
  /\ Drop(w, "idle")
  /\ UNCHANGED <<submitVars, fileVars, boundVars>>

\* finalize_cancelled, called inside the try block and after it.
CancelAttempt(w) ==
  /\ pc[w] \in {"cancelAttempt", "tailCancelAttempt"}
  /\ FinishAttempt(job[w], attempt[w], "cancelled")
  /\ Goto(w, IF pc[w] \in TryPcs THEN "cancelJob" ELSE "tailCancelJob")
  /\ KeepJob
  /\ UNCHANGED <<submitVars, fileVars, boundVars>>

CancelJob(w) ==
  /\ pc[w] \in {"cancelJob", "tailCancelJob"}
  /\ \/ Transition(job[w], "cancel_requested", "cancelled")
     \/ status[job[w]] # "cancel_requested" /\ UNCHANGED repoVars
  /\ Drop(w, "idle")
  /\ UNCHANGED <<submitVars, fileVars, boundVars>>

ExecutorStep(w) ==
  \/ LoadRequest(w) \/ CheckCancelled(w) \/ ProviderReturns(w)
  \/ RegisterArtifact(w) \/ WriteResponse(w) \/ Complete(w) \/ LostRace(w)
  \/ Finish(w) \/ ReadAfterError(w) \/ FailAttempt(w) \/ Retry(w) \/ Fail(w)
  \/ CancelAttempt(w) \/ CancelJob(w)

(***************************************************************************)
(* Faults.  A storage operation may be refused (SQLite stays locked longer *)
(* than busy_timeout, the disk is full); a process may die, and everything *)
(* it had in memory is gone.                                               *)
(***************************************************************************)
\* An exception ends the renewer thread; nobody tells the executor.
RenewerDies(w) ==
  /\ renewing[w]
  /\ renewing' = [renewing EXCEPT ![w] = FALSE]
  /\ UNCHANGED <<pc, stale, job, attempt, leaseLost, outcome>>

WorkerFault(w) ==
  /\ faults < MaxFaults
  /\ faults' = faults + 1
  /\ \/ pc[w] \in TryPcs /\ Raise(w, "fatal")
     \/ pc[w] \in TailPcs \cup {"finalize", "select", "claim"} /\ Drop(w, "idle")
     \/ RenewerDies(w)
  /\ UNCHANGED <<repoVars, submitVars, fileVars, crashes>>

SubmitFault(j) ==
  /\ faults < MaxFaults
  /\ faults' = faults + 1
  /\ \/ submit[j] \in {"accepted", "persist"}
        /\ submit' = [submit EXCEPT ![j] = "reject"]
     \/ submit[j] \in {"reject", "enqueue"}
        /\ submit' = [submit EXCEPT ![j] = "done"]
  /\ UNCHANGED <<repoVars, workerVars, submitAt, fileVars, crashes>>

Crash(w) ==
  /\ pc[w] # "down"
  /\ crashes < MaxCrashes
  /\ crashes' = crashes + 1
  /\ Drop(w, "down")
  /\ submit' = [j \in Job |-> IF submitAt[j] = w /\ submit[j] # "none"
                                THEN "done" ELSE submit[j]]
  /\ UNCHANGED <<repoVars, submitAt, fileVars, faults>>

LeaseDeadline(j) ==
  LeaseLapses(j) /\ UNCHANGED <<workerVars, submitVars, fileVars, boundVars>>

RetryDeadline(j) ==
  BackoffElapses(j) /\ UNCHANGED <<workerVars, submitVars, fileVars, boundVars>>

Next ==
  \/ \E w \in Worker : \/ CoordinatorStep(w) \/ Renew(w) \/ ExecutorStep(w)
                       \/ WorkerFault(w) \/ Crash(w)
                       \/ \E j \in Job : Create(w, j)
  \/ \E j \in Job : \/ SubmitStep(j) \/ Cancel(j) \/ SubmitFault(j)
                    \/ LeaseDeadline(j) \/ RetryDeadline(j)

Spec == Init /\ [][Next]_vars

(***************************************************************************)
(* A process that is up keeps running its coordinator thread, which polls  *)
(* once a second; a process that is down is started again; a provider call *)
(* returns, with an answer or an error; handlers run to their end; a       *)
(* backoff elapses.  Clients need never submit or cancel anything.         *)
(***************************************************************************)
Fairness ==
  /\ \A w \in Worker : WF_vars(CoordinatorStep(w) \/ ExecutorStep(w))
  /\ \A w \in Worker : WF_vars(Renew(w))
  /\ \A j \in Job : WF_vars(SubmitStep(j))
  /\ \A j \in Job : WF_vars(RetryDeadline(j))

FairSpec == Spec /\ Fairness

(***************************************************************************)
(* Safety.                                                                 *)
(***************************************************************************)
TypeOK ==
  /\ RepoTypeOK
  /\ pc \in [Worker -> Pc]
  /\ stale \in [Worker -> [Job -> Nat]]
  /\ job \in [Worker -> Job \cup {NoJob}]
  /\ attempt \in [Worker -> Nat]
  /\ leaseLost \in [Worker -> BOOLEAN]
  /\ renewing \in [Worker -> BOOLEAN]
  /\ outcome \in [Worker -> {"none", "retryable", "fatal", "retry", "fail", "leave"}]
  /\ submit \in [Job -> {"none", "accepted", "persist", "reject", "enqueue", "done"}]
  /\ submitAt \in [Job -> Worker]
  /\ requestFile \in SUBSET Job
  /\ responseFile \in [Job -> Nat]
  /\ artifacts \in [Job -> SUBSET Nat]
  /\ crashes \in Nat
  /\ faults \in Nat

\* What a worker may pick up has its request on disk: the file is in place
\* before the job is queued, and no crash, cancellation or retry undoes that.
RequestPersisted ==
  \A j \in Job : status[j] \in {"queued", "running", "retry_wait", "succeeded"}
                   => j \in requestFile

\* A job never waits for an attempt it has no budget for, so that no path through
\* retries, crashes and recoveries runs it more often than max_attempts.
AttemptBudget ==
  \A j \in Job :
    /\ attemptCount[j] <= MaxAttempts[j]
    /\ status[j] \in {"accepted", "validating", "queued", "retry_wait"}
         => attemptCount[j] < MaxAttempts[j]

\* The result that is exposed is backed by the files of the attempt that produced
\* it: its response.json and, for research, its report among the artifacts.
ResultBacked ==
  \A j \in Job : result[j] # 0 =>
    /\ responseFile[j] = result[j]
    /\ j \in Research => result[j] \in artifacts[j]

\* What a client has fetched does not change under it: once a job has its result, no
\* late writer, error path, retry or recovery touches its response or its reports.
ResultIsFinal ==
  [][\A j \in Job : result[j] # 0
                     => UNCHANGED <<result[j], responseFile[j], artifacts[j]>>]_vars

\* An attempt is recorded as succeeded only if it is the one whose result the job
\* has, even when several processes believed to own the job.
SucceededAttemptHasResult ==
  \A j \in Job : \A n \in DOMAIN attempts[j] :
    attempts[j][n] = "succeeded" => result[j] = n

\* Without a crash or a refused storage operation no executing job is orphaned:
\* some executor works on its newest attempt.
ExecutingJobInHand ==
  crashes = 0 /\ faults = 0 =>
    \A j \in Job : status[j] \in ActiveExecution =>
      \E w \in Worker : job[w] = j /\ attempt[w] = attemptCount[j]

\* A lease that had run out is extended only on behalf of the newest claim: an
\* executor that was stalled past its lease cannot keep a job that another
\* process has meanwhile claimed.
LeaseRenewedByOwner ==
  [][\A j \in Job :
       leaseExpired[j] /\ ~leaseExpired'[j] /\ leaseOwner'[j] # 0
         => \E w \in Worker : /\ renewing[w] /\ job[w] = j
                              /\ attempt[w] = attemptCount[j]
                              /\ UNCHANGED <<pc, status>>]_vars

\* The client's view of the jobs: JobLifecycle, with statuses grouped into phases.
PhaseOf(s) ==
  CASE s \in {"accepted", "validating", "queued", "retry_wait"} -> "waiting"
    [] s \in ActiveExecution    -> "executing"
    [] s = "cancel_requested"   -> "cancelling"
    [] OTHER                    -> s

Lifecycle == INSTANCE JobLifecycle
               WITH phase <- [j \in Job |-> PhaseOf(status[j])],
                    tries <- attemptCount,
                    answered <- [j \in Job |-> result[j] # 0]

ImplementsLifecycle == Lifecycle!Spec

(***************************************************************************)
(* Liveness.                                                               *)
(***************************************************************************)
\* As long as nothing crashes or is refused, every submitted job is settled:
\* it reaches a terminal status, or a cancellation is recorded for it.
SubmittedJobsSettle ==
  [](crashes = 0 /\ faults = 0) =>
    \A j \in Job : status[j] # "absent" ~>
                      status[j] \in Terminal \cup {"cancel_requested"}

\* Queued jobs and jobs waiting for a retry are taken up again (or cancelled),
\* whatever crashes in between.
WaitingJobsResume ==
  \A j \in Job : status[j] \in {"queued", "retry_wait"} ~>
                    status[j] \notin {"queued", "retry_wait"}

\* A job cancelled while nothing executed it ends cancelled, also across crashes.
IdleCancelCompletes ==
  \A j \in Job :
    status[j] = "cancel_requested" /\ cancelFrom[j] \notin ActiveExecution
      ~> status[j] = "cancelled"

(***************************************************************************)
(* What the documentation says and the code does not do.                   *)
(***************************************************************************)
\* docs/agent_bridge/DATA_MODEL.md: cancel_requested goes to cancelled when the
\* stop completes.
CancelCompletes ==
  \A j \in Job : status[j] = "cancel_requested" ~> status[j] = "cancelled"

\* docs/agent_bridge/DATA_MODEL.md: a background sweep marks running jobs whose
\* lease has expired; DECISIONS.md: a running job is not stuck after a restart.
StaleLeaseIsSwept ==
  \A j \in Job : Stale(j) ~> ~Stale(j)

\* docs/agent_bridge/DATA_MODEL.md: accepted and validating jobs left from a crash
\* are validated again or fail.
InterruptedSubmissionResumes ==
  \A j \in Job : status[j] \in {"accepted", "validating"} ~>
                    status[j] \notin {"accepted", "validating"}
=============================================================================
