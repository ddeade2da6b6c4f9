------------------------ MODULE AgentJobSafetyProofs ------------------------
(***************************************************************************)
(* The safety properties of the bridge that hold with any number of        *)
(* processes on one database, from the invariant Inv of                    *)
(* AgentJobExecutionProofs:                                                *)
(*   - a succeeded attempt is the one whose result the job has;            *)
(*   - what a worker may pick up has its request on disk;                  *)
(*   - without crash or refused operation no executing job is orphaned;    *)
(*   - a lease that had run out is extended only for the newest claim.     *)
(*                                                                         *)
(* Then those that need the bridge to be the only process on its database  *)
(* (OneProcess), as it is run:                                             *)
(*   - no job is tried more often than its attempt budget;                 *)
(*   - a result is backed by the files of the attempt that produced it;    *)
(*   - neither changes once the result is there;                           *)
(*   - the bridge implements JobLifecycle.                                 *)
(***************************************************************************)
EXTENDS AgentJobExecutionProofs

LEMMA AlwaysProgress ==
  ASSUME Inv, [Next]_vars
  PROVE  \A k \in Job : Progress(k)
<1>1. [RepoNext]_repoVars /\ RepoGood
  BY StepIsRepoStep DEF Inv
<1> QED BY <1>1, RepoProgress

(***************************************************************************)
(* Attempt rows.  Only a claim adds one, and only three steps rewrite one. *)
(***************************************************************************)
LEMMA RowsKeptByProcess ==
  ASSUME NEW w \in Worker,
         \/ CoordinatorStep(w) /\ ~Claim(w)
         \/ Renew(w) \/ WorkerFault(w) \/ Crash(w)
         \/ ExecutorStep(w) /\ ~Finish(w) /\ ~FailAttempt(w) /\ ~CancelAttempt(w)
  PROVE  UNCHANGED attempts
<1>1. CASE CoordinatorStep(w) /\ ~Claim(w)
  BY <1>1 DEF CoordinatorStep, Start, Recover, Promote, FinalizeCancellations,
              SelectJob, RecoverStaleJobs, PromoteDueRetries,
              FinalizePendingCancellations, repoVars
<1>2. CASE Renew(w) \/ WorkerFault(w) \/ Crash(w)
  BY <1>2 DEF Renew, RenewLease, WorkerFault, Crash, repoVars
<1>3. CASE ExecutorStep(w) /\ ~Finish(w) /\ ~FailAttempt(w) /\ ~CancelAttempt(w)
  BY <1>3 DEF ExecutorStep, LoadRequest, CheckCancelled, ProviderReturns,
              RegisterArtifact, WriteResponse, Complete, LostRace,
              ReadAfterError, Retry, Fail, CancelJob, CompleteJobWithResult,
              ScheduleRetry, Transition, repoVars
<1> QED BY <1>1, <1>2, <1>3

LEMMA RowsKeptByHandler ==
  ASSUME NEW j \in Job,
         \/ \E w \in Worker : Create(w, j)
         \/ SubmitStep(j) \/ Cancel(j) \/ SubmitFault(j)
         \/ LeaseDeadline(j) \/ RetryDeadline(j)
  PROVE  UNCHANGED attempts
BY DEF Create, CreateJob, SubmitStep, Validate, PersistRequest, Reject, Enqueue,
       Transition, Cancel, RequestCancel, SubmitFault, LeaseDeadline,
       LeaseLapses, RetryDeadline, BackoffElapses, repoVars

\* Finishing an attempt as anything but succeeded takes no row to succeeded.
LEMMA FinishKeeps ==
  ASSUME Inv, SucceededAttemptHasResult, NEW j \in Job, NEW n,
         NEW s \in AttemptStatus, FinishAttempt(j, n, s),
         s = "succeeded" => result[j] = n
  PROVE  SucceededAttemptHasResult'
<1>1. attempts \in [Job -> Seq(AttemptStatus)]
  BY DEF Inv, RepoGood, RepoTypeOK
<1>2. UNCHANGED result
  BY DEF FinishAttempt
<1>3. n \in DOMAIN attempts[j] /\ attempts' = [attempts EXCEPT ![j] = [@ EXCEPT ![n] = s]]
  BY DEF FinishAttempt
<1> SUFFICES ASSUME NEW k \in Job, NEW m \in DOMAIN attempts'[k],
                    attempts'[k][m] = "succeeded"
             PROVE  result[k] = m
  BY <1>2 DEF SucceededAttemptHasResult
<1>4. CASE k = j
  <2>1. attempts'[j] = [attempts[j] EXCEPT ![n] = s]
    BY <1>1, <1>3
  <2>2. m \in DOMAIN attempts[j]
    BY <1>4, <2>1
  <2>3. CASE m = n
    BY <1>3, <1>4, <2>1, <2>3
  <2>4. CASE m # n
    BY <1>4, <2>1, <2>2, <2>4 DEF SucceededAttemptHasResult
  <2> QED BY <2>3, <2>4
<1>5. CASE k # j
  BY <1>1, <1>3, <1>5 DEF SucceededAttemptHasResult
<1> QED BY <1>4, <1>5

LEMMA RowsUnchanged ==
  ASSUME Inv, SucceededAttemptHasResult, \A k \in Job : Progress(k),
         UNCHANGED attempts
  PROVE  SucceededAttemptHasResult'
<1> SUFFICES ASSUME NEW k \in Job, NEW m \in DOMAIN attempts[k],
                    attempts[k][m] = "succeeded"
             PROVE  result'[k] = m
  BY DEF SucceededAttemptHasResult
<1>1. attempts[k] \in Seq(AttemptStatus)
  BY DEF Inv, RepoGood, RepoTypeOK
<1>2. result[k] = m /\ m # 0
  BY <1>1 DEF SucceededAttemptHasResult
<1> QED BY <1>2 DEF Progress

LEMMA SucceededStep ==
  ASSUME Inv, SucceededAttemptHasResult, [Next]_vars
  PROVE  SucceededAttemptHasResult'
<1>0. \A k \in Job : Progress(k)
  BY AlwaysProgress
<1>1. CASE UNCHANGED attempts
  BY <1>0, <1>1, RowsUnchanged
<1>2. ASSUME NEW w \in Worker, Claim(w)
      PROVE  SucceededAttemptHasResult'
  <2>1. CASE UNCHANGED repoVars
    BY <1>1, <2>1 DEF repoVars
  <2>2. CASE ClaimJob(job[w])
    <3>1. job[w] \in Job
      BY <1>2 DEF Claim, Inv, WorkerInv, WorkerInvOf
    <3>2. attempts \in [Job -> Seq(AttemptStatus)]
      BY DEF Inv, RepoGood, RepoTypeOK
    <3>3. /\ attempts' = [attempts EXCEPT ![job[w]] = Append(@, "running")]
          /\ UNCHANGED result
      BY <2>2 DEF ClaimJob
    <3> SUFFICES ASSUME NEW k \in Job, NEW m \in DOMAIN attempts'[k],
                        attempts'[k][m] = "succeeded"
                 PROVE  result[k] = m
      BY <3>3 DEF SucceededAttemptHasResult
    <3>4. CASE k = job[w]
      <4>1. /\ attempts'[k] = Append(attempts[k], "running")
            /\ attempts[k] \in Seq(AttemptStatus)
        BY <3>1, <3>2, <3>3, <3>4
      <4>2. m \in DOMAIN attempts[k] /\ attempts[k][m] = "succeeded"
        BY <4>1
      <4> QED BY <4>2 DEF SucceededAttemptHasResult
    <3>5. CASE k # job[w]
      BY <3>2, <3>3, <3>5 DEF SucceededAttemptHasResult
    <3> QED BY <3>4, <3>5
  <2> QED BY <1>2, <2>1, <2>2 DEF Claim
<1>3. ASSUME NEW w \in Worker, Finish(w) \/ FailAttempt(w) \/ CancelAttempt(w)
      PROVE  SucceededAttemptHasResult'
  <2>1. /\ Executing(w) /\ job[w] \in Job
        /\ pc[w] = "finish" => result[job[w]] = attempt[w]
    BY <1>3 DEF Finish, FailAttempt, CancelAttempt, Inv, WorkerInv, WorkerInvOf,
                Executing, TryPcs, TailPcs
  <2> QED BY <1>3, <2>1, FinishKeeps
          DEF Finish, FailAttempt, CancelAttempt, AttemptStatus
<1> QED BY <1>1, <1>2, <1>3, RowsKeptByProcess, RowsKeptByHandler
        DEF Next, vars, repoVars, CoordinatorStep, ExecutorStep

\* An attempt recorded as succeeded is the one whose result the job has, however
\* many executors believe to own the job.
THEOREM SucceededAttemptBacked == Spec => []SucceededAttemptHasResult
<1>1. Init => SucceededAttemptHasResult
  BY DEF Init, RepoInit, SucceededAttemptHasResult
<1>2. Inv /\ SucceededAttemptHasResult /\ [Next]_vars => SucceededAttemptHasResult'
  BY SucceededStep
<1> QED BY <1>1, <1>2, AlwaysInv, PTL DEF Spec

(***************************************************************************)
(* The request file.  A handler about to enqueue its job has written it,   *)
(* and nothing removes it; no other step brings a job into a status in     *)
(* which it can be picked up unless it already was in one.                 *)
(***************************************************************************)
PickedUp == {"queued", "running", "streaming", "retry_wait", "succeeded"}

PersistInv ==
  \A j \in Job : submit[j] = "enqueue" \/ status[j] \in PickedUp => j \in requestFile

LEMMA PersistKept ==
  ASSUME PersistInv, requestFile \subseteq requestFile',
         \A k \in Job : submit'[k] = "enqueue"
                          => submit[k] = "enqueue" \/ k \in requestFile',
         \A k \in Job : status'[k] \in PickedUp
                          => status[k] \in PickedUp \/ k \in requestFile'
  PROVE  PersistInv'
BY DEF PersistInv

LEMMA PickedUpByProcess ==
  ASSUME Inv, NEW w \in Worker,
         CoordinatorStep(w) \/ Renew(w) \/ ExecutorStep(w)
         \/ WorkerFault(w) \/ Crash(w),
         NEW k \in Job, status'[k] \in PickedUp
  PROVE  status[k] \in PickedUp
<1>0. status \in [Job -> Status]
  BY DEF Inv, RepoGood, RepoTypeOK
<1> USE DEF PickedUp
<1>1. CASE CoordinatorStep(w)
  <2>1. CASE Start(w) \/ SelectJob(w)
    BY <2>1 DEF Start, SelectJob, repoVars
  <2>2. CASE Recover(w)
    BY <1>0, <2>2 DEF Recover, RecoverStaleJobs, Recovered, ActiveExecution
  <2>3. CASE Promote(w)
    BY <1>0, <2>3 DEF Promote, PromoteDueRetries, RetryDue
  <2>4. CASE FinalizeCancellations(w)
    BY <1>0, <2>4 DEF FinalizeCancellations, FinalizePendingCancellations
  <2>5. CASE Claim(w)
    BY <1>0, <2>5 DEF Claim, ClaimJob, repoVars
  <2> QED BY <1>1, <2>1, <2>2, <2>3, <2>4, <2>5 DEF CoordinatorStep
<1>2. CASE Renew(w) \/ WorkerFault(w) \/ Crash(w)
  BY <1>2 DEF Renew, RenewLease, WorkerFault, Crash, repoVars
<1>3. CASE ExecutorStep(w)
  <2>1. CASE Complete(w)
    BY <1>0, <2>1 DEF Complete, CompleteJobWithResult, repoVars
  <2>2. CASE Retry(w)
    BY <1>0, <2>2 DEF Retry, ScheduleRetry, repoVars
  <2>3. CASE Fail(w) \/ CancelJob(w)
    BY <1>0, <2>3 DEF Fail, CancelJob, Transition, repoVars
  <2>4. CASE Finish(w) \/ FailAttempt(w) \/ CancelAttempt(w)
    BY <2>4 DEF Finish, FailAttempt, CancelAttempt, FinishAttempt
  <2>5. CASE \/ LoadRequest(w) \/ CheckCancelled(w) \/ ProviderReturns(w)
             \/ RegisterArtifact(w) \/ WriteResponse(w) \/ LostRace(w)
             \/ ReadAfterError(w)
    BY <2>5 DEF LoadRequest, CheckCancelled, ProviderReturns, RegisterArtifact,
                WriteResponse, LostRace, ReadAfterError, repoVars
  <2> QED BY <1>3, <2>1, <2>2, <2>3, <2>4, <2>5 DEF ExecutorStep
<1> QED BY <1>1, <1>2, <1>3

LEMMA FilesKeptByProcess ==
  ASSUME NEW w \in Worker,
         CoordinatorStep(w) \/ Renew(w) \/ ExecutorStep(w)
         \/ WorkerFault(w) \/ Crash(w)
  PROVE  /\ requestFile' = requestFile
         /\ \A k \in Job : submit'[k] = "enqueue" => submit[k] = "enqueue"
<1>1. CASE CoordinatorStep(w)
  BY <1>1 DEF CoordinatorStep, Start, Recover, Promote, FinalizeCancellations,
              SelectJob, Claim, submitVars, fileVars
<1>2. CASE Renew(w) \/ WorkerFault(w)
  BY <1>2 DEF Renew, WorkerFault, submitVars, fileVars
<1>3. CASE Crash(w)
  BY <1>3 DEF Crash, fileVars
<1>4. CASE ExecutorStep(w)
  BY <1>4 DEF ExecutorStep, LoadRequest, CheckCancelled, ProviderReturns,
              RegisterArtifact, WriteResponse, Complete, LostRace, Finish,
              ReadAfterError, FailAttempt, Retry, Fail, CancelAttempt, CancelJob,
              submitVars, fileVars
<1> QED BY <1>1, <1>2, <1>3, <1>4

LEMMA PersistByHandler ==
  ASSUME Inv, PersistInv, NEW j \in Job,
         \/ \E w \in Worker : Create(w, j)
         \/ SubmitStep(j) \/ Cancel(j) \/ SubmitFault(j)
         \/ LeaseDeadline(j) \/ RetryDeadline(j)
  PROVE  PersistInv'
<1>0. /\ status \in [Job -> Status]
      /\ submit \in [Job -> {"none", "accepted", "persist", "reject", "enqueue", "done"}]
  BY DEF Inv, TypeOK, RepoGood, RepoTypeOK
<1> USE DEF PickedUp
<1>1. CASE \E w \in Worker : Create(w, j)
  BY <1>0, <1>1, PersistKept DEF Create, CreateJob, fileVars
<1>2. CASE Validate(j)
  BY <1>0, <1>2, PersistKept DEF Validate, Transition, SubmitTo, fileVars, repoVars
<1>3. CASE PersistRequest(j)
  BY <1>0, <1>3, PersistKept DEF PersistRequest, SubmitTo, repoVars
<1>4. CASE Reject(j)
  BY <1>0, <1>4, PersistKept DEF Reject, Transition, SubmitTo, fileVars, repoVars
<1>5. CASE Enqueue(j)
  <2>1. j \in requestFile
    BY <1>5 DEF Enqueue, PersistInv
  <2> QED BY <1>0, <1>5, <2>1, PersistKept
          DEF Enqueue, Transition, SubmitTo, fileVars, repoVars
<1>6. CASE Cancel(j)
  BY <1>0, <1>6, PersistKept DEF Cancel, RequestCancel, submitVars, fileVars
<1>7. CASE SubmitFault(j)
  BY <1>0, <1>7, PersistKept DEF SubmitFault, fileVars, repoVars
<1>8. CASE LeaseDeadline(j) \/ RetryDeadline(j)
  BY <1>8, PersistKept DEF LeaseDeadline, LeaseLapses, RetryDeadline,
                           BackoffElapses, submitVars, fileVars
<1> QED BY <1>1, <1>2, <1>3, <1>4, <1>5, <1>6, <1>7, <1>8 DEF SubmitStep

LEMMA PersistStep ==
  ASSUME Inv, PersistInv, [Next]_vars
  PROVE  PersistInv'
<1>1. CASE UNCHANGED vars
  BY <1>1 DEF PersistInv, vars, repoVars, submitVars, fileVars
<1>2. ASSUME NEW w \in Worker,
             CoordinatorStep(w) \/ Renew(w) \/ ExecutorStep(w)
             \/ WorkerFault(w) \/ Crash(w)
      PROVE  PersistInv'
  BY <1>2, PickedUpByProcess, FilesKeptByProcess, PersistKept
<1> QED BY <1>1, <1>2, PersistByHandler DEF Next

\* What a worker may pick up has its request on disk, through every crash,
\* cancellation, retry and recovery.
THEOREM RequestAlwaysPersisted == Spec => []RequestPersisted
<1>1. Init => PersistInv
  BY DEF Init, RepoInit, PersistInv, PickedUp
<1>2. Inv /\ PersistInv /\ [Next]_vars => PersistInv'
  BY PersistStep
<1>3. PersistInv => RequestPersisted
  BY DEF PersistInv, RequestPersisted, PickedUp
<1> QED BY <1>1, <1>2, <1>3, AlwaysInv, PTL DEF Spec

(***************************************************************************)
(* No executing job is orphaned.  A job starts to execute by a claim,      *)
(* which leaves it in the hands of the claimer; and an executor lets go of *)
(* its newest attempt only when the job does not execute any more, which   *)
(* is what GivenUp in WorkerInv is for.                                    *)
(***************************************************************************)
Holds(w, j) == Executing(w) /\ job[w] = j /\ attempt[w] = attemptCount[j]

HandsInv ==
  crashes = 0 /\ faults = 0 =>
    \A j \in Job : status[j] \in ActiveExecution => \E w \in Worker : Holds(w, j)

\* Attempts are counted by claims only.
LEMMA CountKept ==
  ASSUME [Next]_vars, \A w \in Worker : ~Claim(w)
  PROVE  UNCHANGED attemptCount
<1>1. CASE UNCHANGED vars
  BY <1>1 DEF vars, repoVars
<1>2. ASSUME NEW w \in Worker, CoordinatorStep(w)
      PROVE  UNCHANGED attemptCount
  BY <1>2 DEF CoordinatorStep, Start, Recover, Promote, FinalizeCancellations,
              SelectJob, RecoverStaleJobs, PromoteDueRetries,
              FinalizePendingCancellations, repoVars
<1>3. ASSUME NEW w \in Worker, Renew(w) \/ WorkerFault(w) \/ Crash(w)
      PROVE  UNCHANGED attemptCount
  BY <1>3 DEF Renew, RenewLease, WorkerFault, Crash, repoVars
<1>4. ASSUME NEW w \in Worker, ExecutorStep(w)
      PROVE  UNCHANGED attemptCount
  BY <1>4 DEF ExecutorStep, LoadRequest, CheckCancelled, ProviderReturns,
              RegisterArtifact, WriteResponse, Complete, LostRace, Finish,
              ReadAfterError, FailAttempt, Retry, Fail, CancelAttempt, CancelJob,
              CompleteJobWithResult, FinishAttempt, ScheduleRetry, Transition,
              repoVars
<1>5. ASSUME NEW j \in Job,
             \/ \E w \in Worker : Create(w, j)
             \/ SubmitStep(j) \/ Cancel(j) \/ SubmitFault(j)
             \/ LeaseDeadline(j) \/ RetryDeadline(j)
      PROVE  UNCHANGED attemptCount
  BY <1>5 DEF Create, CreateJob, SubmitStep, Validate, PersistRequest, Reject,
              Enqueue, Transition, Cancel, RequestCancel, SubmitFault,
              LeaseDeadline, LeaseLapses, RetryDeadline, BackoffElapses, repoVars
<1> QED BY <1>1, <1>2, <1>3, <1>4, <1>5 DEF Next

\* An executor with the newest attempt goes on, or the job executes no more.
LEMMA HoldsOn ==
  ASSUME Inv, NEW w \in Worker, ExecutorStep(w), NEW j \in Job, Holds(w, j),
         attemptCount'[j] = attemptCount[j]
  PROVE  Holds(w, j)' \/ status'[j] \notin ActiveExecution
<1>0. /\ LocalTypeOK /\ WorkerInvOf(w) /\ job[w] = j
      /\ status \in [Job -> Status] /\ status[j] # "streaming"
  BY DEF Inv, TypeOK, LocalTypeOK, WorkerInv, RepoGood, RepoTypeOK,
         LapsedLeaseIsHeld, Holds
<1>1. ASSUME NEW label \in TryPcs \cup TailPcs, Goto(w, label), UNCHANGED <<job, attempt>>
      PROVE  Holds(w, j)'
  BY <1>0, <1>1 DEF Holds, Executing, Goto, LocalTypeOK
<1>2. ASSUME NEW error, Raise(w, error)
      PROVE  Holds(w, j)'
  BY <1>1, <1>2 DEF Raise, TailPcs
<1>3. GivenUp(w) => status[j] \notin ActiveExecution
  BY <1>0 DEF WorkerInvOf, Holds
<1> USE DEF TryPcs, TailPcs
<1>4. CASE LoadRequest(w) \/ ProviderReturns(w) \/ RegisterArtifact(w)
           \/ WriteResponse(w) \/ Complete(w) \/ LostRace(w)
  BY <1>1, <1>2, <1>4 DEF LoadRequest, ProviderReturns, RegisterArtifact,
                          WriteResponse, Complete, LostRace, KeepJob
<1>5. CASE CheckCancelled(w)
  BY <1>1, <1>5 DEF CheckCancelled, AfterCheck, KeepJob
<1>6. CASE ReadAfterError(w)
  BY <1>1, <1>6 DEF ReadAfterError
<1>7. CASE CancelAttempt(w)
  BY <1>1, <1>7 DEF CancelAttempt, KeepJob
<1>8. CASE Finish(w)
  BY <1>3, <1>8 DEF Finish, FinishAttempt, GivenUp
<1>9. CASE FailAttempt(w)
  <2>1. outcome[w] \in {"retry", "fail", "leave"}
    BY <1>0, <1>9 DEF FailAttempt, WorkerInvOf
  <2>2. outcome[w] = "leave" => GivenUp(w) /\ UNCHANGED status
    BY <1>9 DEF FailAttempt, GivenUp, FinishAttempt
  <2> QED BY <1>1, <1>3, <1>9, <2>1, <2>2 DEF FailAttempt, KeepJob
<1>10. CASE Retry(w)
  BY <1>0, <1>10 DEF Retry, ScheduleRetry, ActiveExecution, repoVars
<1>11. CASE Fail(w)
  BY <1>0, <1>11 DEF Fail, Transition, ActiveExecution, repoVars
<1>12. CASE CancelJob(w)
  BY <1>0, <1>3, <1>12 DEF CancelJob, Transition, GivenUp, ActiveExecution, repoVars
<1> QED BY <1>4, <1>5, <1>6, <1>7, <1>8, <1>9, <1>10, <1>11, <1>12 DEF ExecutorStep

\* The same for a step of anybody else.
LEMMA HoldsAside ==
  ASSUME Inv, NEW w \in Worker, NEW j \in Job, Holds(w, j), [Next]_vars,
         attemptCount'[j] = attemptCount[j], ~ExecutorStep(w), ~Claim(w),
         crashes' = 0, faults' = 0
  PROVE  Holds(w, j)'
<1>0. LocalTypeOK /\ crashes \in Nat /\ faults \in Nat
  BY DEF Inv, TypeOK, LocalTypeOK
<1>1. SUFFICES UNCHANGED <<pc[w], job[w], attempt[w]>>
  BY <1>1 DEF Holds, Executing
<1>2. CASE UNCHANGED vars
  BY <1>2 DEF vars, workerVars
<1>3. ASSUME NEW v \in Worker \ {w},
             CoordinatorStep(v) \/ Renew(v) \/ ExecutorStep(v)
             \/ WorkerFault(v) \/ Crash(v)
      PROVE  UNCHANGED <<pc[w], job[w], attempt[w]>>
  <2>1. OthersKeep(v)
    BY <1>3, AlwaysProgress, CoordinatorLocal, RenewLocal, ExecutorLocal, FaultLocal
  <2> QED BY <2>1 DEF OthersKeep
<1>4. ~CoordinatorStep(w)
  BY DEF CoordinatorStep, Start, Recover, Promote, FinalizeCancellations,
         SelectJob, Claim, Holds, Executing, TryPcs, TailPcs
<1>5. CASE Renew(w)
  BY <1>5 DEF Renew
<1>6. ~WorkerFault(w) /\ ~Crash(w)
  BY <1>0 DEF WorkerFault, Crash
<1>7. ASSUME NEW k \in Job,
             \/ \E v \in Worker : Create(v, k)
             \/ SubmitStep(k) \/ Cancel(k) \/ SubmitFault(k)
             \/ LeaseDeadline(k) \/ RetryDeadline(k)
      PROVE  UNCHANGED <<pc[w], job[w], attempt[w]>>
  BY <1>7 DEF Create, SubmitStep, Validate, PersistRequest, Reject, Enqueue,
              SubmitTo, Cancel, SubmitFault, LeaseDeadline, RetryDeadline,
              workerVars
<1> QED BY <1>2, <1>3, <1>4, <1>5, <1>6, <1>7 DEF Next

LEMMA ClaimHands ==
  ASSUME Inv, NEW v \in Worker, Claim(v), \A k \in Job : Progress(k),
         NEW j \in Job, status'[j] \in ActiveExecution,
         status[j] \in ActiveExecution => \E w \in Worker : Holds(w, j)
  PROVE  \E w \in Worker : Holds(w, j)'
<1>0. /\ LocalTypeOK /\ attemptCount \in [Job -> Nat] /\ status \in [Job -> Status]
      /\ pc[v] = "claim" /\ job[v] \in Job
  BY DEF Inv, TypeOK, LocalTypeOK, RepoGood, RepoTypeOK, Claim, WorkerInv,
         WorkerInvOf
<1>1. CASE ClaimJob(job[v]) /\ job[v] = j
  <2>1. /\ Goto(v, "load") /\ UNCHANGED job
        /\ attempt' = [attempt EXCEPT ![v] = attemptCount[j] + 1]
    BY <1>1 DEF Claim, ClaimJob
  <2>2. attemptCount'[j] = attemptCount[j] + 1
    BY <1>0, <1>1 DEF ClaimJob
  <2>3. pc'[v] = "load" /\ job'[v] = j /\ attempt'[v] = attemptCount'[j]
    BY <1>0, <1>1, <2>1, <2>2 DEF Goto, LocalTypeOK
  <2> QED BY <2>3 DEF Holds, Executing, TryPcs
<1>2. CASE ~(ClaimJob(job[v]) /\ job[v] = j)
  <2>1. status'[j] = status[j] /\ attemptCount'[j] = attemptCount[j]
    BY <1>0, <1>2 DEF Claim, ClaimJob, repoVars
  <2>2. PICK w \in Worker : Holds(w, j)
    BY <2>1
  <2>3. w # v
    BY <1>0, <2>2 DEF Holds, Executing, TryPcs, TailPcs
  <2>4. OthersKeep(v)
    BY CoordinatorLocal DEF CoordinatorStep
  <2> QED BY <2>1, <2>2, <2>3, <2>4 DEF Holds, Executing, OthersKeep
<1> QED BY <1>1, <1>2

LEMMA BoundsGrow ==
  ASSUME Inv, [Next]_vars, crashes' = 0, faults' = 0
  PROVE  crashes = 0 /\ faults = 0
<1>0. crashes \in Nat /\ faults \in Nat
  BY DEF Inv, TypeOK
<1> USE DEF boundVars
<1>1. CASE UNCHANGED vars
  BY <1>1 DEF vars
<1>2. ASSUME NEW w \in Worker, CoordinatorStep(w) \/ Renew(w)
      PROVE  UNCHANGED boundVars
  BY <1>2 DEF CoordinatorStep, Start, Recover, Promote, FinalizeCancellations,
              SelectJob, Claim, Renew
<1>3. ASSUME NEW w \in Worker, ExecutorStep(w)
      PROVE  UNCHANGED boundVars
  BY <1>3 DEF ExecutorStep, LoadRequest, CheckCancelled, ProviderReturns,
              RegisterArtifact, WriteResponse, Complete, LostRace, Finish,
              ReadAfterError, FailAttempt, Retry, Fail, CancelAttempt, CancelJob
<1>4. ASSUME NEW w \in Worker, WorkerFault(w) \/ Crash(w)
      PROVE  FALSE
  BY <1>0, <1>4 DEF WorkerFault, Crash
<1>5. ASSUME NEW j \in Job, SubmitFault(j)
      PROVE  FALSE
  BY <1>0, <1>5 DEF SubmitFault
<1>6. ASSUME NEW j \in Job,
             \/ \E w \in Worker : Create(w, j)
             \/ SubmitStep(j) \/ Cancel(j) \/ LeaseDeadline(j) \/ RetryDeadline(j)
      PROVE  UNCHANGED boundVars
  BY <1>6 DEF Create, SubmitStep, Validate, PersistRequest, Reject, Enqueue,
              SubmitTo, Cancel, LeaseDeadline, RetryDeadline
<1> QED BY <1>1, <1>2, <1>3, <1>4, <1>5, <1>6 DEF Next

LEMMA HandsStep ==
  ASSUME Inv, HandsInv, [Next]_vars
  PROVE  HandsInv'
<1> SUFFICES ASSUME crashes' = 0, faults' = 0,
                    NEW j \in Job, status'[j] \in ActiveExecution
             PROVE  \E w \in Worker : Holds(w, j)'
  BY DEF HandsInv
<1>1. status[j] \in ActiveExecution => \E w \in Worker : Holds(w, j)
  BY BoundsGrow DEF HandsInv
<1>2. \A k \in Job : Progress(k)
  BY AlwaysProgress
<1>3. CASE \E v \in Worker : Claim(v)
  BY <1>1, <1>2, <1>3, ClaimHands
<1>4. CASE \A v \in Worker : ~Claim(v)
  <2>1. attemptCount' = attemptCount
    BY <1>4, CountKept
  <2>2. attemptCount[j] \in Nat
    BY DEF Inv, RepoGood, RepoTypeOK
  <2>3. status[j] \in ActiveExecution
    BY <1>2, <2>1, <2>2 DEF Progress
  <2>4. PICK w \in Worker : Holds(w, j)
    BY <1>1, <2>3
  <2>5. Holds(w, j)' \/ status'[j] \notin ActiveExecution
    BY <1>4, <2>1, <2>4, HoldsOn, HoldsAside
  <2> QED BY <2>5
<1> QED BY <1>3, <1>4

\* Without a crash or a refused storage operation some executor works on the
\* newest attempt of every executing job, even when processes with expired
\* leases still work on older ones.
THEOREM NoOrphanWithoutFailure == Spec => []ExecutingJobInHand
<1>1. Init => HandsInv
  BY DEF Init, RepoInit, HandsInv, ActiveExecution
<1>2. Inv /\ HandsInv /\ [Next]_vars => HandsInv'
  BY HandsStep
<1>3. HandsInv => ExecutingJobInHand
  BY DEF HandsInv, ExecutingJobInHand, Holds
<1> QED BY <1>1, <1>2, <1>3, AlwaysInv, PTL DEF Spec

(***************************************************************************)
(* Renewal.  A lease mark goes away by a renewal, or together with the     *)
(* lease; a job whose lease has run out is not in the queue, so a claim    *)
(* does not touch it.                                                      *)
(***************************************************************************)
Revived(j) == leaseExpired[j] /\ ~leaseExpired'[j] /\ leaseOwner'[j] # 0

LEMMA ReleaseNeverRevives ==
  ASSUME RepoGood, NEW j \in Job, NEW k \in Job, ReleaseLease(k) \/ KeepLease
  PROVE  ~Revived(j)
BY DEF Revived, ReleaseLease, KeepLease, RepoGood, RepoTypeOK

LEMMA CoordinatorNeverRevives ==
  ASSUME Inv, NEW w \in Worker, CoordinatorStep(w), NEW j \in Job
  PROVE  ~Revived(j)
<1>0. RepoGood /\ RepoTypeOK
  BY DEF Inv, RepoGood
<1>1. CASE Start(w) \/ SelectJob(w)
  BY <1>1 DEF Start, SelectJob, Revived, repoVars
<1>2. CASE Recover(w)
  BY <1>0, <1>2 DEF Recover, RecoverStaleJobs, Revived, RepoTypeOK
<1>3. CASE Promote(w)
  BY <1>3 DEF Promote, PromoteDueRetries, KeepLease, Revived
<1>4. CASE FinalizeCancellations(w)
  BY <1>0, <1>4 DEF FinalizeCancellations, FinalizePendingCancellations, Revived,
                    RepoTypeOK
<1>5. CASE Claim(w)
  <2>1. CASE UNCHANGED repoVars
    BY <2>1 DEF Revived, repoVars
  <2>2. CASE ClaimJob(job[w])
    <3>1. job[w] \in Job
      BY <1>5 DEF Claim, Inv, WorkerInv, WorkerInvOf
    <3>2. ~leaseExpired[job[w]]
      BY <1>0, <2>2, <3>1
         DEF ClaimJob, RepoGood, RepoInv, LapsedLeaseIsHeld,
             LeaseHeldByNewestClaim, CancelIsSticky, ActiveExecution
    <3> QED BY <1>0, <2>2, <3>1, <3>2 DEF ClaimJob, Revived, RepoTypeOK
  <2> QED BY <1>5, <2>1, <2>2 DEF Claim
<1> QED BY <1>1, <1>2, <1>3, <1>4, <1>5 DEF CoordinatorStep

LEMMA ExecutorNeverRevives ==
  ASSUME Inv, NEW w \in Worker, ExecutorStep(w), NEW j \in Job
  PROVE  ~Revived(j)
<1>0. RepoGood /\ WorkerInvOf(w)
  BY DEF Inv, WorkerInv
<1>1. CASE \/ LoadRequest(w) \/ CheckCancelled(w) \/ ProviderReturns(w)
           \/ RegisterArtifact(w) \/ WriteResponse(w) \/ LostRace(w)
           \/ ReadAfterError(w)
  BY <1>1 DEF LoadRequest, CheckCancelled, ProviderReturns, RegisterArtifact,
              WriteResponse, LostRace, ReadAfterError, Revived, repoVars
<1>2. CASE Finish(w) \/ FailAttempt(w) \/ CancelAttempt(w)
  BY <1>2 DEF Finish, FailAttempt, CancelAttempt, FinishAttempt, KeepLease,
              Revived
<1>3. CASE Complete(w) \/ Retry(w) \/ Fail(w) \/ CancelJob(w)
  <2>1. job[w] \in Job
    BY <1>0, <1>3 DEF Complete, Retry, Fail, CancelJob, WorkerInvOf, Executing,
                      TryPcs, TailPcs
  <2>2. ReleaseLease(job[w]) \/ KeepLease
    BY <1>3 DEF Complete, Retry, Fail, CancelJob, CompleteJobWithResult,
                ScheduleRetry, Transition, KeepLease, repoVars
  <2> QED BY <1>0, <2>1, <2>2, ReleaseNeverRevives
<1> QED BY <1>1, <1>2, <1>3 DEF ExecutorStep

LEMMA HandlerNeverRevives ==
  ASSUME Inv, NEW k \in Job, NEW j \in Job,
         \/ \E w \in Worker : Create(w, k)
         \/ SubmitStep(k) \/ Cancel(k) \/ SubmitFault(k)
         \/ LeaseDeadline(k) \/ RetryDeadline(k)
  PROVE  ~Revived(j)
<1>0. RepoGood /\ RepoTypeOK
  BY DEF Inv, RepoGood
<1>1. CASE LeaseDeadline(k)
  BY <1>0, <1>1 DEF LeaseDeadline, LeaseLapses, Revived, RepoTypeOK
<1>2. CASE \/ \E w \in Worker : Create(w, k)
           \/ SubmitStep(k) \/ Cancel(k) \/ SubmitFault(k) \/ RetryDeadline(k)
  <2>1. ReleaseLease(k) \/ KeepLease
    BY <1>2 DEF Create, CreateJob, SubmitStep, Validate, PersistRequest, Reject,
                Enqueue, Transition, Cancel, RequestCancel, SubmitFault,
                RetryDeadline, BackoffElapses, KeepLease, repoVars
  <2> QED BY <1>0, <2>1, ReleaseNeverRevives
<1> QED BY <1>1, <1>2

LEMMA RenewalByNewest ==
  ASSUME Inv, [Next]_vars, NEW j \in Job, Revived(j)
  PROVE  \E w \in Worker : /\ renewing[w] /\ job[w] = j
                           /\ attempt[w] = attemptCount[j]
                           /\ UNCHANGED <<pc, status>>
<1>0. RepoGood /\ RepoTypeOK /\ LeaseHeldByNewestClaim
  BY DEF Inv, RepoGood, RepoInv
<1>1. PICK w \in Worker : Renew(w)
  <2>1. ~UNCHANGED vars
    BY DEF Revived, vars, repoVars
  <2>2. \A w \in Worker : ~WorkerFault(w) /\ ~Crash(w)
    BY DEF WorkerFault, Crash, Revived, repoVars
  <2> QED BY <2>1, <2>2, CoordinatorNeverRevives, ExecutorNeverRevives,
             HandlerNeverRevives DEF Next
<1>2. /\ job[w] \in Job /\ attempt[w] \in Nat \ {0}
  BY <1>0, <1>1 DEF Renew, Inv, WorkerInv, WorkerInvOf, RepoTypeOK
<1>3. RenewLease(job[w], attempt[w]) /\ job[w] = j
  BY <1>0, <1>1, <1>2 DEF Renew, RenewLease, Revived, RepoTypeOK, repoVars
<1>4. attempt[w] = attemptCount[j]
  BY <1>0, <1>2, <1>3 DEF RenewLease, LeaseRenewable, LeaseHeldByNewestClaim
<1> QED BY <1>1, <1>3, <1>4 DEF Renew, RenewLease

\* A lease that had run out is extended only on behalf of the newest claim: a
\* stalled executor cannot keep a job another process has meanwhile claimed.
THEOREM RenewedOnlyByOwner == Spec => LeaseRenewedByOwner
<1>1. Inv /\ [Next]_vars =>
        [\A j \in Job :
           leaseExpired[j] /\ ~leaseExpired'[j] /\ leaseOwner'[j] # 0
             => \E w \in Worker : /\ renewing[w] /\ job[w] = j
                                  /\ attempt[w] = attemptCount[j]
                                  /\ UNCHANGED <<pc, status>>]_vars
  BY RenewalByNewest DEF Revived
<1> QED BY <1>1, AlwaysInv, PTL DEF Spec, LeaseRenewedByOwner

(***************************************************************************)
(* One process on the database, which is how the bridge is run.  What an   *)
(* executor or the startup recovery has read of the attempt count then     *)
(* stays true until it acts on it, because attempts are counted by claims  *)
(* only, and the one coordinator thread is not at a claim.                 *)
(***************************************************************************)
OneProcess == \A v, w \in Worker : v = w

Unclaimed == {"accepted", "validating", "queued", "retry_wait"}

\* What the process has read of attempt counts and acts on later.
BudgetKnown(w) ==
  /\ pc[w] = "recover" => \A j \in Job : stale[w][j] \in {0, attemptCount[j]}
  /\ pc[w] = "retry" => outcome[w] = "retry"
  /\ pc[w] \in {"failAttempt", "retry"} /\ outcome[w] = "retry"
       => attemptCount[job[w]] < MaxAttempts[job[w]]

\* A job counts no attempt before it is queued.
NotYetTried ==
  \A j \in Job : status[j] \in {"absent", "accepted", "validating"} => attemptCount[j] = 0

BudgetInv ==
  /\ AttemptBudget
  /\ NotYetTried
  /\ \A w \in Worker : BudgetKnown(w)

\* A job that is not claimed after a step was not claimed before it, or was just
\* submitted, recovered or given back by its executor.
LEMMA EntersUnclaimed ==
  ASSUME Inv, [Next]_vars, NEW j \in Job, status'[j] \in Unclaimed,
         \A w \in Worker : ~Recover(w) /\ ~Retry(w)
  PROVE  status[j] \in Unclaimed \cup {"absent"}
<1>0. status \in [Job -> Status]
  BY DEF Inv, RepoGood, RepoTypeOK
<1> USE DEF Unclaimed
<1>1. CASE UNCHANGED vars
  BY <1>1 DEF vars, repoVars
<1>2. ASSUME NEW w \in Worker, CoordinatorStep(w)
      PROVE  status[j] \in Unclaimed
  <2>1. CASE Start(w) \/ SelectJob(w)
    BY <2>1 DEF Start, SelectJob, repoVars
  <2>2. CASE Promote(w)
    BY <1>0, <2>2 DEF Promote, PromoteDueRetries, RetryDue
  <2>3. CASE FinalizeCancellations(w)
    BY <1>0, <2>3 DEF FinalizeCancellations, FinalizePendingCancellations
  <2>4. CASE Claim(w)
    BY <1>0, <2>4 DEF Claim, ClaimJob, repoVars
  <2> QED BY <1>2, <2>1, <2>2, <2>3, <2>4 DEF CoordinatorStep
<1>3. ASSUME NEW w \in Worker, Renew(w) \/ WorkerFault(w) \/ Crash(w)
      PROVE  status[j] \in Unclaimed
  BY <1>3 DEF Renew, RenewLease, WorkerFault, Crash, repoVars
<1>4. ASSUME NEW w \in Worker, ExecutorStep(w)
      PROVE  status[j] \in Unclaimed
  <2>1. CASE Complete(w)
    BY <1>0, <2>1 DEF Complete, CompleteJobWithResult, repoVars
  <2>2. CASE Fail(w) \/ CancelJob(w)
    BY <1>0, <2>2 DEF Fail, CancelJob, Transition, repoVars
  <2>3. CASE Finish(w) \/ FailAttempt(w) \/ CancelAttempt(w)
    BY <2>3 DEF Finish, FailAttempt, CancelAttempt, FinishAttempt
  <2>4. CASE \/ LoadRequest(w) \/ CheckCancelled(w) \/ ProviderReturns(w)
             \/ RegisterArtifact(w) \/ WriteResponse(w) \/ LostRace(w)
             \/ ReadAfterError(w)
    BY <2>4 DEF LoadRequest, CheckCancelled, ProviderReturns, RegisterArtifact,
                WriteResponse, LostRace, ReadAfterError, repoVars
  <2> QED BY <1>4, <2>1, <2>2, <2>3, <2>4 DEF ExecutorStep
<1>5. ASSUME NEW k \in Job,
             \/ \E w \in Worker : Create(w, k)
             \/ SubmitStep(k) \/ Cancel(k) \/ SubmitFault(k)
             \/ LeaseDeadline(k) \/ RetryDeadline(k)
      PROVE  status[j] \in Unclaimed \cup {"absent"}
  BY <1>0, <1>5 DEF Create, CreateJob, SubmitStep, Validate, PersistRequest, Reject,
     Enqueue, Transition, Cancel, RequestCancel, SubmitFault, LeaseDeadline,
     LeaseLapses, RetryDeadline, BackoffElapses, repoVars
<1> QED BY <1>1, <1>2, <1>3, <1>4, <1>5 DEF Next

LEMMA NothingEntersUntried ==
  ASSUME Inv, [Next]_vars, NEW j \in Job, status'[j] \in {"absent", "accepted", "validating"}
  PROVE  status[j] \in {"absent", "accepted", "validating"}
<1>0. status \in [Job -> Status] /\ [RepoNext]_repoVars
  BY StepIsRepoStep DEF Inv, RepoGood, RepoTypeOK
<1>1. CASE UNCHANGED repoVars
  BY <1>1 DEF repoVars
<1>2. CASE Sweep
  BY <1>0, <1>2 DEF Sweep, PromoteDueRetries, FinalizePendingCancellations, RecoverStaleJobs
<1>3. ASSUME NEW k \in Job, JobOperation(k)
      PROVE  status[j] \in {"absent", "accepted", "validating"}
  <2>1. CASE \E t \in BridgeTransitions : Transition(k, t[1], t[2])
    BY <1>0, <2>1 DEF Transition, BridgeTransitions
  <2>2. CASE ~\E t \in BridgeTransitions : Transition(k, t[1], t[2])
    BY <1>0, <1>3, <2>2 DEF JobOperation, CreateJob, ClaimJob, ScheduleRetry, RequestCancel,
       LeaseLapses, BackoffElapses, RenewLease, CompleteJobWithResult, FinishAttempt
  <2> QED BY <2>1, <2>2
<1> QED BY <1>0, <1>1, <1>2, <1>3 DEF RepoNext

\* While no attempt is counted, what was read of the count stays true.
LEMMA ReadStaysTrue ==
  ASSUME Inv, NEW w \in Worker, BudgetKnown(w), UNCHANGED attemptCount,
         \/ CoordinatorStep(w) \/ Renew(w) \/ ExecutorStep(w)
         \/ WorkerFault(w) \/ Crash(w) \/ UNCHANGED workerVars
  PROVE  BudgetKnown(w)'
<1>0. LocalTypeOK
  BY DEF Inv, TypeOK, LocalTypeOK
<1> USE DEF BudgetKnown
<1>1. CASE Start(w)
  BY <1>0, <1>1 DEF Start, StaleJobs, Goto, LocalTypeOK
<1>2. ASSUME NEW label \in {"idle", "down"}, Drop(w, label)
      PROVE  BudgetKnown(w)'
  BY <1>0, <1>2 DEF Drop, Goto, LocalTypeOK
<1>3. ASSUME NEW error, Raise(w, error)
      PROVE  BudgetKnown(w)'
  BY <1>0, <1>3 DEF Raise, Goto, LocalTypeOK
<1>4. ASSUME NEW label, Goto(w, label), label \notin {"recover", "failAttempt", "retry"}
      PROVE  BudgetKnown(w)'
  BY <1>0, <1>4 DEF Goto, LocalTypeOK
<1>5. CASE CoordinatorStep(w)
  BY <1>1, <1>2, <1>4, <1>5 DEF CoordinatorStep, Recover, Promote, FinalizeCancellations,
     SelectJob, Claim
<1>6. CASE Renew(w) \/ UNCHANGED workerVars
  BY <1>6 DEF Renew, workerVars
<1>7. CASE WorkerFault(w) \/ Crash(w)
  BY <1>2, <1>3, <1>7 DEF WorkerFault, Crash, RenewerDies
<1>8. CASE ReadAfterError(w)
  BY <1>0, <1>8 DEF ReadAfterError, Verdict, Goto, LocalTypeOK
<1>9. CASE FailAttempt(w)
  <2>1. CASE outcome[w] = "retry" /\ Goto(w, "retry") /\ KeepJob
    BY <1>0, <1>9, <2>1 DEF FailAttempt, Goto, KeepJob, LocalTypeOK
  <2>2. CASE outcome[w] # "retry" /\ Goto(w, outcome[w])
    <3>1. outcome[w] \in {"fail", "leave"}
      BY <1>9, <2>2 DEF FailAttempt, Inv, WorkerInv, WorkerInvOf
    <3> QED BY <1>4, <2>2, <3>1
  <2> QED BY <1>2, <1>9, <2>1, <2>2 DEF FailAttempt
<1>10. CASE CheckCancelled(w)
  BY <1>4, <1>10 DEF CheckCancelled, AfterCheck
<1>11. CASE CancelAttempt(w) \/ LoadRequest(w) \/ ProviderReturns(w) \/ RegisterArtifact(w)
            \/ WriteResponse(w) \/ Complete(w) \/ LostRace(w)
  BY <1>3, <1>4, <1>11 DEF CancelAttempt, LoadRequest, ProviderReturns, RegisterArtifact,
     WriteResponse, Complete, LostRace
<1>12. CASE Finish(w) \/ Retry(w) \/ Fail(w) \/ CancelJob(w)
  BY <1>2, <1>12 DEF Finish, Retry, Fail, CancelJob
<1> QED BY <1>5, <1>6, <1>7, <1>8, <1>9, <1>10, <1>11, <1>12 DEF ExecutorStep

\* In a step the one process does something, or nothing happens to it.
LEMMA StepOfTheProcess ==
  ASSUME [Next]_vars, OneProcess, NEW w \in Worker
  PROVE  \/ CoordinatorStep(w) \/ Renew(w) \/ ExecutorStep(w)
         \/ WorkerFault(w) \/ Crash(w) \/ UNCHANGED workerVars
<1>1. ASSUME NEW j \in Job,
             \/ \E v \in Worker : Create(v, j)
             \/ SubmitStep(j) \/ Cancel(j) \/ SubmitFault(j)
             \/ LeaseDeadline(j) \/ RetryDeadline(j)
      PROVE  UNCHANGED workerVars
  BY <1>1 DEF Create, SubmitStep, Validate, PersistRequest, Reject, Enqueue,
              SubmitTo, Cancel, SubmitFault, LeaseDeadline, RetryDeadline
<1>2. \A v \in Worker : v = w
  BY DEF OneProcess
<1> QED BY <1>1, <1>2 DEF Next, vars

LEMMA BudgetStep ==
  ASSUME Inv, BudgetInv, [Next]_vars, OneProcess
  PROVE  BudgetInv'
<1>0. /\ attemptCount \in [Job -> Nat] /\ MaxAttempts \in [Job -> Nat \ {0}]
      /\ status \in [Job -> Status] /\ \A v, w \in Worker : v = w
  BY MaxAttemptsAssumption DEF Inv, RepoGood, RepoTypeOK, OneProcess
<1>1. ASSUME NEW w \in Worker, Claim(w)
      PROVE  BudgetInv'
  <2>1. \A v \in Worker : pc'[v] \in {"idle", "load"}
    <3>1. LocalTypeOK
      BY DEF Inv, TypeOK, LocalTypeOK
    <3> QED BY <1>0, <1>1, <3>1 DEF Claim, Drop, Goto, LocalTypeOK
  <2>2. \A v \in Worker : BudgetKnown(v)'
    BY <2>1 DEF BudgetKnown
  <2>3. CASE UNCHANGED repoVars
    BY <2>2, <2>3 DEF BudgetInv, AttemptBudget, NotYetTried, repoVars
  <2>4. CASE ClaimJob(job[w])
    <3>1. job[w] \in Job /\ attemptCount[job[w]] < MaxAttempts[job[w]]
      BY <1>1, <2>4 DEF Claim, ClaimJob, Inv, WorkerInv, WorkerInvOf, BudgetInv, AttemptBudget
    <3>2. /\ status' = [status EXCEPT ![job[w]] = "running"]
          /\ attemptCount' = [attemptCount EXCEPT ![job[w]] = @ + 1]
      BY <2>4 DEF ClaimJob
    <3>3. AttemptBudget'
      BY <1>0, <3>1, <3>2 DEF BudgetInv, AttemptBudget
    <3>4. NotYetTried'
      BY <1>0, <3>1, <3>2 DEF BudgetInv, NotYetTried
    <3> QED BY <2>2, <3>3, <3>4 DEF BudgetInv
  <2> QED BY <1>1, <2>3, <2>4 DEF Claim
<1>2. CASE \A w \in Worker : ~Claim(w)
  <2>1. attemptCount' = attemptCount
    BY <1>2, CountKept
  <2>2. \A w \in Worker : BudgetKnown(w)'
    BY <2>1, StepOfTheProcess, ReadStaysTrue DEF BudgetInv
  <2>3. NotYetTried'
    BY <2>1, NothingEntersUntried DEF BudgetInv, NotYetTried
  <2>4. ASSUME NEW j \in Job, status'[j] \in Unclaimed
        PROVE  attemptCount[j] < MaxAttempts[j]
    <3>1. CASE status[j] \in Unclaimed
      BY <3>1 DEF BudgetInv, AttemptBudget, Unclaimed
    <3>2. CASE status[j] = "absent"
      BY <1>0, <3>2 DEF BudgetInv, NotYetTried
    <3>3. ASSUME NEW w \in Worker, Recover(w), status[j] \notin Unclaimed
          PROVE  attemptCount[j] < MaxAttempts[j]
      <4>1. stale[w][j] \in {0, attemptCount[j]} /\ RecoverStaleJobs(stale[w])
        BY <3>3 DEF Recover, BudgetInv, BudgetKnown
      <4> QED BY <2>4, <3>3, <4>1 DEF RecoverStaleJobs, Recovered, Unclaimed
    <3>4. ASSUME NEW w \in Worker, Retry(w), status[j] \notin Unclaimed
          PROVE  attemptCount[j] < MaxAttempts[j]
      <4>1. attemptCount[job[w]] < MaxAttempts[job[w]]
        BY <3>4 DEF Retry, BudgetInv, BudgetKnown
      <4>2. j = job[w]
        BY <1>0, <2>4, <3>4 DEF Retry, ScheduleRetry, repoVars
      <4> QED BY <4>1, <4>2
    <3> QED BY <2>4, <3>1, <3>2, <3>3, <3>4, EntersUnclaimed
  <2>5. AttemptBudget'
    BY <2>1, <2>4 DEF AttemptBudget, BudgetInv, Unclaimed
  <2> QED BY <2>2, <2>3, <2>5 DEF BudgetInv
<1> QED BY <1>1, <1>2

LEMMA AlwaysBudgetInv == ASSUME OneProcess PROVE Spec => []BudgetInv
<1>1. Init => BudgetInv
  BY MaxAttemptsAssumption DEF Init, RepoInit, BudgetInv, AttemptBudget, NotYetTried, BudgetKnown
<1>2. Inv /\ BudgetInv /\ [Next]_vars => BudgetInv'
  BY BudgetStep
<1> QED BY <1>1, <1>2, AlwaysInv, PTL DEF Spec

\* One process never runs a job more often than max_attempts, and never puts it back
\* without an attempt left, through any retries, crashes and recoveries.
THEOREM BudgetIsKept == ASSUME OneProcess PROVE Spec => []AttemptBudget
<1>1. BudgetInv => AttemptBudget
  BY DEF BudgetInv
<1> QED BY <1>1, AlwaysBudgetInv, PTL

(***************************************************************************)
(* What backs a result.  With one process, the job that is being worked on *)
(* has no result yet, so that no file of a result is written or withdrawn  *)
(* again; and the steps of an attempt come in the order that leaves its    *)
(* files behind before the result.                                         *)
(***************************************************************************)
Producing == {"load", "check", "recheck", "provider", "verify", "register", "write", "complete"}

BackedSoFar(w) ==
  /\ pc[w] \in Producing => result[job[w]] = 0
  /\ pc[w] = "complete" => responseFile[job[w]] = attempt[w]
  /\ pc[w] \in {"write", "complete"} /\ job[w] \in Research
       => attempt[w] \in artifacts[job[w]]

BackedInv == ResultBacked /\ \A w \in Worker : BackedSoFar(w)

outputVars == <<result, responseFile, artifacts>>

LEMMA OutputKept ==
  ASSUME [Next]_vars,
         \A w \in Worker : ~RegisterArtifact(w) /\ ~WriteResponse(w) /\ ~Complete(w)
  PROVE  UNCHANGED outputVars
<1> USE DEF outputVars, repoVars, fileVars
<1>1. CASE UNCHANGED vars
  BY <1>1 DEF vars
<1>2. ASSUME NEW w \in Worker, CoordinatorStep(w)
      PROVE  UNCHANGED outputVars
  BY <1>2 DEF CoordinatorStep, Start, Recover, Promote, FinalizeCancellations, SelectJob,
     Claim, ClaimJob, RecoverStaleJobs, PromoteDueRetries, FinalizePendingCancellations
<1>3. ASSUME NEW w \in Worker, Renew(w) \/ WorkerFault(w) \/ Crash(w)
      PROVE  UNCHANGED outputVars
  BY <1>3 DEF Renew, RenewLease, WorkerFault, Crash
<1>4. ASSUME NEW w \in Worker, ExecutorStep(w)
      PROVE  UNCHANGED outputVars
  BY <1>4 DEF ExecutorStep, LoadRequest, CheckCancelled, ProviderReturns, LostRace, Finish,
     ReadAfterError, FailAttempt, Retry, Fail, CancelAttempt, CancelJob, FinishAttempt,
     ScheduleRetry, Transition
<1>5. ASSUME NEW j \in Job,
             \/ \E w \in Worker : Create(w, j)
             \/ SubmitStep(j) \/ Cancel(j) \/ SubmitFault(j)
             \/ LeaseDeadline(j) \/ RetryDeadline(j)
      PROVE  UNCHANGED outputVars
  BY <1>5 DEF Create, CreateJob, SubmitStep, Validate, PersistRequest, Reject, Enqueue,
     Transition, Cancel, RequestCancel, SubmitFault, LeaseDeadline, LeaseLapses,
     RetryDeadline, BackoffElapses
<1> QED BY <1>1, <1>2, <1>3, <1>4, <1>5 DEF Next

\* A claimed job has no result.
LEMMA ClaimedUnanswered ==
  ASSUME Inv, NEW w \in Worker, Claim(w), pc'[w] = "load"
  PROVE  job'[w] = job[w] /\ result[job[w]] = 0
<1>1. /\ LocalTypeOK /\ job[w] \in Job /\ ResultIffSucceeded
  BY DEF Inv, TypeOK, LocalTypeOK, WorkerInv, WorkerInvOf, Claim, RepoGood, RepoInv
<1>2. status[job[w]] = "queued" /\ job' = job
  BY <1>1 DEF Claim, ClaimJob, Drop, Goto, LocalTypeOK
<1> QED BY <1>1, <1>2 DEF ResultIffSucceeded

\* A step that writes nothing of a result goes on with it or leaves it.
LEMMA BackedSoFarKept ==
  ASSUME Inv, NEW w \in Worker, BackedSoFar(w), UNCHANGED outputVars,
         \/ CoordinatorStep(w) \/ Renew(w) \/ ExecutorStep(w)
         \/ WorkerFault(w) \/ Crash(w) \/ UNCHANGED workerVars,
         ~RegisterArtifact(w), ~WriteResponse(w), ~Complete(w)
  PROVE  BackedSoFar(w)'
<1>0. LocalTypeOK
  BY DEF Inv, TypeOK, LocalTypeOK
<1> USE DEF BackedSoFar, outputVars
<1>1. ASSUME pc'[w] \notin Producing
      PROVE  BackedSoFar(w)'
  BY <1>1 DEF Producing
<1>2. CASE Renew(w) \/ UNCHANGED workerVars \/ RenewerDies(w)
  BY <1>2 DEF Renew, RenewerDies, workerVars
<1>3. ASSUME NEW label \in Pc \ Producing, Drop(w, label) \/ Goto(w, label)
      PROVE  BackedSoFar(w)'
  BY <1>0, <1>1, <1>3 DEF Drop, Goto, LocalTypeOK
<1>4. ASSUME NEW error, Raise(w, error)
      PROVE  BackedSoFar(w)'
  BY <1>0, <1>1, <1>4 DEF Raise, Goto, LocalTypeOK, Producing
<1>5. CASE Claim(w)
  <2>1. pc'[w] = "load" \/ Drop(w, "idle")
    BY <1>0, <1>5 DEF Claim, Goto, LocalTypeOK
  <2>2. CASE pc'[w] = "load"
    BY <1>5, <2>2, ClaimedUnanswered
  <2> QED BY <1>3, <2>1, <2>2 DEF Pc, CyclePcs, Producing
<1>6. CASE CoordinatorStep(w) /\ ~Claim(w)
  BY <1>3, <1>6 DEF CoordinatorStep, Start, Recover, Promote, FinalizeCancellations,
     SelectJob, Pc, CyclePcs, Producing
<1>7. CASE WorkerFault(w) \/ Crash(w)
  BY <1>2, <1>3, <1>4, <1>7 DEF WorkerFault, Crash, Pc, CyclePcs, Producing
<1>8. CASE LoadRequest(w) \/ ProviderReturns(w)
  BY <1>0, <1>4, <1>8 DEF LoadRequest, ProviderReturns, Goto, KeepJob, LocalTypeOK, Producing
<1>9. CASE CheckCancelled(w)
  BY <1>0, <1>9 DEF CheckCancelled, AfterCheck, Goto, KeepJob, LocalTypeOK, Producing
<1>10. CASE LostRace(w) \/ ReadAfterError(w) \/ CancelAttempt(w)
  BY <1>3, <1>4, <1>10 DEF LostRace, ReadAfterError, CancelAttempt, Pc, TryPcs, TailPcs, Producing
<1>11. CASE FailAttempt(w)
  <2>1. outcome[w] \in {"retry", "fail", "leave"}
    BY <1>11 DEF FailAttempt, Inv, WorkerInv, WorkerInvOf
  <2> QED BY <1>3, <1>11, <2>1 DEF FailAttempt, Pc, TailPcs, CyclePcs, Producing
<1>12. CASE Finish(w) \/ Retry(w) \/ Fail(w) \/ CancelJob(w)
  BY <1>3, <1>12 DEF Finish, Retry, Fail, CancelJob, Pc, CyclePcs, Producing
<1> QED BY <1>2, <1>5, <1>6, <1>7, <1>8, <1>9, <1>10, <1>11, <1>12 DEF ExecutorStep

\* The three steps that write something of a result do so for a job without one.
LEMMA WritersUnanswered ==
  ASSUME Inv, BackedInv, NEW w \in Worker,
         RegisterArtifact(w) \/ WriteResponse(w) \/ Complete(w)
  PROVE  /\ job[w] \in Job /\ attempt[w] \in Nat \ {0} /\ result[job[w]] = 0
         /\ pc[w] \in {"register", "write", "complete"}
<1>1. pc[w] \in {"register", "write", "complete"}
  BY DEF RegisterArtifact, WriteResponse, Complete
<1>2. WorkerInvOf(w) /\ Executing(w) /\ attemptCount \in [Job -> Nat]
  BY <1>1 DEF Inv, WorkerInv, RepoTypeOK, TypeOK, Executing, TryPcs
<1> QED BY <1>1, <1>2 DEF WorkerInvOf, BackedInv, BackedSoFar, Producing

LEMMA BackedWritten ==
  ASSUME Inv, BackedInv, OneProcess, NEW w \in Worker,
         RegisterArtifact(w) \/ WriteResponse(w) \/ Complete(w)
  PROVE  BackedInv'
<1>1. /\ LocalTypeOK /\ \A v \in Worker : v = w
      /\ result \in [Job -> Nat] /\ responseFile \in [Job -> Nat]
      /\ artifacts \in [Job -> SUBSET Nat]
  BY DEF OneProcess, Inv, TypeOK, LocalTypeOK, RepoTypeOK
<1>2. /\ job[w] \in Job /\ attempt[w] \in Nat \ {0} /\ result[job[w]] = 0
      /\ pc[w] \in {"register", "write", "complete"}
  BY WritersUnanswered
<1>3. SUFFICES ResultBacked' /\ BackedSoFar(w)'
  BY <1>1 DEF BackedInv
<1>4. ResultBacked /\ BackedSoFar(w)
  BY DEF BackedInv
<1>5. ASSUME NEW error, Raise(w, error)
      PROVE  BackedSoFar(w)'
  BY <1>1, <1>5 DEF Raise, Goto, LocalTypeOK, BackedSoFar, Producing
<1>6. CASE RegisterArtifact(w)
  <2>1. /\ result' = result /\ responseFile' = responseFile
        /\ artifacts' \in {artifacts, [artifacts EXCEPT ![job[w]] = @ \cup {attempt[w]}]}
    BY <1>6 DEF RegisterArtifact, repoVars
  <2>2. ResultBacked'
    BY <1>1, <1>2, <1>4, <2>1 DEF ResultBacked
  <2>3. CASE Goto(w, "write") /\ KeepJob /\ artifacts' = [artifacts EXCEPT ![job[w]] = @ \cup {attempt[w]}]
    BY <1>1, <1>2, <2>1, <2>2, <2>3 DEF Goto, KeepJob, LocalTypeOK, BackedSoFar, Producing
  <2> QED BY <1>5, <1>6, <2>2, <2>3 DEF RegisterArtifact
<1>7. CASE WriteResponse(w)
  <2>1. /\ result' = result /\ artifacts' = artifacts /\ pc[w] = "write"
        /\ responseFile' \in {responseFile, [responseFile EXCEPT ![job[w]] = attempt[w]]}
    BY <1>7 DEF WriteResponse, repoVars
  <2>2. ResultBacked'
    BY <1>1, <1>2, <1>4, <2>1 DEF ResultBacked
  <2>3. CASE Goto(w, "complete") /\ KeepJob /\ responseFile' = [responseFile EXCEPT ![job[w]] = attempt[w]]
    BY <1>1, <1>2, <1>4, <2>1, <2>2, <2>3 DEF Goto, KeepJob, LocalTypeOK, BackedSoFar, Producing
  <2> QED BY <1>5, <1>7, <2>2, <2>3 DEF WriteResponse
<1>8. CASE Complete(w) /\ CompleteJobWithResult(job[w], attempt[w])
  <2>1. result' = [result EXCEPT ![job[w]] = attempt[w]] /\ pc[w] = "complete" /\ UNCHANGED responseFile
    BY <1>8 DEF Complete, CompleteJobWithResult
  <2>2. UNCHANGED artifacts /\ Goto(w, "finish")
    BY <1>8 DEF Complete, CompleteJobWithResult
  <2>3. ResultBacked'
    BY <1>1, <1>2, <1>4, <2>1, <2>2 DEF ResultBacked, BackedSoFar
  <2> QED BY <1>1, <2>2, <2>3 DEF Goto, LocalTypeOK, BackedSoFar, Producing
<1>9. CASE Complete(w) /\ ~CompleteJobWithResult(job[w], attempt[w])
  <2>1. /\ result' = result /\ responseFile' = responseFile
        /\ artifacts' \in {artifacts, [artifacts EXCEPT ![job[w]] = @ \ {attempt[w]}]}
    BY <1>9 DEF Complete, repoVars
  <2>2. ResultBacked'
    BY <1>1, <1>2, <1>4, <2>1 DEF ResultBacked
  <2>3. CASE Goto(w, "lostRace")
    BY <1>1, <2>2, <2>3 DEF Goto, LocalTypeOK, BackedSoFar, Producing
  <2> QED BY <1>5, <1>9, <2>2, <2>3 DEF Complete
<1> QED BY <1>6, <1>7, <1>8, <1>9

LEMMA BackedStep ==
  ASSUME Inv, BackedInv, [Next]_vars, OneProcess
  PROVE  BackedInv'
<1>1. CASE \E w \in Worker : RegisterArtifact(w) \/ WriteResponse(w) \/ Complete(w)
  BY <1>1, BackedWritten
<1>2. CASE ~\E w \in Worker : RegisterArtifact(w) \/ WriteResponse(w) \/ Complete(w)
  <2>1. UNCHANGED outputVars
    BY <1>2, OutputKept
  <2>2. \A w \in Worker : BackedSoFar(w)'
    BY <1>2, <2>1, StepOfTheProcess, BackedSoFarKept DEF BackedInv
  <2> QED BY <2>1, <2>2 DEF BackedInv, ResultBacked, outputVars
<1> QED BY <1>1, <1>2

LEMMA AlwaysBackedInv == ASSUME OneProcess PROVE Spec => []BackedInv
<1>1. Init => BackedInv
  BY DEF Init, RepoInit, BackedInv, ResultBacked, BackedSoFar, Producing
<1>2. Inv /\ BackedInv /\ [Next]_vars => BackedInv'
  BY BackedStep
<1> QED BY <1>1, <1>2, AlwaysInv, PTL DEF Spec

\* With one process, a result that can be fetched is backed by the files of the very
\* attempt that produced it, whatever crashes, cancellations and retries surround it.
THEOREM ResultIsBacked == ASSUME OneProcess PROVE Spec => []ResultBacked
<1>1. BackedInv => ResultBacked
  BY DEF BackedInv
<1> QED BY <1>1, AlwaysBackedInv, PTL

LEMMA WrittenElsewhere ==
  ASSUME Inv, BackedInv, NEW w \in Worker,
         RegisterArtifact(w) \/ WriteResponse(w) \/ Complete(w),
         NEW j \in Job, result[j] # 0
  PROVE  UNCHANGED <<result[j], responseFile[j], artifacts[j]>>
<1>1. /\ result \in [Job -> Nat] /\ responseFile \in [Job -> Nat]
      /\ artifacts \in [Job -> SUBSET Nat]
  BY DEF Inv, TypeOK, RepoTypeOK
<1>2. job[w] \in Job /\ j # job[w]
  BY WritersUnanswered
<1>3. CASE RegisterArtifact(w) \/ WriteResponse(w)
  BY <1>1, <1>2, <1>3 DEF RegisterArtifact, WriteResponse, repoVars
<1>4. CASE Complete(w)
  BY <1>1, <1>2, <1>4 DEF Complete, CompleteJobWithResult, repoVars
<1> QED BY <1>3, <1>4

\* With one process, the result a client has seen never changes, nor do its files.
THEOREM ResultsAreFinal == ASSUME OneProcess PROVE Spec => ResultIsFinal
<1>1. Inv /\ BackedInv /\ [Next]_vars
        => [\A j \in Job : result[j] # 0
                            => UNCHANGED <<result[j], responseFile[j], artifacts[j]>>]_vars
  <2> SUFFICES ASSUME Inv, BackedInv, Next, NEW j \in Job, result[j] # 0
               PROVE  UNCHANGED <<result[j], responseFile[j], artifacts[j]>>
    OBVIOUS
  <2>1. CASE \E w \in Worker : RegisterArtifact(w) \/ WriteResponse(w) \/ Complete(w)
    BY <2>1, WrittenElsewhere
  <2>2. CASE ~\E w \in Worker : RegisterArtifact(w) \/ WriteResponse(w) \/ Complete(w)
    BY <2>2, OutputKept DEF outputVars
  <2> QED BY <2>1, <2>2
<1> QED BY <1>1, AlwaysInv, AlwaysBackedInv, PTL DEF Spec, ResultIsFinal

(***************************************************************************)
(* With one process, the bridge implements JobLifecycle: what a client may *)
(* rely on is all that it can observe.  The mapping looks at the           *)
(* repository only; that a job given back still has an attempt left, and   *)
(* that only a job which was never tried is refused, is BudgetInv.         *)
(***************************************************************************)
Phases == [j \in Job |-> PhaseOf(status[j])]
Answered == [j \in Job |-> result[j] # 0]

LEMMA PhaseOfEach ==
  /\ PhaseOf("absent") = "absent" /\ PhaseOf("cancel_requested") = "cancelling"
  /\ \A s \in Unclaimed : PhaseOf(s) = "waiting"
  /\ \A s \in ActiveExecution : PhaseOf(s) = "executing"
  /\ \A s \in Terminal : PhaseOf(s) = s
BY DEF PhaseOf, ActiveExecution, Unclaimed, Terminal

LEMMA LifecycleUnfolded ==
  /\ UNCHANGED Lifecycle!lifecycleVars
       <=> UNCHANGED <<Phases, attemptCount, Answered>>
  /\ \A j \in Job : \A from, to :
       Lifecycle!Move(j, from, to)
         <=> PhaseOf(status[j]) = from /\ Phases' = [Phases EXCEPT ![j] = to]
BY DEF Lifecycle!lifecycleVars, Lifecycle!Move, Phases, Answered

LEMMA PhaseMoves ==
  ASSUME Inv, NEW j \in Job, NEW s, status' = [status EXCEPT ![j] = s]
  PROVE  Phases' = [Phases EXCEPT ![j] = PhaseOf(s)]
BY DEF Inv, RepoGood, RepoTypeOK, Phases

LEMMA QuietIsStutter ==
  ASSUME UNCHANGED <<status, attemptCount, result>>
  PROVE  UNCHANGED Lifecycle!lifecycleVars
<1>1. UNCHANGED <<Phases, attemptCount, Answered>>
  BY DEF Phases, Answered
<1> QED BY <1>1, LifecycleUnfolded

\* A job that moves within a phase.
LEMMA SamePhaseIsStutter ==
  ASSUME Inv, NEW j \in Job, NEW s, status' = [status EXCEPT ![j] = s],
         PhaseOf(s) = PhaseOf(status[j]), UNCHANGED <<attemptCount, result>>
  PROVE  UNCHANGED Lifecycle!lifecycleVars
<1>1. Phases' = [Phases EXCEPT ![j] = PhaseOf(status[j])]
  BY PhaseMoves
<1>2. UNCHANGED <<Phases, attemptCount, Answered>>
  BY <1>1 DEF Phases, Answered
<1> QED BY <1>2, LifecycleUnfolded

MaySettle(j, p) ==
  \/ PhaseOf(status[j]) = "executing" /\ p = "waiting" /\ attemptCount[j] < MaxAttempts[j]
  \/ PhaseOf(status[j]) = "executing" /\ p = "failed"
  \/ PhaseOf(status[j]) = "cancelling" /\ p = "cancelled"

\* No code enters the status "expired", which the client's view does not know.
Unexpired == \A j \in Job : status[j] # "expired"

LEMMA UnexpiredStep ==
  ASSUME Inv, Unexpired, [Next]_vars
  PROVE  Unexpired'
<1> SUFFICES ASSUME NEW j \in Job PROVE status'[j] # "expired"
  BY DEF Unexpired
<1>0. status \in [Job -> Status] /\ [RepoNext]_repoVars /\ status[j] # "expired"
  BY StepIsRepoStep DEF Inv, RepoGood, RepoTypeOK, Unexpired
<1>1. CASE UNCHANGED repoVars
  BY <1>0, <1>1 DEF repoVars
<1>2. CASE Sweep
  BY <1>0, <1>2 DEF Sweep, PromoteDueRetries, FinalizePendingCancellations, RecoverStaleJobs
<1>3. ASSUME NEW k \in Job, JobOperation(k)
      PROVE  status'[j] # "expired"
  <2>1. CASE \E t \in BridgeTransitions : Transition(k, t[1], t[2])
    BY <1>0, <2>1 DEF Transition, BridgeTransitions
  <2>2. CASE ~\E t \in BridgeTransitions : Transition(k, t[1], t[2])
    BY <1>0, <1>3, <2>2 DEF JobOperation, CreateJob, ClaimJob, ScheduleRetry, RequestCancel,
       LeaseLapses, BackoffElapses, RenewLease, CompleteJobWithResult, FinishAttempt
  <2> QED BY <2>1, <2>2
<1> QED BY <1>0, <1>1, <1>2, <1>3 DEF RepoNext

LEMMA AlwaysUnexpired == Spec => []Unexpired
<1>1. Init => Unexpired
  BY DEF Init, RepoInit, Unexpired
<1>2. Inv /\ Unexpired /\ [Next]_vars => Unexpired'
  BY UnexpiredStep
<1> QED BY <1>1, <1>2, AlwaysInv, PTL DEF Spec

\* Any number of executions end and cancellations complete at once.
LEMMA SettlesAll ==
  ASSUME Inv, Unexpired, UNCHANGED <<attemptCount, result>>,
         status' \in [Job -> Status],
         \A j \in Job : status'[j] # status[j] => MaySettle(j, PhaseOf(status'[j]))
  PROVE  Lifecycle!Settle
<1>1. \A j \in Job : PhaseOf(status[j]) \in Lifecycle!Phase
  BY DEF Inv, RepoGood, RepoTypeOK, Unexpired, Status, Terminal, Cancellable, PhaseOf,
         ActiveExecution, Lifecycle!Phase
<1>2. \A j \in Job : PhaseOf(status'[j]) \in Lifecycle!Phase
  BY <1>1 DEF MaySettle, Lifecycle!Phase
<1>3. Phases' \in [Job -> Lifecycle!Phase]
  BY <1>2 DEF Phases
<1>4. \A j \in Job : Phases'[j] # Phases[j] => Lifecycle!MaySettleAs(j, Phases'[j])
  BY DEF Phases, MaySettle, Lifecycle!MaySettleAs
<1>5. UNCHANGED <<attemptCount, Answered>>
  BY DEF Answered
<1> QED BY <1>3, <1>4, <1>5 DEF Lifecycle!Settle, Phases, Answered

LEMMA SettlesOne ==
  ASSUME Inv, Unexpired, UNCHANGED <<attemptCount, result>>, NEW j \in Job, NEW s \in Status,
         status' = [status EXCEPT ![j] = s], MaySettle(j, PhaseOf(s))
  PROVE  Lifecycle!Settle
<1>1. status \in [Job -> Status]
  BY DEF Inv, RepoGood, RepoTypeOK
<1>2. /\ status' \in [Job -> Status]
      /\ \A k \in Job : status'[k] # status[k] => k = j /\ status'[k] = s
  BY <1>1
<1> QED BY <1>2, SettlesAll

LifeNext == [Lifecycle!Next]_(Lifecycle!lifecycleVars)

LEMMA LifeStep ==
  \/ Lifecycle!Settle \/ UNCHANGED Lifecycle!lifecycleVars
  \/ \E j \in Job : \/ Lifecycle!Submit(j) \/ Lifecycle!Refuse(j) \/ Lifecycle!TakeUp(j)
                    \/ Lifecycle!Succeed(j) \/ Lifecycle!Cancel(j)
  => LifeNext
BY DEF LifeNext, Lifecycle!Next

\* What the repository does for one job, in the words of JobLifecycle.
LEMMA CreateIsSubmit ==
  ASSUME Inv, NEW j \in Job, CreateJob(j)
  PROVE  Lifecycle!Submit(j)
<1>1. status[j] = "absent" /\ status' = [status EXCEPT ![j] = "accepted"]
  BY DEF CreateJob
<1>2. PhaseOf("absent") = "absent" /\ PhaseOf("accepted") = "waiting"
  BY PhaseOfEach DEF Unclaimed
<1>3. PhaseOf(status[j]) = "absent" /\ Phases' = [Phases EXCEPT ![j] = "waiting"]
  BY <1>1, <1>2, PhaseMoves
<1>4. UNCHANGED <<attemptCount, Answered>>
  BY DEF CreateJob, Answered
<1> QED BY <1>3, <1>4, LifecycleUnfolded DEF Lifecycle!Submit, Answered

LEMMA ClaimIsTakeUp ==
  ASSUME Inv, BudgetInv, NEW j \in Job, ClaimJob(j)
  PROVE  Lifecycle!TakeUp(j)
<1>1. status[j] = "queued" /\ status' = [status EXCEPT ![j] = "running"]
  BY DEF ClaimJob
<1>2. PhaseOf("queued") = "waiting" /\ PhaseOf("running") = "executing"
  BY PhaseOfEach DEF Unclaimed, ActiveExecution
<1>3. PhaseOf(status[j]) = "waiting" /\ Phases' = [Phases EXCEPT ![j] = "executing"]
  BY <1>1, <1>2, PhaseMoves
<1>4. UNCHANGED Answered /\ attemptCount' = [attemptCount EXCEPT ![j] = @ + 1]
  BY DEF ClaimJob, Answered
<1>5. attemptCount[j] < MaxAttempts[j]
  BY DEF ClaimJob, BudgetInv, AttemptBudget
<1> QED BY <1>3, <1>4, <1>5, LifecycleUnfolded DEF Lifecycle!TakeUp, Answered

LEMMA CompleteIsSucceed ==
  ASSUME Inv, NEW j \in Job, NEW n \in Nat \ {0}, CompleteJobWithResult(j, n)
  PROVE  Lifecycle!Succeed(j)
<1>1. status[j] = "running" /\ status' = [status EXCEPT ![j] = "succeeded"]
  BY DEF CompleteJobWithResult
<1>2. PhaseOf("running") = "executing" /\ PhaseOf("succeeded") = "succeeded"
  BY PhaseOfEach DEF Terminal, ActiveExecution
<1>3. PhaseOf(status[j]) = "executing" /\ Phases' = [Phases EXCEPT ![j] = "succeeded"]
  BY <1>1, <1>2, PhaseMoves
<1>4. Answered' = [Answered EXCEPT ![j] = TRUE] /\ UNCHANGED attemptCount
  <2>1. result \in [Job -> Nat] /\ result' = [result EXCEPT ![j] = n]
    BY DEF CompleteJobWithResult, Inv, RepoGood, RepoTypeOK
  <2>2. \A k \in Job : (result'[k] # 0) = IF k = j THEN TRUE ELSE (result[k] # 0)
    BY <2>1
  <2> QED BY <2>2 DEF CompleteJobWithResult, Answered
<1> QED BY <1>3, <1>4, LifecycleUnfolded DEF Lifecycle!Succeed, Answered

LEMMA RequestIsCancel ==
  ASSUME Inv, NEW j \in Job, RequestCancel(j)
  PROVE  Lifecycle!Cancel(j)
<1>1. status[j] \in Unclaimed \cup ActiveExecution
  BY DEF RequestCancel, Cancellable, Unclaimed, ActiveExecution
<1>2. status' = [status EXCEPT ![j] = "cancel_requested"]
  BY DEF RequestCancel
<1>3. /\ PhaseOf(status[j]) \in {"waiting", "executing"}
      /\ PhaseOf("cancel_requested") = "cancelling"
  BY <1>1, PhaseOfEach
<1>4. /\ PhaseOf(status[j]) \in {"waiting", "executing"}
      /\ Phases' = [Phases EXCEPT ![j] = "cancelling"]
  BY <1>2, <1>3, PhaseMoves
<1>5. UNCHANGED <<attemptCount, Answered>>
  BY DEF RequestCancel, Answered
<1> QED BY <1>4, <1>5, LifecycleUnfolded DEF Lifecycle!Cancel, Answered

\* The transitions the handlers and executors ask for.
LEMMA TransitionInLife ==
  ASSUME Inv, BudgetInv, Unexpired, NEW j \in Job, NEW t \in BridgeTransitions,
         Transition(j, t[1], t[2])
  PROVE  LifeNext
<1>1. status[j] = t[1] /\ status' = [status EXCEPT ![j] = t[2]] /\ UNCHANGED <<attemptCount, result>>
  BY DEF Transition
<1>2. CASE t = <<"accepted", "validating">> \/ t = <<"validating", "queued">>
  <2>1. PhaseOf(t[1]) = PhaseOf(t[2])
    BY <1>2, PhaseOfEach DEF Unclaimed
  <2> QED BY <1>1, <2>1, SamePhaseIsStutter, LifeStep
<1>3. CASE t = <<"validating", "failed">>
  <2>1. status[j] = "validating" /\ status' = [status EXCEPT ![j] = "failed"]
    BY <1>1, <1>3
  <2>2. PhaseOf("validating") = "waiting" /\ PhaseOf("failed") = "failed"
    BY PhaseOfEach DEF Unclaimed, Terminal
  <2>3. PhaseOf(status[j]) = "waiting" /\ Phases' = [Phases EXCEPT ![j] = "failed"]
    BY <2>1, <2>2, PhaseMoves
  <2>4. attemptCount[j] = 0
    BY <1>1, <1>3 DEF BudgetInv, NotYetTried
  <2>5. Lifecycle!Refuse(j)
    BY <1>1, <2>3, <2>4, LifecycleUnfolded DEF Lifecycle!Refuse
  <2> QED BY <2>5, LifeStep
<1>4. CASE t = <<"running", "failed">> \/ t = <<"cancel_requested", "cancelled">>
  <2>1. t[2] \in Status /\ MaySettle(j, PhaseOf(t[2]))
    BY <1>1, <1>4, PhaseOfEach DEF MaySettle, Status, Terminal, ActiveExecution
  <2> QED BY <1>1, <2>1, SettlesOne, LifeStep
<1> QED BY <1>2, <1>3, <1>4 DEF BridgeTransitions

LEMMA TransitionToLife ==
  ASSUME Inv, BudgetInv, Unexpired, NEW j \in Job, NEW from, NEW to,
         <<from, to>> \in BridgeTransitions, Transition(j, from, to)
  PROVE  LifeNext
<1>1. <<from, to>>[1] = from /\ <<from, to>>[2] = to
  OBVIOUS
<1> QED BY <1>1, TransitionInLife

LEMMA CoordinatorInLife ==
  ASSUME Inv, BudgetInv, Unexpired, NEW w \in Worker, CoordinatorStep(w)
  PROVE  LifeNext
<1>0. status \in [Job -> Status] /\ status' \in [Job -> Status]
  <2>1. RepoGood /\ RepoGood'
    BY StepInv DEF Inv, Next
  <2> QED BY <2>1 DEF RepoGood, RepoTypeOK
<1>1. CASE Start(w) \/ SelectJob(w)
  BY <1>1, QuietIsStutter, LifeStep DEF Start, SelectJob, repoVars
<1>2. CASE Recover(w)
  <2>1. RecoverStaleJobs(stale[w]) /\ \A j \in Job : stale[w][j] \in {0, attemptCount[j]}
    BY <1>2 DEF Recover, BudgetInv, BudgetKnown
  <2>2. ASSUME NEW j \in Job, status'[j] # status[j]
        PROVE  MaySettle(j, PhaseOf(status'[j]))
    <3>1. /\ status[j] \in ActiveExecution /\ stale[w][j] = attemptCount[j]
          /\ status'[j] = IF stale[w][j] < MaxAttempts[j] THEN "queued" ELSE "failed"
      BY <2>1, <2>2 DEF RecoverStaleJobs, Recovered
    <3> QED BY <3>1, PhaseOfEach DEF MaySettle, Unclaimed, Terminal
  <2>3. UNCHANGED <<attemptCount, result>>
    BY <2>1 DEF RecoverStaleJobs
  <2> QED BY <1>0, <2>2, <2>3, SettlesAll, LifeStep
<1>3. CASE Promote(w)
  <2>1. PromoteDueRetries
    BY <1>3 DEF Promote
  <2>2. \A j \in Job : PhaseOf(status'[j]) = PhaseOf(status[j])
    BY <1>0, <2>1, PhaseOfEach DEF PromoteDueRetries, RetryDue, Unclaimed
  <2>3. UNCHANGED <<Phases, attemptCount, Answered>>
    BY <2>1, <2>2 DEF PromoteDueRetries, Phases, Answered
  <2> QED BY <2>3, LifecycleUnfolded, LifeStep
<1>4. CASE FinalizeCancellations(w)
  <2>1. FinalizePendingCancellations
    BY <1>4 DEF FinalizeCancellations
  <2>2. ASSUME NEW j \in Job, status'[j] # status[j]
        PROVE  MaySettle(j, PhaseOf(status'[j]))
    <3>1. status[j] = "cancel_requested" /\ status'[j] = "cancelled"
      BY <2>1, <2>2 DEF FinalizePendingCancellations, CancelPending
    <3> QED BY <3>1, PhaseOfEach DEF MaySettle, Terminal
  <2>3. UNCHANGED <<attemptCount, result>>
    BY <2>1 DEF FinalizePendingCancellations
  <2> QED BY <1>0, <2>2, <2>3, SettlesAll, LifeStep
<1>5. CASE Claim(w)
  <2>1. CASE UNCHANGED repoVars
    BY <2>1, QuietIsStutter, LifeStep DEF repoVars
  <2>2. CASE ClaimJob(job[w])
    <3>1. job[w] \in Job
      BY <1>5 DEF Claim, Inv, WorkerInv, WorkerInvOf
    <3> QED BY <2>2, <3>1, ClaimIsTakeUp, LifeStep
  <2> QED BY <1>5, <2>1, <2>2 DEF Claim
<1> QED BY <1>1, <1>2, <1>3, <1>4, <1>5 DEF CoordinatorStep

LEMMA ExecutorInLife ==
  ASSUME Inv, BudgetInv, Unexpired, NEW w \in Worker, ExecutorStep(w)
  PROVE  LifeNext
<1>0. Executing(w) => job[w] \in Job /\ attempt[w] \in Nat \ {0}
  <2>1. attemptCount \in [Job -> Nat] /\ WorkerInvOf(w)
    BY DEF Inv, RepoGood, RepoTypeOK, WorkerInv
  <2> QED BY <2>1 DEF WorkerInvOf
<1>1. CASE UNCHANGED repoVars
  BY <1>1, QuietIsStutter, LifeStep DEF repoVars
<1>2. CASE \/ LoadRequest(w) \/ CheckCancelled(w) \/ ProviderReturns(w) \/ RegisterArtifact(w)
           \/ WriteResponse(w) \/ LostRace(w) \/ ReadAfterError(w)
  BY <1>1, <1>2 DEF LoadRequest, CheckCancelled, ProviderReturns, RegisterArtifact,
     WriteResponse, LostRace, ReadAfterError
<1>3. CASE Finish(w) \/ FailAttempt(w) \/ CancelAttempt(w)
  BY <1>3, QuietIsStutter, LifeStep DEF Finish, FailAttempt, CancelAttempt, FinishAttempt
<1>4. CASE Complete(w)
  <2>1. Executing(w)
    BY <1>4 DEF Complete, Executing, TryPcs
  <2>2. CompleteJobWithResult(job[w], attempt[w]) \/ UNCHANGED repoVars
    BY <1>4 DEF Complete
  <2> QED BY <1>0, <1>1, <2>1, <2>2, CompleteIsSucceed, LifeStep
<1>5. CASE Retry(w)
  <2>1. Executing(w) /\ attemptCount[job[w]] < MaxAttempts[job[w]]
    BY <1>5 DEF Retry, Executing, TailPcs, BudgetInv, BudgetKnown
  <2>2. CASE ScheduleRetry(job[w])
    <3>1. MaySettle(job[w], PhaseOf("retry_wait")) /\ "retry_wait" \in Status
      BY <2>1, <2>2, PhaseOfEach DEF ScheduleRetry, MaySettle, Unclaimed, ActiveExecution,
         Status, Cancellable
    <3> QED BY <1>0, <2>1, <2>2, <3>1, SettlesOne, LifeStep DEF ScheduleRetry
  <2> QED BY <1>1, <1>5, <2>2 DEF Retry
<1>6. CASE Fail(w) \/ CancelJob(w)
  <2>1. Executing(w)
    BY <1>6 DEF Fail, CancelJob, Executing, TryPcs, TailPcs
  <2>2. \/ Transition(job[w], "running", "failed")
        \/ Transition(job[w], "cancel_requested", "cancelled") \/ UNCHANGED repoVars
    BY <1>6 DEF Fail, CancelJob
  <2> QED BY <1>0, <1>1, <2>1, <2>2, TransitionToLife DEF BridgeTransitions
<1> QED BY <1>2, <1>3, <1>4, <1>5, <1>6 DEF ExecutorStep

LEMMA HandlerInLife ==
  ASSUME Inv, BudgetInv, Unexpired, NEW j \in Job,
         \/ \E w \in Worker : Create(w, j)
         \/ SubmitStep(j) \/ Cancel(j) \/ SubmitFault(j)
         \/ LeaseDeadline(j) \/ RetryDeadline(j)
  PROVE  LifeNext
<1>1. CASE \E w \in Worker : Create(w, j)
  BY <1>1, CreateIsSubmit, LifeStep DEF Create
<1>2. CASE Cancel(j)
  BY <1>2, RequestIsCancel, LifeStep DEF Cancel
<1>3. CASE SubmitStep(j)
  <2>1. \/ Transition(j, "accepted", "validating") \/ Transition(j, "validating", "failed")
        \/ Transition(j, "validating", "queued") \/ UNCHANGED repoVars
    BY <1>3 DEF SubmitStep, Validate, PersistRequest, Reject, Enqueue
  <2>2. CASE UNCHANGED repoVars
    BY <2>2, QuietIsStutter, LifeStep DEF repoVars
  <2> QED BY <2>1, <2>2, TransitionToLife DEF BridgeTransitions
<1>4. CASE SubmitFault(j) \/ LeaseDeadline(j) \/ RetryDeadline(j)
  BY <1>4, QuietIsStutter, LifeStep DEF SubmitFault, LeaseDeadline, LeaseLapses, RetryDeadline,
     BackoffElapses, repoVars
<1> QED BY <1>1, <1>2, <1>3, <1>4

LEMMA BridgeInLife ==
  ASSUME Inv, BudgetInv, Unexpired, [Next]_vars
  PROVE  LifeNext
<1>1. CASE UNCHANGED vars
  BY <1>1, QuietIsStutter, LifeStep DEF vars, repoVars
<1>2. ASSUME NEW w \in Worker, Renew(w) \/ WorkerFault(w) \/ Crash(w)
      PROVE  LifeNext
  BY <1>2, QuietIsStutter, LifeStep DEF Renew, RenewLease, WorkerFault, Crash, repoVars
<1> QED BY <1>1, <1>2, CoordinatorInLife, ExecutorInLife, HandlerInLife DEF Next

\* One process keeps all that JobLifecycle promises the client: a job is taken up at most
\* max_attempts times and given back only while attempts are left, its result appears with
\* its success, a cancelled job can only end cancelled, what has ended never changes.
THEOREM KeepsPromises == ASSUME OneProcess PROVE Spec => ImplementsLifecycle
<1>1. Init => Lifecycle!Init
  <2> SUFFICES ASSUME Init PROVE Lifecycle!Init
    OBVIOUS
  <2>1. \A j \in Job : PhaseOf(status[j]) = "absent" /\ result[j] = 0
    BY PhaseOfEach DEF Init, RepoInit
  <2> QED BY <2>1 DEF Lifecycle!Init, Init, RepoInit
<1>2. Inv /\ BudgetInv /\ Unexpired /\ [Next]_vars
        => [Lifecycle!Next]_(Lifecycle!lifecycleVars)
  BY BridgeInLife DEF LifeNext
<1> QED BY <1>1, <1>2, AlwaysInv, AlwaysBudgetInv, AlwaysUnexpired, PTL
        DEF Spec, ImplementsLifecycle, Lifecycle!Spec
=============================================================================
