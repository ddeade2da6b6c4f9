---------------------- MODULE AgentJobExecutionProofs ----------------------
(***************************************************************************)
(* What holds of the bridge for every number of processes, jobs, crashes   *)
(* and refused storage operations.                                         *)
(*                                                                         *)
(* The argument: every step of the bridge is a step of the repository or   *)
(* leaves the database alone (StepIsRepoStep), so the repository's         *)
(* invariants carry over.  That needs to know that an executor only        *)
(* touches the row of an attempt it has claimed, which is part of          *)
(* WorkerInv.                                                              *)
(***************************************************************************)
EXTENDS AgentJobExecution, AgentJobsProofs

Executing(w) == pc[w] \in TryPcs \cup TailPcs

\* An executor that will not touch its job any more, or only to record that it
\* was cancelled.
GivenUp(w) ==
  \/ leaseLost[w]
  \/ pc[w] \in {"finish", "cancelAttempt", "cancelJob",
                "tailCancelAttempt", "tailCancelJob"}
  \/ pc[w] = "failAttempt" /\ outcome[w] = "leave"

WorkerInvOf(w) ==
  /\ pc[w] = "claim" => job[w] \in Job
  /\ Executing(w) => job[w] \in Job /\ attempt[w] \in 1..attemptCount[job[w]]
  /\ renewing[w] \/ leaseLost[w] => Executing(w)
  /\ pc[w] = "failAttempt" => outcome[w] \in {"retry", "fail", "leave"}
  /\ pc[w] = "finish" => result[job[w]] = attempt[w]
  /\ Executing(w) /\ attempt[w] = attemptCount[job[w]] /\ GivenUp(w)
       => status[job[w]] \notin ActiveExecution

WorkerInv == \A w \in Worker : WorkerInvOf(w)

LocalTypeOK ==
  /\ pc \in [Worker -> Pc]
  /\ stale \in [Worker -> [Job -> Nat]]
  /\ job \in [Worker -> Job \cup {NoJob}]
  /\ attempt \in [Worker -> Nat]
  /\ leaseLost \in [Worker -> BOOLEAN]
  /\ renewing \in [Worker -> BOOLEAN]
  /\ outcome \in [Worker -> {"none", "retryable", "fatal", "retry", "fail", "leave"}]

Inv == TypeOK /\ RepoGood /\ WorkerInv

(***************************************************************************)
(* Every step is a step of the repository.                                 *)
(***************************************************************************)
LEMMA AttemptHasRow ==
  ASSUME RepoGood, NEW j \in Job, NEW n \in 1..attemptCount[j]
  PROVE  n \in DOMAIN attempts[j]
<1>1. attempts[j] \in Seq(AttemptStatus) /\ Len(attempts[j]) = attemptCount[j]
  BY DEF RepoGood, RepoInv, RepoTypeOK, AttemptRowsMatchCount
<1> QED BY <1>1

LEMMA OneJobStep ==
  ASSUME NEW j \in Job, JobOperation(j)
  PROVE  [RepoNext]_repoVars
BY DEF RepoNext

LEMMA TransitionStep ==
  ASSUME NEW j \in Job, NEW from, NEW to, <<from, to>> \in BridgeTransitions,
         Transition(j, from, to)
  PROVE  [RepoNext]_repoVars
<1>1. \E t \in BridgeTransitions : Transition(j, t[1], t[2])
  <2>1. <<from, to>>[1] = from /\ <<from, to>>[2] = to
    OBVIOUS
  <2> QED BY <2>1
<1> QED BY <1>1, OneJobStep DEF JobOperation

LEMMA FinishStep ==
  ASSUME Inv, NEW w \in Worker, Executing(w),
         NEW s \in AttemptStatus \ {"running"},
         FinishAttempt(job[w], attempt[w], s)
  PROVE  [RepoNext]_repoVars
<1>1. job[w] \in Job /\ attempt[w] \in DOMAIN attempts[job[w]]
  BY AttemptHasRow DEF Inv, WorkerInv, WorkerInvOf
<1> QED BY <1>1, OneJobStep DEF JobOperation

LEMMA CoordinatorIsRepoStep ==
  ASSUME Inv, NEW w \in Worker, CoordinatorStep(w)
  PROVE  [RepoNext]_repoVars
<1>1. CASE Start(w)
  BY <1>1 DEF Start
<1>2. CASE Recover(w)
  <2>1. stale[w] \in [Job -> Nat]
    BY DEF Inv, TypeOK
  <2> QED BY <1>2, <2>1 DEF Recover, RepoNext, Sweep
<1>3. CASE Promote(w)
  BY <1>3 DEF Promote, RepoNext, Sweep
<1>4. CASE FinalizeCancellations(w)
  BY <1>4 DEF FinalizeCancellations, RepoNext, Sweep
<1>5. CASE SelectJob(w)
  BY <1>5 DEF SelectJob
<1>6. CASE Claim(w)
  <2>1. job[w] \in Job
    BY <1>6 DEF Claim, Inv, WorkerInv, WorkerInvOf
  <2>2. ClaimJob(job[w]) \/ UNCHANGED repoVars
    BY <1>6 DEF Claim
  <2> QED BY <2>1, <2>2, OneJobStep DEF JobOperation
<1> QED BY <1>1, <1>2, <1>3, <1>4, <1>5, <1>6 DEF CoordinatorStep

LEMMA ExecutorIsRepoStep ==
  ASSUME Inv, NEW w \in Worker, ExecutorStep(w)
  PROVE  [RepoNext]_repoVars
<1>1. CASE LoadRequest(w) \/ CheckCancelled(w) \/ ProviderReturns(w)
           \/ RegisterArtifact(w) \/ WriteResponse(w) \/ LostRace(w)
           \/ ReadAfterError(w)
  BY <1>1 DEF LoadRequest, CheckCancelled, ProviderReturns, RegisterArtifact,
              WriteResponse, LostRace, ReadAfterError
<1>2. CASE Complete(w)
  <2>1. Executing(w)
    BY <1>2 DEF Complete, Executing, TryPcs
  <2>2. job[w] \in Job /\ attempt[w] \in DOMAIN attempts[job[w]]
    BY <2>1, AttemptHasRow DEF Inv, WorkerInv, WorkerInvOf
  <2>3. CompleteJobWithResult(job[w], attempt[w]) \/ UNCHANGED repoVars
    BY <1>2 DEF Complete
  <2> QED BY <2>2, <2>3, OneJobStep DEF JobOperation
<1>3. CASE Finish(w)
  <2>1. Executing(w)
    BY <1>3 DEF Finish, Executing, TryPcs
  <2> QED BY <1>3, <2>1, FinishStep DEF Finish, AttemptStatus
<1>4. CASE FailAttempt(w)
  <2>1. Executing(w)
    BY <1>4 DEF FailAttempt, Executing, TailPcs
  <2> QED BY <1>4, <2>1, FinishStep DEF FailAttempt, AttemptStatus
<1>5. CASE CancelAttempt(w)
  <2>1. Executing(w)
    BY <1>5 DEF CancelAttempt, Executing, TryPcs, TailPcs
  <2> QED BY <1>5, <2>1, FinishStep DEF CancelAttempt, AttemptStatus
<1>6. CASE Retry(w)
  <2>1. job[w] \in Job
    BY <1>6 DEF Retry, Inv, WorkerInv, WorkerInvOf, Executing, TailPcs
  <2>2. ScheduleRetry(job[w]) \/ UNCHANGED repoVars
    BY <1>6 DEF Retry
  <2> QED BY <2>1, <2>2, OneJobStep DEF JobOperation
<1>7. CASE Fail(w)
  <2>1. job[w] \in Job
    BY <1>7 DEF Fail, Inv, WorkerInv, WorkerInvOf, Executing, TailPcs
  <2>2. Transition(job[w], "running", "failed") \/ UNCHANGED repoVars
    BY <1>7 DEF Fail
  <2> QED BY <2>1, <2>2, TransitionStep DEF BridgeTransitions
<1>8. CASE CancelJob(w)
  <2>1. job[w] \in Job
    BY <1>8 DEF CancelJob, Inv, WorkerInv, WorkerInvOf, Executing, TryPcs, TailPcs
  <2>2. \/ Transition(job[w], "cancel_requested", "cancelled")
        \/ UNCHANGED repoVars
    BY <1>8 DEF CancelJob
  <2> QED BY <2>1, <2>2, TransitionStep DEF BridgeTransitions
<1> QED BY <1>1, <1>2, <1>3, <1>4, <1>5, <1>6, <1>7, <1>8 DEF ExecutorStep

LEMMA RenewIsRepoStep ==
  ASSUME Inv, NEW w \in Worker, Renew(w)
  PROVE  [RepoNext]_repoVars
<1>1. renewing[w] /\ (RenewLease(job[w], attempt[w]) \/ UNCHANGED repoVars)
  BY DEF Renew
<1>2. job[w] \in Job /\ attempt[w] \in DOMAIN attempts[job[w]]
  BY <1>1, AttemptHasRow DEF Inv, WorkerInv, WorkerInvOf
<1> QED BY <1>1, <1>2, OneJobStep DEF JobOperation

LEMMA SubmitIsRepoStep ==
  ASSUME NEW j \in Job, SubmitStep(j)
  PROVE  [RepoNext]_repoVars
<1>1. CASE Validate(j)
  BY <1>1, TransitionStep DEF Validate, BridgeTransitions
<1>2. CASE PersistRequest(j)
  BY <1>2 DEF PersistRequest
<1>3. CASE Reject(j)
  BY <1>3, TransitionStep DEF Reject, BridgeTransitions
<1>4. CASE Enqueue(j)
  BY <1>4, TransitionStep DEF Enqueue, BridgeTransitions
<1> QED BY <1>1, <1>2, <1>3, <1>4 DEF SubmitStep

LEMMA StepIsRepoStep ==
  ASSUME Inv, [Next]_vars
  PROVE  [RepoNext]_repoVars
<1>1. CASE UNCHANGED vars
  BY <1>1 DEF vars
<1>2. ASSUME NEW w \in Worker,
             \/ CoordinatorStep(w) \/ Renew(w) \/ ExecutorStep(w)
             \/ WorkerFault(w) \/ Crash(w)
             \/ \E j \in Job : Create(w, j)
      PROVE  [RepoNext]_repoVars
  <2>1. CASE CoordinatorStep(w)
    BY <2>1, CoordinatorIsRepoStep
  <2>2. CASE Renew(w)
    BY <2>2, RenewIsRepoStep
  <2>3. CASE ExecutorStep(w)
    BY <2>3, ExecutorIsRepoStep
  <2>4. CASE WorkerFault(w) \/ Crash(w)
    BY <2>4 DEF WorkerFault, Crash
  <2>5. CASE \E j \in Job : Create(w, j)
    BY <2>5, OneJobStep DEF Create, JobOperation
  <2> QED BY <1>2, <2>1, <2>2, <2>3, <2>4, <2>5
<1>3. ASSUME NEW j \in Job,
             \/ SubmitStep(j) \/ Cancel(j) \/ SubmitFault(j)
             \/ LeaseDeadline(j) \/ RetryDeadline(j)
      PROVE  [RepoNext]_repoVars
  <2>1. CASE SubmitStep(j)
    BY <2>1, SubmitIsRepoStep
  <2>2. CASE Cancel(j)
    BY <2>2, OneJobStep DEF Cancel, JobOperation
  <2>3. CASE SubmitFault(j)
    BY <2>3 DEF SubmitFault
  <2>4. CASE LeaseDeadline(j)
    BY <2>4, OneJobStep DEF LeaseDeadline, JobOperation
  <2>5. CASE RetryDeadline(j)
    BY <2>5, OneJobStep DEF RetryDeadline, JobOperation
  <2> QED BY <1>3, <2>1, <2>2, <2>3, <2>4, <2>5
<1> QED BY <1>1, <1>2, <1>3 DEF Next

(***************************************************************************)
(* What a step of one process does to its own variables, and that it does  *)
(* nothing to those of the others.                                         *)
(***************************************************************************)
OthersKeep(w) ==
  \A v \in Worker \ {w} :
    /\ pc'[v] = pc[v] /\ job'[v] = job[v] /\ attempt'[v] = attempt[v]
    /\ leaseLost'[v] = leaseLost[v] /\ renewing'[v] = renewing[v]
    /\ outcome'[v] = outcome[v]

SameJob(w) == job'[w] = job[w] /\ attempt'[w] = attempt[w]

SameLocals(w) ==
  /\ SameJob(w) /\ leaseLost'[w] = leaseLost[w]
  /\ renewing'[w] = renewing[w] /\ outcome'[w] = outcome[w]

LEMMA MoveEffect ==
  ASSUME LocalTypeOK, NEW w \in Worker, NEW label \in Pc, Goto(w, label), KeepJob
  PROVE  LocalTypeOK' /\ OthersKeep(w) /\ SameLocals(w) /\ pc'[w] = label
BY DEF LocalTypeOK, Goto, KeepJob, OthersKeep, SameLocals, SameJob

LEMMA RaiseEffect ==
  ASSUME LocalTypeOK, NEW w \in Worker, NEW error \in {"retryable", "fatal"},
         Raise(w, error)
  PROVE  /\ LocalTypeOK' /\ OthersKeep(w) /\ SameJob(w) /\ pc'[w] = "failing"
         /\ leaseLost'[w] = leaseLost[w] /\ renewing'[w] = renewing[w]
<1>1. "failing" \in Pc
  BY DEF Pc, TailPcs
<1> QED BY <1>1 DEF LocalTypeOK, Raise, Goto, OthersKeep, SameJob

LEMMA DropEffect ==
  ASSUME LocalTypeOK, NEW w \in Worker, NEW label \in Pc, Drop(w, label)
  PROVE  /\ LocalTypeOK' /\ OthersKeep(w) /\ pc'[w] = label
         /\ ~renewing'[w] /\ ~leaseLost'[w]
<1>1. NothingStale \in [Job -> Nat]
  BY DEF NothingStale
<1> QED BY <1>1 DEF LocalTypeOK, Drop, Goto, OthersKeep

(***************************************************************************)
(* WorkerInvOf is kept by the steps of others, holds of a process without  *)
(* a claim, and passes from step to step of an executor.                   *)
(***************************************************************************)
LEMMA OthersInv ==
  ASSUME Inv, NEW w \in Worker, OthersKeep(w), \A k \in Job : Progress(k),
         NEW v \in Worker \ {w}
  PROVE  WorkerInvOf(v)'
<1>1. WorkerInvOf(v) /\ RepoTypeOK
  BY DEF Inv, WorkerInv, RepoGood
<1>2. UNCHANGED <<pc[v], job[v], attempt[v], leaseLost[v], renewing[v], outcome[v]>>
  BY DEF OthersKeep
<1>3. CASE ~Executing(v)
  BY <1>1, <1>2, <1>3 DEF WorkerInvOf, Executing, TryPcs
<1>4. CASE Executing(v)
  <2>1. job[v] \in Job /\ attempt[v] \in 1..attemptCount[job[v]]
    BY <1>1, <1>4 DEF WorkerInvOf
  <2>2. Progress(job[v]) /\ attemptCount[job[v]] \in Nat
    BY <2>1, <1>1 DEF RepoTypeOK
  <2>3. attempt[v] \in 1..attemptCount'[job[v]]
    BY <2>1, <2>2 DEF Progress
  <2>4. GivenUp(v)' <=> GivenUp(v)
    BY <1>2 DEF GivenUp
  <2>5. attempt[v] = attemptCount'[job[v]] /\ GivenUp(v)
          => status'[job[v]] \notin ActiveExecution
    BY <1>1, <1>4, <2>1, <2>2 DEF WorkerInvOf, Progress
  <2>6. pc[v] = "finish" => result'[job[v]] = attempt[v]
    BY <1>1, <2>1, <2>2 DEF WorkerInvOf, Progress
  <2> QED BY <1>1, <1>2, <1>4, <2>1, <2>3, <2>4, <2>5, <2>6
          DEF WorkerInvOf, Executing
<1> QED BY <1>3, <1>4

LEMMA IdleInv ==
  ASSUME NEW w \in Worker, pc'[w] \in CyclePcs \cup {"down", "recover"},
         ~renewing'[w], ~leaseLost'[w], pc'[w] = "claim" => job'[w] \in Job
  PROVE  WorkerInvOf(w)'
BY DEF WorkerInvOf, Executing, CyclePcs, TryPcs, TailPcs

LEMMA ExecutingInv ==
  ASSUME Inv, NEW w \in Worker, Executing(w), pc'[w] \in TryPcs \cup TailPcs,
         SameJob(w), \A k \in Job : Progress(k),
         pc'[w] = "failAttempt" => outcome'[w] \in {"retry", "fail", "leave"},
         pc'[w] = "finish" => result'[job[w]] = attempt[w],
         attempt[w] = attemptCount[job[w]] /\ GivenUp(w)'
           => GivenUp(w) \/ status'[job[w]] \notin ActiveExecution
  PROVE  WorkerInvOf(w)'
<1>1. WorkerInvOf(w) /\ RepoTypeOK
  BY DEF Inv, WorkerInv, RepoGood
<1>2. job[w] \in Job /\ attempt[w] \in 1..attemptCount[job[w]]
  BY <1>1 DEF WorkerInvOf
<1>3. Progress(job[w]) /\ attemptCount[job[w]] \in Nat
  BY <1>1, <1>2 DEF RepoTypeOK
<1>4. attempt[w] \in 1..attemptCount'[job[w]]
  BY <1>2, <1>3 DEF Progress
<1>5. attempt[w] = attemptCount'[job[w]] /\ GivenUp(w)'
        => status'[job[w]] \notin ActiveExecution
  BY <1>1, <1>2, <1>3 DEF WorkerInvOf, Progress
<1>6. pc'[w] # "claim"
  BY DEF TryPcs, TailPcs
<1> QED BY <1>1, <1>2, <1>4, <1>5, <1>6 DEF WorkerInvOf, Executing, SameJob

\* What is left to show of a step of process w.
LEMMA WorkerInvFromOwn ==
  ASSUME Inv, NEW w \in Worker, OthersKeep(w), \A k \in Job : Progress(k),
         WorkerInvOf(w)'
  PROVE  WorkerInv'
<1> SUFFICES ASSUME NEW v \in Worker PROVE WorkerInvOf(v)'
  BY DEF WorkerInv
<1>1. CASE v = w
  BY <1>1
<1>2. CASE v # w
  BY <1>2, OthersInv
<1> QED BY <1>1, <1>2

LEMMA LabelsAreTyped ==
  /\ TryPcs \subseteq Pc /\ TailPcs \subseteq Pc /\ CyclePcs \subseteq Pc
  /\ "down" \in Pc /\ "recover" \in Pc
BY DEF Pc

LEMMA CoordinatorLocal ==
  ASSUME Inv, NEW w \in Worker, CoordinatorStep(w), \A k \in Job : Progress(k)
  PROVE  LocalTypeOK' /\ WorkerInv' /\ OthersKeep(w)
<1> USE LabelsAreTyped
<1>0. LocalTypeOK /\ RepoTypeOK /\ WorkerInvOf(w)
  BY DEF Inv, TypeOK, LocalTypeOK, WorkerInv
<1>1. CASE Start(w)
  <2>1. StaleJobs \in [Job -> Nat]
    BY <1>0 DEF StaleJobs, RepoTypeOK
  <2>2. LocalTypeOK'
    BY <1>0, <1>1, <2>1 DEF Start, Goto, LocalTypeOK
  <2>3. OthersKeep(w)
    BY <1>0, <1>1 DEF Start, Goto, LocalTypeOK, OthersKeep
  <2>4. WorkerInvOf(w)'
    <3>1. ~renewing[w] /\ ~leaseLost[w]
      BY <1>0, <1>1 DEF Start, WorkerInvOf, Executing, TryPcs, TailPcs
    <3> QED BY <1>0, <1>1, <3>1, IdleInv DEF Start, Goto, LocalTypeOK
  <2> QED BY <2>2, <2>3, <2>4, WorkerInvFromOwn
<1>2. CASE Recover(w)
  <2>1. /\ LocalTypeOK' /\ OthersKeep(w) /\ pc'[w] = "idle"
        /\ ~renewing'[w] /\ ~leaseLost'[w]
    BY <1>0, <1>2, DropEffect DEF Recover, CyclePcs
  <2>2. WorkerInvOf(w)'
    BY <2>1, IdleInv DEF CyclePcs
  <2> QED BY <2>1, <2>2, WorkerInvFromOwn
<1>3. CASE Promote(w) \/ FinalizeCancellations(w)
  <2>1. PICK label \in {"finalize", "select"} : Goto(w, label) /\ KeepJob
    BY <1>3 DEF Promote, FinalizeCancellations
  <2>2. ~renewing[w] /\ ~leaseLost[w]
    BY <1>0, <1>3 DEF Promote, FinalizeCancellations, WorkerInvOf, Executing,
                      TryPcs, TailPcs
  <2>3. LocalTypeOK' /\ OthersKeep(w) /\ SameLocals(w) /\ pc'[w] = label
    BY <1>0, <2>1, MoveEffect DEF CyclePcs
  <2>4. WorkerInvOf(w)'
    BY <2>2, <2>3, IdleInv DEF SameLocals, CyclePcs
  <2> QED BY <2>3, <2>4, WorkerInvFromOwn
<1>4. CASE SelectJob(w)
  <2>1. ~renewing[w] /\ ~leaseLost[w]
    BY <1>0, <1>4 DEF SelectJob, WorkerInvOf, Executing, TryPcs, TailPcs
  <2>2. CASE /\ Goto(w, "idle")
             /\ UNCHANGED <<stale, job, attempt, leaseLost, renewing, outcome>>
    <3>1. LocalTypeOK' /\ OthersKeep(w) /\ SameLocals(w) /\ pc'[w] = "idle"
      BY <1>0, <2>2, MoveEffect DEF CyclePcs, KeepJob
    <3>2. WorkerInvOf(w)'
      BY <2>1, <3>1, IdleInv DEF SameLocals, CyclePcs
    <3> QED BY <3>1, <3>2, WorkerInvFromOwn
  <2>3. ASSUME NEW j \in Job, job' = [job EXCEPT ![w] = j], Goto(w, "claim"),
               UNCHANGED <<stale, attempt, leaseLost, renewing, outcome>>
        PROVE  LocalTypeOK' /\ WorkerInv' /\ OthersKeep(w)
    <3>1. LocalTypeOK'
      BY <1>0, <2>3 DEF Goto, LocalTypeOK, CyclePcs
    <3>2. OthersKeep(w)
      BY <1>0, <2>3 DEF Goto, LocalTypeOK, OthersKeep
    <3>3. WorkerInvOf(w)'
      BY <1>0, <2>1, <2>3, IdleInv DEF Goto, LocalTypeOK, CyclePcs
    <3> QED BY <3>1, <3>2, <3>3, WorkerInvFromOwn
  <2> QED BY <1>4, <2>2, <2>3 DEF SelectJob
<1>5. CASE Claim(w)
  <2>1. ~renewing[w] /\ ~leaseLost[w] /\ job[w] \in Job
    BY <1>0, <1>5 DEF Claim, WorkerInvOf, Executing, TryPcs, TailPcs
  <2>2. CASE status[job[w]] # "queued" /\ Drop(w, "idle")
    <3>1. /\ LocalTypeOK' /\ OthersKeep(w) /\ pc'[w] = "idle"
          /\ ~renewing'[w] /\ ~leaseLost'[w]
      BY <1>0, <2>2, DropEffect DEF CyclePcs
    <3>2. WorkerInvOf(w)'
      BY <3>1, IdleInv DEF CyclePcs
    <3> QED BY <3>1, <3>2, WorkerInvFromOwn
  <2>3. CASE /\ ClaimJob(job[w])
             /\ Goto(w, "load")
             /\ attempt' = [attempt EXCEPT ![w] = attemptCount[job[w]] + 1]
             /\ renewing' = [renewing EXCEPT ![w] = TRUE]
             /\ UNCHANGED <<stale, job, leaseLost, outcome>>
    <3>1. attemptCount[job[w]] \in Nat
      BY <1>0, <2>1 DEF RepoTypeOK
    <3>2. LocalTypeOK'
      BY <1>0, <2>3, <3>1 DEF Goto, LocalTypeOK, TryPcs
    <3>3. OthersKeep(w)
      BY <1>0, <2>3 DEF Goto, LocalTypeOK, OthersKeep
    <3>4. attemptCount'[job[w]] = attemptCount[job[w]] + 1
      BY <1>0, <2>1, <2>3 DEF ClaimJob, RepoTypeOK
    <3>5. /\ pc'[w] = "load" /\ job'[w] = job[w] /\ ~leaseLost'[w]
          /\ attempt'[w] = attemptCount'[job[w]]
      BY <1>0, <2>1, <2>3, <3>4 DEF Goto, LocalTypeOK
    <3>6. WorkerInvOf(w)'
      BY <2>1, <3>1, <3>4, <3>5 DEF WorkerInvOf, Executing, TryPcs, GivenUp
    <3> QED BY <3>2, <3>3, <3>6, WorkerInvFromOwn
  <2> QED BY <1>5, <2>2, <2>3 DEF Claim
<1> QED BY <1>1, <1>2, <1>3, <1>4, <1>5 DEF CoordinatorStep

LEMMA RenewLocal ==
  ASSUME Inv, NEW w \in Worker, Renew(w), \A k \in Job : Progress(k)
  PROVE  LocalTypeOK' /\ WorkerInv' /\ OthersKeep(w)
<1>1. LocalTypeOK /\ RepoTypeOK /\ LeaseHeldByNewestClaim /\ WorkerInvOf(w)
  BY DEF Inv, TypeOK, LocalTypeOK, WorkerInv, RepoGood, RepoInv
<1>2. Executing(w) /\ job[w] \in Job /\ attempt[w] \in 1..attemptCount[job[w]]
  BY <1>1 DEF Renew, WorkerInvOf
<1>3. UNCHANGED <<pc, stale, job, attempt, outcome>>
  BY DEF Renew
<1>4. LocalTypeOK' /\ OthersKeep(w)
  BY <1>1, <1>3 DEF Renew, LocalTypeOK, OthersKeep
<1>5. ASSUME attempt[w] = attemptCount[job[w]], GivenUp(w)'
      PROVE  GivenUp(w) \/ status'[job[w]] \notin ActiveExecution
  <2>1. CASE UNCHANGED leaseLost
    BY <1>3, <1>5, <2>1 DEF GivenUp
  <2>2. CASE ~LeaseRenewable(job[w], attempt[w]) /\ UNCHANGED repoVars
    BY <1>1, <1>2, <1>5, <2>2
       DEF LeaseRenewable, LeaseHeldByNewestClaim, RepoTypeOK, repoVars
  <2> QED BY <2>1, <2>2 DEF Renew
<1>6. pc[w] = "finish" => result'[job[w]] = attempt[w]
  BY <1>1, <1>2 DEF WorkerInvOf, Progress
<1>7. WorkerInvOf(w)'
  BY <1>1, <1>2, <1>3, <1>5, <1>6, ExecutingInv
     DEF Executing, SameJob, WorkerInvOf
<1> QED BY <1>1, <1>4, <1>7, WorkerInvFromOwn

(***************************************************************************)
(* The three ways an executor's step ends: it goes on, an error takes it   *)
(* to the end of its try block, or it lets go of the job.                  *)
(***************************************************************************)
GivingUp == {"finish", "cancelAttempt", "cancelJob", "tailCancelAttempt",
             "tailCancelJob"}

LEMMA MoveOn ==
  ASSUME Inv, NEW w \in Worker, Executing(w), \A k \in Job : Progress(k),
         NEW label \in (TryPcs \cup TailPcs) \ {"failAttempt"},
         Goto(w, label), KeepJob,
         label = "finish" => result'[job[w]] = attempt[w],
         label \in GivingUp
           => GivenUp(w) \/ status'[job[w]] \notin ActiveExecution
  PROVE  LocalTypeOK' /\ WorkerInv' /\ OthersKeep(w)
<1>1. LocalTypeOK
  BY DEF Inv, TypeOK, LocalTypeOK
<1>2. LocalTypeOK' /\ OthersKeep(w) /\ SameLocals(w) /\ pc'[w] = label
  BY <1>1, LabelsAreTyped, MoveEffect
<1>3. GivenUp(w)' => leaseLost[w] \/ label \in GivingUp
  BY <1>2 DEF GivenUp, SameLocals, GivingUp
<1>4. WorkerInvOf(w)'
  BY <1>2, <1>3, ExecutingInv DEF SameLocals, GivenUp
<1> QED BY <1>2, <1>4, WorkerInvFromOwn

LEMMA RaiseOn ==
  ASSUME Inv, NEW w \in Worker, Executing(w), \A k \in Job : Progress(k),
         NEW error \in {"retryable", "fatal"}, Raise(w, error)
  PROVE  LocalTypeOK' /\ WorkerInv' /\ OthersKeep(w)
<1>1. LocalTypeOK
  BY DEF Inv, TypeOK, LocalTypeOK
<1>2. /\ LocalTypeOK' /\ OthersKeep(w) /\ SameJob(w) /\ pc'[w] = "failing"
      /\ leaseLost'[w] = leaseLost[w]
  BY <1>1, RaiseEffect
<1>3. GivenUp(w)' => GivenUp(w)
  BY <1>2 DEF GivenUp
<1>4. WorkerInvOf(w)'
  BY <1>2, <1>3, ExecutingInv DEF TailPcs
<1> QED BY <1>2, <1>4, WorkerInvFromOwn

LEMMA DropOn ==
  ASSUME Inv, NEW w \in Worker, \A k \in Job : Progress(k),
         NEW label \in {"idle", "down"}, Drop(w, label)
  PROVE  LocalTypeOK' /\ WorkerInv' /\ OthersKeep(w)
<1>1. LocalTypeOK
  BY DEF Inv, TypeOK, LocalTypeOK
<1>2. /\ LocalTypeOK' /\ OthersKeep(w) /\ pc'[w] = label
      /\ ~renewing'[w] /\ ~leaseLost'[w]
  BY <1>1, LabelsAreTyped, DropEffect DEF CyclePcs
<1>3. WorkerInvOf(w)'
  BY <1>2, IdleInv DEF CyclePcs
<1> QED BY <1>2, <1>3, WorkerInvFromOwn

LEMMA ExecutorLocal ==
  ASSUME Inv, NEW w \in Worker, ExecutorStep(w), \A k \in Job : Progress(k)
  PROVE  LocalTypeOK' /\ WorkerInv' /\ OthersKeep(w)
<1>0. /\ LocalTypeOK /\ RepoTypeOK /\ WorkerInvOf(w)
      /\ \A j \in Job : status[j] # "streaming"
  BY DEF Inv, TypeOK, LocalTypeOK, WorkerInv, RepoGood, LapsedLeaseIsHeld
<1> USE DEF Executing, TryPcs, TailPcs, GivingUp
<1>1. CASE LoadRequest(w)
  BY <1>1, MoveOn, RaiseOn DEF LoadRequest
<1>2. CASE CheckCancelled(w)
  <2>1. Executing(w) /\ UNCHANGED status /\ KeepJob
    BY <1>2 DEF CheckCancelled, repoVars
  <2>2. CASE MustStop(w)
    BY <1>2, <2>1, <2>2, MoveOn
       DEF CheckCancelled, MustStop, GivenUp, ActiveExecution
  <2>3. CASE ~MustStop(w)
    <3>1. AfterCheck(w) \in {"recheck", "provider", "register", "write"}
      BY <1>2 DEF CheckCancelled, AfterCheck
    <3> QED BY <1>2, <2>1, <2>3, <3>1, MoveOn DEF CheckCancelled
  <2> QED BY <2>2, <2>3
<1>3. CASE ProviderReturns(w)
  BY <1>3, MoveOn, RaiseOn DEF ProviderReturns
<1>4. CASE RegisterArtifact(w)
  BY <1>4, MoveOn, RaiseOn DEF RegisterArtifact
<1>5. CASE WriteResponse(w)
  BY <1>5, MoveOn, RaiseOn DEF WriteResponse
<1>6. CASE Complete(w)
  <2>1. Executing(w) /\ job[w] \in Job
    BY <1>0, <1>6 DEF Complete, WorkerInvOf
  <2>2. CASE CompleteJobWithResult(job[w], attempt[w]) /\ Goto(w, "finish") /\ KeepJob
    <3>1. /\ result'[job[w]] = attempt[w]
          /\ status'[job[w]] \notin ActiveExecution
      BY <1>0, <2>1, <2>2 DEF CompleteJobWithResult, RepoTypeOK, ActiveExecution
    <3> QED BY <2>1, <2>2, <3>1, MoveOn
  <2> QED BY <1>6, <2>1, <2>2, MoveOn, RaiseOn DEF Complete
<1>7. CASE LostRace(w)
  BY <1>7, MoveOn, RaiseOn
     DEF LostRace, MustStop, GivenUp, ActiveExecution, repoVars
<1>8. CASE Finish(w)
  BY <1>8, DropOn DEF Finish
<1>9. CASE ReadAfterError(w)
  <2>1. Executing(w) /\ job[w] \in Job /\ UNCHANGED <<job, attempt, leaseLost, status>>
    BY <1>0, <1>9 DEF ReadAfterError, WorkerInvOf, repoVars
  <2>2. Verdict(w) \in {"retry", "fail", "leave"}
    BY DEF Verdict
  <2>3. \/ MustStop(w) /\ Goto(w, "tailCancelAttempt") /\ UNCHANGED outcome
        \/ Goto(w, "failAttempt") /\ outcome' = [outcome EXCEPT ![w] = Verdict(w)]
    BY <1>9 DEF ReadAfterError
  <2>4. /\ renewing' = [renewing EXCEPT ![w] = FALSE]
        /\ UNCHANGED <<stale, job, attempt, leaseLost>>
    BY <1>9 DEF ReadAfterError
  <2>5. LocalTypeOK'
    BY <1>0, <2>2, <2>3, <2>4 DEF LocalTypeOK, Goto, Pc
  <2>6. OthersKeep(w)
    BY <1>0, <2>3, <2>4 DEF LocalTypeOK, OthersKeep, Goto
  <2>7. /\ pc'[w] \in {"tailCancelAttempt", "failAttempt"} /\ SameJob(w)
        /\ pc'[w] = "tailCancelAttempt" => MustStop(w)
        /\ pc'[w] = "failAttempt" => outcome'[w] = Verdict(w)
    BY <1>0, <2>3, <2>4 DEF LocalTypeOK, Goto, SameJob
  <2>8. GivenUp(w)' => GivenUp(w) \/ status'[job[w]] \notin ActiveExecution
    BY <1>0, <2>1, <2>7 DEF GivenUp, MustStop, Verdict, ActiveExecution
  <2>9. WorkerInvOf(w)'
    BY <2>1, <2>2, <2>7, <2>8, ExecutingInv
  <2> QED BY <2>5, <2>6, <2>9, WorkerInvFromOwn
<1>10. CASE FailAttempt(w)
  <2>1. outcome[w] \in {"retry", "fail", "leave"}
    BY <1>0, <1>10 DEF FailAttempt, WorkerInvOf
  <2> QED BY <1>10, <2>1, MoveOn, DropOn DEF FailAttempt
<1>11. CASE Retry(w) \/ Fail(w) \/ CancelJob(w)
  BY <1>11, DropOn DEF Retry, Fail, CancelJob
<1>12. CASE CancelAttempt(w)
  <2>1. Executing(w) /\ GivenUp(w) /\ KeepJob
    BY <1>12 DEF CancelAttempt, GivenUp
  <2>2. PICK label \in {"cancelJob", "tailCancelJob"} : Goto(w, label)
    BY <1>12 DEF CancelAttempt
  <2> QED BY <2>1, <2>2, MoveOn
<1> QED BY <1>1, <1>2, <1>3, <1>4, <1>5, <1>6, <1>7, <1>8, <1>9, <1>10, <1>11,
           <1>12 DEF ExecutorStep

LEMMA FaultLocal ==
  ASSUME Inv, NEW w \in Worker, WorkerFault(w) \/ Crash(w),
         \A k \in Job : Progress(k)
  PROVE  LocalTypeOK' /\ WorkerInv' /\ OthersKeep(w)
<1>1. CASE WorkerFault(w) /\ ~RenewerDies(w)
  BY <1>1, RaiseOn, DropOn DEF WorkerFault, Executing
<1>2. CASE Crash(w)
  BY <1>2, DropOn DEF Crash
<1>3. CASE RenewerDies(w)
  <2>1. LocalTypeOK /\ WorkerInvOf(w)
    BY DEF Inv, TypeOK, LocalTypeOK, WorkerInv
  <2>2. Executing(w) /\ job[w] \in Job /\ attempt[w] \in 1..attemptCount[job[w]]
    BY <1>3, <2>1 DEF RenewerDies, WorkerInvOf
  <2>3. UNCHANGED <<pc, stale, job, attempt, leaseLost, outcome>> /\ ~renewing'[w]
    BY <1>3, <2>1 DEF RenewerDies, LocalTypeOK
  <2>4. LocalTypeOK' /\ OthersKeep(w)
    BY <1>3, <2>1, <2>3 DEF RenewerDies, LocalTypeOK, OthersKeep
  <2>5. GivenUp(w)' => GivenUp(w)
    BY <2>3 DEF GivenUp
  <2>6. pc[w] = "finish" => result'[job[w]] = attempt[w]
    BY <2>1, <2>2 DEF WorkerInvOf, Progress
  <2>7. WorkerInvOf(w)'
    BY <2>1, <2>2, <2>3, <2>5, <2>6, ExecutingInv
       DEF Executing, SameJob, WorkerInvOf
  <2> QED BY <2>1, <2>4, <2>7, WorkerInvFromOwn
<1> QED BY <1>1, <1>2, <1>3

\* Handlers and deadlines leave every process where it is.
LEMMA OtherLocal ==
  ASSUME Inv, UNCHANGED workerVars, \A k \in Job : Progress(k)
  PROVE  LocalTypeOK' /\ WorkerInv'
<1>1. LocalTypeOK'
  BY DEF Inv, TypeOK, LocalTypeOK, workerVars
<1>2. ASSUME NEW w \in Worker PROVE WorkerInvOf(w)'
  <2>1. WorkerInvOf(w) /\ RepoTypeOK
    BY DEF Inv, WorkerInv, RepoGood
  <2>2. UNCHANGED <<pc[w], job[w], attempt[w], leaseLost[w], renewing[w], outcome[w]>>
    BY DEF workerVars
  <2>3. CASE Executing(w)
    <3>1. GivenUp(w)' => GivenUp(w)
      BY <2>2 DEF GivenUp
    <3>2. job[w] \in Job /\ attempt[w] \in 1..attemptCount[job[w]]
      BY <2>1, <2>3 DEF WorkerInvOf
    <3>3. pc[w] = "finish" => result'[job[w]] = attempt[w]
      BY <2>1, <3>2 DEF WorkerInvOf, Progress
    <3> QED BY <2>1, <2>2, <2>3, <3>1, <3>3, ExecutingInv
            DEF Executing, SameJob, WorkerInvOf
  <2>4. CASE ~Executing(w)
    BY <2>1, <2>2, <2>4 DEF WorkerInvOf, Executing, TryPcs
  <2> QED BY <2>3, <2>4
<1> QED BY <1>1, <1>2 DEF WorkerInv

LEMMA LocalStep ==
  ASSUME Inv, [Next]_vars
  PROVE  LocalTypeOK' /\ WorkerInv'
<1>1. \A k \in Job : Progress(k)
  <2>1. [RepoNext]_repoVars /\ RepoGood
    BY StepIsRepoStep DEF Inv
  <2> QED BY <2>1, RepoProgress
<1>2. CASE UNCHANGED workerVars
  BY <1>1, <1>2, OtherLocal
<1>3. ASSUME NEW w \in Worker,
             CoordinatorStep(w) \/ Renew(w) \/ ExecutorStep(w)
             \/ WorkerFault(w) \/ Crash(w)
      PROVE  LocalTypeOK' /\ WorkerInv'
  BY <1>1, <1>3, CoordinatorLocal, RenewLocal, ExecutorLocal, FaultLocal
<1>4. ASSUME NEW j \in Job,
             \/ \E w \in Worker : Create(w, j)
             \/ SubmitStep(j) \/ Cancel(j) \/ SubmitFault(j)
             \/ LeaseDeadline(j) \/ RetryDeadline(j)
      PROVE  UNCHANGED workerVars
  BY <1>4 DEF Create, SubmitStep, Validate, PersistRequest, Reject, Enqueue,
              SubmitTo, Cancel, SubmitFault, LeaseDeadline, RetryDeadline
<1> QED BY <1>2, <1>3, <1>4 DEF Next, vars

(***************************************************************************)
(* The handlers, the files and the bounds keep their types.                *)
(***************************************************************************)
SharedTypeOK ==
  /\ submit \in [Job -> {"none", "accepted", "persist", "reject", "enqueue", "done"}]
  /\ submitAt \in [Job -> Worker]
  /\ requestFile \in SUBSET Job
  /\ responseFile \in [Job -> Nat]
  /\ artifacts \in [Job -> SUBSET Nat]
  /\ crashes \in Nat
  /\ faults \in Nat

sharedVars == <<submitVars, fileVars, boundVars>>

LEMMA SharedKept == SharedTypeOK /\ UNCHANGED sharedVars => SharedTypeOK'
BY DEF SharedTypeOK, sharedVars, submitVars, fileVars, boundVars

LEMMA SharedByProcess ==
  ASSUME Inv, NEW w \in Worker,
         CoordinatorStep(w) \/ Renew(w) \/ ExecutorStep(w)
         \/ WorkerFault(w) \/ Crash(w)
  PROVE  SharedTypeOK'
<1>1. SharedTypeOK /\ attempt[w] \in Nat
  BY DEF Inv, TypeOK, SharedTypeOK
<1>2. CASE CoordinatorStep(w)
  BY <1>1, <1>2, SharedKept
     DEF CoordinatorStep, Start, Recover, Promote, FinalizeCancellations,
         SelectJob, Claim, sharedVars
<1>3. CASE Renew(w)
  BY <1>1, <1>3, SharedKept DEF Renew, sharedVars
<1>4. CASE RegisterArtifact(w)
  BY <1>1, <1>4 DEF RegisterArtifact, SharedTypeOK, submitVars, boundVars
<1>5. CASE WriteResponse(w)
  BY <1>1, <1>5 DEF WriteResponse, SharedTypeOK, submitVars, boundVars
<1>6. CASE Complete(w)
  BY <1>1, <1>6 DEF Complete, SharedTypeOK, submitVars, boundVars
<1>7. CASE \/ LoadRequest(w) \/ CheckCancelled(w) \/ ProviderReturns(w)
           \/ LostRace(w) \/ Finish(w) \/ ReadAfterError(w) \/ FailAttempt(w)
           \/ Retry(w) \/ Fail(w) \/ CancelAttempt(w) \/ CancelJob(w)
  BY <1>1, <1>7, SharedKept
     DEF LoadRequest, CheckCancelled, ProviderReturns, LostRace, Finish,
         ReadAfterError, FailAttempt, Retry, Fail, CancelAttempt, CancelJob,
         sharedVars
<1>8. CASE WorkerFault(w)
  BY <1>1, <1>8 DEF WorkerFault, SharedTypeOK, submitVars, fileVars
<1>9. CASE Crash(w)
  BY <1>1, <1>9 DEF Crash, SharedTypeOK, fileVars
<1> QED BY <1>2, <1>3, <1>4, <1>5, <1>6, <1>7, <1>8, <1>9 DEF ExecutorStep

LEMMA SharedByHandler ==
  ASSUME Inv, NEW j \in Job,
         \/ \E w \in Worker : Create(w, j)
         \/ SubmitStep(j) \/ Cancel(j) \/ SubmitFault(j)
         \/ LeaseDeadline(j) \/ RetryDeadline(j)
  PROVE  SharedTypeOK'
<1>1. SharedTypeOK
  BY DEF Inv, TypeOK, SharedTypeOK
<1>2. CASE \E w \in Worker : Create(w, j)
  BY <1>1, <1>2 DEF Create, SharedTypeOK, fileVars, boundVars
<1>3. CASE SubmitStep(j)
  <2>1. CASE Validate(j) \/ Reject(j) \/ Enqueue(j)
    BY <1>1, <2>1 DEF Validate, Reject, Enqueue, SubmitTo, SharedTypeOK,
                      fileVars, boundVars
  <2>2. CASE PersistRequest(j)
    BY <1>1, <2>2 DEF PersistRequest, SubmitTo, SharedTypeOK, boundVars
  <2> QED BY <1>3, <2>1, <2>2 DEF SubmitStep
<1>4. CASE SubmitFault(j)
  BY <1>1, <1>4 DEF SubmitFault, SharedTypeOK, fileVars
<1>5. CASE Cancel(j) \/ LeaseDeadline(j) \/ RetryDeadline(j)
  BY <1>1, <1>5, SharedKept DEF Cancel, LeaseDeadline, RetryDeadline, sharedVars
<1> QED BY <1>2, <1>3, <1>4, <1>5

LEMMA SharedStep ==
  ASSUME Inv, [Next]_vars
  PROVE  SharedTypeOK'
<1>1. CASE UNCHANGED vars
  BY <1>1, SharedKept DEF Inv, TypeOK, SharedTypeOK, vars, sharedVars
<1>2. CASE Next
  BY <1>2, SharedByProcess, SharedByHandler DEF Next
<1> QED BY <1>1, <1>2

(***************************************************************************)
(* The inductive invariant.                                                *)
(***************************************************************************)
LEMMA InitInv == Init => Inv
<1> SUFFICES ASSUME Init PROVE Inv
  OBVIOUS
<1>1. RepoGood
  BY InitGood DEF Init
<1>2. LocalTypeOK /\ WorkerInv
  BY DEF Init, LocalTypeOK, NothingStale, Pc, WorkerInv, WorkerInvOf, Executing,
         TryPcs, TailPcs
<1>3. SharedTypeOK
  <2>1. (CHOOSE w \in Worker : TRUE) \in Worker
    BY ExecutionAssumption
  <2> QED BY <2>1 DEF Init, SharedTypeOK
<1> QED BY <1>1, <1>2, <1>3 DEF Inv, TypeOK, LocalTypeOK, SharedTypeOK, RepoGood

LEMMA StepInv == Inv /\ [Next]_vars => Inv'
<1> SUFFICES ASSUME Inv, [Next]_vars PROVE Inv'
  OBVIOUS
<1>1. RepoGood'
  BY StepIsRepoStep, RepoStepGood DEF Inv
<1> QED BY <1>1, LocalStep, SharedStep
        DEF Inv, TypeOK, LocalTypeOK, SharedTypeOK, RepoGood

LEMMA AlwaysInv == Spec => []Inv
BY InitInv, StepInv, PTL DEF Spec

(***************************************************************************)
(* Type correctness and the repository's invariants.                       *)
(***************************************************************************)
\* Every variable of the bridge keeps its type.
THEOREM TypeCorrect == Spec => []TypeOK
<1>1. Inv => TypeOK
  BY DEF Inv
<1> QED BY <1>1, AlwaysInv, PTL

\* Whatever the processes do, the repository is used as RepoSpec allows, so what
\* is proved of it holds of the running bridge.
THEOREM ImplementsRepository == Spec => RepoSpec
<1>1. Init => RepoInit
  BY DEF Init
<1>2. Inv /\ [Next]_vars => [RepoNext]_repoVars
  BY StepIsRepoStep
<1> QED BY <1>1, <1>2, AlwaysInv, PTL DEF Spec, RepoSpec

\* A job has a result row exactly when it is reported succeeded.
THEOREM ResultExactlyOfSucceeded == Spec => []ResultIffSucceeded
BY ImplementsRepository, RepoResultIffSucceeded, PTL

\* A lease belongs to the newest claim of a job that executes, or whose execution
\* was cancelled.
THEOREM LeaseOfNewestClaim == Spec => []LeaseHeldByNewestClaim
BY ImplementsRepository, RepoLeaseHeldByNewestClaim, PTL

\* A retry deadline exists exactly while the job waits for it.
THEOREM RetryDeadlineOnlyWaiting == Spec => []RetryDeadlineIffWaiting
BY ImplementsRepository, RepoRetryDeadlineIffWaiting, PTL

\* What was asked to stop never executes, waits or succeeds again.
THEOREM CancelStays == Spec => []CancelIsSticky
BY ImplementsRepository, RepoCancelIsSticky, PTL
=============================================================================
