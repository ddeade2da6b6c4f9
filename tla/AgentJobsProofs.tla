-------------------------- MODULE AgentJobsProofs --------------------------
(***************************************************************************)
(* The invariants of the repository hold for every set of jobs, every      *)
(* attempt budget and every order in which callers use its operations.     *)
(*                                                                         *)
(* RepoGood is inductive: LeaseHeldByNewestClaim relies on CancelIsSticky  *)
(* (an executing job has no cancellation marker, so giving up its lease is *)
(* right), and LapsedLeaseIsHeld is what an argument about renewals needs. *)
(* There is one lemma per operation.                                       *)
(***************************************************************************)
EXTENDS AgentJobs, TLAPS

\* Only a lease that is held runs out, and the bridge never enters "streaming".
LapsedLeaseIsHeld ==
  \A j \in Job : /\ leaseExpired[j] => leaseOwner[j] # 0
                 /\ status[j] # "streaming"

RepoGood == RepoTypeOK /\ RepoInv /\ LapsedLeaseIsHeld

(***************************************************************************)
(* The transition table, as the five transitions the bridge asks for.      *)
(***************************************************************************)
\* The bridge's transitions leave a status that is neither terminal nor a
\* wait for a retry, and never enter one of the statuses that have rows of
\* their own to match (succeeded, retry_wait, cancel_requested, an execution).
LEMMA BridgeTransitionsKnown ==
  ASSUME NEW t \in BridgeTransitions
  PROVE  /\ t[1] \in {"accepted", "validating", "running", "cancel_requested"}
         /\ t[2] \in {"validating", "queued", "failed", "cancelled"}
         /\ t[1] = "cancel_requested" <=> t[2] = "cancelled"
BY DEF BridgeTransitions

\* Whether an operation releases the lease or keeps it, its columns stay typed.
LEMMA LeaseTyped ==
  ASSUME RepoTypeOK, NEW j \in Job, ReleaseLease(j) \/ KeepLease
  PROVE  leaseOwner' \in [Job -> Nat] /\ leaseExpired' \in [Job -> BOOLEAN]
<1>1. CASE ReleaseLease(j)
  BY <1>1 DEF RepoTypeOK, ReleaseLease
<1>2. CASE KeepLease
  BY <1>2 DEF RepoTypeOK, KeepLease
<1> QED BY <1>1, <1>2

LEMMA InitGood == RepoInit => RepoGood
BY DEF RepoInit, RepoGood, RepoTypeOK, RepoInv, ResultIffSucceeded,
       LeaseHeldByNewestClaim, RetryDeadlineIffWaiting, CancelIsSticky,
       AttemptRowsMatchCount, LapsedLeaseIsHeld, Status, Terminal, Cancellable,
       ActiveExecution

LEMMA CreateGood ==
  ASSUME RepoGood, NEW j \in Job, CreateJob(j)
  PROVE  RepoGood'
<1> USE DEF RepoGood, RepoInv, CreateJob, KeepLease, Status, Terminal,
            Cancellable, ActiveExecution
<1>1. RepoTypeOK'
  BY DEF RepoTypeOK
<1>2. RepoInv' /\ LapsedLeaseIsHeld'
  BY DEF RepoTypeOK, ResultIffSucceeded, LeaseHeldByNewestClaim,
         RetryDeadlineIffWaiting, CancelIsSticky, AttemptRowsMatchCount,
         LapsedLeaseIsHeld
<1> QED BY <1>1, <1>2

LEMMA TransitionGood ==
  ASSUME RepoGood, NEW j \in Job, NEW t \in BridgeTransitions,
         Transition(j, t[1], t[2])
  PROVE  RepoGood'
<1> DEFINE from == t[1]
           to == t[2]
<1>1. /\ from \in {"accepted", "validating", "running", "cancel_requested"}
      /\ to \in {"validating", "queued", "failed", "cancelled"}
      /\ from = "cancel_requested" <=> to = "cancelled"
  BY BridgeTransitionsKnown
<1>2. /\ status[j] = from
      /\ status' = [status EXCEPT ![j] = to]
      /\ from = "running" => ReleaseLease(j)
      /\ from # "running" => KeepLease
      /\ UNCHANGED <<attemptCount, nextRetry, cancelFrom, attempts, result>>
  BY <1>1 DEF Transition, ActiveExecution
<1> HIDE DEF from, to
<1> USE DEF RepoGood, RepoInv, Status, Terminal, Cancellable, ActiveExecution
<1>3. leaseOwner' \in [Job -> Nat] /\ leaseExpired' \in [Job -> BOOLEAN]
  BY <1>2, LeaseTyped
<1>4. RepoTypeOK'
  BY <1>1, <1>2, <1>3 DEF RepoTypeOK
<1>5. ResultIffSucceeded' /\ CancelIsSticky' /\ RetryDeadlineIffWaiting'
  BY <1>1, <1>2 DEF RepoTypeOK, ResultIffSucceeded, CancelIsSticky,
                    RetryDeadlineIffWaiting
<1>6. LeaseHeldByNewestClaim'
  <2>1. CASE from = "running"
    BY <1>1, <1>2, <2>1
       DEF ReleaseLease, RepoTypeOK, LeaseHeldByNewestClaim, CancelIsSticky
  <2>2. CASE from # "running"
    BY <1>1, <1>2, <2>2 DEF KeepLease, RepoTypeOK, LeaseHeldByNewestClaim
  <2> QED BY <2>1, <2>2
<1>7. AttemptRowsMatchCount'
  BY <1>2 DEF AttemptRowsMatchCount
<1>8. LapsedLeaseIsHeld'
  <2>1. CASE from = "running"
    BY <1>1, <1>2, <2>1 DEF ReleaseLease, RepoTypeOK, LapsedLeaseIsHeld
  <2>2. CASE from # "running"
    BY <1>1, <1>2, <2>2 DEF KeepLease, RepoTypeOK, LapsedLeaseIsHeld
  <2> QED BY <2>1, <2>2
<1> QED BY <1>4, <1>5, <1>6, <1>7, <1>8

LEMMA RetryGood ==
  ASSUME RepoGood, NEW j \in Job, ScheduleRetry(j)
  PROVE  RepoGood'
<1> USE DEF RepoGood, RepoInv, ScheduleRetry, ReleaseLease, Status, Terminal,
            Cancellable, ActiveExecution
<1>1. RepoTypeOK'
  BY DEF RepoTypeOK
<1>2. ResultIffSucceeded' /\ RetryDeadlineIffWaiting' /\ CancelIsSticky'
  BY DEF RepoTypeOK, ResultIffSucceeded, RetryDeadlineIffWaiting, CancelIsSticky
<1>3. LeaseHeldByNewestClaim' /\ LapsedLeaseIsHeld'
  BY DEF RepoTypeOK, LeaseHeldByNewestClaim, CancelIsSticky, LapsedLeaseIsHeld
<1>4. AttemptRowsMatchCount'
  BY DEF RepoTypeOK, AttemptRowsMatchCount
<1> QED BY <1>1, <1>2, <1>3, <1>4

LEMMA PromoteGood ==
  ASSUME RepoGood, PromoteDueRetries
  PROVE  RepoGood'
<1> USE DEF RepoGood, RepoInv, PromoteDueRetries, RetryDue, KeepLease, Status,
            Terminal, Cancellable, ActiveExecution
<1>1. RepoTypeOK'
  BY DEF RepoTypeOK
<1>2. RepoInv' /\ LapsedLeaseIsHeld'
  BY DEF RepoTypeOK, ResultIffSucceeded, LeaseHeldByNewestClaim,
         RetryDeadlineIffWaiting, CancelIsSticky, AttemptRowsMatchCount,
         LapsedLeaseIsHeld
<1> QED BY <1>1, <1>2

LEMMA ClaimGood ==
  ASSUME RepoGood, NEW j \in Job, ClaimJob(j)
  PROVE  RepoGood'
<1> USE DEF RepoGood, RepoInv, ClaimJob, Status, Terminal, Cancellable,
            ActiveExecution, AttemptStatus
<1>1. RepoTypeOK'
  BY DEF RepoTypeOK
<1>2. ResultIffSucceeded' /\ RetryDeadlineIffWaiting' /\ CancelIsSticky'
  BY DEF RepoTypeOK, ResultIffSucceeded, RetryDeadlineIffWaiting,
         CancelIsSticky
<1>3. LeaseHeldByNewestClaim'
  BY DEF RepoTypeOK, LeaseHeldByNewestClaim
<1>4. AttemptRowsMatchCount'
  BY DEF RepoTypeOK, AttemptRowsMatchCount
<1>5. LapsedLeaseIsHeld'
  BY DEF RepoTypeOK, LapsedLeaseIsHeld
<1> QED BY <1>1, <1>2, <1>3, <1>4, <1>5

LEMMA RenewGood ==
  ASSUME RepoGood, NEW j \in Job, NEW n, RenewLease(j, n)
  PROVE  RepoGood'
<1> USE DEF RepoGood, RepoInv, RenewLease
<1>1. RepoTypeOK'
  BY DEF RepoTypeOK
<1>2. RepoInv' /\ LapsedLeaseIsHeld'
  BY DEF ResultIffSucceeded, LeaseHeldByNewestClaim, RetryDeadlineIffWaiting,
         CancelIsSticky, AttemptRowsMatchCount, LapsedLeaseIsHeld
<1> QED BY <1>1, <1>2

LEMMA FinishGood ==
  ASSUME RepoGood, NEW j \in Job, NEW n, NEW s \in AttemptStatus,
         FinishAttempt(j, n, s)
  PROVE  RepoGood'
<1> USE DEF RepoGood, RepoInv, FinishAttempt, KeepLease
<1>1. attempts[j] \in Seq(AttemptStatus) /\ n \in DOMAIN attempts[j]
  BY DEF RepoTypeOK
<1>2. LET r == [attempts[j] EXCEPT ![n] = s]
      IN  r \in Seq(AttemptStatus) /\ Len(r) = Len(attempts[j])
  BY <1>1
<1>3. RepoTypeOK'
  BY <1>2 DEF RepoTypeOK
<1>4. AttemptRowsMatchCount'
  BY <1>2 DEF RepoTypeOK, AttemptRowsMatchCount
<1>5. /\ ResultIffSucceeded' /\ LeaseHeldByNewestClaim'
      /\ RetryDeadlineIffWaiting' /\ CancelIsSticky' /\ LapsedLeaseIsHeld'
  BY DEF ResultIffSucceeded, LeaseHeldByNewestClaim, RetryDeadlineIffWaiting,
         CancelIsSticky, LapsedLeaseIsHeld
<1> QED BY <1>3, <1>4, <1>5

LEMMA CompleteGood ==
  ASSUME RepoGood, NEW j \in Job, NEW n \in Nat \ {0},
         CompleteJobWithResult(j, n)
  PROVE  RepoGood'
<1> USE DEF RepoGood, RepoInv, CompleteJobWithResult, ReleaseLease, Status,
            Terminal, Cancellable, ActiveExecution
<1>1. RepoTypeOK'
  BY DEF RepoTypeOK
<1>2. ResultIffSucceeded' /\ RetryDeadlineIffWaiting' /\ CancelIsSticky'
  BY DEF RepoTypeOK, ResultIffSucceeded, RetryDeadlineIffWaiting, CancelIsSticky
<1>3. LeaseHeldByNewestClaim' /\ LapsedLeaseIsHeld'
  BY DEF RepoTypeOK, LeaseHeldByNewestClaim, CancelIsSticky, LapsedLeaseIsHeld
<1>4. AttemptRowsMatchCount'
  BY DEF RepoTypeOK, AttemptRowsMatchCount
<1> QED BY <1>1, <1>2, <1>3, <1>4

LEMMA RequestCancelGood ==
  ASSUME RepoGood, NEW j \in Job, RequestCancel(j)
  PROVE  RepoGood'
<1> USE DEF RepoGood, RepoInv, RequestCancel, Status, Terminal, Cancellable,
            ActiveExecution
<1>1. RepoTypeOK'
  <2>1. leaseOwner' \in [Job -> Nat] /\ leaseExpired' \in [Job -> BOOLEAN]
    BY LeaseTyped
  <2> QED BY <2>1 DEF RepoTypeOK
<1>2. ResultIffSucceeded' /\ RetryDeadlineIffWaiting' /\ CancelIsSticky'
  BY DEF RepoTypeOK, ResultIffSucceeded, RetryDeadlineIffWaiting,
         CancelIsSticky
<1>3. LeaseHeldByNewestClaim'
  BY DEF KeepLease, ReleaseLease, RepoTypeOK, LeaseHeldByNewestClaim,
         CancelIsSticky
<1>4. AttemptRowsMatchCount'
  BY DEF AttemptRowsMatchCount
<1>5. LapsedLeaseIsHeld'
  BY DEF KeepLease, ReleaseLease, RepoTypeOK, LapsedLeaseIsHeld
<1> QED BY <1>1, <1>2, <1>3, <1>4, <1>5

LEMMA FinalizeGood ==
  ASSUME RepoGood, FinalizePendingCancellations
  PROVE  RepoGood'
<1> USE DEF RepoGood, RepoInv, FinalizePendingCancellations, CancelPending,
            Status, Terminal, Cancellable, ActiveExecution
<1>1. RepoTypeOK'
  BY DEF RepoTypeOK
<1>2. RepoInv' /\ LapsedLeaseIsHeld'
  BY DEF RepoTypeOK, ResultIffSucceeded, LeaseHeldByNewestClaim,
         RetryDeadlineIffWaiting, CancelIsSticky, AttemptRowsMatchCount,
         LapsedLeaseIsHeld
<1> QED BY <1>1, <1>2

LEMMA RecoverGood ==
  ASSUME RepoGood, NEW seen, RecoverStaleJobs(seen)
  PROVE  RepoGood'
<1> USE DEF RepoGood, RepoInv, RecoverStaleJobs, Recovered, Status, Terminal,
            Cancellable, ActiveExecution
<1>1. RepoTypeOK'
  BY DEF RepoTypeOK
<1>2. RepoInv' /\ LapsedLeaseIsHeld'
  BY DEF RepoTypeOK, ResultIffSucceeded, LeaseHeldByNewestClaim,
         RetryDeadlineIffWaiting, CancelIsSticky, AttemptRowsMatchCount,
         LapsedLeaseIsHeld
<1> QED BY <1>1, <1>2

LEMMA LeaseLapsesGood ==
  ASSUME RepoGood, NEW j \in Job, LeaseLapses(j)
  PROVE  RepoGood'
BY DEF RepoGood, RepoInv, LeaseLapses, RepoTypeOK, ResultIffSucceeded,
       LeaseHeldByNewestClaim, RetryDeadlineIffWaiting, CancelIsSticky,
       AttemptRowsMatchCount, LapsedLeaseIsHeld

LEMMA BackoffElapsesGood ==
  ASSUME RepoGood, NEW j \in Job, BackoffElapses(j)
  PROVE  RepoGood'
BY DEF RepoGood, RepoInv, BackoffElapses, KeepLease, RepoTypeOK,
       ResultIffSucceeded, LeaseHeldByNewestClaim, RetryDeadlineIffWaiting,
       CancelIsSticky, AttemptRowsMatchCount, LapsedLeaseIsHeld

LEMMA StutterGood ==
  ASSUME RepoGood, UNCHANGED repoVars
  PROVE  RepoGood'
BY DEF RepoGood, RepoInv, repoVars, RepoTypeOK, ResultIffSucceeded,
       LeaseHeldByNewestClaim, RetryDeadlineIffWaiting, CancelIsSticky,
       AttemptRowsMatchCount, LapsedLeaseIsHeld

(***************************************************************************)
(* Every step of the repository.                                           *)
(***************************************************************************)
LEMMA JobOperationGood ==
  ASSUME RepoGood, NEW j \in Job, JobOperation(j)
  PROVE  RepoGood'
<1>1. CASE CreateJob(j)
  BY <1>1, CreateGood
<1>2. CASE ClaimJob(j)
  BY <1>2, ClaimGood
<1>3. CASE ScheduleRetry(j)
  BY <1>3, RetryGood
<1>4. CASE RequestCancel(j)
  BY <1>4, RequestCancelGood
<1>5. CASE LeaseLapses(j)
  BY <1>5, LeaseLapsesGood
<1>6. CASE BackoffElapses(j)
  BY <1>6, BackoffElapsesGood
<1>7. CASE \E t \in BridgeTransitions : Transition(j, t[1], t[2])
  BY <1>7, TransitionGood
<1>8. ASSUME NEW n \in DOMAIN attempts[j],
             \/ RenewLease(j, n) \/ CompleteJobWithResult(j, n)
             \/ \E s \in AttemptStatus \ {"running"} : FinishAttempt(j, n, s)
      PROVE  RepoGood'
  <2>1. n \in Nat \ {0}
    <3>1. attempts[j] \in Seq(AttemptStatus)
      BY DEF RepoGood, RepoTypeOK
    <3> QED BY <3>1
  <2>2. CASE RenewLease(j, n)
    BY <2>2, RenewGood
  <2>3. CASE CompleteJobWithResult(j, n)
    BY <2>1, <2>3, CompleteGood
  <2>4. CASE \E s \in AttemptStatus \ {"running"} : FinishAttempt(j, n, s)
    <3>1. PICK s \in AttemptStatus \ {"running"} : FinishAttempt(j, n, s)
      BY <2>4
    <3>2. s \in AttemptStatus
      OBVIOUS
    <3> QED BY <3>1, <3>2, FinishGood
  <2> QED BY <1>8, <2>2, <2>3, <2>4
<1> QED BY <1>1, <1>2, <1>3, <1>4, <1>5, <1>6, <1>7, <1>8 DEF JobOperation

LEMMA RepoStepGood == RepoGood /\ [RepoNext]_repoVars => RepoGood'
<1> SUFFICES ASSUME RepoGood, [RepoNext]_repoVars
             PROVE  RepoGood'
  OBVIOUS
<1>1. CASE UNCHANGED repoVars
  BY <1>1, StutterGood
<1>2. CASE \E j \in Job : JobOperation(j)
  BY <1>2, JobOperationGood
<1>3. CASE Sweep
  <2>1. CASE PromoteDueRetries
    BY <2>1, PromoteGood
  <2>2. CASE FinalizePendingCancellations
    BY <2>2, FinalizeGood
  <2>3. CASE \E seen \in [Job -> Nat] : RecoverStaleJobs(seen)
    BY <2>3, RecoverGood
  <2> QED BY <1>3, <2>1, <2>2, <2>3 DEF Sweep
<1> QED BY <1>1, <1>2, <1>3 DEF RepoNext

(***************************************************************************)
(* What a step may do to a job, as seen by a process that is working on    *)
(* it: attempts are only counted up, a result stays, and a job that is not *)
(* executing starts to execute only with a new attempt.                    *)
(***************************************************************************)
Progress(k) ==
  /\ attemptCount'[k] \in {attemptCount[k], attemptCount[k] + 1}
  /\ result[k] # 0 => result'[k] = result[k]
  /\ status[k] \notin ActiveExecution /\ status'[k] \in ActiveExecution
       => attemptCount'[k] = attemptCount[k] + 1

LEMMA JobOperationProgress ==
  ASSUME RepoGood, NEW j \in Job, JobOperation(j), NEW k \in Job
  PROVE  Progress(k)
<1> USE DEF RepoGood, RepoTypeOK, Progress, ActiveExecution
<1>1. CASE CreateJob(j)
  BY <1>1 DEF CreateJob
<1>2. CASE ClaimJob(j)
  BY <1>2 DEF ClaimJob
<1>3. CASE ScheduleRetry(j)
  BY <1>3 DEF ScheduleRetry
<1>4. CASE RequestCancel(j)
  BY <1>4 DEF RequestCancel
<1>5. CASE LeaseLapses(j)
  BY <1>5 DEF LeaseLapses
<1>6. CASE BackoffElapses(j)
  BY <1>6 DEF BackoffElapses
<1>7. CASE \E t \in BridgeTransitions : Transition(j, t[1], t[2])
  <2>1. PICK t \in BridgeTransitions : Transition(j, t[1], t[2])
    BY <1>7
  <2>2. /\ t[2] \notin ActiveExecution
        /\ status' = [status EXCEPT ![j] = t[2]]
        /\ UNCHANGED <<attemptCount, result>>
    BY <2>1, BridgeTransitionsKnown DEF Transition
  <2> QED BY <2>2
<1>8. CASE \E n \in DOMAIN attempts[j] :
             \/ RenewLease(j, n) \/ CompleteJobWithResult(j, n)
             \/ \E s \in AttemptStatus \ {"running"} : FinishAttempt(j, n, s)
  BY <1>8 DEF RenewLease, CompleteJobWithResult, FinishAttempt, RepoInv,
              ResultIffSucceeded
<1> QED BY <1>1, <1>2, <1>3, <1>4, <1>5, <1>6, <1>7, <1>8 DEF JobOperation

LEMMA RepoProgress ==
  ASSUME RepoGood, [RepoNext]_repoVars, NEW k \in Job
  PROVE  Progress(k)
<1> USE DEF RepoGood, RepoTypeOK, Progress, ActiveExecution
<1>1. CASE UNCHANGED repoVars
  BY <1>1 DEF repoVars
<1>2. CASE \E j \in Job : JobOperation(j)
  BY <1>2, JobOperationProgress
<1>3. CASE Sweep
  <2>1. CASE PromoteDueRetries
    BY <2>1 DEF PromoteDueRetries, RetryDue
  <2>2. CASE FinalizePendingCancellations
    BY <2>2 DEF FinalizePendingCancellations, CancelPending
  <2>3. CASE \E seen \in [Job -> Nat] : RecoverStaleJobs(seen)
    BY <2>3 DEF RecoverStaleJobs, Recovered
  <2> QED BY <1>3, <2>1, <2>2, <2>3 DEF Sweep
<1> QED BY <1>1, <1>2, <1>3 DEF RepoNext

(***************************************************************************)
(* The theorems.                                                           *)
(***************************************************************************)
LEMMA RepoAlwaysGood == RepoSpec => []RepoGood
BY InitGood, RepoStepGood, PTL DEF RepoSpec

\* Every row of the database keeps its type, however its users interleave.
THEOREM RepoTypeCorrect == RepoSpec => []RepoTypeOK
<1>1. RepoGood => RepoTypeOK
  BY DEF RepoGood
<1> QED BY <1>1, RepoAlwaysGood, PTL

\* A result row exists exactly for succeeded jobs: complete_job_with_result
\* writes both in one transaction and nothing leaves succeeded.
THEOREM RepoResultIffSucceeded == RepoSpec => []ResultIffSucceeded
<1>1. RepoGood => ResultIffSucceeded
  BY DEF RepoGood, RepoInv
<1> QED BY <1>1, RepoAlwaysGood, PTL

\* Whoever holds a job's lease is its newest claim, and a lease is held only by
\* an execution that has not been given up.
THEOREM RepoLeaseHeldByNewestClaim == RepoSpec => []LeaseHeldByNewestClaim
<1>1. RepoGood => LeaseHeldByNewestClaim
  BY DEF RepoGood, RepoInv
<1> QED BY <1>1, RepoAlwaysGood, PTL

\* next_retry_at is set exactly while a job waits for a retry.
THEOREM RepoRetryDeadlineIffWaiting == RepoSpec => []RetryDeadlineIffWaiting
<1>1. RepoGood => RetryDeadlineIffWaiting
  BY DEF RepoGood, RepoInv
<1> QED BY <1>1, RepoAlwaysGood, PTL

\* No operation brings back a job that was asked to stop.
THEOREM RepoCancelIsSticky == RepoSpec => []CancelIsSticky
<1>1. RepoGood => CancelIsSticky
  BY DEF RepoGood, RepoInv
<1> QED BY <1>1, RepoAlwaysGood, PTL
=============================================================================
