----------------------------- MODULE AgentJobs -----------------------------
(***************************************************************************)
(* The SQLite-backed repository of agent jobs                              *)
(* (chatgpt_api/api/agent_jobs.py, class AgentJobRepository).              *)
(*                                                                         *)
(* Every operation below is one transaction of the repository: a guarded   *)
(* UPDATE on the current status (compare-and-swap) with the rows written   *)
(* beside it.  Times are abstracted to what the queries test: whether      *)
(* lease_expires_at lies in the past, and whether next_retry_at has been   *)
(* reached.  Of the event log only what the code reads back is kept: the   *)
(* "from" field of the last cancel_requested event.                        *)
(***************************************************************************)
EXTENDS Naturals, Sequences

CONSTANTS Job,          \* jobs that may be submitted
          MaxAttempts   \* max_attempts of each job, chosen by its submitter

ASSUME MaxAttemptsAssumption == MaxAttempts \in [Job -> Nat \ {0}]

VARIABLES status,        \* agent_jobs.status, "absent" while there is no row
          attemptCount,  \* agent_jobs.attempt_count
          leaseOwner,    \* agent_jobs.lease_owner: the claim (its attempt
                         \* number) that holds the lease, 0 for NULL
          leaseExpired,  \* agent_jobs.lease_expires_at < now
          nextRetry,     \* agent_jobs.next_retry_at: "null", "later" or "due"
          cancelFrom,    \* "from" of the job's cancel_requested event
          attempts,      \* job_attempts: the status of each attempt row
          result         \* job_results: the attempt that wrote the row, 0: none

repoVars == <<status, attemptCount, leaseOwner, leaseExpired,
              nextRetry, cancelFrom, attempts, result>>

(***************************************************************************)
(* Statuses and the central transition table.                              *)
(***************************************************************************)
Terminal == {"succeeded", "failed", "cancelled", "expired"}
ActiveExecution == {"running", "streaming"}
Cancellable == {"accepted", "validating", "queued", "running", "streaming",
                "retry_wait"}
Status == Terminal \cup Cancellable \cup {"cancel_requested", "absent"}
AttemptStatus == {"running", "succeeded", "failed", "cancelled"}

AllowedTransitions(s) ==
  CASE s = "accepted"         -> {"validating"}
    [] s = "validating"       -> {"queued", "failed"}
    [] s = "queued"           -> {"running", "cancel_requested", "expired"}
    [] s = "running"          -> {"streaming", "retry_wait", "cancel_requested",
                                  "succeeded", "failed"}
    [] s = "streaming"        -> {"running", "succeeded", "cancel_requested",
                                  "retry_wait"}
    [] s = "retry_wait"       -> {"queued", "cancel_requested", "expired"}
    [] s = "cancel_requested" -> {"cancelled"}
    [] OTHER                  -> {}

RepoInit ==
  /\ status = [j \in Job |-> "absent"]
  /\ attemptCount = [j \in Job |-> 0]
  /\ leaseOwner = [j \in Job |-> 0]
  /\ leaseExpired = [j \in Job |-> FALSE]
  /\ nextRetry = [j \in Job |-> "null"]
  /\ cancelFrom = [j \in Job |-> "none"]
  /\ attempts = [j \in Job |-> << >>]
  /\ result = [j \in Job |-> 0]

(***************************************************************************)
(* Operations.                                                             *)
(***************************************************************************)
ReleaseLease(j) ==
  /\ leaseOwner' = [leaseOwner EXCEPT ![j] = 0]
  /\ leaseExpired' = [leaseExpired EXCEPT ![j] = FALSE]

KeepLease == UNCHANGED <<leaseOwner, leaseExpired>>

CreateJob(j) ==
  /\ status[j] = "absent"
  /\ status' = [status EXCEPT ![j] = "accepted"]
  /\ KeepLease
  /\ UNCHANGED <<attemptCount, nextRetry, cancelFrom, attempts, result>>

\* Wrong: the status is set without comparing it.
TransitionUnguarded(j, expected, target) ==
  /\ target \in AllowedTransitions(expected)
  /\ status[j] # "absent"
  /\ status' = [status EXCEPT ![j] = target]
  /\ KeepLease
  /\ UNCHANGED <<attemptCount, nextRetry, cancelFrom, attempts, result>>

\* The general compare-and-swap; a lost race leaves the database as it was.
\* The lease is dropped only on the way out of an executing status.
Transition(j, expected, target) ==
  /\ target \in AllowedTransitions(expected)
  /\ status[j] = expected
  /\ status' = [status EXCEPT ![j] = target]
  /\ IF expected \in ActiveExecution /\ target \notin ActiveExecution
       THEN ReleaseLease(j)
       ELSE KeepLease
  /\ nextRetry' = IF expected = "retry_wait"
                    THEN [nextRetry EXCEPT ![j] = "null"]
                    ELSE nextRetry
  /\ UNCHANGED <<attemptCount, cancelFrom, attempts, result>>

ScheduleRetry(j) ==
  /\ status[j] = "running"
  /\ status' = [status EXCEPT ![j] = "retry_wait"]
  /\ nextRetry' = [nextRetry EXCEPT ![j] = "later"]
  /\ ReleaseLease(j)
  /\ UNCHANGED <<attemptCount, cancelFrom, attempts, result>>

RetryDue(j) == status[j] = "retry_wait" /\ nextRetry[j] = "due"

\* Wrong: the deadline is never seen as reached.
PromoteNone == UNCHANGED repoVars

PromoteDueRetries ==
  /\ status' = [j \in Job |-> IF RetryDue(j) THEN "queued" ELSE status[j]]
  /\ nextRetry' = [j \in Job |-> IF RetryDue(j) THEN "null" ELSE nextRetry[j]]
  /\ KeepLease
  /\ UNCHANGED <<attemptCount, cancelFrom, attempts, result>>

\* The claim takes the lease under an owner of its own, counts the attempt and
\* opens its row.
ClaimJob(j) ==
  /\ status[j] = "queued"
  /\ status' = [status EXCEPT ![j] = "running"]
  /\ attemptCount' = [attemptCount EXCEPT ![j] = @ + 1]
  /\ leaseOwner' = [leaseOwner EXCEPT ![j] = attemptCount[j] + 1]
  /\ leaseExpired' = [leaseExpired EXCEPT ![j] = FALSE]
  /\ attempts' = [attempts EXCEPT ![j] = Append(@, "running")]
  /\ UNCHANGED <<nextRetry, cancelFrom, result>>

\* Wrong: any worker may renew the lease of an executing job.
LeaseRenewableByAny(j, n) == n # 0 /\ status[j] \in ActiveExecution

LeaseRenewable(j, n) == leaseOwner[j] = n /\ status[j] \in ActiveExecution

RenewLease(j, n) ==
  /\ LeaseRenewable(j, n)
  /\ leaseExpired' = [leaseExpired EXCEPT ![j] = FALSE]
  /\ UNCHANGED <<status, attemptCount, leaseOwner, nextRetry, cancelFrom,
                 attempts, result>>

\* The row is overwritten whatever its status is.
FinishAttempt(j, n, s) ==
  /\ n \in DOMAIN attempts[j]
  /\ attempts' = [attempts EXCEPT ![j] = [@ EXCEPT ![n] = s]]
  /\ KeepLease
  /\ UNCHANGED <<status, attemptCount, nextRetry, cancelFrom, result>>

\* Wrong: the result row survives a lost race.
CompleteInTwoSteps(j, n) ==
  /\ status' = [status EXCEPT ![j] = IF @ = "running" THEN "succeeded" ELSE @]
  /\ result' = [result EXCEPT ![j] = n]
  /\ ReleaseLease(j)
  /\ UNCHANGED <<attemptCount, nextRetry, cancelFrom, attempts>>

\* Wrong: the update does not name the expected status.
CompleteUnguarded(j, n) ==
  /\ status' = [status EXCEPT ![j] = "succeeded"]
  /\ result' = [result EXCEPT ![j] = n]
  /\ ReleaseLease(j)
  /\ UNCHANGED <<attemptCount, nextRetry, cancelFrom, attempts>>

\* Success and the result row are one transaction, guarded by the status alone.
CompleteJobWithResult(j, n) ==
  /\ status[j] = "running"
  /\ status' = [status EXCEPT ![j] = "succeeded"]
  /\ result' = [result EXCEPT ![j] = n]
  /\ ReleaseLease(j)
  /\ UNCHANGED <<attemptCount, nextRetry, cancelFrom, attempts>>

\* Wrong: the retry deadline is left behind.
CancelKeepsDeadline(j) ==
  /\ status[j] \in Cancellable
  /\ status' = [status EXCEPT ![j] = "cancel_requested"]
  /\ cancelFrom' = [cancelFrom EXCEPT ![j] = status[j]]
  /\ IF status[j] \in ActiveExecution THEN KeepLease ELSE ReleaseLease(j)
  /\ UNCHANGED <<attemptCount, nextRetry, attempts, result>>

\* A cancelled execution keeps its lease; a waiting job has none to keep.
RequestCancel(j) ==
  /\ status[j] \in Cancellable
  /\ status' = [status EXCEPT ![j] = "cancel_requested"]
  /\ cancelFrom' = [cancelFrom EXCEPT ![j] = status[j]]
  /\ nextRetry' = IF status[j] = "retry_wait"
                    THEN [nextRetry EXCEPT ![j] = "null"]
                    ELSE nextRetry
  /\ IF status[j] \in ActiveExecution THEN KeepLease ELSE ReleaseLease(j)
  /\ UNCHANGED <<attemptCount, attempts, result>>

\* Wrong: only jobs cancelled out of the queue are finalized.
CancelPendingFromQueue(j) ==
  status[j] = "cancel_requested" /\ cancelFrom[j] = "queued"

CancelPending(j) ==
  status[j] = "cancel_requested" /\ cancelFrom[j] \notin ActiveExecution

FinalizePendingCancellations ==
  /\ status' = [j \in Job |-> IF CancelPending(j) THEN "cancelled"
                              ELSE status[j]]
  /\ leaseOwner' = [j \in Job |-> IF CancelPending(j) THEN 0 ELSE leaseOwner[j]]
  /\ leaseExpired' = [j \in Job |-> leaseExpired[j] /\ ~CancelPending(j)]
  /\ nextRetry' = [j \in Job |-> IF CancelPending(j) THEN "null"
                                 ELSE nextRetry[j]]
  /\ UNCHANGED <<attemptCount, cancelFrom, attempts, result>>

\* The sweep works from a list of stale jobs read beforehand, with the attempt
\* count each had then (0: not on the list); the update itself tests only that
\* the job is still executing.
Stale(j) == status[j] \in ActiveExecution /\ leaseExpired[j]

StaleJobs == [j \in Job |-> IF Stale(j) THEN attemptCount[j] ELSE 0]

Recovered(j, seen) == seen[j] # 0 /\ status[j] \in ActiveExecution

\* Wrong: one attempt too many.
RecoverOffByOne(seen) ==
  /\ status' = [j \in Job |->
                  IF ~Recovered(j, seen) THEN status[j]
                  ELSE IF seen[j] <= MaxAttempts[j] THEN "queued" ELSE "failed"]
  /\ leaseOwner' = [j \in Job |-> IF Recovered(j, seen) THEN 0
                                  ELSE leaseOwner[j]]
  /\ leaseExpired' = [j \in Job |-> leaseExpired[j] /\ ~Recovered(j, seen)]
  /\ UNCHANGED <<attemptCount, nextRetry, cancelFrom, attempts, result>>

\* Wrong: the old lease stays on the requeued job.
RecoverKeepsLease(seen) ==
  /\ status' = [j \in Job |->
                  IF ~Recovered(j, seen) THEN status[j]
                  ELSE IF seen[j] < MaxAttempts[j] THEN "queued" ELSE "failed"]
  /\ KeepLease
  /\ UNCHANGED <<attemptCount, nextRetry, cancelFrom, attempts, result>>

RecoverStaleJobs(seen) ==
  /\ status' = [j \in Job |->
                  IF ~Recovered(j, seen) THEN status[j]
                  ELSE IF seen[j] < MaxAttempts[j] THEN "queued" ELSE "failed"]
  /\ leaseOwner' = [j \in Job |-> IF Recovered(j, seen) THEN 0
                                  ELSE leaseOwner[j]]
  /\ leaseExpired' = [j \in Job |-> leaseExpired[j] /\ ~Recovered(j, seen)]
  /\ UNCHANGED <<attemptCount, nextRetry, cancelFrom, attempts, result>>

(***************************************************************************)
(* The clock passes a stored deadline.                                     *)
(***************************************************************************)
LeaseLapses(j) ==
  /\ status[j] \in ActiveExecution
  /\ ~leaseExpired[j]
  /\ leaseExpired' = [leaseExpired EXCEPT ![j] = TRUE]
  /\ UNCHANGED <<status, attemptCount, leaseOwner, nextRetry, cancelFrom,
                 attempts, result>>

BackoffElapses(j) ==
  /\ nextRetry[j] = "later"
  /\ nextRetry' = [nextRetry EXCEPT ![j] = "due"]
  /\ KeepLease
  /\ UNCHANGED <<status, attemptCount, cancelFrom, attempts, result>>

(***************************************************************************)
(* The repository under callers that use it in any order: every transition *)
(* the bridge asks for, by any handler or worker, at any time.             *)
(***************************************************************************)
BridgeTransitions == {<<"accepted", "validating">>, <<"validating", "queued">>,
                      <<"validating", "failed">>, <<"running", "failed">>,
                      <<"cancel_requested", "cancelled">>}

JobOperation(j) ==
  \/ CreateJob(j) \/ ClaimJob(j) \/ ScheduleRetry(j) \/ RequestCancel(j)
  \/ LeaseLapses(j) \/ BackoffElapses(j)
  \/ \E t \in BridgeTransitions : Transition(j, t[1], t[2])
  \/ \E n \in DOMAIN attempts[j] :
       \/ RenewLease(j, n) \/ CompleteJobWithResult(j, n)
       \/ \E s \in AttemptStatus \ {"running"} : FinishAttempt(j, n, s)

Sweep ==
  \/ PromoteDueRetries
  \/ FinalizePendingCancellations
  \/ \E seen \in [Job -> Nat] : RecoverStaleJobs(seen)

RepoNext == Sweep \/ \E j \in Job : JobOperation(j)

RepoSpec == RepoInit /\ [][RepoNext]_repoVars

(***************************************************************************)
(* What the repository guarantees whatever its callers do.                 *)
(***************************************************************************)
RepoTypeOK ==
  /\ status \in [Job -> Status]
  /\ attemptCount \in [Job -> Nat]
  /\ leaseOwner \in [Job -> Nat]
  /\ leaseExpired \in [Job -> BOOLEAN]
  /\ nextRetry \in [Job -> {"null", "later", "due"}]
  /\ cancelFrom \in [Job -> Cancellable \cup {"none"}]
  /\ attempts \in [Job -> Seq(AttemptStatus)]
  /\ result \in [Job -> Nat]

\* A result row exists exactly for the jobs reported succeeded: a cancellation
\* or a failure that wins a race leaves none behind, and get_result never sees
\* success without its row.
ResultIffSucceeded ==
  \A j \in Job : result[j] # 0 <=> status[j] = "succeeded"

\* The lease is held exactly by an executing job, or by one whose execution was
\* cancelled (nothing on that path clears it); its owner is the newest claim,
\* so the renewer of an older claim can never extend it.
LeaseHeldByNewestClaim ==
  \A j \in Job :
    /\ leaseOwner[j] # 0 <=> \/ status[j] \in ActiveExecution
                             \/ cancelFrom[j] \in ActiveExecution
    /\ leaseOwner[j] \in {0, attemptCount[j]}

\* A retry deadline exists exactly while the job waits for it: no requeued or
\* cancelled job carries an old one.
RetryDeadlineIffWaiting ==
  \A j \in Job : nextRetry[j] # "null" <=> status[j] = "retry_wait"

\* The cancellation marker follows the status: nothing that was asked to stop
\* ever executes, waits or succeeds again.
CancelIsSticky ==
  \A j \in Job : cancelFrom[j] # "none" <=>
                   status[j] \in {"cancel_requested", "cancelled"}

\* One attempt row per counted attempt.
AttemptRowsMatchCount ==
  \A j \in Job : Len(attempts[j]) = attemptCount[j]

RepoInv ==
  /\ ResultIffSucceeded
  /\ LeaseHeldByNewestClaim
  /\ RetryDeadlineIffWaiting
  /\ CancelIsSticky
  /\ AttemptRowsMatchCount
=============================================================================
