---------------------------- MODULE JobLifecycle ----------------------------
(***************************************************************************)
(* What the bridge promises the client of an agent job, without leases,    *)
(* retries, processes or files: a job is taken up at most MaxAttempts      *)
(* times, its answer appears in the very step in which it succeeds, a      *)
(* cancelled job can only end cancelled, and what has ended never changes. *)
(***************************************************************************)
EXTENDS Naturals

CONSTANTS Job, MaxAttempts

VARIABLES phase,     \* what the client may rely on
          tries,     \* how often the job was taken up
          answered   \* whether the job's result can be fetched

lifecycleVars == <<phase, tries, answered>>

Phase == {"absent", "waiting", "executing", "cancelling",
          "succeeded", "failed", "cancelled"}

Init ==
  /\ phase = [j \in Job |-> "absent"]
  /\ tries = [j \in Job |-> 0]
  /\ answered = [j \in Job |-> FALSE]

Move(j, from, to) ==
  /\ phase[j] = from
  /\ phase' = [phase EXCEPT ![j] = to]

Submit(j) == Move(j, "absent", "waiting") /\ UNCHANGED <<tries, answered>>

\* A job that was never taken up may still turn out impossible to accept.
Refuse(j) ==
  tries[j] = 0 /\ Move(j, "waiting", "failed") /\ UNCHANGED <<tries, answered>>

TakeUp(j) ==
  /\ tries[j] < MaxAttempts[j]
  /\ Move(j, "waiting", "executing")
  /\ tries' = [tries EXCEPT ![j] = @ + 1]
  /\ UNCHANGED answered

Succeed(j) ==
  /\ Move(j, "executing", "succeeded")
  /\ answered' = [answered EXCEPT ![j] = TRUE]
  /\ UNCHANGED tries

Cancel(j) ==
  /\ \/ Move(j, "waiting", "cancelling")
     \/ Move(j, "executing", "cancelling")
  /\ UNCHANGED <<tries, answered>>

(***************************************************************************)
(* The bridge may settle several jobs at once: an execution that did not   *)
(* succeed is given back while the budget lasts, and fails otherwise or    *)
(* when another attempt is pointless; a job being cancelled ends.          *)
(***************************************************************************)
MaySettleAs(j, p) ==
  \/ phase[j] = "executing" /\ p = "waiting" /\ tries[j] < MaxAttempts[j]
  \/ phase[j] = "executing" /\ p = "failed"
  \/ phase[j] = "cancelling" /\ p = "cancelled"

Settle ==
  /\ phase' \in [Job -> Phase]
  /\ \A j \in Job : phase'[j] # phase[j] => MaySettleAs(j, phase'[j])
  /\ UNCHANGED <<tries, answered>>

Next ==
  \/ Settle
  \/ \E j \in Job : Submit(j) \/ Refuse(j) \/ TakeUp(j) \/ Succeed(j) \/ Cancel(j)

Spec == Init /\ [][Next]_lifecycleVars
=============================================================================
