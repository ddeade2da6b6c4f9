------------------------ MODULE MCAgentJobExecution ------------------------
(***************************************************************************)
(* Small instances of AgentJobExecution for TLC.                           *)
(***************************************************************************)
EXTENDS AgentJobExecution

CONSTANT Attempts   \* the same max_attempts for every job

SameMaxAttempts == [j \in Job |-> Attempts]
=============================================================================
