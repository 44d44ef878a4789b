------------------------------ MODULE MCAgentSchedule ------------------------------
(* Small instances of AgentSchedule for TLC. *)
EXTENDS AgentSchedule

=============================================================================
