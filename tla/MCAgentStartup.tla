---------------------------- MODULE MCAgentStartup ----------------------------
(* Small instances of AgentStartup for TLC.                                   *)
EXTENDS AgentStartup
=============================================================================
