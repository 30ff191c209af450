---------------------------- MODULE MCAgentInbox ----------------------------
(* Instances of AgentInbox for TLC.                                        *)
EXTENDS AgentInbox

CONSTANTS h1, ack
=============================================================================
