--------------------------- MODULE MCAgentRuntime ---------------------------
(***************************************************************************)
(* Instances of AgentRuntime for TLC.  The protected head and tail of a    *)
(* compaction (2 and 6 messages) are scaled down so that a conversation of *)
(* a few messages is compacted, and compacted again.                       *)
(***************************************************************************)
EXTENDS AgentRuntime
=============================================================================
