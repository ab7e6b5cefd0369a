----------------------------- MODULE MCPodFlows -----------------------------
(* PodFlows for TLC. *)
EXTENDS PodFlows, TLC
=============================================================================
