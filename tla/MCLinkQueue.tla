---------------------------- MODULE MCLinkQueue ----------------------------
(***************************************************************************)
(* LinkQueue with queues and objects that are only told apart.  No action  *)
(* reads call, and ImplementsSequences looks only at the call of the step  *)
(* it judges, so two states that differ in the last call have one future.  *)
(***************************************************************************)
EXTENDS LinkQueue, TLC

WithoutCall == <<heap, l, ret>>

Symmetry == Permutations(Queues) \cup Permutations(Objects)
=============================================================================
