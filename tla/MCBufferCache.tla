--------------------------- MODULE MCBufferCache ---------------------------
(***************************************************************************)
(* BufferCache for TLC.  No action reads call, and ImplementsStore looks   *)
(* only at the call of the step it judges, so two states that differ in    *)
(* the last call have the same future.                                     *)
(***************************************************************************)
EXTENDS BufferCache

WithoutCall == <<valid, fbv, disk, slotVars, walk, ret>>
=============================================================================
