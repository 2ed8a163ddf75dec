---------------------------- MODULE MCToolCalls ----------------------------
(***************************************************************************)
(* Small instances of ToolCalls. Handlers are interchangeable; calls are   *)
(* too, but the first of them is also every idle handler's.                *)
(***************************************************************************)
EXTENDS ToolCalls, TLC

HandlerSymmetry == Permutations(Handlers)
=============================================================================
