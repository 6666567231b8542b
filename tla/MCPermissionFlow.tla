--------------------------- MODULE MCPermissionFlow ---------------------------
(***************************************************************************)
(* PermissionFlow for TLC: two prompts of one worker.                      *)
(***************************************************************************)
EXTENDS PermissionFlow, TLC

CONSTANTS r1, r2

Prompts == Permutations(RequestIds)
=============================================================================
