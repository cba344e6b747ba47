----------------------------- MODULE MCPatchState -----------------------------
(***************************************************************************)
(* A title with three patches.                                             *)
(***************************************************************************)
EXTENDS PatchState, TLC

CONSTANTS h1, h2, h3

MCHash == {h1, h2, h3}
=============================================================================
