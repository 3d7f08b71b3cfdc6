--------------------------- MODULE MCPauseSwitch ---------------------------
(***************************************************************************)
(* Small instances of PauseSwitch for TLC.                                 *)
(***************************************************************************)
EXTENDS PauseSwitch, TLC

\* Requests are interchangeable.
ApiSymmetry == Permutations(Api)
=============================================================================
