---------------------------- MODULE MCStallWatch ----------------------------
(***************************************************************************)
(* StallWatch for two downloads, of which the second follows the first in  *)
(* every sweep.                                                            *)
(***************************************************************************)
EXTENDS StallWatch

CONSTANTS first, second

MCRows == <<first, second>>
=============================================================================
