------------------------------- MODULE MCDumps -------------------------------
(* The card of MCMifareDump, both of whose keys may be in a sector; of the  *)
(* three keys example-05 tries, one in the middle may open one.             *)
EXTENDS Dumps, MCMifareDump

CONSTANTS k3, k4

ThreeKeys == <<k3, k1, k4>>
=============================================================================
