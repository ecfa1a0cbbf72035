--------------------------- MODULE MCPmw3610Driver ---------------------------
(* Pmw3610Driver instantiated for TLC. *)
EXTENDS Pmw3610Driver, TLC

(* Two capture callers are interchangeable in the safety runs. *)
ClientSymmetry == Permutations(Client)
=============================================================================
