----------------------------- MODULE MCPpdShim -----------------------------
(* Instances of the power-profiles-daemon shim for TLC.  Clients are       *)
(* interchangeable.                                                        *)
EXTENDS PpdShim, TLC

MCSymmetry == Permutations(Client)
=============================================================================
