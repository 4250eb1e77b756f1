----------------------------- MODULE MCPortHost -----------------------------
(* Instances of PortHost for TLC.                                           *)
EXTENDS PortHost, TLC

Symmetry == Permutations(Ports)
=============================================================================
