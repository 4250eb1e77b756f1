----------------------------- MODULE MCPortSync -----------------------------
(* Instances of PortSync for TLC: the uuids are interchangeable.            *)
EXTENDS PortSync, TLC

Symmetry == Permutations(Ports)
=============================================================================
