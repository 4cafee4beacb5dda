----------------------------- MODULE MCRtuSlave ------------------------------
(* Two requests, interchangeable: an answer to the one of them must not     *)
(* serve the other.                                                         *)
EXTENDS RtuSlave, TLC

Symmetry == Permutations(Requests)
=============================================================================
