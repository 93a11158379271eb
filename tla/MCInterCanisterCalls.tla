------------------------ MODULE MCInterCanisterCalls ------------------------
(* A small instance of InterCanisterCalls for TLC. *)
EXTENDS InterCanisterCalls, TLC

Symmetry == Permutations(Methods \ Manual)
=============================================================================
