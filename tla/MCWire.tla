------------------------------- MODULE MCWire -------------------------------
(* Instances of Wire for TLC: clients and what nicknames begin with are only compared. *)
EXTENDS Wire, TLC

Symmetry == Permutations(Clients) \cup Permutations(NickHeads)
=============================================================================
