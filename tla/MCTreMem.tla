------------------------------ MODULE MCTreMem ------------------------------
(* An instance of TreMem for TLC: blocks of 16 bytes, sizes around them. *)
EXTENDS TreMem

MCSizes == {0, 1, 3, 4, 6, 13, 16, 17}
=============================================================================
