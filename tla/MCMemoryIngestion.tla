-------------------------- MODULE MCMemoryIngestion --------------------------
(* MemoryIngestion on two turns: a flush of both, and one of the later turn *)
(* alone, whose facts may supersede the earlier one's.                      *)
EXTENDS MemoryIngestion, TLC
TwoTurns == {<<1, 2>>, <<2>>}
OneTurn == {<<1>>}
Symmetry == Permutations(Workers) \cup Permutations(Batches)
=============================================================================
