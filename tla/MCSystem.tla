------------------------------ MODULE MCSystem ------------------------------
(***************************************************************************)
(* For TLC: the handler goroutines are interchangeable.                    *)
(***************************************************************************)
EXTENDS SystemInvariant, TLC

SlotSymmetry == Permutations(Slots)
=============================================================================
