---------------------------- MODULE MC_HidLocker ----------------------------
(* Instances of HidLocker for TLC. *)
EXTENDS HidLocker, TLC

\* Zero, a press, and a byte that int8_t makes negative.
MCBtnVals == {0, 1, 255}

BlockSymmetry == Permutations(Blocks)
=============================================================================
