------------------------------ MODULE MCMasters -----------------------------
(* Three interchangeable admins on a section prompt. *)
EXTENDS Masters, TLC

AdminSymmetry == Permutations(Admins)
=============================================================================
