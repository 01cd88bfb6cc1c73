------------------------- MODULE MCMaterialCustody -------------------------
(* MaterialCustody for TLC: two sessions, a small and a big file. *)
EXTENDS MaterialCustody, TLC

CONSTANTS c1, c2, o1, o2, ad, f1, f2

TwoSessions == {c1, c2}
Sessions == Permutations(TwoSessions)
=============================================================================
