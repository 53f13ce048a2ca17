---------------------------- MODULE MCListFetch ----------------------------
(***************************************************************************)
(* ListFetch for TLC; callers are alike and so are fetches.                *)
(***************************************************************************)
EXTENDS ListFetch, TLC

Symmetry == Permutations(Callers) \cup Permutations(Fetches)
=============================================================================
