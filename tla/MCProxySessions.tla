-------------------------- MODULE MCProxySessions --------------------------
(***************************************************************************)
(* ProxySessions for TLC.  Calls are alike and so are proxies, and no      *)
(* definition picks one of them, so the safety runs may permute both; the  *)
(* runs with temporal properties do not use Symmetry.                      *)
(***************************************************************************)
EXTENDS ProxySessions, TLC

Symmetry == Permutations(Calls) \cup Permutations(Proxies)
=============================================================================
