--------------------------- MODULE MCProxyManager ---------------------------
(***************************************************************************)
(* ProxyManager for TLC.  Requests are alike, and so are providers and     *)
(* row ids, so the safety runs may permute them.                           *)
(***************************************************************************)
EXTENDS ProxyManager, TLC

Symmetry == Permutations(Tasks) \cup Permutations(Providers) \cup Permutations(RowIds)
=============================================================================
