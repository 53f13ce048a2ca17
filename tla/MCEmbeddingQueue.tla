-------------------------- MODULE MCEmbeddingQueue --------------------------
(***************************************************************************)
(* EmbeddingQueue for TLC.  No definition tells two routes, two versions,  *)
(* two producers or two workers apart.                                     *)
(***************************************************************************)
EXTENDS EmbeddingQueue, TLC

Symmetry ==
    Permutations(Routes) \cup Permutations(Versions)
        \cup Permutations(Producers) \cup Permutations(Workers)
=============================================================================
