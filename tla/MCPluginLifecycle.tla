--------------------------- MODULE MCPluginLifecycle ---------------------------
(* The lifecycle of a plugin for TLC: its handlers are interchangeable. *)
EXTENDS PluginLifecycle, TLC
Symmetry == Permutations(Callers) \cup Permutations(Tools)
================================================================================
