---------------------------- MODULE MCSqsPipeline ----------------------------
(* SqsPipeline for TLC: constants are given in the cfg files. *)
EXTENDS SqsPipeline, TLC

Symmetry == Permutations(Workers) \cup Permutations(Messages)
=============================================================================
