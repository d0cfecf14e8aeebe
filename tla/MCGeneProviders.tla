-------------------------- MODULE MCGeneProviders ---------------------------
(* Model-checking instance of GeneProviders: genes and peers but this node   *)
(* are interchangeable.                                                      *)
EXTENDS GeneProviders, TLC

Symmetry == Permutations(Genes) \cup Permutations(Peers \ {Local})
=============================================================================
