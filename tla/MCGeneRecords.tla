--------------------------- MODULE MCGeneRecords ----------------------------
(* Model-checking instance of GeneRecords: peers and genes are               *)
(* interchangeable, this node and the pseudonyms are not.                    *)
EXTENDS GeneRecords, TLC

Symmetry == Permutations(Genes) \cup Permutations(Peers \ {Local})
=============================================================================
