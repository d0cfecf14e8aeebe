--------------------------- MODULE MCGeneSnapshots ---------------------------
(* Two processes whose commands do not overlap, two versions in the Registry. *)
EXTENDS GeneSnapshots, TLC
MCVersions == 1..2
Symmetries == Permutations(Procs)
=============================================================================
