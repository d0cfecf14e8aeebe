--------------------------- MODULE MCRepublisher ----------------------------
(* Model-checking instance of Republisher: every place has the same name, in *)
(* a root of its own; places, genes and tasks are interchangeable.           *)
EXTENDS Republisher, TLC

OneName(f) == "gene"
Symmetry == Permutations(Files) \cup Permutations(Genes) \cup Permutations(Tasks)
=============================================================================
