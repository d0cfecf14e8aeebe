--------------------------- MODULE MCHeartbeatDesk --------------------------
(* Model-checking instance of HeartbeatDesk: sources are numbers in the      *)
(* order of their names, by which ties in the bonus go.                      *)
EXTENDS HeartbeatDesk, TLC

Symmetry == Permutations(Pseudonyms)
=============================================================================
