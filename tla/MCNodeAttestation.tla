-------------------------- MODULE MCNodeAttestation --------------------------
(* Two accounts and two PeerIds, two redemptions at a time; a clock of the   *)
(* function that is behind, ahead or too far ahead of the database's.        *)
EXTENDS NodeAttestation, TLC

MCOffsets == {-1, 1, 2}
MCCutoffs == {-1, 0}
Symmetries == Permutations(Users) \cup Permutations(Peers) \cup Permutations(Requests)
=============================================================================
