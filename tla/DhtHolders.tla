----------------------------- MODULE DhtHolders -----------------------------
(***************************************************************************)
(* Whom a stored DHT entry is counted against (gene_store.rs, Holder;      *)
(* node.rs, holder), and which class of holder loses an entry when a       *)
(* budget is full (the eviction rule that make_room_for_record and         *)
(* admit_provider share).                                                  *)
(***************************************************************************)
EXTENDS Integers, FiniteSets

CONSTANTS
    Peers,       \* PeerIds, this node's own among them
    Local,       \* this node
    Pseudonyms,  \* (iss, sub) pairs a proof of registration names
    NoProof      \* what the heartbeat desk says of a peer without a valid proof

ASSUME HoldersAssumption ==
    /\ Local \in Peers
    /\ NoProof \notin Pseudonyms

(* `Some(Holder)` of a peer's entry, or `None`, this node's own.             *)
Registered(r) == [class |-> "registered", who |-> r]
Anonymous(p)  == [class |-> "anonymous", who |-> p]
Own           == [class |-> "own", who |-> Local]

Holder == [class: {"registered"}, who: Pseudonyms]
              \cup [class: {"anonymous"}, who: Peers] \cup {Own}

(* What the desk's registration(peer) answers for each peer. Heartbeats,     *)
(* their expiry and their revocation are the desk's affair: here a proof may *)
(* appear, change or lapse at any time, and one pseudonym may have several   *)
(* PeerIds. This node keeps no proof of its own.                             *)
Proofs == {q \in [Peers -> Pseudonyms \cup {NoProof}] : q[Local] = NoProof}
NoProofs == [p \in Peers |-> NoProof]

BugHolderIgnoresMissingProof(proof, p) == Registered(proof[p])
HolderOf(proof, p) == IF proof[p] = NoProof THEN Anonymous(p) ELSE Registered(proof[p])

OtherClass(class) == IF class = "registered" THEN "anonymous" ELSE "registered"

(* The class that makes room for a newcomer of `class` when `count` entries  *)
(* fill the budget: the other class if it is over its share, else the        *)
(* newcomer's own.                                                           *)
BugEvictedAtShare(class, count, share) ==
    IF count[OtherClass(class)] >= share[OtherClass(class)] THEN OtherClass(class) ELSE class
EvictedClass(class, count, share) ==
    IF count[OtherClass(class)] > share[OtherClass(class)] THEN OtherClass(class) ELSE class
=============================================================================
