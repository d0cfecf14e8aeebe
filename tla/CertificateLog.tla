--------------------------- MODULE CertificateLog ---------------------------
(***************************************************************************)
(* What the issuer of node certificates promises, without transactions,    *)
(* locks or challenges: an append-only log to which certificates are added *)
(* one at a time, each at an instant at which its iat is not of the future,*)
(* its challenge is unused, its PeerId is free and its account has room.   *)
(***************************************************************************)
EXTENDS Integers, FiniteSets

CONSTANTS Users, Peers, Ttl, Skew, MaxNodes

VARIABLES clock, log, voided

Certificate == [peer : Peers, user : Users, iat : Int, nonce : Nat]

Voided(c) == \E v \in voided : v.peer = c.peer /\ c.iat <= v.not_after

\* The certificates a verifier would still accept.
Accepted == {c \in log : c.iat + Ttl + Skew >= clock /\ ~Voided(c)}

PeersOf(u) == {c.peer : c \in {d \in Accepted : d.user = u}}

-----------------------------------------------------------------------------
Init == clock \in Nat /\ log = {} /\ voided = {}

\* A certificate of its own challenge is logged: not of the future, for a PeerId no
\* other account holds, within the limit of its account.
Grant ==
  /\ \E c \in log' \ log :
       /\ log' = log \cup {c}
       /\ c \in Certificate
       /\ c.iat <= clock + Skew
       /\ \A d \in log : d.nonce # c.nonce
       /\ \A d \in Accepted : d.peer = c.peer => d.user = c.user
       /\ Cardinality(PeersOf(c.user) \ {c.peer}) < MaxNodes
  /\ UNCHANGED <<clock, voided>>

Void ==
  /\ \E v \in voided' \ voided : v.peer \in Peers /\ voided' = voided \cup {v}
  /\ UNCHANGED <<clock, log>>

Tick == clock' = clock + 1 /\ UNCHANGED <<log, voided>>

Next == Grant \/ Void \/ Tick

Spec == Init /\ [][Next]_<<clock, log, voided>>
=============================================================================
