--------------------------- MODULE NodeAttestation ---------------------------
(***************************************************************************)
(* The issuing side of proof of registration: the edge function            *)
(* supabase/functions/node-attestation (challenge, issue) over the two     *)
(* database functions of its deferred migration, and the operators' revoke *)
(* and JWKS export.  A redemption is signed by the function first and      *)
(* recorded after, in a transaction that takes the lock of the PeerId and  *)
(* then the lock of the account.  Revocations and account closures take    *)
(* neither lock.  The clock is the database's; the function signs iat with *)
(* a clock of its own.                                                     *)
(***************************************************************************)
EXTENDS Integers, FiniteSets

CONSTANTS Users, Peers, Requests,
          Ttl,           \* lifetime of a certificate (7 days)
          Skew,          \* tolerance of verifiers and of the iat check (60 s)
          ChallengeTtl,  \* lifetime of a nonce (300 s)
          MaxNodes,      \* live PeerIds per account (3)
          MaxOpen,       \* open challenges per account (5)
          Offsets,       \* of the function's clock from the database's
          Cutoffs,       \* of the not_after an operator gives from now
          MaxClock, MaxNonces, MaxRevocations   \* bounds of the model

ASSUME AttestationAssumption ==
  /\ Ttl \in Nat \ {0} /\ Skew \in Nat /\ ChallengeTtl \in Nat
  /\ MaxNodes \in Nat \ {0} /\ MaxOpen \in Nat \ {0}
  /\ Offsets \subseteq Int /\ Cutoffs \subseteq Int
  /\ MaxClock \in Nat /\ MaxNonces \in Nat /\ MaxRevocations \in Nat

VARIABLES clock, account, challenges, given, issuances, nodes, revocations, req

vars == <<clock, account, challenges, given, issuances, nodes, revocations, req>>

NoNode == [user |-> "none", iat |-> 0]
Idle == [pc |-> "idle"]
Verdicts == {"ok", "CHALLENGE_INVALID", "CHALLENGE_EXPIRED", "ACCOUNT_CLOSED",
             "PEER_REVOKED", "PEER_BOUND_ELSEWHERE", "QUOTA_EXCEEDED"}

\* A revocation with not_after >= iat voids a certificate.
Revoked(c) == \E v \in revocations : v.peer = c.peer /\ c.iat <= v.not_after

\* A verifier would still accept certificate c at time t.
Live(c, t) == c.iat + Ttl + Skew >= t /\ ~Revoked(c)

LivePeers(u, t) == {c.peer : c \in {d \in issuances : d.user = u /\ Live(d, t)}}

\* Mutant: the window of a certificate without the tolerance of verifiers.
BugBoundElsewhere(p, u, t) ==
  \E c \in issuances : c.peer = p /\ c.user # u /\ c.iat + Ttl >= t /\ ~Revoked(c)

BoundElsewhere(p, u, t) ==
  \E c \in issuances : c.peer = p /\ c.user # u /\ Live(c, t)

-----------------------------------------------------------------------------
Init ==
  /\ clock = Skew
  /\ account = [u \in Users |-> "open"]
  /\ challenges = {}
  /\ given = 0
  /\ issuances = {}
  /\ nodes = [p \in Peers |-> NoNode]
  /\ revocations = {}
  /\ req = [r \in Requests |-> Idle]

Tick ==
  /\ clock < MaxClock
  /\ clock' = clock + 1
  /\ UNCHANGED <<account, challenges, given, issuances, nodes, revocations, req>>

\* The account is closed or banned, or opened again; no lock is taken.
SetAccount(u, status) ==
  /\ account[u] # "gone"
  /\ account' = [account EXCEPT ![u] = status]
  /\ UNCHANGED <<clock, challenges, given, issuances, nodes, revocations, req>>

\* The account is deleted for good, and with it its challenges and its rows in nodes
\* (ON DELETE CASCADE); its certificates stay. A redemption of the account that has
\* consumed its challenge and not committed is undone, when the deletion does not
\* wait for it (each needs a row the other has locked, and one of them gives way).
Delete(u) ==
  /\ account[u] # "gone"
  /\ account' = [account EXCEPT ![u] = "gone"]
  /\ challenges' = {c \in challenges : c.user # u}
  /\ nodes' = [p \in Peers |-> IF nodes[p].user = u THEN NoNode ELSE nodes[p]]
  /\ req' = [r \in Requests |->
               IF req[r].pc = "decided" /\ req[r].user = u THEN Idle ELSE req[r]]
  /\ UNCHANGED <<clock, given, issuances, revocations>>

\* Mutant: a redemption holds its PeerId from the start, and so never gets it.
BugHoldsPeer(r) == req[r].pc \in {"begun", "peer", "decided"}

HoldsPeer(r) == req[r].pc \in {"peer", "decided"}
HoldsUser(r) == req[r].pc = "decided"

\* Mutant: the lock of the PeerId is not taken.
BugPeerFree(p) == p \in Peers

PeerFree(p) == \A r \in Requests : HoldsPeer(r) => req[r].peer # p

\* Mutant: the account's lock is not taken.
BugUserFree(u) == u \in Users

UserFree(u) == \A r \in Requests : HoldsUser(r) => req[r].user # u

\* node_attestation_challenge: one short transaction under the account's lock.
\* Clearing the expired challenges is committed even when the cap refuses; a
\* consumed one answers like an unknown one and counts for nothing, so
\* challenges holds the unconsumed rows only.
Challenge(u) ==
  LET left == {c \in challenges : ~(c.user = u /\ c.exp < clock)}
      room == Cardinality({c \in left : c.user = u}) < MaxOpen
  IN  /\ UserFree(u)
      /\ account[u] = "open"
      /\ given < MaxNonces
      /\ given' = IF room THEN given + 1 ELSE given
      /\ challenges' = IF room
           THEN left \cup {[nonce |-> given + 1, user |-> u, exp |-> clock + ChallengeTtl]}
           ELSE left
      /\ UNCHANGED <<clock, account, issuances, nodes, revocations, req>>

\* issue() in the handler and the start of the transaction: the signature was
\* verified for the caller c.user; the token is signed before anything is
\* recorded.  now() is fixed here for the whole transaction, and an iat further
\* from it than Skew raises without a trace.
Redeem(r, c, p, iat) ==
  /\ req[r] = Idle
  /\ iat - clock <= Skew /\ clock - iat <= Skew
  /\ req' = [req EXCEPT ![r] = [pc |-> "begun", user |-> c.user, peer |-> p,
                                nonce |-> c.nonce, iat |-> iat, now |-> clock,
                                verdict |-> "ok"]]
  /\ UNCHANGED <<clock, account, challenges, given, issuances, nodes, revocations>>

LockPeer(r) ==
  /\ req[r].pc = "begun"
  /\ PeerFree(req[r].peer)
  /\ req' = [req EXCEPT ![r].pc = "peer"]
  /\ UNCHANGED <<clock, account, challenges, given, issuances, nodes, revocations>>

IsRowOf(c, q) == c.nonce = q.nonce /\ c.user = q.user

\* Mutant: a consumed challenge is not refused.
BugVerdict(q) ==
  CASE \E c \in challenges : IsRowOf(c, q) /\ c.exp < q.now      -> "CHALLENGE_EXPIRED"
    [] account[q.user] # "open"                                 -> "ACCOUNT_CLOSED"
    [] Revoked([peer |-> q.peer, iat |-> q.iat])                -> "PEER_REVOKED"
    [] BoundElsewhere(q.peer, q.user, q.now)                    -> "PEER_BOUND_ELSEWHERE"
    [] Cardinality(LivePeers(q.user, q.now) \ {q.peer}) >= MaxNodes -> "QUOTA_EXCEEDED"
    [] OTHER                                                    -> "ok"

\* What the checks of node_attestation_issue answer, in their order.
Verdict(q) ==
  CASE ~\E c \in challenges : IsRowOf(c, q)                  -> "CHALLENGE_INVALID"
    [] \E c \in challenges : IsRowOf(c, q) /\ c.exp < q.now  -> "CHALLENGE_EXPIRED"
    [] account[q.user] # "open"                                 -> "ACCOUNT_CLOSED"
    [] Revoked([peer |-> q.peer, iat |-> q.iat])                -> "PEER_REVOKED"
    [] BoundElsewhere(q.peer, q.user, q.now)                    -> "PEER_BOUND_ELSEWHERE"
    [] Cardinality(LivePeers(q.user, q.now) \ {q.peer}) >= MaxNodes -> "QUOTA_EXCEEDED"
    [] OTHER                                                    -> "ok"

\* The account's lock, then the checks: from here to the commit nobody else
\* reads or adds certificates of this PeerId or this account.
Decide(r) ==
  /\ req[r].pc = "peer"
  /\ UserFree(req[r].user)
  /\ req' = [req EXCEPT ![r].pc = "decided", ![r].verdict = Verdict(req[r])]
  /\ UNCHANGED <<clock, account, challenges, given, issuances, nodes, revocations>>

\* Mutant: on conflict (peer_id) do nothing.
BugNodeRow(q) ==
  IF nodes[q.peer] = NoNode THEN [user |-> q.user, iat |-> q.iat] ELSE nodes[q.peer]

\* The upsert into nodes: on conflict the row takes the new account.
NodeRow(q) == [user |-> q.user, iat |-> q.iat]

\* The commit makes the consumed nonce and the certificate visible and releases
\* both locks.  The token goes out with the answer; a refused one is dropped.
Commit(r) ==
  LET q == req[r]
  IN  /\ q.pc = "decided"
      /\ challenges' = {c \in challenges : ~IsRowOf(c, q)}
      /\ req' = [req EXCEPT ![r] = Idle]
      /\ IF q.verdict = "ok"
           THEN /\ issuances' = issuances \cup
                     {[peer |-> q.peer, user |-> q.user, iat |-> q.iat, nonce |-> q.nonce]}
                /\ nodes' = [nodes EXCEPT ![q.peer] = NodeRow(q)]
           ELSE UNCHANGED <<issuances, nodes>>
      /\ UNCHANGED <<clock, account, given, revocations>>

\* node_attestation_revoke; not_after is now unless the operator gives one.
Revoke(p, notAfter) ==
  /\ notAfter >= 0
  /\ Cardinality(revocations) < MaxRevocations
  /\ revocations' = revocations \cup {[peer |-> p, not_after |-> notAfter]}
  /\ UNCHANGED <<clock, account, challenges, given, issuances, nodes, req>>

\* Mutant: the list forgets the tolerance of verifiers.
BugJwksList ==
  {v \in revocations :
     /\ \A w \in revocations : w.peer = v.peer => w.not_after <= v.not_after
     /\ v.not_after + Ttl >= clock}

\* node_attestation_revocations_for_jwks: the latest entry of each PeerId, while
\* some certificate it voids could still be accepted.
JwksList ==
  {v \in revocations :
     /\ \A w \in revocations : w.peer = v.peer => w.not_after <= v.not_after
     /\ v.not_after + Ttl + Skew >= clock}

Step(r) ==
  \/ LockPeer(r)
  \/ Decide(r)
  \/ Commit(r)

Next ==
  \/ Tick
  \/ \E u \in Users : Challenge(u)
  \/ \E u \in Users : Delete(u) \/ \E s \in {"open", "closed"} : SetAccount(u, s)
  \/ \E p \in Peers, d \in Cutoffs : Revoke(p, clock + d)
  \/ \E r \in Requests, c \in challenges, p \in Peers, o \in Offsets :
        Redeem(r, c, p, clock + o)
  \/ \E r \in Requests : Step(r)

Spec == Init /\ [][Next]_vars

-----------------------------------------------------------------------------
TypeOK ==
  /\ clock \in Nat
  /\ account \in [Users -> {"open", "closed", "gone"}]
  /\ challenges \subseteq [nonce : Nat, user : Users, exp : Nat]
  /\ given \in Nat
  /\ issuances \subseteq [peer : Peers, user : Users, iat : Int, nonce : Nat]
  /\ nodes \in [Peers -> [user : Users \cup {"none"}, iat : Int]]
  /\ revocations \subseteq [peer : Peers, not_after : Int]
  /\ req \in [Requests -> {Idle} \cup
       [pc : {"begun", "peer", "decided"}, user : Users, peer : Peers,
        nonce : Nat, iat : Int, now : Nat, verdict : Verdicts]]

\* No account ever has more live PeerIds than the limit, however redemptions,
\* revocations and the passing of time interleave (node_attestation_issue, D5).
QuotaHolds ==
  \A u \in Users : Cardinality(LivePeers(u, clock)) <= MaxNodes

\* Two accounts never hold live certificates for one PeerId at the same time
\* (the rebinding rule of node_attestation_issue).
OneAccountPerPeer ==
  \A c, d \in issuances :
    c.peer = d.peer /\ Live(c, clock) /\ Live(d, clock) => c.user = d.user

\* One challenge yields at most one certificate, however often and however
\* concurrently it is redeemed (node_attestation_issue consumes the nonce).
NonceYieldsOne == \A c, d \in issuances : c.nonce = d.nonce => c = d

\* While a PeerId has a live certificate, its row in nodes names the account of
\* that certificate, unless that account has been deleted (the upsert at the end of
\* node_attestation_issue, the cascade of nodes.user_id).
NodesNamesLiveOwner ==
  \A c \in issuances :
    Live(c, clock) /\ account[c.user] # "gone" => nodes[c.peer].user = c.user

\* The published revocation list drops an entry only when no verifier would
\* accept a certificate the entry voids (node_attestation_revocations_for_jwks).
JwksListCovers ==
  \A c \in issuances :
    Revoked(c) /\ c.iat + Ttl + Skew >= clock
      => \E v \in JwksList : v.peer = c.peer /\ c.iat <= v.not_after

\* The two locks never leave everyone waiting for someone: while a redemption is
\* under way, one of them can take its next step (the lock order of
\* node_attestation_issue, the PeerId first and then the account).
SomeoneAdvances ==
  (\E r \in Requests : req[r] # Idle) =>
    \E r \in Requests : \/ req[r].pc = "decided"
                        \/ req[r].pc = "begun" /\ PeerFree(req[r].peer)
                        \/ req[r].pc = "peer" /\ UserFree(req[r].user)

\* Although a redemption is signed, locked, checked and committed step by step, the
\* log grows as if each were checked and recorded at one instant, the one of its
\* commit: time, revocations and other redemptions in between change nothing of
\* what node_attestation_issue found of the challenge, the PeerId and the limit.  (A
\* revocation or closure between the checks and the commit comes too late for this
\* certificate; JwksListCovers says that the former is still published.)
Log == INSTANCE CertificateLog WITH log <- issuances, voided <- revocations
IssuesAtomically == Log!Spec
=============================================================================
