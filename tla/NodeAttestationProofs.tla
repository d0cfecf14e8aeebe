------------------------ MODULE NodeAttestationProofs ------------------------
(***************************************************************************)
(* The per-account limit and the rebinding rule of node_attestation_issue, *)
(* for every number of accounts, PeerIds and redemptions.  The heart is    *)
(* Granted: between the checks of a redemption and its commit, what they   *)
(* found stays true, because time and revocations only take certificates   *)
(* out of the live ones and the two locks keep everyone else from adding   *)
(* one for the same PeerId or the same account.  Then: every certificate   *)
(* that is revoked and not yet expired for a verifier is on the published  *)
(* list, and the two locks never leave everyone waiting.  Last, the whole  *)
(* issuer implements CertificateLog: each commit is a grant, all of whose  *)
(* conditions hold at that instant.                                        *)
(***************************************************************************)
EXTENDS NodeAttestation, FiniteSetTheorems, TLAPS

\* A lock has at most one holder.
LocksExclusive ==
  \A r, s \in Requests :
    /\ HoldsPeer(r) /\ HoldsPeer(s) /\ req[r].peer = req[s].peer => r = s
    /\ HoldsUser(r) /\ HoldsUser(s) /\ req[r].user = req[s].user => r = s

\* now() of a transaction is never ahead of the clock, nor its iat far ahead of now().
NowPast ==
  \A r \in Requests : req[r] # Idle => req[r].now <= clock /\ req[r].iat <= req[r].now + Skew

\* Recording redemption q now keeps the limit and the rebinding rule, and its
\* challenge has not been consumed.
Sound(q) ==
  /\ ~BoundElsewhere(q.peer, q.user, clock)
  /\ Cardinality(LivePeers(q.user, clock) \ {q.peer}) < MaxNodes
  /\ \E c \in challenges : IsRowOf(c, q)

\* A redemption the checks let through can still be recorded.
Granted ==
  \A r \in Requests : req[r].pc = "decided" /\ req[r].verdict = "ok" => Sound(req[r])

\* Challenge numbers are given once, and a recorded one is no longer a challenge.
NoncesFresh ==
  /\ \A c \in challenges : c.nonce <= given
  /\ \A c, d \in challenges : c.nonce = d.nonce => c = d
  /\ \A i \in issuances : i.nonce <= given /\ \A c \in challenges : c.nonce # i.nonce

IInv ==
  /\ TypeOK
  /\ IsFiniteSet(issuances)
  /\ LocksExclusive
  /\ NowPast
  /\ Granted
  /\ NoncesFresh
  /\ QuotaHolds
  /\ OneAccountPerPeer
  /\ NodesNamesLiveOwner
  /\ NonceYieldsOne

-----------------------------------------------------------------------------
\* The PeerIds of finitely many certificates are finitely many.
LEMMA LivePeersFinite ==
  ASSUME IsFiniteSet(issuances), NEW u, NEW t
  PROVE  IsFiniteSet(LivePeers(u, t))
<1> DEFINE S == {d \in issuances : d.user = u /\ Live(d, t)}
           f == [d \in S |-> d.peer]
<1>1. IsFiniteSet(S)
  BY FS_Subset
<1>2. LivePeers(u, t) = {d.peer : d \in S}
  BY DEF LivePeers
<1>3. f \in Surjection(S, LivePeers(u, t))
  BY <1>2 DEF Surjection
<1>4. QED
  BY <1>1, <1>3, FS_Surjection

\* A part of a small finite set is small.
LEMMA SmallerCard ==
  ASSUME NEW A, NEW B, IsFiniteSet(B), A \subseteq B
  PROVE  IsFiniteSet(A) /\ Cardinality(A) \in Nat /\ Cardinality(B) \in Nat
         /\ Cardinality(A) <= Cardinality(B)
BY FS_Subset, FS_CardinalityType

\* Time and revocations only end the life of certificates.
LEMMA LiveShrinks ==
  ASSUME TypeOK, NEW c \in issuances, clock' \in Nat, clock <= clock',
         revocations \subseteq revocations', c.iat + Ttl + Skew >= clock',
         ~\E v \in revocations' : v.peer = c.peer /\ c.iat <= v.not_after
  PROVE  Live(c, clock)
<1> USE AttestationAssumption
<1>1. c.iat \in Int /\ clock \in Nat
  BY DEF TypeOK
<1>2. QED
  BY <1>1 DEF Live, Revoked

\* A step that records no certificate only takes PeerIds out of the live ones.
LEMMA QuietShrinks ==
  ASSUME TypeOK, TypeOK', issuances' = issuances, clock <= clock',
         revocations \subseteq revocations'
  PROVE  /\ \A u : LivePeers(u, clock)' \subseteq LivePeers(u, clock)
         /\ \A p, u : BoundElsewhere(p, u, clock)' => BoundElsewhere(p, u, clock)
         /\ \A c \in issuances : Live(c, clock)' => Live(c, clock)
<1>1. clock' \in Nat
  BY DEF TypeOK
<1>2. ASSUME NEW c \in issuances, Live(c, clock)' PROVE Live(c, clock)
  BY <1>1, <1>2, LiveShrinks DEF Live, Revoked
<1>3. ASSUME NEW u PROVE LivePeers(u, clock)' \subseteq LivePeers(u, clock)
  BY <1>2 DEF LivePeers
<1>4. ASSUME NEW p, NEW u, BoundElsewhere(p, u, clock)' PROVE BoundElsewhere(p, u, clock)
  BY <1>2, <1>4 DEF BoundElsewhere
<1>5. QED
  BY <1>2, <1>3, <1>4

\* A commit adds at most the live certificate of its own redemption.
LEMMA CommitAdds ==
  ASSUME NEW r \in Requests, Commit(r)
  PROVE  /\ \A u : u # req[r].user => LivePeers(u, clock)' \subseteq LivePeers(u, clock)
         /\ \A u : LivePeers(u, clock)' \subseteq LivePeers(u, clock) \cup {req[r].peer}
         /\ \A p, u : BoundElsewhere(p, u, clock)' =>
              BoundElsewhere(p, u, clock) \/ (p = req[r].peer /\ u # req[r].user)
         /\ \A c : Live(c, clock)' <=> Live(c, clock)
<1> DEFINE q == req[r]
           x == [peer |-> q.peer, user |-> q.user, iat |-> q.iat, nonce |-> q.nonce]
<1>1. clock' = clock /\ revocations' = revocations
  BY DEF Commit
<1>2. \A c \in issuances' : c \in issuances \/ c = x
  BY DEF Commit
<1>3. ASSUME NEW c PROVE Live(c, clock)' <=> Live(c, clock)
  BY <1>1 DEF Live, Revoked
<1>4. ASSUME NEW u, u # q.user PROVE LivePeers(u, clock)' \subseteq LivePeers(u, clock)
  BY <1>2, <1>3, <1>4 DEF LivePeers
<1>5. ASSUME NEW u PROVE LivePeers(u, clock)' \subseteq LivePeers(u, clock) \cup {q.peer}
  BY <1>2, <1>3 DEF LivePeers
<1>6. ASSUME NEW p, NEW u, BoundElsewhere(p, u, clock)'
      PROVE  BoundElsewhere(p, u, clock) \/ (p = q.peer /\ u # q.user)
  BY <1>2, <1>3, <1>6 DEF BoundElsewhere
<1>7. QED
  BY <1>3, <1>4, <1>5, <1>6

\* Live at the clock, live at any earlier time.
LEMMA LiveEarlier ==
  ASSUME TypeOK, NEW c \in issuances, NEW t \in Nat, t <= clock, Live(c, clock)
  PROVE  Live(c, t)
<1> USE AttestationAssumption
<1>1. c.iat \in Int /\ clock \in Nat
  BY DEF TypeOK
<1>2. QED
  BY <1>1 DEF Live

\* What the checks of a redemption leave when they refuse nothing.
LEMMA VerdictOk ==
  ASSUME NEW q, Verdict(q) = "ok"
  PROVE  /\ \E c \in challenges : IsRowOf(c, q)
         /\ ~BoundElsewhere(q.peer, q.user, q.now)
         /\ ~(Cardinality(LivePeers(q.user, q.now) \ {q.peer}) >= MaxNodes)
BY DEF Verdict

\* The request of a redemption under way has its fields.
LEMMA ReqFields ==
  ASSUME TypeOK, NEW r \in Requests, req[r].pc # "idle"
  PROVE  /\ req[r] # Idle
         /\ req[r].pc \in {"begun", "peer", "decided"}
         /\ req[r].user \in Users /\ req[r].peer \in Peers
         /\ req[r].nonce \in Nat /\ req[r].iat \in Int /\ req[r].now \in Nat
BY DEF TypeOK, Idle

-----------------------------------------------------------------------------
\* The initial state satisfies the invariant.
LEMMA InitInv == Init => IInv
<1> SUFFICES ASSUME Init PROVE IInv
  OBVIOUS
<1> USE AttestationAssumption
<1>1. TypeOK
  BY DEF Init, TypeOK, NoNode, Idle
<1>2. IsFiniteSet(issuances)
  BY FS_EmptySet DEF Init
<1>3. LocksExclusive /\ NowPast /\ Granted /\ NoncesFresh
  BY DEF Init, LocksExclusive, NowPast, Granted, NoncesFresh, HoldsPeer, HoldsUser, Idle
<1>4. QuotaHolds
  <2> SUFFICES ASSUME NEW u \in Users PROVE Cardinality(LivePeers(u, clock)) <= MaxNodes
    BY DEF QuotaHolds
  <2>1. LivePeers(u, clock) = {}
    BY DEF Init, LivePeers
  <2>2. QED
    BY <2>1, FS_EmptySet
<1>5. OneAccountPerPeer /\ NodesNamesLiveOwner /\ NonceYieldsOne
  BY DEF Init, OneAccountPerPeer, NodesNamesLiveOwner, NonceYieldsOne
<1>6. QED
  BY <1>1, <1>2, <1>3, <1>4, <1>5 DEF IInv

\* Every step keeps the types and the finiteness of the log.
LEMMA TypeStep == TypeOK /\ IsFiniteSet(issuances) /\ [Next]_vars => TypeOK' /\ IsFiniteSet(issuances')
<1> SUFFICES ASSUME TypeOK, IsFiniteSet(issuances), [Next]_vars
             PROVE  TypeOK' /\ IsFiniteSet(issuances')
  OBVIOUS
<1> USE AttestationAssumption
<1>1. CASE Tick
  BY <1>1 DEF Tick, TypeOK
<1>2. ASSUME NEW u \in Users, Challenge(u) PROVE TypeOK' /\ IsFiniteSet(issuances')
  BY <1>2 DEF Challenge, TypeOK
<1>3. ASSUME NEW u \in Users, NEW st \in {"open", "closed"}, SetAccount(u, st) \/ Delete(u)
      PROVE TypeOK' /\ IsFiniteSet(issuances')
  <2>1. CASE SetAccount(u, st)
    BY <2>1 DEF SetAccount, TypeOK
  <2>2. CASE Delete(u)
    <3>1. UNCHANGED <<clock, given, issuances, revocations>> /\ challenges' \subseteq challenges
      BY <2>2 DEF Delete
    <3>2. account' \in [Users -> {"open", "closed", "gone"}]
      BY <2>2 DEF Delete, TypeOK
    <3>3. nodes' \in [Peers -> [user : Users \cup {"none"}, iat : Int]]
      BY <2>2 DEF Delete, TypeOK, NoNode
    <3>4. req' \in [Requests -> {Idle} \cup
            [pc : {"begun", "peer", "decided"}, user : Users, peer : Peers,
             nonce : Nat, iat : Int, now : Nat, verdict : Verdicts]]
      BY <2>2 DEF Delete, TypeOK
    <3>5. QED
      BY <3>1, <3>2, <3>3, <3>4 DEF TypeOK
  <2>3. QED
    BY <1>3, <2>1, <2>2
<1>4. ASSUME NEW p \in Peers, NEW d \in Cutoffs, Revoke(p, clock + d)
      PROVE TypeOK' /\ IsFiniteSet(issuances')
  BY <1>4 DEF Revoke, TypeOK
<1>5. ASSUME NEW r \in Requests, NEW c \in challenges, NEW p \in Peers,
             NEW o \in Offsets, Redeem(r, c, p, clock + o)
      PROVE TypeOK' /\ IsFiniteSet(issuances')
  <2>1. c.user \in Users /\ c.nonce \in Nat /\ clock + o \in Int /\ clock \in Nat
    BY DEF TypeOK
  <2>2. QED
    BY <1>5, <2>1 DEF Redeem, TypeOK, Verdicts
<1>6. ASSUME NEW r \in Requests, LockPeer(r) PROVE TypeOK' /\ IsFiniteSet(issuances')
  <2>1. req[r].pc # "idle"
    BY <1>6 DEF LockPeer
  <2>2. req' = [req EXCEPT ![r].pc = "peer"]
    BY <1>6 DEF LockPeer
  <2>3. QED
    BY <1>6, <2>1, <2>2 DEF LockPeer, TypeOK, Idle
<1>7. ASSUME NEW r \in Requests, Decide(r) PROVE TypeOK' /\ IsFiniteSet(issuances')
  <2>1. Verdict(req[r]) \in Verdicts
    BY DEF Verdict, Verdicts
  <2>2. req[r].pc # "idle" /\ req[r].pc = "peer"
    BY <1>7 DEF Decide
  <2>3. req' = [req EXCEPT ![r] = [req[r] EXCEPT !.pc = "decided", !.verdict = Verdict(req[r])]]
    BY <1>7 DEF Decide
  <2>4. req[r] \in [pc : {"begun", "peer", "decided"}, user : Users, peer : Peers,
                    nonce : Nat, iat : Int, now : Nat, verdict : Verdicts]
    BY <2>2 DEF TypeOK, Idle
  <2>5. [req[r] EXCEPT !.pc = "decided", !.verdict = Verdict(req[r])] \in
          [pc : {"begun", "peer", "decided"}, user : Users, peer : Peers,
           nonce : Nat, iat : Int, now : Nat, verdict : Verdicts]
    BY <2>1, <2>4
  <2>6. req' \in [Requests -> {Idle} \cup
          [pc : {"begun", "peer", "decided"}, user : Users, peer : Peers,
           nonce : Nat, iat : Int, now : Nat, verdict : Verdicts]]
    BY <2>3, <2>5 DEF TypeOK
  <2>7. QED
    BY <1>7, <2>6 DEF Decide, TypeOK
<1>8. ASSUME NEW r \in Requests, Commit(r) PROVE TypeOK' /\ IsFiniteSet(issuances')
  <2> DEFINE q == req[r]
             c == [peer |-> q.peer, user |-> q.user, iat |-> q.iat, nonce |-> q.nonce]
  <2>1. q.user \in Users /\ q.peer \in Peers /\ q.nonce \in Nat /\ q.iat \in Int
    BY <1>8, ReqFields DEF Commit
  <2>2. IsFiniteSet(issuances \cup {c})
    BY FS_AddElement
  <2>3. IsFiniteSet(issuances')
    BY <1>8, <2>2 DEF Commit
  <2>4. QED
    BY <1>8, <2>1, <2>3 DEF Commit, NodeRow, TypeOK
<1>9. CASE UNCHANGED vars
  BY <1>9 DEF vars, TypeOK
<1>10. QED
  BY <1>1, <1>2, <1>3, <1>4, <1>5, <1>6, <1>7, <1>8, <1>9 DEF Next, Step

-----------------------------------------------------------------------------
\* An account that is gone stays so.
NoneRevives == \A u \in Users : account[u] = "gone" => account'[u] = "gone"

\* A step is a commit, or records nothing and only lets certificates die.
LEMMA QuietOrCommit ==
  ASSUME TypeOK, [Next]_vars
  PROVE  \/ \E r \in Requests : Commit(r)
         \/ /\ issuances' = issuances
            /\ clock <= clock' /\ revocations \subseteq revocations'
            /\ (nodes' = nodes /\ NoneRevives) \/ \E u \in Users : Delete(u)
<1>1. clock \in Nat
  BY DEF TypeOK
<1> USE DEF NoneRevives
<1>2. CASE UNCHANGED vars
  BY <1>1, <1>2 DEF vars
<1>3. CASE Tick
  BY <1>1, <1>3 DEF Tick
<1>4. CASE \E p \in Peers, d \in Cutoffs : Revoke(p, clock + d)
  BY <1>1, <1>4 DEF Revoke
<1>5. CASE \/ \E u \in Users : Challenge(u)
           \/ \E r \in Requests, c \in challenges, p \in Peers, o \in Offsets :
                Redeem(r, c, p, clock + o)
           \/ \E r \in Requests : LockPeer(r) \/ Decide(r)
  <2>1. UNCHANGED <<clock, account, issuances, nodes, revocations>>
    BY <1>5, Zenon DEF Challenge, Redeem, LockPeer, Decide
  <2>2. QED
    BY <1>1, <2>1
<1>6. ASSUME NEW u \in Users, NEW st \in {"open", "closed"}, SetAccount(u, st)
      PROVE  /\ UNCHANGED <<clock, issuances, nodes, revocations>>
             /\ NoneRevives
  BY <1>6 DEF SetAccount, TypeOK
<1>7. ASSUME NEW u \in Users, Delete(u)
      PROVE  issuances' = issuances /\ clock <= clock' /\ revocations \subseteq revocations'
  <2>1. UNCHANGED <<clock, issuances, revocations>>
    BY <1>7, Zenon DEF Delete
  <2>2. QED
    BY <1>1, <2>1
<1>8. QED
  BY <1>1, <1>2, <1>3, <1>4, <1>5, <1>6, <1>7 DEF Next, Step

\* The locks: only a free one is taken, and a commit gives both back.
LEMMA LocksStep == TypeOK /\ LocksExclusive /\ [Next]_vars => LocksExclusive'
<1> SUFFICES ASSUME TypeOK, LocksExclusive, [Next]_vars PROVE LocksExclusive'
  OBVIOUS
<1> USE DEF LocksExclusive, HoldsPeer, HoldsUser
<1>1. CASE req' = req
  BY <1>1
<1>2. ASSUME NEW r \in Requests, NEW c \in challenges, NEW p \in Peers,
             NEW o \in Offsets, Redeem(r, c, p, clock + o)
      PROVE LocksExclusive'
  BY <1>2 DEF Redeem, TypeOK
<1>3. ASSUME NEW r \in Requests, LockPeer(r) PROVE LocksExclusive'
  <2>1. req[r].pc = "begun" /\ req' = [req EXCEPT ![r] = [req[r] EXCEPT !.pc = "peer"]]
    BY <1>3 DEF LockPeer
  <2>2. req'[r].peer = req[r].peer /\ req'[r].pc = "peer"
    BY <2>1, ReqFields DEF TypeOK, Idle
  <2>3. \A s \in Requests : s # r => req'[s] = req[s]
    BY <2>1 DEF TypeOK
  <2>4. \A s \in Requests : HoldsPeer(s) => req[s].peer # req[r].peer
    BY <1>3 DEF LockPeer, PeerFree
  <2>5. QED
    BY <2>2, <2>3, <2>4
<1>4. ASSUME NEW r \in Requests, Decide(r) PROVE LocksExclusive'
  <2>1. /\ req[r].pc = "peer"
        /\ req' = [req EXCEPT ![r] = [req[r] EXCEPT !.pc = "decided", !.verdict = Verdict(req[r])]]
    BY <1>4 DEF Decide
  <2>2. req'[r].peer = req[r].peer /\ req'[r].user = req[r].user /\ req'[r].pc = "decided"
    BY <2>1, ReqFields DEF TypeOK, Idle
  <2>3. \A s \in Requests : s # r => req'[s] = req[s]
    BY <2>1 DEF TypeOK
  <2>4. \A s \in Requests : HoldsUser(s) => req[s].user # req[r].user
    BY <1>4 DEF Decide, UserFree
  <2>5. QED
    BY <2>1, <2>2, <2>3, <2>4
<1>5. ASSUME NEW r \in Requests, Commit(r) PROVE LocksExclusive'
  BY <1>5 DEF Commit, TypeOK, Idle
<1>6. ASSUME NEW u \in Users, Delete(u) PROVE LocksExclusive'
  BY <1>6 DEF Delete, TypeOK, Idle
<1>7. QED
  BY <1>1, <1>2, <1>3, <1>4, <1>5, <1>6
     DEF Next, Step, vars, Tick, Challenge, SetAccount, Revoke

\* The clock of the transactions.
LEMMA NowStep == TypeOK /\ NowPast /\ [Next]_vars => NowPast'
<1> SUFFICES ASSUME TypeOK, NowPast, [Next]_vars PROVE NowPast'
  OBVIOUS
<1>1. CASE req' = req /\ clock' \in {clock, clock + 1}
  BY <1>1 DEF NowPast, TypeOK, Idle
<1>2. ASSUME NEW r \in Requests, NEW c \in challenges, NEW p \in Peers,
             NEW o \in Offsets, Redeem(r, c, p, clock + o)
      PROVE NowPast'
  <2>1. /\ \A s \in Requests : s # r => req'[s] = req[s]
        /\ clock' = clock /\ req'[r].now = clock /\ req'[r].iat = clock + o
    BY <1>2 DEF Redeem, TypeOK
  <2>2. clock \in Nat /\ o \in Int /\ o <= Skew /\ Skew \in Nat
    BY <1>2, AttestationAssumption DEF Redeem, TypeOK
  <2>3. QED
    BY <2>1, <2>2 DEF NowPast
<1>3. ASSUME NEW r \in Requests, LockPeer(r) \/ Decide(r) PROVE NowPast'
  <2>1. req[r] # Idle /\ clock' = clock
    BY <1>3, ReqFields DEF LockPeer, Decide
  <2>2. /\ req'[r].now = req[r].now /\ req'[r].iat = req[r].iat
        /\ \A s \in Requests : s # r => req'[s] = req[s]
    BY <1>3, ReqFields DEF LockPeer, Decide, TypeOK, Idle
  <2>3. QED
    BY <2>1, <2>2 DEF NowPast, TypeOK
<1>4. ASSUME NEW r \in Requests, Commit(r) PROVE NowPast'
  BY <1>4 DEF Commit, TypeOK, NowPast
<1>5. CASE UNCHANGED vars
  BY <1>1, <1>5 DEF vars
<1>6. CASE \/ Tick
           \/ \E u \in Users : Challenge(u)
           \/ \E u \in Users, st \in {"open", "closed"} : SetAccount(u, st)
           \/ \E p \in Peers, d \in Cutoffs : Revoke(p, clock + d)
  BY <1>1, <1>6 DEF Tick, Challenge, SetAccount, Revoke
<1>7. ASSUME NEW u \in Users, Delete(u) PROVE NowPast'
  BY <1>7 DEF Delete, TypeOK, NowPast
<1>8. QED
  BY <1>2, <1>3, <1>4, <1>5, <1>6, <1>7 DEF Next, Step

\* The nonces: a commit takes the challenge it records out of the table.
LEMMA NonceStep ==
  TypeOK /\ Granted /\ NoncesFresh /\ NonceYieldsOne /\ [Next]_vars
    => NoncesFresh' /\ NonceYieldsOne'
<1> SUFFICES ASSUME TypeOK, Granted, NoncesFresh, NonceYieldsOne, [Next]_vars
             PROVE  NoncesFresh' /\ NonceYieldsOne'
  OBVIOUS
<1> USE DEF NoncesFresh, NonceYieldsOne
<1>1. CASE challenges' = challenges /\ issuances' = issuances /\ given' = given
  BY <1>1
<1>2. ASSUME NEW u \in Users, Challenge(u) PROVE NoncesFresh' /\ NonceYieldsOne'
  <2> DEFINE x == [nonce |-> given + 1, user |-> u, exp |-> clock + ChallengeTtl]
  <2>1. issuances' = issuances
    BY <1>2 DEF Challenge
  <2>2. \/ given' = given /\ challenges' \subseteq challenges
        \/ given' = given + 1 /\ challenges' \subseteq challenges \cup {x}
    BY <1>2 DEF Challenge
  <2>3. given \in Nat /\ \A c \in challenges : c.nonce \in Nat
    BY DEF TypeOK
  <2>4. \A i \in issuances : i.nonce \in Nat
    BY DEF TypeOK
  <2>5. QED
    BY <2>1, <2>2, <2>3, <2>4
<1>3. ASSUME NEW r \in Requests, Commit(r) PROVE NoncesFresh' /\ NonceYieldsOne'
  <2> DEFINE q == req[r]
             x == [peer |-> q.peer, user |-> q.user, iat |-> q.iat, nonce |-> q.nonce]
  <2>1. given' = given /\ challenges' = {c \in challenges : ~IsRowOf(c, q)}
    BY <1>3 DEF Commit
  <2>2. CASE q.verdict # "ok"
    BY <1>3, <2>1, <2>2 DEF Commit
  <2>3. CASE q.verdict = "ok"
    <3>1. PICK k \in challenges : IsRowOf(k, q)
      BY <1>3, <2>3 DEF Granted, Sound, Commit
    <3>2. k.nonce = q.nonce
      BY <3>1 DEF IsRowOf
    <3>3. issuances' = issuances \cup {x}
      BY <1>3, <2>3 DEF Commit
    <3>4. k \notin challenges' /\ challenges' \subseteq challenges
      BY <2>1, <3>1
    <3>5. \A c \in challenges' : c.nonce # q.nonce
      BY <3>2, <3>4
    <3>6. q.nonce <= given /\ \A i \in issuances : i.nonce # q.nonce
      BY <3>2
    <3>7. QED
      BY <2>1, <3>3, <3>4, <3>5, <3>6
  <2>4. QED
    BY <2>2, <2>3
<1>4. ASSUME NEW u \in Users, Delete(u) PROVE NoncesFresh' /\ NonceYieldsOne'
  <2>1. challenges' \subseteq challenges /\ issuances' = issuances /\ given' = given
    BY <1>4 DEF Delete
  <2>2. QED
    BY <2>1
<1>5. QED
  BY <1>1, <1>2, <1>3, <1>4
     DEF Next, Step, vars, Tick, SetAccount, Revoke, Redeem, LockPeer, Decide

\* A step that adds nothing to what the checks of q looked at keeps q sound.
LEMMA SoundKept ==
  ASSUME IsFiniteSet(issuances), NEW q, Sound(q),
         BoundElsewhere(q.peer, q.user, clock)' => BoundElsewhere(q.peer, q.user, clock),
         LivePeers(q.user, clock)' \subseteq LivePeers(q.user, clock),
         \A c \in challenges : IsRowOf(c, q) => c \in challenges'
  PROVE  Sound(q)'
<1> USE AttestationAssumption
<1> DEFINE Others == LivePeers(q.user, clock) \ {q.peer}
<1>1. IsFiniteSet(Others)
  BY LivePeersFinite, FS_Subset
<1>2. Others' \subseteq Others
  OBVIOUS
<1>3. /\ Cardinality(Others') \in Nat /\ Cardinality(Others) \in Nat
      /\ Cardinality(Others') <= Cardinality(Others)
  BY <1>1, <1>2, SmallerCard
<1>4. Cardinality(Others') < MaxNodes
  BY <1>3 DEF Sound
<1>5. \E c \in challenges' : IsRowOf(c, q)
  BY DEF Sound
<1>6. QED
  BY <1>4, <1>5 DEF Sound, IsRowOf

\* Granted: what a redemption under both locks found stays true until it commits.
LEMMA GrantedStep ==
  TypeOK /\ TypeOK' /\ IsFiniteSet(issuances) /\ LocksExclusive /\ NowPast /\ Granted /\ [Next]_vars
    => Granted'
<1> SUFFICES ASSUME TypeOK, TypeOK', IsFiniteSet(issuances), LocksExclusive, NowPast, Granted,
                    [Next]_vars,
                    NEW s \in Requests, NEW q, q = req'[s], q.pc = "decided", q.verdict = "ok"
             PROVE  Sound(q)'
  BY DEF Granted
<1> USE AttestationAssumption
<1>1. q = req[s] => Sound(q)
  BY DEF Granted
<1>2. ASSUME issuances' = issuances, clock <= clock', revocations \subseteq revocations',
             Sound(q), \A c \in challenges : IsRowOf(c, q) => c \in challenges'
      PROVE  Sound(q)'
  BY <1>2, QuietShrinks, SoundKept
<1>3. ASSUME NEW u \in Users, Challenge(u) PROVE Sound(q)'
  <2>1. q = req[s] /\ issuances' = issuances /\ clock' = clock /\ revocations' = revocations
    BY <1>3 DEF Challenge
  <2>2. q.user # u
    BY <1>3, <2>1 DEF Challenge, UserFree, HoldsUser
  <2>3. \A c \in challenges : c.user # u => c \in challenges'
    BY <1>3 DEF Challenge
  <2>4. \A c \in challenges : IsRowOf(c, q) => c \in challenges'
    BY <2>2, <2>3 DEF IsRowOf
  <2>5. clock \in Nat
    BY DEF TypeOK
  <2>6. QED
    BY <1>1, <1>2, <2>1, <2>4, <2>5
<1>4. CASE \/ Tick
           \/ \E u \in Users, st \in {"open", "closed"} : SetAccount(u, st)
           \/ \E p \in Peers, d \in Cutoffs : Revoke(p, clock + d)
           \/ UNCHANGED vars
  <2>1. req' = req /\ challenges' = challenges /\ issuances' = issuances
        /\ clock' \in {clock, clock + 1} /\ revocations \subseteq revocations'
    BY <1>4 DEF Tick, SetAccount, Revoke, vars
  <2>2. clock \in Nat
    BY DEF TypeOK
  <2>3. QED
    BY <1>1, <1>2, <2>1, <2>2
<1>5. ASSUME NEW r \in Requests, NEW c \in challenges, NEW p \in Peers,
             NEW o \in Offsets, Redeem(r, c, p, clock + o)
      PROVE Sound(q)'
  <2>1. q = req[s] /\ challenges' = challenges /\ issuances' = issuances
        /\ clock' = clock /\ revocations' = revocations
    BY <1>5 DEF Redeem, TypeOK
  <2>2. clock \in Nat
    BY DEF TypeOK
  <2>3. QED
    BY <1>1, <1>2, <2>1, <2>2
<1>6. ASSUME NEW r \in Requests, LockPeer(r) \/ Decide(r) PROVE Sound(q)'
  <2>1. UNCHANGED <<clock, challenges, issuances, revocations>>
    BY <1>6, Zenon DEF LockPeer, Decide
  <2>2. clock \in Nat
    BY DEF TypeOK
  <2>3. CASE q = req[s]
    BY <1>1, <1>2, <2>1, <2>2, <2>3
  <2>4. CASE q # req[s]
    <3>1. r = s
      BY <1>6, <2>4 DEF LockPeer, Decide, TypeOK
    <3>2. req[s].pc # "idle"
      BY <1>6, <3>1 DEF LockPeer, Decide
    <3>3. Decide(s)
      BY <1>6, <3>1, <3>2, ReqFields DEF LockPeer, TypeOK, Idle
    <3>4. req' = [req EXCEPT ![s] = [req[s] EXCEPT !.pc = "decided", !.verdict = Verdict(req[s])]]
      BY <3>3 DEF Decide
    <3>5. /\ q.peer = req[s].peer /\ q.user = req[s].user /\ q.nonce = req[s].nonce
          /\ q.verdict = Verdict(req[s])
      BY <3>2, <3>4, ReqFields DEF TypeOK, Idle
    <3>6. req[s].now \in Nat /\ req[s].now <= clock
      BY <3>2, ReqFields DEF NowPast
    <3>7. /\ \E c \in challenges : IsRowOf(c, req[s])
          /\ ~BoundElsewhere(q.peer, q.user, req[s].now)
          /\ ~(Cardinality(LivePeers(q.user, req[s].now) \ {q.peer}) >= MaxNodes)
      BY <3>5, VerdictOk
    <3>8. \A c \in issuances : Live(c, clock) => Live(c, req[s].now)
      BY <3>6, LiveEarlier
    <3>9. LivePeers(q.user, clock) \ {q.peer} \subseteq LivePeers(q.user, req[s].now) \ {q.peer}
      BY <3>8 DEF LivePeers
    <3>10. IsFiniteSet(LivePeers(q.user, req[s].now) \ {q.peer})
      BY LivePeersFinite, FS_Subset
    <3>11. Cardinality(LivePeers(q.user, clock) \ {q.peer}) < MaxNodes
      BY <3>7, <3>9, <3>10, SmallerCard
    <3>12. ~BoundElsewhere(q.peer, q.user, clock)
      BY <3>7, <3>8 DEF BoundElsewhere
    <3>13. \E c \in challenges : IsRowOf(c, q)
      BY <3>5, <3>7 DEF IsRowOf
    <3>14. QED
      BY <1>2, <2>1, <2>2, <3>11, <3>12, <3>13 DEF Sound
  <2>5. QED
    BY <2>3, <2>4
<1>7. ASSUME NEW r \in Requests, Commit(r) PROVE Sound(q)'
  <2>1. s # r /\ q = req[s]
    BY <1>7 DEF Commit, TypeOK, Idle
  <2>2. q.peer # req[r].peer /\ q.user # req[r].user
    BY <1>7, <2>1 DEF LocksExclusive, HoldsPeer, HoldsUser, Commit
  <2>3. BoundElsewhere(q.peer, q.user, clock)' => BoundElsewhere(q.peer, q.user, clock)
    BY <1>7, <2>2, CommitAdds
  <2>4. LivePeers(q.user, clock)' \subseteq LivePeers(q.user, clock)
    BY <1>7, <2>2, CommitAdds
  <2>5. \A c \in challenges : IsRowOf(c, q) => c \in challenges'
    BY <1>7, <2>2 DEF Commit, IsRowOf
  <2>6. QED
    BY <1>1, <2>1, <2>3, <2>4, <2>5, SoundKept
<1>8. ASSUME NEW u \in Users, Delete(u) PROVE Sound(q)'
  <2>1. q = req[s] /\ q.user # u
    BY <1>8 DEF Delete, Idle, TypeOK
  <2>2. UNCHANGED <<clock, issuances, revocations>>
        /\ \A c \in challenges : c.user # u => c \in challenges'
    BY <1>8 DEF Delete
  <2>3. \A c \in challenges : IsRowOf(c, q) => c \in challenges'
    BY <2>1, <2>2 DEF IsRowOf
  <2>4. clock \in Nat
    BY DEF TypeOK
  <2>5. QED
    BY <1>1, <1>2, <2>1, <2>2, <2>3, <2>4
<1>9. QED
  BY <1>3, <1>4, <1>5, <1>6, <1>7, <1>8 DEF Next, Step

\* The limit per account.
LEMMA QuotaStep ==
  TypeOK /\ TypeOK' /\ IsFiniteSet(issuances) /\ Granted /\ QuotaHolds /\ [Next]_vars => QuotaHolds'
<1> SUFFICES ASSUME TypeOK, TypeOK', IsFiniteSet(issuances), Granted, QuotaHolds, [Next]_vars,
                    NEW u \in Users
             PROVE  Cardinality(LivePeers(u, clock)') <= MaxNodes
  BY DEF QuotaHolds
<1> USE AttestationAssumption
<1>1. IsFiniteSet(LivePeers(u, clock)) /\ Cardinality(LivePeers(u, clock)) <= MaxNodes
  BY LivePeersFinite DEF QuotaHolds
<1>2. CASE LivePeers(u, clock)' \subseteq LivePeers(u, clock)
  BY <1>1, <1>2, SmallerCard
<1>3. ASSUME NEW r \in Requests, Commit(r), ~(LivePeers(u, clock)' \subseteq LivePeers(u, clock))
      PROVE Cardinality(LivePeers(u, clock)') <= MaxNodes
  <2> DEFINE p == req[r].peer
             Others == LivePeers(u, clock) \ {p}
  <2>1. u = req[r].user /\ LivePeers(u, clock)' \subseteq Others \cup {p}
    BY <1>3, CommitAdds
  <2>2. req[r].verdict = "ok"
    <3>1. SUFFICES ASSUME req[r].verdict # "ok" PROVE FALSE
      OBVIOUS
    <3>2. issuances' = issuances /\ clock' = clock /\ revocations' = revocations
      BY <1>3, <3>1 DEF Commit
    <3>3. clock \in Nat
      BY DEF TypeOK
    <3>4. QED
      BY <1>3, <3>2, <3>3, QuietShrinks
  <2>3. Cardinality(Others) < MaxNodes
    BY <1>3, <2>1, <2>2 DEF Granted, Sound, Commit
  <2>4. IsFiniteSet(Others)
    BY <1>1, FS_Subset
  <2>5. IsFiniteSet(Others \cup {p}) /\ Cardinality(Others \cup {p}) = Cardinality(Others) + 1
    BY <2>4, FS_AddElement
  <2>6. Cardinality(Others) \in Nat
    BY <2>4, FS_CardinalityType
  <2> HIDE DEF Others, p
  <2>7. Cardinality(Others \cup {p}) <= MaxNodes
    BY <2>3, <2>5, <2>6
  <2>8. QED
    BY <2>1, <2>5, <2>7, SmallerCard
<1>4. QED
  BY <1>2, <1>3, QuietOrCommit, QuietShrinks

\* One account per PeerId, and its row in nodes.
LEMMA OwnerStep ==
  TypeOK /\ TypeOK' /\ Granted /\ OneAccountPerPeer /\ NodesNamesLiveOwner /\ [Next]_vars
    => OneAccountPerPeer' /\ NodesNamesLiveOwner'
<1> SUFFICES ASSUME TypeOK, TypeOK', Granted, OneAccountPerPeer, NodesNamesLiveOwner, [Next]_vars
             PROVE  OneAccountPerPeer' /\ NodesNamesLiveOwner'
  OBVIOUS
<1>1. ASSUME issuances' = issuances, \A c \in issuances : Live(c, clock)' => Live(c, clock),
             (nodes' = nodes /\ NoneRevives) \/ \E u \in Users : Delete(u)
      PROVE  OneAccountPerPeer' /\ NodesNamesLiveOwner'
  <2>1. OneAccountPerPeer'
    BY <1>1 DEF OneAccountPerPeer
  <2>2. \A c \in issuances : c.user \in Users /\ c.peer \in Peers
    BY DEF TypeOK
  <2>3. CASE nodes' = nodes /\ NoneRevives
    BY <1>1, <2>1, <2>2, <2>3 DEF NodesNamesLiveOwner, NoneRevives
  <2>4. ASSUME NEW u \in Users, Delete(u) PROVE NodesNamesLiveOwner'
    <3>1. SUFFICES ASSUME NEW c \in issuances, Live(c, clock), account'[c.user] # "gone"
                   PROVE  nodes'[c.peer].user = c.user
      BY <1>1 DEF NodesNamesLiveOwner
    <3>2. c.user # u /\ account[c.user] # "gone"
      BY <2>2, <2>4, <3>1 DEF Delete, TypeOK
    <3>3. nodes[c.peer].user = c.user
      BY <3>1, <3>2 DEF NodesNamesLiveOwner
    <3>4. QED
      BY <2>2, <2>4, <3>2, <3>3 DEF Delete
  <2>5. QED
    BY <1>1, <2>1, <2>3, <2>4
<1>2. ASSUME NEW r \in Requests, Commit(r) PROVE OneAccountPerPeer' /\ NodesNamesLiveOwner'
  <2> DEFINE q == req[r]
             x == [peer |-> q.peer, user |-> q.user, iat |-> q.iat, nonce |-> q.nonce]
  <2>1. /\ \A c : Live(c, clock)' <=> Live(c, clock)
        /\ account' = account
    BY <1>2, CommitAdds DEF Commit
  <2>2. CASE q.verdict # "ok"
    <3>1. issuances' = issuances /\ nodes' = nodes
      BY <1>2, <2>2 DEF Commit
    <3>2. QED
      BY <1>1, <2>1, <3>1 DEF NoneRevives
  <2>3. CASE q.verdict = "ok"
    <3>1. issuances' = issuances \cup {x} /\ nodes' = [nodes EXCEPT ![q.peer] = [user |-> q.user, iat |-> q.iat]]
      BY <1>2, <2>3 DEF Commit, NodeRow
    <3>2. ~BoundElsewhere(q.peer, q.user, clock)
      BY <1>2, <2>3 DEF Granted, Sound, Commit
    <3>3. \A c \in issuances' : c.peer = q.peer /\ Live(c, clock) => c.user = q.user
      BY <3>1, <3>2 DEF BoundElsewhere
    <3>4. \A c \in issuances' : c.peer # q.peer => c \in issuances
      BY <3>1
    <3>5. OneAccountPerPeer'
      BY <2>1, <3>3, <3>4 DEF OneAccountPerPeer
    <3>6. q.peer \in Peers /\ nodes \in [Peers -> [user : Users \cup {"none"}, iat : Int]]
      BY <1>2, ReqFields DEF Commit, TypeOK
    <3>7. nodes'[q.peer].user = q.user
      BY <3>1, <3>6
    <3>8. \A c \in issuances : c.peer # q.peer => nodes'[c.peer] = nodes[c.peer]
      BY <3>1, <3>6 DEF TypeOK
    <3>9. NodesNamesLiveOwner'
      BY <2>1, <3>3, <3>4, <3>7, <3>8 DEF NodesNamesLiveOwner
    <3>10. QED
      BY <3>5, <3>9
  <2>4. QED
    BY <2>2, <2>3
<1>3. QED
  BY <1>1, <1>2, QuietOrCommit, QuietShrinks

\* The invariant is inductive.
LEMMA InvStep == IInv /\ [Next]_vars => IInv'
BY TypeStep, LocksStep, NowStep, NonceStep, GrantedStep, QuotaStep, OwnerStep DEF IInv

\* IInv is an invariant of the issuer.
LEMMA Inductive == Spec => []IInv
<1>1. Init => IInv
  BY InitInv
<1>2. IInv /\ [Next]_vars => IInv'
  BY InvStep
<1>3. QED
  BY <1>1, <1>2, PTL DEF Spec

-----------------------------------------------------------------------------
\* The issuer's tables, locks and requests keep their types.
THEOREM AttestationTypes == Spec => []TypeOK
<1>1. IInv => TypeOK
  BY DEF IInv
<1>2. QED
  BY <1>1, Inductive, PTL

\* However many redemptions, revocations and closures interleave, no account has
\* more than MaxNodes live PeerIds (node_attestation_issue).
THEOREM QuotaNeverExceeded == Spec => []QuotaHolds
<1>1. IInv => QuotaHolds
  BY DEF IInv
<1>2. QED
  BY <1>1, Inductive, PTL

\* No PeerId is live for two accounts at once (node_attestation_issue).
THEOREM RebindingExclusive == Spec => []OneAccountPerPeer
<1>1. IInv => OneAccountPerPeer
  BY DEF IInv
<1>2. QED
  BY <1>1, Inductive, PTL

\* A challenge is redeemed at most once (node_attestation_issue).
THEOREM ChallengeSingleUse == Spec => []NonceYieldsOne
<1>1. IInv => NonceYieldsOne
  BY DEF IInv
<1>2. QED
  BY <1>1, Inductive, PTL

\* The nodes table names the account of every live certificate, unless the account
\* has been deleted (node_attestation_issue, the cascade of nodes.user_id).
THEOREM NodesTableCurrent == Spec => []NodesNamesLiveOwner
<1>1. IInv => NodesNamesLiveOwner
  BY DEF IInv
<1>2. QED
  BY <1>1, Inductive, PTL

-----------------------------------------------------------------------------
\* Each revoked PeerId has a latest entry.
LatestStands ==
  \A v \in revocations : \E w \in revocations :
    w.peer = v.peer /\ \A x \in revocations : x.peer = v.peer => x.not_after <= w.not_after

\* Entries are only ever added, one at a time.
LEMMA RevocationsGrow ==
  ASSUME TypeOK, [Next]_vars
  PROVE  \/ revocations' = revocations
         \/ \E v \in [peer : Peers, not_after : Int] : revocations' = revocations \cup {v}
<1>1. ASSUME NEW p \in Peers, NEW d \in Cutoffs, Revoke(p, clock + d)
      PROVE  \E v \in [peer : Peers, not_after : Int] : revocations' = revocations \cup {v}
  <2>1. clock + d \in Int
    BY AttestationAssumption DEF TypeOK
  <2>2. QED
    BY <1>1, <2>1 DEF Revoke
<1>2. ASSUME NEW r \in Requests, Step(r) PROVE revocations' = revocations
  BY <1>2 DEF Step, LockPeer, Decide, Commit
<1>3. ASSUME NEW r \in Requests, NEW c \in challenges, NEW p \in Peers,
             NEW o \in Offsets, Redeem(r, c, p, clock + o)
      PROVE  revocations' = revocations
  BY <1>3 DEF Redeem
<1>4. QED
  BY <1>1, <1>2, <1>3 DEF Next, vars, Tick, Challenge, SetAccount, Delete

\* A new entry is its PeerId's latest, or the one before it still is.
LEMMA LatestStep == TypeOK /\ LatestStands /\ [Next]_vars => LatestStands'
<1> SUFFICES ASSUME TypeOK, LatestStands, [Next]_vars PROVE LatestStands'
  OBVIOUS
<1>1. CASE revocations' = revocations
  BY <1>1 DEF LatestStands
<1>2. ASSUME NEW n \in [peer : Peers, not_after : Int],
             revocations' = revocations \cup {n}
      PROVE  LatestStands'
  <2>1. /\ n.not_after \in Int
        /\ \A x \in revocations : x.not_after \in Int
    BY DEF TypeOK
  <2>2. ASSUME NEW v \in revocations'
        PROVE  \E w \in revocations' :
                 w.peer = v.peer /\ \A x \in revocations' : x.peer = v.peer => x.not_after <= w.not_after
    <3>1. CASE \E u \in revocations : u.peer = v.peer
      <4>1. PICK w \in revocations :
              w.peer = v.peer /\ \A x \in revocations : x.peer = v.peer => x.not_after <= w.not_after
        BY <3>1 DEF LatestStands
      <4>2. CASE n.peer = v.peer /\ w.not_after <= n.not_after
        BY <1>2, <2>1, <4>1, <4>2
      <4>3. CASE ~(n.peer = v.peer /\ w.not_after <= n.not_after)
        BY <1>2, <2>1, <4>1, <4>3
      <4>4. QED
        BY <4>2, <4>3
    <3>2. CASE ~\E u \in revocations : u.peer = v.peer
      BY <1>2, <2>1, <3>2
    <3>3. QED
      BY <3>1, <3>2
  <2>3. QED
    BY <2>2 DEF LatestStands
<1>3. QED
  BY <1>1, <1>2, RevocationsGrow

\* While a verifier would accept a certificate that a revocation voids, the
\* published list names its PeerId up to there: the latest entry, which the list
\* keeps, covers every certificate an earlier one does
\* (node_attestation_revocations_for_jwks).
THEOREM ListCoversRevoked == Spec => []JwksListCovers
<1>1. Init => LatestStands
  BY DEF Init, LatestStands
<1>2. TypeOK /\ LatestStands => JwksListCovers
  <2> SUFFICES ASSUME TypeOK, LatestStands, NEW c \in issuances,
                      Revoked(c), c.iat + Ttl + Skew >= clock
               PROVE  \E v \in JwksList : v.peer = c.peer /\ c.iat <= v.not_after
    BY DEF JwksListCovers
  <2>1. PICK v \in revocations : v.peer = c.peer /\ c.iat <= v.not_after
    BY DEF Revoked
  <2>2. PICK w \in revocations :
          w.peer = v.peer /\ \A x \in revocations : x.peer = v.peer => x.not_after <= w.not_after
    BY DEF LatestStands
  <2>3. /\ c.iat \in Int /\ v.not_after \in Int /\ w.not_after \in Int
        /\ clock \in Nat /\ Ttl \in Nat /\ Skew \in Nat
    BY <2>1, <2>2, AttestationAssumption DEF TypeOK
  <2>4. c.iat <= w.not_after /\ w.not_after + Ttl + Skew >= clock
    BY <2>1, <2>2, <2>3
  <2>5. w \in JwksList
    BY <2>2, <2>4 DEF JwksList
  <2>6. QED
    BY <2>1, <2>2, <2>4, <2>5
<1>3. QED
  BY <1>1, <1>2, LatestStep, AttestationTypes, PTL DEF Spec

\* Some redemption under way can always take its next step: one that holds both
\* locks waits for nobody, without such a one no account is locked, and without
\* one that holds a PeerId no PeerId is (the lock order of node_attestation_issue).
THEOREM LocksNeverDeadlock == Spec => []SomeoneAdvances
<1>1. TypeOK => SomeoneAdvances
  <2> SUFFICES ASSUME TypeOK, NEW r \in Requests, req[r] # Idle
               PROVE  \E s \in Requests : \/ req[s].pc = "decided"
                                          \/ req[s].pc = "begun" /\ PeerFree(req[s].peer)
                                          \/ req[s].pc = "peer" /\ UserFree(req[s].user)
    BY DEF SomeoneAdvances
  <2>1. req[r].pc \in {"begun", "peer", "decided"}
    BY DEF TypeOK
  <2>2. CASE \E s \in Requests : HoldsUser(s)
    BY <2>2 DEF HoldsUser
  <2>3. CASE ~(\E s \in Requests : HoldsUser(s)) /\ \E s \in Requests : HoldsPeer(s)
    <3>1. PICK s \in Requests : HoldsPeer(s)
      BY <2>3
    <3>2. req[s].pc = "peer" /\ UserFree(req[s].user)
      BY <2>3, <3>1 DEF HoldsPeer, HoldsUser, UserFree
    <3>3. QED
      BY <3>2
  <2>4. CASE ~\E s \in Requests : HoldsPeer(s)
    <3>1. req[r].pc = "begun" /\ PeerFree(req[r].peer)
      BY <2>1, <2>4 DEF HoldsPeer, PeerFree
    <3>2. QED
      BY <3>1
  <2>5. QED
    BY <2>2, <2>3, <2>4
<1>2. QED
  BY <1>1, AttestationTypes, PTL

-----------------------------------------------------------------------------
\* The log counts as the issuer does.
LEMMA LogCounts == ASSUME NEW S PROVE Log!Cardinality(S) = Cardinality(S)
BY DEF Log!Cardinality, Cardinality

\* The commit of a redemption that the checks let through grants its certificate
\* as the log would at that instant.
LEMMA CommitGrants ==
  ASSUME IInv, NEW r \in Requests, Commit(r), req[r].verdict = "ok"
  PROVE  Log!Grant
<1> DEFINE q == req[r]
           x == [peer |-> q.peer, user |-> q.user, iat |-> q.iat, nonce |-> q.nonce]
<1>1. /\ q.pc = "decided" /\ q # Idle /\ issuances' = issuances \cup {x}
      /\ UNCHANGED <<clock, revocations>>
  BY ReqFields DEF Commit, IInv
<1>2. x \in Log!Certificate
  BY <1>1, ReqFields DEF Log!Certificate, IInv
<1>3. x.iat <= clock + Skew
  BY <1>1, <1>2, AttestationAssumption, ReqFields DEF IInv, NowPast, TypeOK, Log!Certificate
<1>4. Sound(q)
  BY <1>1 DEF IInv, Granted
<1>5. \A d \in issuances : d.nonce # x.nonce
  BY <1>4 DEF Sound, IsRowOf, IInv, NoncesFresh
<1>6. x \notin issuances
  BY <1>5
<1>7. Log!Accepted = {c \in issuances : Live(c, clock)}
  BY DEF Log!Accepted, Log!Voided, Live, Revoked
<1>8. \A d \in Log!Accepted : d.peer = x.peer => d.user = x.user
  BY <1>4, <1>7 DEF Sound, BoundElsewhere
<1>9. Log!PeersOf(x.user) = LivePeers(q.user, clock)
  BY <1>7 DEF Log!PeersOf, LivePeers
<1>10. Log!Cardinality(Log!PeersOf(x.user) \ {x.peer}) < MaxNodes
  BY <1>4, <1>9, LogCounts DEF Sound
<1> HIDE DEF x
<1>11. QED
  BY <1>1, <1>2, <1>3, <1>5, <1>6, <1>8, <1>10 DEF Log!Grant

\* Every other step leaves the log, or adds a revocation, or lets time pass.
LEMMA StepsOfTheLog ==
  IInv /\ [Next]_vars => [Log!Next]_<<clock, issuances, revocations>>
<1> SUFFICES ASSUME IInv, [Next]_vars PROVE [Log!Next]_<<clock, issuances, revocations>>
  OBVIOUS
<1>1. CASE UNCHANGED <<clock, issuances, revocations>>
  BY <1>1
<1>2. CASE Tick
  BY <1>2 DEF Tick, Log!Tick, Log!Next
<1>3. ASSUME NEW p \in Peers, NEW d \in Cutoffs, Revoke(p, clock + d)
      PROVE  [Log!Next]_<<clock, issuances, revocations>>
  <2> DEFINE v == [peer |-> p, not_after |-> clock + d]
  <2>1. revocations' = revocations \cup {v} /\ UNCHANGED <<clock, issuances>> /\ v.peer \in Peers
    BY <1>3 DEF Revoke
  <2> HIDE DEF v
  <2>2. CASE v \in revocations
    BY <2>1, <2>2
  <2>3. CASE v \notin revocations
    BY <2>1, <2>3 DEF Log!Void, Log!Next
  <2>4. QED
    BY <2>2, <2>3
<1>4. ASSUME NEW r \in Requests, Commit(r)
      PROVE  [Log!Next]_<<clock, issuances, revocations>>
  <2>1. CASE req[r].verdict = "ok"
    BY <1>4, <2>1, CommitGrants DEF Log!Next
  <2>2. CASE req[r].verdict # "ok"
    BY <1>4, <2>2 DEF Commit
  <2>3. QED
    BY <2>1, <2>2
<1>5. CASE \/ \E u \in Users : Challenge(u)
           \/ \E u \in Users, st \in {"open", "closed"} : SetAccount(u, st)
           \/ \E u \in Users : Delete(u)
           \/ \E r \in Requests, c \in challenges, p \in Peers, o \in Offsets :
                Redeem(r, c, p, clock + o)
           \/ \E r \in Requests : LockPeer(r) \/ Decide(r)
           \/ UNCHANGED vars
  BY <1>1, <1>5, Zenon DEF Challenge, SetAccount, Delete, Redeem, LockPeer, Decide, vars
<1>6. QED
  BY <1>2, <1>3, <1>4, <1>5 DEF Next, Step

\* The issuer implements the certificate log: the redemption that is signed, locked,
\* checked and committed step by step is one grant, at its commit, whatever runs in
\* between (node_attestation_issue and its locks).
THEOREM IssuanceIsAtomic == Spec => IssuesAtomically
<1>1. Init => Log!Init
  BY AttestationAssumption DEF Init, Log!Init
<1>2. IInv /\ [Next]_vars => [Log!Next]_<<clock, issuances, revocations>>
  BY StepsOfTheLog
<1>3. QED
  BY <1>1, <1>2, Inductive, PTL DEF Spec, IssuesAtomically, Log!Spec
=============================================================================
