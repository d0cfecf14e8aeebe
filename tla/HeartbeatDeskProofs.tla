------------------------- MODULE HeartbeatDeskProofs -------------------------
(***************************************************************************)
(* Theorems about HeartbeatDesk, for any sources, cap, window and clock.   *)
(* Each handler leaves the desk alone or gives one source an entry of its  *)
(* own (WithEntry) and writes to that entry only; the lemmas say what this *)
(* does to the desk, and the theorems follow from them. That the penalty   *)
(* counts the right forgeries needs more than the desk: what it holds of a *)
(* source is always the newest part of what it was certain of, and the     *)
(* part it dropped is too old to count or too long to matter (HoldsNewest).*)
(***************************************************************************)
EXTENDS HeartbeatDesk, FiniteSetTheorems, TLAPS

Desks == [Sources -> Attestation \cup {None}]

(* Every forgery the desk counts against a source is one it committed.       *)
HeldIsCertain ==
    \A s \in Sources : peers[s] # None =>
        \A i \in DOMAIN peers[s].forgedAt :
            \E j \in DOMAIN certain[s] : certain[s][j] = peers[s].forgedAt[i]

-----------------------------------------------------------------------------
LEMMA UnheardIsTyped == Unheard \in Attestation
  BY DeskAssumption DEF Unheard, Attestation, Stamp, Never, Time

(* entry: the source has one afterwards, its own or a new one, and of the    *)
(* others at most one of the oldest is gone.                                 *)
LEMMA EntryMade ==
  ASSUME NEW desk \in Desks, NEW s \in Sources, NEW made \in WithEntry(desk, s)
  PROVE  /\ made \in Desks
         /\ made[s] \in Attestation /\ made[s] # None
         /\ made[s] = desk[s] \/ (desk[s] = None /\ made[s] = Unheard)
         /\ \A q \in Sources \ {s} : made[q] = desk[q] \/ (made[q] = None /\ q \in Oldest(desk))
  <1>1. Unheard \in Attestation /\ Unheard # None
    BY UnheardIsTyped, NoneAssumption
  <1>2. CASE desk[s] # None
    BY <1>2 DEF WithEntry, Desks
  <1>3. CASE desk[s] = None /\ Full(desk)
    <2>1. PICK r \in Oldest(desk) : made = [desk EXCEPT ![r] = None, ![s] = Unheard]
      BY <1>3 DEF WithEntry
    <2>2. r \in Sources /\ r # s
      BY <1>3 DEF Oldest, Tracked
    <2> QED BY <1>1, <1>3, <2>1, <2>2 DEF Desks
  <1>4. CASE desk[s] = None /\ ~Full(desk)
    <2>1. made = [desk EXCEPT ![s] = Unheard]
      BY <1>4 DEF WithEntry
    <2> QED BY <1>1, <1>4, <2>1 DEF Desks
  <1> QED BY <1>2, <1>3, <1>4

(* Making an entry keeps the bookkeeping within its cap.                     *)
LEMMA EntryIsBounded ==
  ASSUME NEW desk \in Desks, NEW s \in Sources, NEW made \in WithEntry(desk, s),
         Cardinality(Tracked(desk)) <= MaxTracked
  PROVE  Cardinality(Tracked(made)) <= MaxTracked
  <1>1. IsFiniteSet(Tracked(desk))
    BY DeskAssumption, FS_Subset DEF Tracked
  <1>2. Cardinality(Tracked(desk)) \in Nat
    BY <1>1, FS_CardinalityType
  <1>3. Unheard # None
    BY UnheardIsTyped, NoneAssumption
  <1>4. CASE desk[s] # None
    BY <1>4 DEF WithEntry
  <1>5. CASE desk[s] = None /\ Full(desk)
    <2>1. PICK r \in Oldest(desk) : made = [desk EXCEPT ![r] = None, ![s] = Unheard]
      BY <1>5 DEF WithEntry
    <2>2. r \in Tracked(desk) /\ s \notin Tracked(desk)
      BY <1>5 DEF Oldest, Tracked
    <2>3. Tracked(made) = (Tracked(desk) \ {r}) \cup {s}
      BY <1>3, <2>1, <2>2 DEF Tracked, Desks
    <2>4. /\ IsFiniteSet(Tracked(desk) \ {r})
          /\ Cardinality(Tracked(desk) \ {r}) = Cardinality(Tracked(desk)) - 1
      BY <1>1, <2>2, FS_RemoveElement
    <2>5. Cardinality((Tracked(desk) \ {r}) \cup {s}) = Cardinality(Tracked(desk) \ {r}) + 1
      BY <2>2, <2>4, FS_AddElement
    <2> QED BY <1>2, <2>3, <2>4, <2>5
  <1>6. CASE desk[s] = None /\ ~Full(desk)
    <2>1. made = [desk EXCEPT ![s] = Unheard]
      BY <1>6 DEF WithEntry
    <2>2. s \notin Tracked(desk) /\ Tracked(made) = Tracked(desk) \cup {s}
      BY <1>3, <1>6, <2>1 DEF Tracked, Desks
    <2>3. Cardinality(Tracked(made)) = Cardinality(Tracked(desk)) + 1
      BY <1>1, <2>2, FS_AddElement
    <2> QED BY <1>2, <1>6, <2>3, DeskAssumption DEF Full
  <1> QED BY <1>4, <1>5, <1>6

-----------------------------------------------------------------------------
(* What is written to an entry is an entry.                                  *)
LEMMA ForgedIsTyped ==
  ASSUME NEW a \in Attestation, now \in Time
  PROVE  Forged(a) \in Attestation
  <1>1. a.forgedAt \in Seq(Time)
    BY DEF Attestation
  <1>2. (IF Len(a.forgedAt) >= Counted THEN Tail(a.forgedAt) ELSE a.forgedAt) \in Seq(Time)
    <2>1. CASE Len(a.forgedAt) >= Counted
      BY <1>1, <2>1, DeskAssumption
    <2>2. CASE ~(Len(a.forgedAt) >= Counted)
      BY <1>1, <2>2
    <2> QED BY <2>1, <2>2
  <1>3. Append(IF Len(a.forgedAt) >= Counted THEN Tail(a.forgedAt) ELSE a.forgedAt, now) \in Seq(Time)
    BY <1>2
  <1> QED BY <1>3 DEF Forged, Attestation

LEMMA AppliedIsTyped ==
  ASSUME NEW a \in Attestation, NEW token \in Token \cup {None}, NEW stamp \in Fresh,
         now \in Time, Check(token) \notin {"ignored", "forged"}
  PROVE  Applied(a, Check(token), token, stamp) \in Attestation
  <1>1. Check(token) \in {"none", "valid", "expired", "revoked"}
    BY DEF Check
  <1>2. token = None \/ (token.sub \in Pseudonyms /\ token.iat \in Nat)
    <2>1. token \in [seal: {"unknown", "forged"}] => token = None
      BY DEF Check
    <2>2. token \in [seal: {"good", "revoked"}, sub: Pseudonyms, iat: IssueTimes]
            => token.sub \in Pseudonyms /\ token.iat \in Nat
      BY DeskAssumption
    <2> QED BY <2>1, <2>2 DEF Token
  <1>3. (IF token = None THEN None ELSE token.sub) \in Pseudonyms \cup {None}
    BY <1>2
  <1>4. (IF token = None THEN Never ELSE token.iat + Lifetime) \in Nat
    BY <1>2, DeskAssumption DEF Never
  <1>5. Since(a, Check(token), token) \in 0 .. MaxTime
    BY DeskAssumption DEF Since, Attestation, Never, Time
  <1>6. stamp \in Stamp
    BY DEF Fresh
  <1> QED BY <1>1, <1>3, <1>4, <1>5, <1>6 DEF Applied, Attestation

(* RefreshScores blocks peers only.                                          *)
LEMMA RefreshIsTyped ==
  ASSUME TypeOK, RefreshScores
  PROVE  blocked' \subseteq Sources /\ refreshed' \in 0 .. now
  <1>1. Graylisted(connected) \subseteq connected
    BY DEF Graylisted
  <1>2. blocked' \subseteq blocked \cup connected
    BY <1>1 DEF RefreshScores
  <1>3. refreshed' = now /\ now \in Nat
    BY DEF RefreshScores, TypeOK, Time
  <1> QED BY <1>2, <1>3 DEF TypeOK

(* record_forgery: the desk and the history stay well typed, within the cap. *)
LEMMA RecordForgeryIsTyped ==
  ASSUME TypeOK, NEW s \in Sources, RecordForgery(s)
  PROVE  peers' \in Desks /\ certain' \in [Sources -> Seq(Time)] /\ lifted' \subseteq Sources
  <1>1. PICK made \in WithEntry(peers, s) : peers' = [made EXCEPT ![s] = Forged(@)]
    BY DEF RecordForgery
  <1>2. made \in Desks /\ made[s] \in Attestation
    BY <1>1, EntryMade DEF TypeOK, Desks
  <1>3. Forged(made[s]) \in Attestation
    BY <1>2, ForgedIsTyped DEF TypeOK
  <1>4. peers' \in Desks
    BY <1>1, <1>2, <1>3 DEF Desks
  <1>5. certain' \in [Sources -> Seq(Time)]
    BY DEF RecordForgery, TypeOK
  <1>6. lifted' \subseteq Sources
    BY DEF RecordForgery, Lifts, Forgotten, TypeOK
  <1> QED BY <1>4, <1>5, <1>6

(* Type correctness: entries are attestations or absent, and peers, blocks   *)
(* and clocks stay in their ranges.                                          *)
THEOREM TypeCorrect == Spec => []TypeOK
  <1>1. Init => TypeOK
    BY DeskAssumption DEF Init, TypeOK, Time
  <1>2. TypeOK /\ [Next]_vars => TypeOK'
    <2> SUFFICES ASSUME TypeOK, [Next]_vars PROVE TypeOK'
      OBVIOUS
    <2>1. ASSUME NEW s \in Sources, NEW stamp \in Fresh, NEW token \in Token \cup {None},
                 OnHeartbeat(s, stamp, token)
          PROVE  TypeOK'
      <3>1. blocked' \subseteq Sources /\ refreshed' \in 0 .. now
        BY <2>1, RefreshIsTyped DEF OnHeartbeat
      <3>2. UNCHANGED <<connected, now>>
        BY <2>1 DEF OnHeartbeat
      <3>3. CASE UNCHANGED <<peers, history>>
        BY <3>1, <3>2, <3>3 DEF TypeOK, history
      <3>4. CASE RecordForgery(s)
        BY <3>1, <3>2, <3>4, RecordForgeryIsTyped DEF TypeOK, Desks
      <3>5. CASE /\ Check(token) \notin {"ignored", "forged"}
                 /\ \E made \in WithEntry(peers, s) :
                      peers' = [made EXCEPT ![s] = Applied(@, Check(token), token, stamp)]
                 /\ Lifts /\ UNCHANGED certain
        <4>1. PICK made \in WithEntry(peers, s) :
                peers' = [made EXCEPT ![s] = Applied(@, Check(token), token, stamp)]
          BY <3>5
        <4>2. made \in Desks /\ made[s] \in Attestation
          BY <4>1, EntryMade DEF TypeOK, Desks
        <4>3. Applied(made[s], Check(token), token, stamp) \in Attestation
          BY <3>5, <4>2, AppliedIsTyped DEF TypeOK
        <4>4. peers' \in Desks
          BY <4>1, <4>2, <4>3 DEF Desks
        <4>5. lifted' \subseteq Sources
          BY <3>5 DEF Lifts, Forgotten, TypeOK
        <4> QED BY <3>1, <3>2, <3>5, <4>4, <4>5 DEF TypeOK, Desks
      <3> QED BY <2>1, <3>3, <3>4, <3>5 DEF OnHeartbeat
    <2>2. ASSUME NEW s \in Sources, ForgedRecord(s) PROVE TypeOK'
      BY <2>2, RefreshIsTyped, RecordForgeryIsTyped DEF ForgedRecord, TypeOK, Desks
    <2>3. CASE ScoreTimer
      BY <2>3, RefreshIsTyped DEF ScoreTimer, TypeOK, history
    <2>4. ASSUME NEW s \in Sources, Connect(s) \/ Disconnect(s) PROVE TypeOK'
      BY <2>4 DEF Connect, Disconnect, TypeOK, history
    <2>5. CASE Tick
      BY <2>5, DeskAssumption DEF Tick, TypeOK, Time, history
    <2>6. CASE UNCHANGED vars
      BY <2>6 DEF vars, history, TypeOK
    <2> QED BY <2>1, <2>2, <2>3, <2>4, <2>5, <2>6 DEF Next
  <1> QED BY <1>1, <1>2, PTL DEF Spec

-----------------------------------------------------------------------------
(* Every step leaves the desk alone, or makes one source an entry and writes *)
(* to it.                                                                    *)
LEMMA OneEntryPerStep ==
  ASSUME TypeOK, [Next]_vars
  PROVE  \/ peers' = peers
         \/ \E s \in Sources : \E made \in WithEntry(peers, s), a \in Attestation :
               /\ peers' = [made EXCEPT ![s] = a]
               /\ (made[s].status = "valid" /\ a.status = "valid"
                     /\ a.sub = made[s].sub /\ made[s].since # Never)
                    => a.since = made[s].since
  <1> DEFINE Written(s) ==
        \E made \in WithEntry(peers, s), a \in Attestation :
           /\ peers' = [made EXCEPT ![s] = a]
           /\ (made[s].status = "valid" /\ a.status = "valid"
                 /\ a.sub = made[s].sub /\ made[s].since # Never)
                => a.since = made[s].since
  <1>1. ASSUME NEW s \in Sources, RecordForgery(s) PROVE Written(s)
    <2>1. PICK made \in WithEntry(peers, s) : peers' = [made EXCEPT ![s] = Forged(@)]
      BY <1>1 DEF RecordForgery
    <2>2. made \in Desks /\ made[s] \in Attestation
      BY <2>1, EntryMade DEF TypeOK, Desks
    <2>3. Forged(made[s]) \in Attestation
      BY <2>2, ForgedIsTyped DEF TypeOK
    <2>4. Forged(made[s]).since = made[s].since
      BY <2>2 DEF Forged, Attestation
    <2>5. peers' = [made EXCEPT ![s] = Forged(made[s])]
      BY <2>1, <2>2 DEF Desks
    <2> QED BY <2>3, <2>4, <2>5
  <1>2. ASSUME NEW s \in Sources, NEW stamp \in Fresh, NEW token \in Token \cup {None},
               Check(token) \notin {"ignored", "forged"},
               \E made \in WithEntry(peers, s) :
                  peers' = [made EXCEPT ![s] = Applied(@, Check(token), token, stamp)]
        PROVE  Written(s)
    <2> DEFINE verdict == Check(token)
    <2>1. PICK made \in WithEntry(peers, s) :
            peers' = [made EXCEPT ![s] = Applied(@, verdict, token, stamp)]
      BY <1>2
    <2>2. made \in Desks /\ made[s] \in Attestation
      BY <2>1, EntryMade DEF TypeOK, Desks
    <2> DEFINE a == Applied(made[s], verdict, token, stamp)
    <2>3. a \in Attestation
      BY <1>2, <2>2, AppliedIsTyped DEF TypeOK
    <2>4. verdict = "valid" => token # None
      BY DEF Check
    <2>5. a.status = verdict /\ (token # None => a.sub = token.sub)
            /\ a.since = Since(made[s], verdict, token)
      BY <2>2 DEF Applied, Attestation
    <2>6. (made[s].status = "valid" /\ a.status = "valid"
             /\ a.sub = made[s].sub /\ made[s].since # Never)
            => a.since = made[s].since
      BY <2>4, <2>5 DEF Since
    <2>7. peers' = [made EXCEPT ![s] = a]
      BY <2>1, <2>2 DEF Desks
    <2> HIDE DEF a
    <2> QED BY <2>3, <2>6, <2>7
  <1> HIDE DEF Written
  <1>3. ASSUME NEW s \in Sources, NEW stamp \in Fresh, NEW token \in Token \cup {None},
               OnHeartbeat(s, stamp, token)
        PROVE  peers' = peers \/ Written(s)
    BY <1>1, <1>2, <1>3 DEF OnHeartbeat
  <1>4. ASSUME NEW s \in Sources, ForgedRecord(s) PROVE Written(s)
    BY <1>1, <1>4 DEF ForgedRecord
  <1>5. ASSUME NEW s \in Sources, Connect(s) \/ Disconnect(s) PROVE peers' = peers
    BY <1>5 DEF Connect, Disconnect
  <1>6. ScoreTimer \/ Tick \/ UNCHANGED vars => peers' = peers
    BY DEF ScoreTimer, Tick, vars
  <1>7. peers' = peers \/ \E s \in Sources : Written(s)
    BY <1>3, <1>4, <1>5, <1>6 DEF Next
  <1> QED BY <1>7 DEF Written

(* The bookkeeping never tracks more than MaxTracked sources: a newcomer     *)
(* costs another its entry.                                                  *)
THEOREM BookkeepingIsBounded == Spec => []TrackedIsBounded
  <1>1. Init => TrackedIsBounded
    <2> SUFFICES ASSUME Init PROVE TrackedIsBounded
      OBVIOUS
    <2>1. Tracked(peers) = {}
      BY DEF Init, Tracked
    <2> QED BY <2>1, FS_EmptySet, DeskAssumption DEF TrackedIsBounded
  <1>2. TypeOK /\ TrackedIsBounded /\ [Next]_vars => TrackedIsBounded'
    <2> SUFFICES ASSUME TypeOK, TrackedIsBounded, [Next]_vars PROVE TrackedIsBounded'
      OBVIOUS
    <2>1. CASE peers' = peers
      BY <2>1 DEF TrackedIsBounded, Tracked
    <2>2. ASSUME NEW s \in Sources, NEW made \in WithEntry(peers, s), NEW a \in Attestation,
                 peers' = [made EXCEPT ![s] = a]
          PROVE  TrackedIsBounded'
      <3>1. peers \in Desks
        BY DEF TypeOK, Desks
      <3>2. made \in Desks /\ made[s] # None
        BY <3>1, EntryMade
      <3>3. Tracked(peers') = Tracked(made)
        BY <2>2, <3>2, NoneAssumption DEF Tracked, Desks
      <3>4. Cardinality(Tracked(made)) <= MaxTracked
        BY <3>1, EntryIsBounded DEF TrackedIsBounded
      <3> QED BY <3>3, <3>4 DEF TrackedIsBounded
    <2> QED BY <2>1, <2>2, OneEntryPerStep
  <1> QED BY <1>1, <1>2, TypeCorrect, PTL DEF Spec

(* A source with a forgery that counts is forgotten only when no source      *)
(* without one is left in the books.                                         *)
THEOREM ForgersAreHeldLongest == Spec => ForgersAreForgottenLast
  <1> DEFINE Last == (\E s \in Forgotten : Recent(peers[s]) > 0)
                        => \A s \in Tracked(peers) : Recent(peers[s]) > 0
  <1>1. TypeOK /\ [Next]_vars => Last
    <2> SUFFICES ASSUME TypeOK, [Next]_vars,
                        NEW q \in Forgotten, Recent(peers[q]) > 0, NEW r \in Tracked(peers)
                 PROVE  Recent(peers[r]) > 0
      OBVIOUS
    <2>1. q \in Sources /\ peers[q] # None /\ peers'[q] = None
      BY DEF Forgotten
    <2>2. PICK s \in Sources : \E made \in WithEntry(peers, s), a \in Attestation :
            peers' = [made EXCEPT ![s] = a]
      BY <2>1, OneEntryPerStep
    <2>3. PICK made \in WithEntry(peers, s), a \in Attestation :
            peers' = [made EXCEPT ![s] = a]
      BY <2>2
    <2>4. peers \in Desks /\ made \in Desks
      BY EntryMade DEF TypeOK, Desks
    <2>5. q # s /\ made[q] = None
      BY <2>1, <2>3, <2>4, NoneAssumption DEF Desks
    <2>6. q \in Oldest(peers)
      BY <2>1, <2>4, <2>5, EntryMade
    <2>7. ~Before(Rank(peers[r]), Rank(peers[q]))
      BY <2>6 DEF Oldest
    <2> QED BY <2>7 DEF Before, Rank
  <1>2. TypeOK /\ [Next]_vars => [Last]_vars
    BY <1>1
  <1> QED BY <1>2, TypeCorrect, PTL DEF Spec, ForgersAreForgottenLast

(* Two sources that stay registered under a pseudonym keep their order in    *)
(* its quota.                                                                *)
THEOREM QuotaKeepsItsOrder == Spec => QueueOrderHolds
  <1> DEFINE Order == \A r, s \in Registered(peers, Sources) :
         (/\ Ahead(peers, r, s) /\ {r, s} \subseteq Registered(peers', Sources)
          /\ peers'[r].sub = peers[r].sub /\ peers'[s].sub = peers[s].sub)
            => Ahead(peers', r, s)
  <1>1. ASSUME TypeOK, [Next]_vars, NEW q \in Registered(peers, Sources),
               q \in Registered(peers', Sources), peers'[q].sub = peers[q].sub
        PROVE  peers'[q].since = peers[q].since
    <2>1. q \in Sources /\ peers[q] # None /\ peers[q].status = "valid" /\ peers[q].since # Never
      BY DEF Registered
    <2>2. peers'[q] # None /\ peers'[q].status = "valid"
      BY <1>1 DEF Registered
    <2>3. CASE peers' = peers
      BY <2>3
    <2>4. ASSUME NEW s \in Sources, NEW made \in WithEntry(peers, s), NEW a \in Attestation,
                 peers' = [made EXCEPT ![s] = a],
                 (made[s].status = "valid" /\ a.status = "valid"
                    /\ a.sub = made[s].sub /\ made[s].since # Never)
                   => a.since = made[s].since
          PROVE  peers'[q].since = peers[q].since
      <3>1. peers \in Desks /\ made \in Desks
        BY <1>1, EntryMade DEF TypeOK, Desks
      <3>2. CASE q = s
        BY <1>1, <2>1, <2>2, <2>4, <3>1, <3>2, EntryMade DEF Desks
      <3>3. CASE q # s
        BY <2>1, <2>2, <2>4, <3>1, <3>3, EntryMade DEF Desks
      <3> QED BY <3>2, <3>3
    <2> QED BY <1>1, <2>3, <2>4, OneEntryPerStep
  <1>2. TypeOK /\ [Next]_vars => Order
    BY <1>1 DEF Ahead
  <1>3. TypeOK /\ [Next]_vars => [Order]_vars
    BY <1>2
  <1> QED BY <1>3, TypeCorrect, PTL DEF Spec, QueueOrderHolds

-----------------------------------------------------------------------------
(* A graylisted source has a forgery that counts: without one its score is   *)
(* zero or the bonus.                                                        *)
LEMMA GraylistedForged ==
  ASSUME NEW listed \in SUBSET Sources, NEW s \in Graylisted(listed),
         peers' \in Desks
  PROVE  /\ s \in Sources /\ peers'[s] # None
         /\ \E i \in DOMAIN peers'[s].forgedAt : Counts(peers'[s].forgedAt[i])
  <1>1. s \in listed /\ Scores(peers', listed)[s] <= Graylist
    BY DEF Graylisted
  <1>2. Scores(peers', listed)[s] =
          IF peers'[s] = None THEN 0
          ELSE Greatest(Recent(peers'[s]) * ForgeryPenalty, ForgeryFloor)
                 + (IF s \in Bonus(peers', listed) THEN RegisteredBonus ELSE 0)
    BY <1>1 DEF Scores
  <1>3. peers'[s] # None
    BY <1>1, <1>2 DEF Graylist
  <1>4. Recent(peers'[s]) # 0
    <2> SUFFICES ASSUME Recent(peers'[s]) = 0 PROVE FALSE
      OBVIOUS
    <2>1. Greatest(Recent(peers'[s]) * ForgeryPenalty, ForgeryFloor) = 0
      BY DEF Greatest, ForgeryPenalty, ForgeryFloor
    <2> QED BY <1>1, <1>2, <1>3, <2>1 DEF RegisteredBonus, Graylist
  <1>5. {i \in DOMAIN peers'[s].forgedAt : Counts(peers'[s].forgedAt[i])} # {}
    BY <1>4, FS_EmptySet DEF Recent
  <1> QED BY <1>1, <1>3, <1>5

(* What is appended to a history leaves the rest of it in place.             *)
LEMMA AppendKeeps ==
  ASSUME NEW c \in Seq(Time), NEW t \in Time
  PROVE  /\ \A j \in DOMAIN c : j \in DOMAIN Append(c, t) /\ Append(c, t)[j] = c[j]
         /\ \E j \in DOMAIN Append(c, t) : Append(c, t)[j] = t
         /\ \A j \in DOMAIN Append(c, t) :
               Append(c, t)[j] = t \/ \E k \in DOMAIN c : Append(c, t)[j] = c[k]
  <1>1. Len(c) + 1 \in DOMAIN Append(c, t) /\ Append(c, t)[Len(c) + 1] = t
    OBVIOUS
  <1>2. \A j \in DOMAIN c : j \in DOMAIN Append(c, t) /\ Append(c, t)[j] = c[j]
    OBVIOUS
  <1>3. \A j \in DOMAIN Append(c, t) : j = Len(c) + 1 \/ j \in DOMAIN c
    OBVIOUS
  <1> QED BY <1>1, <1>2, <1>3

(* What Forged writes down is the forgery of now, and some it had.           *)
LEMMA ForgedKeeps ==
  ASSUME NEW a \in Attestation, now \in Time, NEW i \in DOMAIN Forged(a).forgedAt
  PROVE  \/ Forged(a).forgedAt[i] = now
         \/ \E k \in DOMAIN a.forgedAt : Forged(a).forgedAt[i] = a.forgedAt[k]
  <1> DEFINE f == a.forgedAt
             kept == IF Len(f) >= Counted THEN Tail(f) ELSE f
  <1>1. f \in Seq(Time)
    BY DEF Attestation
  <1>2. Forged(a).forgedAt = Append(kept, now)
    BY DEF Forged, Attestation
  <1>3. kept \in Seq(Time) /\ \A j \in DOMAIN kept : \E k \in DOMAIN f : kept[j] = f[k]
    <2>1. CASE Len(f) >= Counted
      <3>1. f # << >>
        BY <1>1, <2>1, DeskAssumption
      <3>2. /\ Tail(f) \in Seq(Time)
            /\ \A j \in DOMAIN Tail(f) : j + 1 \in DOMAIN f /\ Tail(f)[j] = f[j + 1]
        BY <1>1, <3>1
      <3> QED BY <2>1, <3>2
    <2>2. CASE ~(Len(f) >= Counted)
      BY <1>1, <2>2
    <2> QED BY <2>1, <2>2
  <1> HIDE DEF kept, f
  <1>4. \A j \in DOMAIN Append(kept, now) :
          Append(kept, now)[j] = now \/ \E k \in DOMAIN kept : Append(kept, now)[j] = kept[k]
    BY <1>3, AppendKeeps
  <1> QED BY <1>2, <1>3, <1>4 DEF f

(* A new or untouched entry counts nothing its source did not commit.        *)
LEMMA MadeIsCertain ==
  ASSUME TypeOK, HeldIsCertain, NEW s \in Sources, NEW made \in WithEntry(peers, s),
         NEW q \in Sources, made[q] # None, NEW i \in DOMAIN made[q].forgedAt
  PROVE  \E j \in DOMAIN certain[q] : certain[q][j] = made[q].forgedAt[i]
  <1>1. peers \in Desks
    BY DEF TypeOK, Desks
  <1>2. made[q] = peers[q] \/ made[q] = Unheard
    <2>1. CASE q = s
      BY <1>1, <2>1, EntryMade
    <2>2. CASE q # s
      BY <1>1, <2>2, EntryMade
    <2> QED BY <2>1, <2>2
  <1>3. made[q] # Unheard
    BY DEF Unheard
  <1> QED BY <1>2, <1>3 DEF HeldIsCertain

LEMMA HeldStaysCertain ==
  ASSUME TypeOK, HeldIsCertain, [Next]_vars
  PROVE  HeldIsCertain'
  <1>1. ASSUME NEW s \in Sources, RecordForgery(s) PROVE HeldIsCertain'
    <2> SUFFICES ASSUME NEW q \in Sources, peers'[q] # None, NEW i \in DOMAIN peers'[q].forgedAt
                 PROVE  \E j \in DOMAIN certain'[q] : certain'[q][j] = peers'[q].forgedAt[i]
      BY DEF HeldIsCertain
    <2>1. PICK made \in WithEntry(peers, s) : peers' = [made EXCEPT ![s] = Forged(@)]
      BY <1>1 DEF RecordForgery
    <2>2. made \in Desks /\ made[s] \in Attestation /\ made[s] # None
      BY <2>1, EntryMade DEF TypeOK, Desks
    <2>3. certain' = [certain EXCEPT ![s] = Append(certain[s], now)]
            /\ certain \in [Sources -> Seq(Time)] /\ now \in Time
      BY <1>1 DEF RecordForgery, TypeOK
    <2>4. CASE q # s
      <3>1. peers'[q] = made[q] /\ certain'[q] = certain[q]
        BY <2>1, <2>2, <2>3, <2>4 DEF Desks
      <3> QED BY <2>1, <3>1, MadeIsCertain
    <2>5. CASE q = s
      <3>1. peers'[q] = Forged(made[s]) /\ certain'[q] = Append(certain[s], now)
        BY <2>1, <2>2, <2>3, <2>5 DEF Desks
      <3>2. \/ peers'[q].forgedAt[i] = now
            \/ \E k \in DOMAIN made[s].forgedAt : peers'[q].forgedAt[i] = made[s].forgedAt[k]
        BY <2>2, <2>3, <3>1, ForgedKeeps
      <3>3. \A k \in DOMAIN made[s].forgedAt :
              \E j \in DOMAIN certain[s] : certain[s][j] = made[s].forgedAt[k]
        BY <2>1, <2>2, MadeIsCertain
      <3>4. /\ \A j \in DOMAIN certain[s] : j \in DOMAIN Append(certain[s], now)
                                           /\ Append(certain[s], now)[j] = certain[s][j]
            /\ \E j \in DOMAIN Append(certain[s], now) : Append(certain[s], now)[j] = now
        BY <2>3, AppendKeeps
      <3> QED BY <3>1, <3>2, <3>3, <3>4
    <2> QED BY <2>4, <2>5
  <1>2. ASSUME NEW s \in Sources, NEW made \in WithEntry(peers, s), NEW token, NEW stamp,
               peers' = [made EXCEPT ![s] = Applied(@, Check(token), token, stamp)],
               UNCHANGED certain
        PROVE  HeldIsCertain'
    <2> SUFFICES ASSUME NEW q \in Sources, peers'[q] # None, NEW i \in DOMAIN peers'[q].forgedAt
                 PROVE  \E j \in DOMAIN certain'[q] : certain'[q][j] = peers'[q].forgedAt[i]
      BY DEF HeldIsCertain
    <2>1. made \in Desks /\ made[s] \in Attestation /\ made[s] # None
      BY EntryMade DEF TypeOK, Desks
    <2>2. made[q] # None /\ peers'[q].forgedAt = made[q].forgedAt
      BY <1>2, <2>1 DEF Applied, Attestation, Desks
    <2> QED BY <1>2, <2>2, MadeIsCertain
  <1>3. ASSUME NEW s \in Sources, NEW stamp \in Fresh, NEW token \in Token \cup {None},
               OnHeartbeat(s, stamp, token)
        PROVE  HeldIsCertain'
    <2>1. CASE UNCHANGED <<peers, history>>
      BY <2>1 DEF HeldIsCertain, history
    <2>2. CASE /\ \E made \in WithEntry(peers, s) :
                    peers' = [made EXCEPT ![s] = Applied(@, Check(token), token, stamp)]
               /\ UNCHANGED certain
      BY <1>2, <2>2
    <2> QED BY <1>1, <1>3, <2>1, <2>2 DEF OnHeartbeat
  <1>4. ASSUME NEW s \in Sources, ForgedRecord(s) PROVE HeldIsCertain'
    BY <1>1, <1>4 DEF ForgedRecord
  <1>5. ASSUME NEW s \in Sources, Connect(s) \/ Disconnect(s) PROVE HeldIsCertain'
    BY <1>5 DEF Connect, Disconnect, HeldIsCertain, history
  <1>6. CASE ScoreTimer \/ Tick \/ UNCHANGED vars
    BY <1>6 DEF ScoreTimer, Tick, vars, HeldIsCertain, history
  <1> QED BY <1>3, <1>4, <1>5, <1>6 DEF Next

(* Whoever is blocked had, at the last refresh, a forgery of its own less    *)
(* than a window old: no block outlasts the window and a refresh.            *)
THEOREM OnlyForgersAreBlocked == Spec => []BlocksAreEarned
  <1> DEFINE IInv == HeldIsCertain /\ BlocksAreEarned
  <1>1. Init => IInv
    BY DEF Init, HeldIsCertain, BlocksAreEarned
  <1>2. TypeOK /\ TypeOK' /\ IInv /\ [Next]_vars => IInv'
    <2> SUFFICES ASSUME TypeOK, TypeOK', IInv, [Next]_vars PROVE IInv'
      OBVIOUS
    <2>1. HeldIsCertain'
      BY HeldStaysCertain
    <2>2. ASSUME RefreshScores PROVE BlocksAreEarned'
      <3> SUFFICES ASSUME NEW s \in blocked'
                   PROVE  \E j \in DOMAIN certain'[s] : refreshed' < certain'[s][j] + ForgeryWindow
        BY DEF BlocksAreEarned
      <3>1. PICK listed \in {connected, blocked} : s \in Graylisted(listed)
        BY <2>2 DEF RefreshScores, LetBackIn
      <3>2. listed \in SUBSET Sources /\ peers' \in Desks
        BY DEF TypeOK, Desks
      <3>3. PICK i \in DOMAIN peers'[s].forgedAt : Counts(peers'[s].forgedAt[i])
        BY <3>1, <3>2, GraylistedForged
      <3>4. s \in Sources /\ peers'[s] # None
        BY <3>1, <3>2, GraylistedForged
      <3>5. PICK j \in DOMAIN certain'[s] : certain'[s][j] = peers'[s].forgedAt[i]
        BY <2>1, <3>3, <3>4 DEF HeldIsCertain
      <3>6. refreshed' = now
        BY <2>2 DEF RefreshScores
      <3> QED BY <3>3, <3>5, <3>6 DEF Counts
    <2>3. ASSUME UNCHANGED <<blocked, refreshed, certain>> PROVE BlocksAreEarned'
      BY <2>3 DEF BlocksAreEarned
    <2>4. ASSUME NEW s \in Sources, \/ \E stamp \in Fresh, token \in Token \cup {None} :
                                          OnHeartbeat(s, stamp, token)
                                    \/ ForgedRecord(s)
          PROVE  BlocksAreEarned'
      BY <2>2, <2>4 DEF OnHeartbeat, ForgedRecord
    <2>5. ASSUME NEW s \in Sources, Connect(s) \/ Disconnect(s) PROVE BlocksAreEarned'
      BY <2>3, <2>5 DEF Connect, Disconnect, history
    <2>6. ASSUME ScoreTimer PROVE BlocksAreEarned'
      BY <2>2, <2>6 DEF ScoreTimer
    <2>7. ASSUME Tick \/ UNCHANGED vars PROVE BlocksAreEarned'
      BY <2>3, <2>7 DEF Tick, vars, history
    <2> QED BY <2>1, <2>4, <2>5, <2>6, <2>7 DEF Next
  <1> QED BY <1>1, <1>2, TypeCorrect, PTL DEF Spec

-----------------------------------------------------------------------------
(* What an entry holds of its source's forgeries, at time `t`: the newest    *)
(* ones; those it does not hold are past their window, unless it is full.    *)
At(x, t) == t < x + ForgeryWindow
Suffix(f, c, k) == Len(c) = k + Len(f) /\ \A i \in 1 .. Len(f) : f[i] = c[k + i]
HoldsNewest(f, c, t) ==
    \E k \in Nat :
        /\ Suffix(f, c, k) /\ Len(f) <= Counted
        /\ Len(f) = Counted \/ \A i \in 1 .. k : ~At(c[i], t)
InOrder(c) == \A i, j \in 1 .. Len(c) : i <= j => c[i] <= c[j]

HeldOf(desk, s) == IF desk[s] = None THEN <<>> ELSE desk[s].forgedAt
NewestAreHeld ==
    /\ \A s \in Sources : InOrder(certain[s]) /\ \A i \in 1 .. Len(certain[s]) : certain[s][i] <= now
    /\ \A s \in Sources \ lifted : HoldsNewest(HeldOf(peers, s), certain[s], now)

(* Append and Tail, entry by entry.                                          *)
LEMMA Appended ==
  ASSUME NEW c \in Seq(Time), NEW t \in Time
  PROVE  /\ Append(c, t) \in Seq(Time) /\ Len(c) \in Nat
         /\ Len(Append(c, t)) = Len(c) + 1 /\ Append(c, t)[Len(c) + 1] = t
         /\ \A i \in 1 .. Len(c) : Append(c, t)[i] = c[i]
  OBVIOUS

LEMMA Tailed ==
  ASSUME NEW f \in Seq(Time), Len(f) >= 1
  PROVE  /\ Tail(f) \in Seq(Time) /\ Len(Tail(f)) = Len(f) - 1
         /\ \A i \in 1 .. Len(f) - 1 : Tail(f)[i] = f[i + 1]
  <1>1. f # <<>>
    OBVIOUS
  <1> QED  BY <1>1

LEMMA InTime ==
  ASSUME NEW c \in Seq(Time), NEW i \in 1 .. Len(c)
  PROVE  c[i] \in Nat
  <1>1. c[i] \in Time
    OBVIOUS
  <1> QED  BY <1>1, DeskAssumption DEF Time

(* A suffix grows with the whole; without its first entry it is a suffix.    *)
LEMMA SuffixGrows ==
  ASSUME NEW f \in Seq(Time), NEW c \in Seq(Time), NEW t \in Time, NEW k \in Nat, Suffix(f, c, k)
  PROVE  Suffix(Append(f, t), Append(c, t), k)
  <1> DEFINE n == Len(f)
             m == Len(c)
             fx == Append(f, t)
             cx == Append(c, t)
  <1>1. n \in Nat /\ Len(fx) = n + 1 /\ fx[n + 1] = t /\ \A i \in 1 .. n : fx[i] = f[i]
    BY Appended
  <1>2. m \in Nat /\ Len(cx) = m + 1 /\ cx[m + 1] = t /\ \A i \in 1 .. m : cx[i] = c[i]
    BY Appended
  <1>3. m = k + n /\ \A i \in 1 .. n : f[i] = c[k + i]
    BY DEF Suffix
  <1> HIDE DEF n, m, fx, cx
  <1>4. ASSUME NEW i \in 1 .. n + 1 PROVE fx[i] = cx[k + i]
    <2>1. CASE i = n + 1
      <3>1. k + i = m + 1
        BY <1>1, <1>3, <2>1
      <3> QED  BY <1>1, <1>2, <2>1, <3>1
    <2>2. CASE i # n + 1
      <3>1. i \in 1 .. n /\ k + i \in 1 .. m
        BY <1>1, <1>2, <1>3, <2>2
      <3> QED  BY <1>1, <1>2, <1>3, <3>1
    <2> QED  BY <2>1, <2>2
  <1>5. Len(cx) = k + Len(fx)
    BY <1>1, <1>2, <1>3
  <1>6. \A i \in 1 .. Len(fx) : fx[i] = cx[k + i]
    BY <1>1, <1>4
  <1> QED  BY <1>5, <1>6 DEF Suffix, fx, cx

LEMMA SuffixShrinks ==
  ASSUME NEW f \in Seq(Time), NEW c, NEW k \in Nat, Suffix(f, c, k), Len(f) >= 1
  PROVE  Suffix(Tail(f), c, k + 1)
  <1> DEFINE n == Len(f)
             g == Tail(f)
  <1>1. n \in Nat /\ Len(g) = n - 1 /\ \A i \in 1 .. n - 1 : g[i] = f[i + 1]
    BY Tailed
  <1>2. n >= 1 /\ Len(c) = k + n /\ \A i \in 1 .. n : f[i] = c[k + i]
    BY DEF Suffix
  <1> HIDE DEF n, g
  <1>3. ASSUME NEW i \in 1 .. n - 1 PROVE g[i] = c[(k + 1) + i]
    <2>1. i + 1 \in 1 .. n /\ k + (i + 1) = (k + 1) + i
      BY <1>1
    <2> QED  BY <1>1, <1>2, <2>1
  <1>4. Len(c) = (k + 1) + Len(g)
    BY <1>1, <1>2
  <1>5. \A i \in 1 .. Len(g) : g[i] = c[(k + 1) + i]
    BY <1>1, <1>3
  <1> QED  BY <1>4, <1>5 DEF Suffix, g

(* A further forgery, appended to both.                                      *)
LEMMA HoldsAppended ==
  ASSUME NEW f \in Seq(Time), NEW c \in Seq(Time), NEW t \in Time, HoldsNewest(f, c, t)
  PROVE  HoldsNewest(Append(IF Len(f) >= Counted THEN Tail(f) ELSE f, t), Append(c, t), t)
  <1>1. PICK k \in Nat :
           /\ Suffix(f, c, k) /\ Len(f) <= Counted
           /\ Len(f) = Counted \/ \A i \in 1 .. k : ~At(c[i], t)
    BY DEF HoldsNewest
  <1>2. Len(f) \in Nat /\ Len(c) \in Nat /\ Counted \in Nat /\ Counted >= 1
    BY DeskAssumption
  <1>3. CASE Len(f) = Counted
    <2> DEFINE g == Tail(f)
    <2>1. g \in Seq(Time) /\ Len(g) = Len(f) - 1
      BY <1>2, <1>3, Tailed
    <2>2. Suffix(g, c, k + 1)
      BY <1>1, <1>2, <1>3, SuffixShrinks
    <2> HIDE DEF g
    <2>3. k + 1 \in Nat
      BY <1>1
    <2>4. Suffix(Append(g, t), Append(c, t), k + 1)
      BY <2>1, <2>2, <2>3, SuffixGrows
    <2>5. Len(Append(g, t)) = Counted
      BY <1>2, <1>3, <2>1, Appended
    <2>6. HoldsNewest(Append(g, t), Append(c, t), t)
      BY <1>2, <2>3, <2>4, <2>5 DEF HoldsNewest
    <2> QED  BY <1>2, <1>3, <2>6 DEF g
  <1>4. CASE Len(f) # Counted
    <2>1. ~(Len(f) >= Counted) /\ Len(f) + 1 <= Counted
      BY <1>1, <1>2, <1>4
    <2>2. Suffix(Append(f, t), Append(c, t), k)
      BY <1>1, SuffixGrows
    <2>3. Len(Append(f, t)) <= Counted
      BY <2>1, Appended
    <2>4. ASSUME NEW i \in 1 .. k PROVE ~At(Append(c, t)[i], t)
      <3>1. i \in 1 .. Len(c)
        <4>1. Len(c) = k + Len(f)
          BY <1>1 DEF Suffix
        <4> QED  BY <1>1, <1>2, <4>1
      <3> QED  BY <1>1, <1>4, <3>1, Appended
    <2>5. HoldsNewest(Append(f, t), Append(c, t), t)
      BY <1>1, <2>2, <2>3, <2>4 DEF HoldsNewest
    <2> QED  BY <2>1, <2>5
  <1> QED  BY <1>3, <1>4

(* Before the suffix no forgery counts for longer than one of its own.       *)
LEMMA EarlierEndEarlier ==
  ASSUME NEW f \in Seq(Time), NEW c \in Seq(Time), NEW t \in Time, NEW k \in Nat,
         Suffix(f, c, k), InOrder(c), NEW i \in 1 .. k, NEW j \in 1 .. Len(f), At(c[i], t)
  PROVE  At(f[j], t)
  <1> DEFINE n == Len(f)
             m == Len(c)
  <1>1. n \in Nat /\ m \in Nat /\ m = k + n /\ f[j] = c[k + j]
    BY DEF Suffix
  <1> HIDE DEF n, m
  <1>2. i \in 1 .. m /\ k + j \in 1 .. m /\ i <= k + j
    BY <1>1 DEF n
  <1>3. c[i] <= c[k + j] /\ c[i] \in Nat /\ c[k + j] \in Nat
    BY <1>2, InTime DEF InOrder, m
  <1>4. t \in Nat /\ ForgeryWindow \in Nat
    BY DeskAssumption DEF Time
  <1> QED  BY <1>1, <1>3, <1>4 DEF At

(* An entry none of whose forgeries counts may be dropped.                   *)
LEMMA HoldsDropped ==
  ASSUME NEW f \in Seq(Time), NEW c \in Seq(Time), NEW t \in Time, HoldsNewest(f, c, t),
         InOrder(c), \A i \in 1 .. Len(f) : ~At(f[i], t)
  PROVE  HoldsNewest(<<>>, c, t)
  <1>1. PICK k \in Nat :
           /\ Suffix(f, c, k) /\ Len(f) <= Counted
           /\ Len(f) = Counted \/ \A i \in 1 .. k : ~At(c[i], t)
    BY DEF HoldsNewest
  <1> DEFINE n == Len(f)
             m == Len(c)
  <1>2. n \in Nat /\ m \in Nat /\ Counted \in Nat /\ Counted >= 1
    BY DeskAssumption
  <1>3. m = k + n /\ \A i \in 1 .. n : f[i] = c[k + i]
    BY <1>1 DEF Suffix
  <1>4. ASSUME NEW i \in 1 .. m PROVE ~At(c[i], t)
    <2> HIDE DEF n, m
    <2>1. CASE i > k
      <3>1. i - k \in 1 .. n /\ k + (i - k) = i
        BY <1>1, <1>2, <1>3, <2>1
      <3>2. f[i - k] = c[i] /\ ~At(f[i - k], t)
        BY <1>3, <3>1 DEF n
      <3> QED  BY <3>2
    <2>2. CASE i <= k
      <3>1. i \in 1 .. k
        BY <1>1, <1>2, <2>2
      <3>2. CASE n = Counted
        <4>1. 1 \in 1 .. Len(f)
          BY <1>2, <3>2 DEF n
        <4> QED  BY <1>1, <3>1, <4>1, EarlierEndEarlier
      <3>3. CASE n # Counted
        BY <1>1, <3>1, <3>3 DEF n
      <3> QED  BY <3>2, <3>3
    <2> QED  BY <1>1, <1>2, <2>1, <2>2
  <1>5. Len(<<>>) = 0
    OBVIOUS
  <1>6. Suffix(<<>>, c, m)
    BY <1>2, <1>5 DEF Suffix
  <1> QED  BY <1>2, <1>4, <1>5, <1>6 DEF HoldsNewest

(* Time passes.                                                              *)
LEMMA HoldsLater ==
  ASSUME NEW f \in Seq(Time), NEW c \in Seq(Time), NEW t \in Nat, NEW u \in Nat, t <= u,
         HoldsNewest(f, c, t)
  PROVE  HoldsNewest(f, c, u)
  <1>1. PICK k \in Nat :
           /\ Suffix(f, c, k) /\ Len(f) <= Counted
           /\ Len(f) = Counted \/ \A i \in 1 .. k : ~At(c[i], t)
    BY DEF HoldsNewest
  <1>2. Len(c) \in Nat /\ Len(f) \in Nat /\ Len(c) = k + Len(f)
    BY <1>1 DEF Suffix
  <1>3. ASSUME NEW i \in 1 .. k, ~At(c[i], t) PROVE ~At(c[i], u)
    <2>1. i \in 1 .. Len(c)
      BY <1>1, <1>2
    <2>2. c[i] \in Nat
      BY <2>1, InTime
    <2> QED  BY <1>3, <2>2, DeskAssumption DEF At
  <1> QED  BY <1>1, <1>3 DEF HoldsNewest

(* What counts of the forgeries held is what counts of all, up to Counted.   *)
LEMMA HeldAreCounted ==
  ASSUME NEW f \in Seq(Time), NEW c \in Seq(Time), NEW t \in Time, HoldsNewest(f, c, t), InOrder(c)
  PROVE  Cardinality({i \in 1 .. Len(f) : At(f[i], t)})
           = Least(Counted, Cardinality({i \in 1 .. Len(c) : At(c[i], t)}))
  <1> DEFINE n == Len(f)
             m == Len(c)
             A == {i \in 1 .. n : At(f[i], t)}
             B == {i \in 1 .. m : At(c[i], t)}
  <1>1. PICK k \in Nat :
           /\ Suffix(f, c, k) /\ Len(f) <= Counted
           /\ Len(f) = Counted \/ \A i \in 1 .. k : ~At(c[i], t)
    BY DEF HoldsNewest
  <1>2. n \in Nat /\ m \in Nat /\ Counted \in Nat /\ n <= Counted
    BY <1>1, DeskAssumption
  <1>3. m = k + n /\ \A i \in 1 .. n : f[i] = c[k + i]
    BY <1>1 DEF Suffix
  <1> DEFINE B2 == {j \in B : j > k}
             h == [i \in A |-> k + i]
  <1> HIDE DEF n, m
  <1>4. /\ IsFiniteSet(1 .. n) /\ Cardinality(1 .. n) = n
        /\ IsFiniteSet(1 .. m)
    <2>1. IsFiniteSet(1 .. n) /\ Cardinality(1 .. n) = IF 1 > n THEN 0 ELSE n - 1 + 1
      BY <1>2, FS_Interval
    <2>2. IsFiniteSet(1 .. m)
      BY <1>2, FS_Interval
    <2> QED  BY <1>2, <2>1, <2>2
  <1>5. A \in SUBSET (1 .. n) /\ B \in SUBSET (1 .. m) /\ B2 \in SUBSET B
    OBVIOUS
  <1>6. ASSUME NEW i \in A PROVE k + i \in B2
    <2>1. i \in 1 .. n /\ At(f[i], t)
      OBVIOUS
    <2>2. k + i \in 1 .. m /\ k + i > k
      BY <1>1, <1>2, <1>3, <2>1
    <2>3. At(c[k + i], t)
      BY <1>3, <2>1
    <2> QED  BY <2>2, <2>3
  <1>7. ASSUME NEW j \in B2 PROVE j - k \in A /\ k + (j - k) = j
    <2>1. j \in 1 .. m /\ j > k /\ At(c[j], t)
      OBVIOUS
    <2>2. j - k \in 1 .. n /\ k + (j - k) = j
      BY <1>1, <1>2, <1>3, <2>1
    <2>3. f[j - k] = c[j]
      BY <1>3, <2>2
    <2> QED  BY <2>1, <2>2, <2>3
  <1>8. A \subseteq Nat
    BY <1>2, <1>5
  <1> HIDE DEF A, B, B2
  <1>9. IsFiniteSet(A) /\ Cardinality(A) <= n /\ IsFiniteSet(B)
    BY <1>4, <1>5, FS_Subset
  <1>10. Cardinality(A) \in Nat /\ Cardinality(B) \in Nat
    BY <1>9, FS_CardinalityType
  <1>11. Cardinality(B2) = Cardinality(A)
    <2>1. h \in [A -> B2]
      BY <1>6
    <2>2. ASSUME NEW i \in A, NEW j \in A, h[i] = h[j] PROVE i = j
      <3>1. i \in Nat /\ j \in Nat /\ k + i = k + j
        BY <1>8, <2>2
      <3> QED  BY <1>1, <3>1
    <2>3. ASSUME NEW j \in B2 PROVE \E i \in A : h[i] = j
      <3>1. j - k \in A /\ h[j - k] = j
        BY <1>7
      <3> QED  BY <3>1
    <2> HIDE DEF h
    <2>4. h \in Bijection(A, B2)
      BY <2>1, <2>2, <2>3 DEF Bijection, Injection, Surjection, IsInjective
    <2> QED  BY <1>9, <2>4, FS_Bijection DEF ExistsBijection
  <1>12. Cardinality(A) = Least(Counted, Cardinality(B))
    <2>1. CASE \A i \in 1 .. k : ~At(c[i], t)
      <3>1. ASSUME NEW j \in B PROVE j > k
        <4>1. j \in 1 .. m /\ At(c[j], t)
          BY DEF B
        <4>2. ~(j \in 1 .. k)
          BY <2>1, <4>1
        <4> QED  BY <1>1, <1>2, <4>1, <4>2
      <3>2. B2 = B
        BY <3>1 DEF B2
      <3> QED  BY <1>2, <1>9, <1>10, <1>11, <3>2 DEF Least
    <2>2. CASE \E i \in 1 .. k : At(c[i], t)
      <3>1. PICK i \in 1 .. k : At(c[i], t)
        BY <2>2
      <3>2. n = Counted
        BY <1>1, <3>1 DEF n
      <3>3. ASSUME NEW j \in 1 .. n PROVE At(f[j], t)
        BY <1>1, <3>1, EarlierEndEarlier DEF n
      <3>4. A = 1 .. n
        BY <3>3 DEF A
      <3>5. Cardinality(B2) <= Cardinality(B)
        BY <1>5, <1>9, FS_Subset
      <3>6. Cardinality(A) = Counted
        BY <1>4, <3>2, <3>4
      <3> QED  BY <1>2, <1>10, <1>11, <3>5, <3>6 DEF Least
    <2> QED  BY <2>1, <2>2
  <1> QED  BY <1>12 DEF A, B, n, m

(* Making an entry keeps every source's newest forgeries, except a forgotten *)
(* source's that count.                                                      *)
LEMMA MadeHoldsNewest ==
  ASSUME TypeOK, NewestAreHeld, NEW s \in Sources, NEW made \in WithEntry(peers, s),
         NEW q \in Sources \ lifted,
         peers[q] # None /\ made[q] = None => Recent(peers[q]) <= 0
  PROVE  HeldOf(made, q) \in Seq(Time) /\ HoldsNewest(HeldOf(made, q), certain[q], now)
  <1>1. peers \in Desks /\ made \in Desks /\ certain[q] \in Seq(Time) /\ now \in Time
    BY EntryMade DEF TypeOK, Desks
  <1>2. HoldsNewest(HeldOf(peers, q), certain[q], now) /\ InOrder(certain[q])
    BY DEF NewestAreHeld
  <1>3. ASSUME NEW desk \in Desks PROVE HeldOf(desk, q) \in Seq(Time)
    BY NoneAssumption DEF Desks, HeldOf, Attestation
  <1>4. CASE made[q] = peers[q]
    BY <1>1, <1>2, <1>3, <1>4 DEF HeldOf
  <1>5. CASE peers[q] = None /\ made[q] = Unheard
    <2>1. Unheard # None
      BY UnheardIsTyped, NoneAssumption
    <2>2. HeldOf(made, q) = HeldOf(peers, q)
      BY <1>5, <2>1 DEF HeldOf, Unheard
    <2> QED  BY <1>1, <1>2, <1>3, <2>2
  <1>6. CASE peers[q] # None /\ made[q] = None
    <2> DEFINE f == peers[q].forgedAt
               counted == {i \in DOMAIN f : Counts(f[i])}
    <2>1. f \in Seq(Time)
      BY <1>1, <1>6 DEF Desks, Attestation
    <2>2. HoldsNewest(f, certain[q], now)
      BY <1>2, <1>6 DEF HeldOf
    <2>3. counted = {}
      <3>1. Cardinality(counted) <= 0
        BY <1>6 DEF Recent
      <3>2. Len(f) \in Nat /\ DOMAIN f = 1 .. Len(f)
        BY <2>1
      <3>3. IsFiniteSet(DOMAIN f)
        BY <3>2, FS_Interval
      <3>4. IsFiniteSet(counted)
        BY <3>3, FS_Subset
      <3> HIDE DEF counted
      <3>5. Cardinality(counted) \in Nat
        BY <3>4, FS_CardinalityType
      <3> QED  BY <3>1, <3>4, <3>5, FS_EmptySet
    <2>4. \A i \in 1 .. Len(f) : ~At(f[i], now)
      <3>1. \A i \in DOMAIN f : ~Counts(f[i])
        BY <2>3
      <3>2. DOMAIN f = 1 .. Len(f)
        BY <2>1
      <3> HIDE DEF f
      <3> QED  BY <3>1, <3>2 DEF Counts, At
    <2> HIDE DEF f
    <2>5. HoldsNewest(<<>>, certain[q], now)
      BY <1>1, <1>2, <2>1, <2>2, <2>4, HoldsDropped
    <2> QED  BY <1>6, <2>5 DEF HeldOf
  <1>7. \/ made[q] = peers[q]
        \/ peers[q] = None /\ made[q] = Unheard
        \/ peers[q] # None /\ made[q] = None
    BY <1>1, EntryMade
  <1> QED  BY <1>4, <1>5, <1>6, <1>7

LEMMA OrderKept ==
  ASSUME NEW c \in Seq(Time), NEW t \in Time, InOrder(c), \A i \in 1 .. Len(c) : c[i] <= t
  PROVE  InOrder(Append(c, t)) /\ \A i \in 1 .. Len(Append(c, t)) : Append(c, t)[i] <= t
  <1> DEFINE m == Len(c)
             cx == Append(c, t)
  <1>1. /\ m \in Nat /\ Len(cx) = m + 1 /\ cx[m + 1] = t
        /\ \A i \in 1 .. m : cx[i] = c[i]
    BY Appended
  <1>2. t \in Nat
    BY DeskAssumption DEF Time
  <1> HIDE DEF cx
  <1>3. ASSUME NEW i \in 1 .. m + 1 PROVE cx[i] <= t
    BY <1>1, <1>2
  <1>4. ASSUME NEW i \in 1 .. m + 1, NEW j \in 1 .. m + 1, i <= j PROVE cx[i] <= cx[j]
    <2> HIDE DEF m
    <2>1. CASE j = m + 1
      BY <1>1, <1>3, <2>1
    <2>2. CASE j # m + 1
      <3>1. i \in 1 .. m /\ j \in 1 .. m
        BY <1>1, <1>4, <2>2
      <3>2. c[i] <= c[j]
        BY <1>4, <3>1 DEF InOrder, m
      <3> QED  BY <1>1, <3>1, <3>2
    <2> QED  BY <2>1, <2>2
  <1> QED  BY <1>1, <1>3, <1>4 DEF InOrder, cx

(* One source is given an entry, and something is written to it: what it and *)
(* the others hold then.                                                     *)
LEMMA WrittenAt ==
  ASSUME NEW made \in Desks, NEW s \in Sources, NEW a \in Attestation, made[s] \in Attestation,
         peers' = [made EXCEPT ![s] = a], NEW q \in Sources
  PROVE  /\ HeldOf(peers', q) = IF q = s THEN a.forgedAt ELSE HeldOf(made, q)
         /\ HeldOf(made, s) = made[s].forgedAt
  <1>1. a # None /\ made[s] # None
    BY NoneAssumption
  <1> QED  BY <1>1 DEF HeldOf, Desks

(* Until then each source holds what it held, but for those just forgotten.  *)
LEMMA WrittenHolds ==
  ASSUME TypeOK, NewestAreHeld, NEW s \in Sources, NEW made \in WithEntry(peers, s),
         NEW a \in Attestation, peers' = [made EXCEPT ![s] = a], Lifts,
         NEW q \in Sources \ lifted'
  PROVE  /\ q \in Sources \ lifted
         /\ HeldOf(made, q) \in Seq(Time) /\ HoldsNewest(HeldOf(made, q), certain[q], now)
  <1>1. certain \in [Sources -> Seq(Time)] /\ now \in Time /\ peers \in Desks
    BY DEF TypeOK, Desks
  <1>2. made \in Desks /\ made[s] # None /\ a # None
    BY <1>1, EntryMade, NoneAssumption
  <1>3. q \in Sources \ lifted /\ (q \in Forgotten => ~(Recent(peers[q]) > 0))
    BY DEF Lifts
  <1>4. ASSUME peers[q] # None, made[q] = None PROVE Recent(peers[q]) <= 0
    <2>1. q # s /\ peers'[q] = None
      BY <1>2, <1>4 DEF Desks
    <2>2. ~(Recent(peers[q]) > 0)
      BY <1>3, <1>4, <2>1 DEF Forgotten
    <2>3. Recent(peers[q]) \in Nat
      <3> DEFINE f == peers[q].forgedAt
      <3>1. f \in Seq(Time)
        BY <1>1, <1>4 DEF Desks, Attestation
      <3>2. Len(f) \in Nat /\ DOMAIN f = 1 .. Len(f)
        BY <3>1
      <3>3. IsFiniteSet(DOMAIN f)
        BY <3>2, FS_Interval
      <3>4. IsFiniteSet({i \in DOMAIN f : Counts(f[i])})
        BY <3>3, FS_Subset
      <3> QED  BY <3>4, FS_CardinalityType DEF Recent
    <2> QED  BY <2>2, <2>3
  <1>5. HeldOf(made, q) \in Seq(Time) /\ HoldsNewest(HeldOf(made, q), certain[q], now)
    BY <1>3, <1>4, MadeHoldsNewest
  <1> QED  BY <1>3, <1>5

LEMMA NewestStayHeld ==
  ASSUME TypeOK, NewestAreHeld, [Next]_vars
  PROVE  NewestAreHeld'
  <1>1. certain \in [Sources -> Seq(Time)] /\ now \in Time /\ peers \in Desks
    BY DEF TypeOK, Desks
  <1>2. ASSUME NEW s \in Sources, RecordForgery(s), UNCHANGED now PROVE NewestAreHeld'
    <2>1. PICK made \in WithEntry(peers, s) : peers' = [made EXCEPT ![s] = Forged(@)]
      BY <1>2 DEF RecordForgery
    <2>2. made \in Desks /\ made[s] \in Attestation
      BY <1>1, <2>1, EntryMade
    <2> DEFINE a == Forged(made[s])
               f == made[s].forgedAt
    <2>3. a \in Attestation /\ peers' = [made EXCEPT ![s] = a]
      BY <1>1, <2>1, <2>2, ForgedIsTyped DEF Desks
    <2>4. a.forgedAt = Append(IF Len(f) >= Counted THEN Tail(f) ELSE f, now)
      BY <2>2 DEF Forged, Attestation
    <2>5. certain' = [certain EXCEPT ![s] = Append(certain[s], now)] /\ Lifts
      BY <1>1, <1>2 DEF RecordForgery
    <2> HIDE DEF a, f
    <2>6. a \in Attestation /\ peers' = [made EXCEPT ![s] = a] /\ Lifts
      BY <2>3, <2>5
    <2>7. ASSUME NEW q \in Sources \ lifted'
          PROVE  HoldsNewest(HeldOf(peers', q), certain'[q], now)
      <3>1. HeldOf(made, q) \in Seq(Time) /\ HoldsNewest(HeldOf(made, q), certain[q], now)
        BY <2>1, <2>6, WrittenHolds
      <3>2. /\ HeldOf(peers', q) = IF q = s THEN a.forgedAt ELSE HeldOf(made, q)
            /\ HeldOf(made, s) = made[s].forgedAt
        BY <2>2, <2>6, WrittenAt
      <3>3. CASE q # s
        <4>1. certain'[q] = certain[q]
          BY <1>1, <2>5, <3>3
        <4> QED  BY <3>1, <3>2, <3>3, <4>1
      <3>4. CASE q = s
        <4>1. certain'[q] = Append(certain[q], now) /\ certain[q] \in Seq(Time)
          BY <1>1, <2>5, <3>4
        <4>2. f \in Seq(Time) /\ HoldsNewest(f, certain[q], now)
          BY <3>1, <3>2, <3>4 DEF f
        <4>3. HoldsNewest(a.forgedAt, Append(certain[q], now), now)
          BY <1>1, <2>4, <4>1, <4>2, HoldsAppended
        <4> QED  BY <3>2, <3>4, <4>1, <4>3
      <3> QED  BY <3>3, <3>4
    <2>8. ASSUME NEW q \in Sources
          PROVE  InOrder(certain'[q]) /\ \A i \in 1 .. Len(certain'[q]) : certain'[q][i] <= now
      <3>1. /\ InOrder(certain[q]) /\ \A i \in 1 .. Len(certain[q]) : certain[q][i] <= now
            /\ certain[q] \in Seq(Time)
        BY <1>1 DEF NewestAreHeld
      <3>2. certain'[q] = certain[q] \/ certain'[q] = Append(certain[q], now)
        BY <1>1, <2>5
      <3> QED  BY <1>1, <3>1, <3>2, OrderKept
    <2> QED  BY <1>2, <2>7, <2>8 DEF NewestAreHeld
  <1>3. ASSUME NEW s \in Sources, NEW stamp \in Fresh, NEW token \in Token \cup {None},
               NEW made \in WithEntry(peers, s), Check(token) \notin {"ignored", "forged"},
               peers' = [made EXCEPT ![s] = Applied(@, Check(token), token, stamp)],
               Lifts, UNCHANGED <<certain, now>>
        PROVE  NewestAreHeld'
    <2>1. made \in Desks /\ made[s] \in Attestation
      BY <1>1, EntryMade
    <2> DEFINE a == Applied(made[s], Check(token), token, stamp)
    <2>2. a \in Attestation /\ peers' = [made EXCEPT ![s] = a]
      BY <1>1, <1>3, <2>1, AppliedIsTyped DEF Desks
    <2>3. a.forgedAt = made[s].forgedAt
      BY <2>1 DEF Applied, Attestation
    <2> HIDE DEF a
    <2>4. a \in Attestation /\ peers' = [made EXCEPT ![s] = a] /\ Lifts
      BY <1>3, <2>2
    <2>5. ASSUME NEW q \in Sources \ lifted'
          PROVE  HoldsNewest(HeldOf(peers', q), certain[q], now)
      <3>1. HoldsNewest(HeldOf(made, q), certain[q], now)
        BY <2>4, WrittenHolds
      <3>2. /\ HeldOf(peers', q) = IF q = s THEN a.forgedAt ELSE HeldOf(made, q)
            /\ HeldOf(made, s) = made[s].forgedAt
        BY <2>1, <2>4, WrittenAt
      <3> QED  BY <2>3, <3>1, <3>2
    <2> QED  BY <1>3, <2>5 DEF NewestAreHeld
  <1>4. ASSUME UNCHANGED <<peers, certain, lifted, now>> PROVE NewestAreHeld'
    BY <1>4 DEF NewestAreHeld, HeldOf
  <1>5. ASSUME NEW s \in Sources, NEW stamp \in Fresh, NEW token \in Token \cup {None},
               OnHeartbeat(s, stamp, token)
        PROVE  NewestAreHeld'
    <2>1. CASE UNCHANGED <<peers, history>>
      BY <1>4, <1>5, <2>1 DEF OnHeartbeat, history
    <2>2. CASE RecordForgery(s)
      BY <1>2, <1>5, <2>2 DEF OnHeartbeat
    <2>3. CASE /\ Check(token) \notin {"ignored", "forged"}
               /\ \E made \in WithEntry(peers, s) :
                    peers' = [made EXCEPT ![s] = Applied(@, Check(token), token, stamp)]
               /\ Lifts
               /\ UNCHANGED certain
      BY <1>3, <1>5, <2>3 DEF OnHeartbeat
    <2> QED  BY <1>5, <2>1, <2>2, <2>3 DEF OnHeartbeat
  <1>6. ASSUME NEW s \in Sources, ForgedRecord(s) PROVE NewestAreHeld'
    BY <1>2, <1>6 DEF ForgedRecord
  <1>7. ASSUME NEW s \in Sources, Connect(s) \/ Disconnect(s) PROVE NewestAreHeld'
    BY <1>4, <1>7 DEF Connect, Disconnect, history
  <1>8. CASE ScoreTimer \/ UNCHANGED vars
    BY <1>4, <1>8 DEF ScoreTimer, vars, history
  <1>9. CASE Tick
    <2>1. now' = now + 1 /\ now \in Nat /\ now' \in Nat /\ UNCHANGED <<peers, certain, lifted>>
      BY <1>1, <1>9, DeskAssumption DEF Tick, Time, history
    <2>2. ASSUME NEW q \in Sources \ lifted
          PROVE  HoldsNewest(HeldOf(peers, q), certain[q], now')
      <3>1. HeldOf(peers, q) \in Seq(Time) /\ certain[q] \in Seq(Time)
        BY <1>1, NoneAssumption DEF Desks, HeldOf, Attestation
      <3>2. HoldsNewest(HeldOf(peers, q), certain[q], now) /\ now <= now'
        BY <2>1 DEF NewestAreHeld
      <3> QED  BY <2>1, <3>1, <3>2, HoldsLater
    <2>3. ASSUME NEW q \in Sources
          PROVE  InOrder(certain[q]) /\ \A i \in 1 .. Len(certain[q]) : certain[q][i] <= now'
      <3>1. /\ InOrder(certain[q]) /\ certain[q] \in Seq(Time)
            /\ \A i \in 1 .. Len(certain[q]) : certain[q][i] <= now
        BY <1>1 DEF NewestAreHeld
      <3>2. ASSUME NEW i \in 1 .. Len(certain[q]) PROVE certain[q][i] <= now'
        <4>1. certain[q][i] \in Nat
          BY <3>1, InTime
        <4> QED  BY <2>1, <3>1, <4>1
      <3> QED  BY <3>1, <3>2
    <2> QED  BY <2>1, <2>2, <2>3 DEF NewestAreHeld, HeldOf
  <1> QED  BY <1>5, <1>6, <1>7, <1>8, <1>9 DEF Next

(* Exactly the forgeries of the window count against a source, up to those   *)
(* that reach the floor, unless it was forgotten with one that counts.       *)
THEOREM PenaltiesAreRemembered == Spec => []PenaltyIsRemembered
  <1>1. Init => NewestAreHeld
    <2> SUFFICES ASSUME Init PROVE NewestAreHeld
      OBVIOUS
    <2>1. Len(<<>>) = 0
      OBVIOUS
    <2>2. ASSUME NEW s \in Sources PROVE certain[s] = <<>> /\ HeldOf(peers, s) = <<>>
      BY DEF Init, HeldOf
    <2>3. InOrder(<<>>) /\ HoldsNewest(<<>>, <<>>, now)
      <3>1. Suffix(<<>>, <<>>, 0)
        BY <2>1 DEF Suffix
      <3> QED  BY <2>1, <3>1, DeskAssumption DEF InOrder, HoldsNewest
    <2> QED  BY <2>1, <2>2, <2>3 DEF NewestAreHeld
  <1>2. TypeOK /\ NewestAreHeld /\ [Next]_vars => NewestAreHeld'
    BY NewestStayHeld
  <1>3. TypeOK /\ NewestAreHeld => PenaltyIsRemembered
    <2> SUFFICES ASSUME TypeOK, NewestAreHeld, NEW s \in Sources \ lifted
                 PROVE  (IF peers[s] = None THEN 0 ELSE Recent(peers[s]))
                          = Least(Counted, Cardinality(CountedAgainst(s)))
      BY DEF PenaltyIsRemembered
    <2> DEFINE f == HeldOf(peers, s)
               c == certain[s]
    <2>1. f \in Seq(Time) /\ c \in Seq(Time) /\ now \in Time
      BY NoneAssumption DEF TypeOK, HeldOf, Attestation
    <2>2. HoldsNewest(f, c, now) /\ InOrder(c)
      BY DEF NewestAreHeld
    <2>3. DOMAIN f = 1 .. Len(f) /\ DOMAIN c = 1 .. Len(c)
      BY <2>1
    <2>4. (IF peers[s] = None THEN 0 ELSE Recent(peers[s])) = Cardinality({i \in DOMAIN f : At(f[i], now)})
      <3>1. CASE peers[s] = None
        <4>1. {i \in DOMAIN f : At(f[i], now)} = {}
          BY <3>1 DEF HeldOf
        <4> QED  BY <3>1, <4>1, FS_EmptySet
      <3>2. CASE peers[s] # None
        BY <3>2 DEF HeldOf, Recent, Counts, At
      <3> QED  BY <3>1, <3>2
    <2>5. CountedAgainst(s) = {i \in DOMAIN c : At(c[i], now)}
      BY DEF CountedAgainst, Counts, At
    <2> HIDE DEF f, c
    <2>6. Cardinality({i \in 1 .. Len(f) : At(f[i], now)})
            = Least(Counted, Cardinality({i \in 1 .. Len(c) : At(c[i], now)}))
      BY <2>1, <2>2, HeldAreCounted
    <2> QED  BY <2>3, <2>4, <2>5, <2>6
  <1> QED  BY <1>1, <1>2, <1>3, TypeCorrect, PTL DEF Spec
=============================================================================
