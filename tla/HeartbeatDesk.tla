---------------------------- MODULE HeartbeatDesk ----------------------------
(***************************************************************************)
(* What a node holds for and against the sources of heartbeats (por.rs,    *)
(* HeartbeatDesk), and the blocks that follow from it (node.rs,            *)
(* refresh_scores): whose registration is valid, who keeps the bonus of a  *)
(* pseudonym, whose forgeries still count, and who is forgotten when the   *)
(* bookkeeping is full.                                                    *)
(*                                                                         *)
(* A source's heartbeats reach this node through any peer, so a source     *)
(* need not be connected. One issuer is trusted; what its keys, as this    *)
(* node has them, say of a token is part of the token, and may be another  *)
(* thing each time. Wall clock and monotonic clock are one clock. The rate *)
(* limit per source only keeps heartbeats out, and is left out.            *)
(***************************************************************************)
EXTENDS Integers, FiniteSets, Sequences

CONSTANTS
    Sources,        \* PeerIds, as integers in the order of their names
    Pseudonyms,
    None,           \* no entry, no token, no pseudonym
    MaxTracked,     \* MAX_TRACKED_SOURCES
    Counted,        \* COUNTED_FORGERIES
    BonusPeers,     \* BONUS_PEERS_PER_PSEUDONYM
    ForgeryWindow,  \* FORGERY_WINDOW_MS, in ticks
    Lifetime,       \* exp - iat of the issuer's tokens, in ticks
    ClockSkew,      \* CLOCK_SKEW_SECS, in ticks
    MaxPast,        \* MAX_PAST_SKEW_MS, in ticks
    MaxFuture,      \* MAX_FUTURE_SKEW_MS, in ticks
    IssueTimes,     \* bound of the model: when tokens were issued
    MaxForgeries,   \* bound of the model: forgeries of all sources
    MaxConnected,   \* bound of the model: peers connected at a time
    MaxTime         \* bound of the model: the last tick

ASSUME DeskAssumption ==
    /\ Sources \subseteq Int /\ IsFiniteSet(Sources)
    /\ MaxTracked \in Nat \ {0} /\ Counted \in Nat \ {0} /\ BonusPeers \in Nat
    /\ ForgeryWindow \in Nat \ {0} /\ Lifetime \in Nat /\ ClockSkew \in Nat
    /\ MaxPast \in Nat /\ MaxFuture \in Nat
    /\ IssueTimes \subseteq Nat /\ MaxForgeries \in Nat /\ MaxConnected \in Nat /\ MaxTime \in Nat \ {0}

VARIABLES
    peers,      \* HeartbeatDesk.peers
    connected,  \* the Swarm's connected peers
    blocked,    \* the block list
    now,
    refreshed,  \* history: when scores were last recomputed
    certain,    \* history: when each source forged
    lifted      \* history: sources forgotten with a forgery that counted

history == <<certain, lifted>>
vars == <<peers, connected, blocked, now, refreshed, history>>

Time == 1 .. MaxTime
Stamp == 0 .. MaxTime + MaxFuture
Never == 0  \* valid_since_ms and exp of a source without a valid token

Attestation ==
    [status: {"none", "valid", "expired", "revoked"}, sub: Pseudonyms \cup {None},
     exp: Nat, heartbeat: Stamp, forgedAt: Seq(Time), since: 0 .. MaxTime]
ASSUME NoneAssumption == None \notin Attestation \cup Pseudonyms

(* PeerAttestation::default                                                  *)
Unheard == [status |-> "none", sub |-> None, exp |-> Never,
            heartbeat |-> 0, forgedAt |-> <<>>, since |-> Never]

TypeOK ==
    /\ peers \in [Sources -> Attestation \cup {None}]
    /\ connected \subseteq Sources
    /\ blocked \subseteq Sources
    /\ now \in Time
    /\ refreshed \in 0 .. now
    /\ certain \in [Sources -> Seq(Time)]
    /\ lifted \subseteq Sources

Init ==
    /\ peers = [s \in Sources |-> None]
    /\ connected = {} /\ blocked = {}
    /\ now = 1 /\ refreshed = 0
    /\ certain = [s \in Sources |-> <<>>]
    /\ lifted = {}

-----------------------------------------------------------------------------
(* A token as check_parsed tells them apart: its key is unknown here, or it  *)
(* is forged (a bad signature, or another source's token), or it is this     *)
(* source's own, revoked or not, for a pseudonym and issued at some time.    *)
Token == [seal: {"good", "revoked"}, sub: Pseudonyms, iat: IssueTimes]
            \cup [seal: {"unknown", "forged"}]

(* check_parsed, in its order. A token that is malformed or not decidable    *)
(* here changes nothing: the heartbeat is rejected or ignored.               *)
Check(token) ==
    IF token = None THEN "none"
    ELSE IF token.seal = "unknown" THEN "ignored"
    ELSE IF token.seal = "forged" THEN "forged"
    ELSE IF token.iat > now + ClockSkew THEN "ignored"
    ELSE IF token.seal = "revoked" THEN "revoked"
    ELSE IF now > token.iat + Lifetime + ClockSkew THEN "expired"
    ELSE "valid"

Tracked(desk) == {s \in Sources : desk[s] # None}
Counts(t) == now < t + ForgeryWindow
Recent(a) == Cardinality({i \in DOMAIN a.forgedAt : Counts(a.forgedAt[i])})
Unexpired(a) == now <= a.exp + ClockSkew

(* entry: the source's entry, made if need be. When the bookkeeping is full, *)
(* one of those heard from longest ago is forgotten, among the sources with  *)
(* a forgery that counts only if all have one.                               *)
BugRankByAge(a) == <<0, a.heartbeat>>
Rank(a) == <<IF Recent(a) > 0 THEN 1 ELSE 0, a.heartbeat>>
Before(x, y) == x[1] < y[1] \/ (x[1] = y[1] /\ x[2] < y[2])
Oldest(desk) ==
    {s \in Tracked(desk) : \A r \in Tracked(desk) : ~Before(Rank(desk[r]), Rank(desk[s]))}
BugFullOneLate(desk) == Cardinality(Tracked(desk)) > MaxTracked
Full(desk) == Cardinality(Tracked(desk)) >= MaxTracked
WithEntry(desk, s) ==
    IF desk[s] # None THEN {desk}
    ELSE IF Full(desk)
    THEN {[desk EXCEPT ![r] = None, ![s] = Unheard] : r \in Oldest(desk)}
    ELSE {[desk EXCEPT ![s] = Unheard]}

(* record_forgery on an entry: the newest COUNTED_FORGERIES are kept.        *)
BugKeepsTheFirst(a) ==
    [a EXCEPT !.forgedAt = IF Len(@) >= Counted THEN @ ELSE Append(@, now)]
Forged(a) ==
    [a EXCEPT !.forgedAt = Append(IF Len(@) >= Counted THEN Tail(@) ELSE @, now)]

(* A newer heartbeat on an entry. A renewal keeps the source's place.        *)
BugRenewalStartsOver(a, verdict, token) == IF verdict = "valid" THEN now ELSE Never
Since(a, verdict, token) ==
    IF verdict # "valid" THEN Never
    ELSE IF a.status = "valid" /\ a.sub = token.sub /\ a.since # Never THEN a.since
    ELSE now
Applied(a, verdict, token, stamp) ==
    [a EXCEPT !.status = verdict,
              !.sub = IF token = None THEN None ELSE token.sub,
              !.exp = IF token = None THEN Never ELSE token.iat + Lifetime,
              !.heartbeat = stamp,
              !.since = Since(a, verdict, token)]

-----------------------------------------------------------------------------
(* scores, of the peers listed.                                              *)
RegisteredBonus == 20
ForgeryPenalty == -100
ForgeryFloor == -300
Graylist == -80  \* libp2p's default threshold

Registered(desk, listed) ==
    {s \in listed : /\ desk[s] # None /\ desk[s].status = "valid"
                    /\ Recent(desk[s]) = 0 /\ desk[s].since # Never /\ Unexpired(desk[s])}
Ahead(desk, r, s) ==
    /\ desk[r].sub = desk[s].sub
    /\ Before(<<desk[r].since, r>>, <<desk[s].since, s>>)
Bonus(desk, listed) ==
    LET registered == Registered(desk, listed)
    IN  {s \in registered : Cardinality({r \in registered : Ahead(desk, r, s)}) < BonusPeers}
Greatest(a, b) == IF a >= b THEN a ELSE b
Scores(desk, listed) ==
    LET bonus == Bonus(desk, listed)
    IN  [s \in listed |->
            IF desk[s] = None THEN 0
            ELSE Greatest(Recent(desk[s]) * ForgeryPenalty, ForgeryFloor)
                   + (IF s \in bonus THEN RegisteredBonus ELSE 0)]

(* refresh_scores, after every decision and on a timer: connected peers at   *)
(* or below the threshold are blocked, blocked ones above it let back in.    *)
(* The connections of a blocked peer close later (Disconnect).               *)
Graylisted(listed) ==
    LET scores == Scores(peers', listed)
    IN  {s \in listed : scores[s] <= Graylist}
BugOnlyConnected == (blocked \cap connected) \ Graylisted(connected)
LetBackIn == blocked \ Graylisted(blocked)
RefreshScores ==
    /\ blocked' = (blocked \cup Graylisted(connected)) \ LetBackIn
    /\ refreshed' = now

-----------------------------------------------------------------------------
Forgotten == {s \in Sources : peers[s] # None /\ peers'[s] = None}
Lifts == lifted' = lifted \cup {s \in Forgotten : Recent(peers[s]) > 0}

(* record_forgery                                                            *)
RecordForgery(s) ==
    /\ Cardinality({x \in Sources \X (1 .. MaxForgeries) : x[2] \in DOMAIN certain[x[1]]}) < MaxForgeries
    /\ \E desk \in WithEntry(peers, s) : peers' = [desk EXCEPT ![s] = Forged(@)]
    /\ certain' = [certain EXCEPT ![s] = Append(@, now)]
    /\ Lifts

HeartbeatOf(s) == IF peers[s] = None THEN 0 ELSE peers[s].heartbeat
Fresh == {stamp \in Stamp \ {0} : now - MaxPast <= stamp /\ stamp <= now + MaxFuture}

(* on_heartbeat of a fresh heartbeat, with whatever token it carries.        *)
OnHeartbeat(s, stamp, token) ==
    LET verdict == Check(token)
    IN  /\ \/ verdict = "ignored" /\ UNCHANGED <<peers, history>>
           \/ verdict = "forged" /\ RecordForgery(s)
           \/ /\ verdict \notin {"ignored", "forged"}
              /\ stamp <= HeartbeatOf(s)
              /\ UNCHANGED <<peers, history>>
           \/ /\ verdict \notin {"ignored", "forged"}
              /\ stamp > HeartbeatOf(s)
              /\ \E desk \in WithEntry(peers, s) :
                    peers' = [desk EXCEPT ![s] = Applied(@, verdict, token, stamp)]
              /\ Lifts
              /\ UNCHANGED certain
        /\ RefreshScores
        /\ UNCHANGED <<connected, now>>

(* PUT_VALUE of a record that no honest node builds, from a connected peer.  *)
ForgedRecord(s) ==
    /\ s \in connected
    /\ RecordForgery(s)
    /\ RefreshScores
    /\ UNCHANGED <<connected, now>>

ScoreTimer ==
    /\ UNCHANGED peers
    /\ RefreshScores
    /\ UNCHANGED <<connected, now, history>>

(* The block list refuses a blocked peer's connections.                      *)
Connect(s) ==
    /\ s \notin blocked \cup connected
    /\ Cardinality(connected) < MaxConnected
    /\ connected' = connected \cup {s}
    /\ UNCHANGED <<peers, blocked, now, refreshed, history>>

Disconnect(s) ==
    /\ s \in connected
    /\ connected' = connected \ {s}
    /\ UNCHANGED <<peers, blocked, now, refreshed, history>>

Tick ==
    /\ now < MaxTime
    /\ now' = now + 1
    /\ UNCHANGED <<peers, connected, blocked, refreshed, history>>

Next ==
    \/ \E s \in Sources :
        \/ \E stamp \in Fresh, token \in Token \cup {None} : OnHeartbeat(s, stamp, token)
        \/ ForgedRecord(s) \/ Connect(s) \/ Disconnect(s)
    \/ ScoreTimer \/ Tick

Spec == Init /\ [][Next]_vars

-----------------------------------------------------------------------------
(* "Identities are free to mint, so the bookkeeping must not grow with them" *)
(* - and yet a source is always heard, whoever has to be forgotten for it.   *)
TrackedIsBounded == Cardinality(Tracked(peers)) <= MaxTracked

(* Whatever comes in between - renewals, other tokens, others' heartbeats -  *)
(* exactly the forgeries of the window count against a source, up to those   *)
(* that reach the floor; unless it was forgotten.                            *)
CountedAgainst(s) == {i \in DOMAIN certain[s] : Counts(certain[s][i])}
Least(a, b) == IF a <= b THEN a ELSE b
PenaltyIsRemembered ==
    \A s \in Sources \ lifted :
        (IF peers[s] = None THEN 0 ELSE Recent(peers[s]))
          = Least(Counted, Cardinality(CountedAgainst(s)))

(* A source with a forgery that counts is forgotten only when every source   *)
(* in the books has one.                                                     *)
ForgersAreForgottenLast ==
    [][(\E s \in Forgotten : Recent(peers[s]) > 0)
         => \A s \in Tracked(peers) : Recent(peers[s]) > 0]_vars

(* A pseudonym's bonus goes by how long a source has been registered: two    *)
(* sources that stay registered under it keep their order, whatever renewals *)
(* arrive in what order.                                                     *)
QueueOrderHolds ==
    [][\A r, s \in Registered(peers, Sources) :
         (/\ Ahead(peers, r, s) /\ {r, s} \subseteq Registered(peers', Sources)
          /\ peers'[r].sub = peers[r].sub /\ peers'[s].sub = peers[s].sub)
            => Ahead(peers', r, s)]_vars

(* Only a forgery gets a source blocked, and "no block outlasts" its window: *)
(* at the last refresh it still counted, connected or not.                   *)
BlocksAreEarned ==
    \A s \in blocked : \E i \in DOMAIN certain[s] : refreshed < certain[s][i] + ForgeryWindow
=============================================================================
