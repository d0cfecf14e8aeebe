--------------------------- MODULE BootstrapKeeper ---------------------------
(***************************************************************************)
(* The bootstrap keeper of a P2P node: it redials a configured bootstrap   *)
(* node when none is connected, one at a time, backing off between         *)
(* failures (Keeper and Outbound in p2p/outbound.rs, keep_bootstrap and    *)
(* the events of the loop in p2p/node.rs).  The Swarm's dials and          *)
(* connections, the nodes at the configured addresses and the time are the *)
(* environment.  Deadlines are the ticks that are left until them, so an   *)
(* elapsed deadline and none, which the keeper treats alike, are both 0.   *)
(***************************************************************************)
EXTENDS Integers, FiniteSets

CONSTANTS Addrs,              \* number of configured addresses
          Peers,              \* identities bootstrap nodes may have
          Hosts, Configured,  \* per address: who answers at first, the /p2p/ part
          ConnIds,            \* dials and connections at one time
          First, BackoffMax, JitterPart, CheckInterval, Stable,   \* in ticks
          MaxFailures,        \* failures beyond which the backoff grows no more
          MaxFaults, MaxRekeys, \* bounds of the model
          None, Unknown       \* no dial; a PeerId not learnt yet

Slots == 0 .. Addrs - 1

Doubled(n) == IF First * 2^n < BackoffMax THEN First * 2^n ELSE BackoffMax
Jittered(d) == d - d \div JitterPart .. d + d \div JitterPart

ASSUME KeeperAssumption ==
  /\ Addrs \in Nat \ {0}
  /\ Hosts \in [Slots -> Peers] /\ Configured \in [Slots -> Peers \cup {Unknown}]
  /\ None \notin ConnIds /\ Unknown \notin Peers
  /\ First \in Nat \ {0} /\ BackoffMax \in Nat \ {0} /\ JitterPart \in Nat \ {0, 1}
  /\ CheckInterval \in Nat /\ Stable \in Nat /\ MaxFailures \in Nat
  /\ MaxFaults \in Nat /\ MaxRekeys \in Nat
  /\ First * 2^MaxFailures >= BackoffMax /\ \A n \in 0 .. MaxFailures : 2^n \in Nat

VARIABLES
  conn,        \* Outbound.pending, Outbound.up_since and the Swarm's connections
  keeper,      \* [ids, next, failures, wait, inFlight]: the fields of Keeper
  at, up,      \* who answers at each address, and whether anyone does
  faults, rekeys,
  due          \* history: failures in a row, the ticks without a dial they call for

world == <<at, up, rekeys>>
vars == <<conn, keeper, at, up, faults, rekeys, due>>

Free == [is |-> "free"]
Dialling(i, id) == [is |-> "dialling", addr |-> i, expects |-> id]
Open(p, tagged) == [is |-> "open", peer |-> p, tagged |-> tagged, age |-> 0]

FreeIds(cs) == {c \in ConnIds : cs[c] = Free}
OpenTo(cs, p) == {c \in ConnIds : cs[c].is = "open" /\ cs[c].peer = p}
AtMost(n, max) == IF n < max THEN n ELSE max

-----------------------------------------------------------------------------
\* Keeper::is_bootstrap and Keeper::connected: only known PeerIds count.
IsBootstrap(k, p) == \E i \in Slots : k.ids[i] = p
Connected(k, cs) == {p \in Peers : IsBootstrap(k, p) /\ OpenTo(cs, p) # {}}

\* Mutant: the next address is always the first.
BugRotate(i) == 0

Rotate(i) == (i + 1) % Addrs

\* Keeper::due
Due(k, cs) == Connected(k, cs) = {} /\ k.inFlight = None /\ k.wait = 0

\* Keeper::back_off, with the jitter drawn.
BackOff(k, wait) == [k EXCEPT !.failures = AtMost(@ + 1, MaxFailures), !.wait = wait]

\* Keeper::up: not yet a success, the failures stay.
Up(k) == [k EXCEPT !.inFlight = None, !.wait = 0]

\* Mutant: the dial that failed stays in flight.
BugFailed(k, wait) == BackOff(k, wait)

Failed(k, wait) == BackOff([k EXCEPT !.inFlight = None], wait)

\* Mutant: a connection that closed at once is a success too.
BugShort(c) == FALSE

\* The connection is a bootstrap dial's, and closed before KEEPER_STABLE: up_since
\* knows the age of no other.
Short(c) == conn[c].tagged /\ conn[c].age < Stable

\* history: what one more failure calls for, and what none does. The end of the last
\* bootstrap connection is a failure when a bootstrap dial made it and it was short.
OneMore(h) == [streak |-> AtMost(h.streak + 1, MaxFailures),
               ticks |-> Doubled(h.streak) - Doubled(h.streak) \div JitterPart]
Settled == [streak |-> 0, ticks |-> 0]
AfterClose(r, h) == IF r.tagged /\ r.age < Stable THEN OneMore(h) ELSE Settled

-----------------------------------------------------------------------------
\* keep_bootstrap, once the keeper is k and the connections are cs. The Swarm may
\* refuse to start the dial: another one to the same peer is under way.
KeepBootstrap(k, cs, h) ==
  LET turn == [k EXCEPT !.next = Rotate(@)]
  IN  \/ /\ ~Due(k, cs)
         /\ conn' = cs /\ keeper' = k /\ due' = h
         /\ UNCHANGED faults
      \/ /\ Due(k, cs)
         /\ \E c \in FreeIds(cs) :
              /\ conn' = [cs EXCEPT ![c] = Dialling(k.next, k.ids[k.next])]
              /\ keeper' = [turn EXCEPT !.inFlight = c]
         /\ due' = h
         /\ UNCHANGED faults
      \/ /\ Due(k, cs)
         /\ faults < MaxFaults /\ faults' = faults + 1
         /\ conn' = cs
         /\ \E wait \in Jittered(Doubled(k.failures)) : keeper' = BackOff(turn, wait)
         /\ due' = OneMore(h)

\* The startup dials of the configured addresses are out, tagged.
Init ==
  /\ \E c \in [Slots -> ConnIds] :
       /\ \A i, j \in Slots : c[i] = c[j] => i = j
       /\ conn = [d \in ConnIds |-> IF \E i \in Slots : c[i] = d
                    THEN LET i == CHOOSE j \in Slots : c[j] = d IN Dialling(i, Configured[i])
                    ELSE Free]
  /\ keeper = [ids |-> Configured, next |-> 0, failures |-> 0,
               wait |-> CheckInterval, inFlight |-> None]
  /\ at = Hosts /\ up \in [Slots -> BOOLEAN]
  /\ faults = 0 /\ rekeys = 0
  /\ due = Settled

\* The fallback timer, or the wake-up at the backoff's end.
Check ==
  /\ Due(keeper, conn)
  /\ KeepBootstrap(keeper, conn, due)
  /\ UNCHANGED world

Reaches(c) == up[conn[c].addr] /\ conn[c].expects \in {Unknown, at[conn[c].addr]}

\* ConnectionEstablished of a tagged dial: Outbound::established.
Established(c) ==
  /\ conn[c].is = "dialling" /\ Reaches(c)
  /\ LET i == conn[c].addr
         learnt == [keeper EXCEPT !.ids[i] = at[i]]
     IN  /\ conn' = [conn EXCEPT ![c] = Open(at[i], TRUE)]
         /\ keeper' = IF keeper.inFlight = c THEN Up(learnt) ELSE learnt
  /\ UNCHANGED <<world, faults, due>>

\* OutgoingConnectionError of a tagged dial: Outbound::dial_failed. Nobody is
\* there, or somebody else, or a limit of the node's own denies the connection.
DialFails(c) ==
  /\ conn[c].is = "dialling"
  /\ \/ ~Reaches(c) /\ UNCHANGED faults
     \/ Reaches(c) /\ faults < MaxFaults /\ faults' = faults + 1
  /\ conn' = [conn EXCEPT ![c] = Free]
  /\ IF keeper.inFlight = c
       THEN /\ \E wait \in Jittered(Doubled(keeper.failures)) : keeper' = Failed(keeper, wait)
            /\ due' = OneMore(due)
       ELSE UNCHANGED <<keeper, due>>
  /\ UNCHANGED world

\* A connection no bootstrap dial made: the node there dialled this one, or
\* Kademlia or the peer store did. An id is left for the keeper's next dial.
OtherConnects(i) ==
  /\ up[i]
  /\ Cardinality(FreeIds(conn)) > 1
  /\ \E c \in FreeIds(conn) : conn' = [conn EXCEPT ![c] = Open(at[i], FALSE)]
  /\ UNCHANGED <<keeper, world, faults, due>>

\* ConnectionClosed: Outbound::closed, Keeper::lost when it was the last one to
\* a bootstrap node, and then keep_bootstrap at once.
Closed(c) ==
  /\ conn[c].is = "open"
  /\ LET p == conn[c].peer
         left == [conn EXCEPT ![c] = Free]
         last == OpenTo(left, p) = {} /\ IsBootstrap(keeper, p)
         h == AfterClose(conn[c], due)
     IN  \/ /\ ~last
            /\ conn' = left
            /\ UNCHANGED <<keeper, faults, due>>
         \/ /\ last /\ Short(c)
            /\ \E wait \in Jittered(Doubled(keeper.failures)) :
                 KeepBootstrap(BackOff(keeper, wait), left, h)
         \/ /\ last /\ ~Short(c)
            /\ KeepBootstrap([keeper EXCEPT !.failures = 0, !.wait = 0], left, h)
  /\ UNCHANGED world

Older(r) == IF r.is = "open" /\ r.tagged THEN [r EXCEPT !.age = AtMost(@ + 1, Stable)] ELSE r
Less(n) == IF n = 0 THEN 0 ELSE n - 1

Tick ==
  /\ keeper' = [keeper EXCEPT !.wait = Less(@)]
  /\ conn' = [c \in ConnIds |-> Older(conn[c])]
  /\ due' = [due EXCEPT !.ticks = Less(@)]
  /\ UNCHANGED <<world, faults>>

\* A node comes or goes; one that is down may come back under another identity.
Switch(i) ==
  /\ up' = [up EXCEPT ![i] = ~@]
  /\ UNCHANGED <<conn, keeper, at, faults, rekeys, due>>

Rekey(i) ==
  /\ ~up[i] /\ rekeys < MaxRekeys
  /\ rekeys' = rekeys + 1
  /\ \E p \in Peers \ {at[j] : j \in Slots} : at' = [at EXCEPT ![i] = p]
  /\ UNCHANGED <<conn, keeper, up, faults, due>>

Next ==
  \/ Check
  \/ \E c \in ConnIds : Established(c) \/ DialFails(c) \/ Closed(c)
  \/ Tick
  \/ \E i \in Slots : OtherConnects(i) \/ Switch(i) \/ Rekey(i)

Spec == Init /\ [][Next]_vars

\* The loop's timers fire, the Swarm reports how each dial ended, time passes.
FairSpec ==
  /\ Spec
  /\ WF_vars(Check) /\ WF_vars(Tick)
  /\ \A c \in ConnIds : WF_vars(Established(c) \/ DialFails(c))

-----------------------------------------------------------------------------
TypeOK ==
  /\ conn \in [ConnIds -> {Free}
        \cup [is : {"dialling"}, addr : Slots, expects : Peers \cup {Unknown}]
        \cup [is : {"open"}, peer : Peers, tagged : BOOLEAN, age : 0 .. Stable]]
  /\ keeper \in [ids : [Slots -> Peers \cup {Unknown}], next : Slots,
                 failures : 0 .. MaxFailures, wait : Nat, inFlight : ConnIds \cup {None}]
  /\ at \in [Slots -> Peers] /\ up \in [Slots -> BOOLEAN]
  /\ faults \in 0 .. MaxFaults /\ rekeys \in 0 .. MaxRekeys
  /\ due \in [streak : 0 .. MaxFailures, ticks : Nat]

\* The dial the keeper waits for is one whose end the Swarm still has to report:
\* a keeper that waited for any other would never dial again (Keeper::in_flight
\* against Outbound::pending).
DialIsTracked == keeper.inFlight # None => conn[keeper.inFlight].is = "dialling"

\* After the n-th failure in a row the keeper makes no dial for 2^n ticks less the
\* jitter, whether the dials failed, could not start, or were of connections that
\* closed at once, and whatever else is dialled, connects and closes meanwhile. What
\* ends it is the close of the last connection to a bootstrap node when that one
\* lasted (KEEPER_STABLE), or when none of the bootstrap dials made it, however
\* short it was: Keeper::lost does not know how long it lived.
DialsAreSpaced == [][keeper'.inFlight \notin {None, keeper.inFlight} => due'.ticks = 0]_vars

Reachable(i) == up[i] /\ keeper.ids[i] \in {Unknown, at[i]}

\* As long as one configured node is there, under the identity the keeper knows
\* it by, the node is connected to a bootstrap node again and again, whatever
\* happens to the other addresses and to its connections (RFC 8.5 item 1).
Reconnects == \A i \in Slots : <>[]Reachable(i) => []<>(Connected(keeper, conn) # {})
=============================================================================
