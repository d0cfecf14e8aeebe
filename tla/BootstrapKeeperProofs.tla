------------------------ MODULE BootstrapKeeperProofs ------------------------
(* The keeper's dial is always one the Swarm answers for, and its dials keep *)
(* their distance, for any number of addresses, connections and failures.    *)
EXTENDS BootstrapKeeper, TLAPS

Conn == {Free}
  \cup [is : {"dialling"}, addr : Slots, expects : Peers \cup {Unknown}]
  \cup [is : {"open"}, peer : Peers, tagged : BOOLEAN, age : 0 .. Stable]
Keeper == [ids : [Slots -> Peers \cup {Unknown}], next : Slots,
           failures : 0 .. MaxFailures, wait : Nat, inFlight : ConnIds \cup {None}]
Debt == [streak : 0 .. MaxFailures, ticks : Nat]

\* A keeper, the connections it stands over and what the history says it owes:
\* it waits as long as it must, or a connection, whose end sets both anew, is up.
Sound(k, cs, h) ==
  /\ k \in Keeper /\ cs \in [ConnIds -> Conn] /\ h \in Debt
  /\ k.inFlight # None => cs[k.inFlight].is = "dialling"
  /\ k.failures = h.streak
  /\ h.ticks <= k.wait \/ Connected(k, cs) # {}

IInv == TypeOK /\ Sound(keeper, conn, due)

LEMMA SlotsType == /\ \A i \in Slots : Rotate(i) \in Slots
                   /\ 0 \in Slots
  BY KeeperAssumption DEF Rotate, Slots

LEMMA DoubledType == \A n \in 0 .. MaxFailures : Doubled(n) \in Nat
  BY KeeperAssumption DEF Doubled

LEMMA SlackType == \A d \in Nat : d \div JitterPart \in 0 .. d
  BY KeeperAssumption

LEMMA JitteredType ==
  ASSUME NEW d \in Nat, NEW wait \in Jittered(d)
  PROVE  /\ wait \in Nat
         /\ d - d \div JitterPart \in Nat
         /\ d - d \div JitterPart <= wait
  BY SlackType DEF Jittered

\* A failure of a sound keeper leaves it sound, with one more failure counted.
LEMMA FailureSound ==
  ASSUME NEW k, NEW cs, NEW h, Sound(k, cs, h), NEW wait \in Jittered(Doubled(k.failures))
  PROVE  Sound(BackOff(k, wait), cs, OneMore(h))
<1>1. Doubled(k.failures) \in Nat
  BY DoubledType DEF Sound, Keeper
<1>2. /\ wait \in Nat
      /\ OneMore(h).ticks \in Nat
      /\ OneMore(h).ticks <= wait
  BY <1>1, JitteredType DEF Sound, OneMore
<1>3. AtMost(k.failures + 1, MaxFailures) \in 0 .. MaxFailures
  BY KeeperAssumption DEF AtMost, Sound, Keeper
<1>4. BackOff(k, wait) \in Keeper /\ BackOff(k, wait).inFlight = k.inFlight
  BY <1>2, <1>3 DEF BackOff, Sound, Keeper
<1>5. OneMore(h) \in Debt
  BY <1>2, <1>3 DEF OneMore, Sound, Debt
<1> QED
  BY <1>2, <1>4, <1>5 DEF Sound, BackOff, OneMore, Keeper

\* keep_bootstrap keeps a sound keeper sound, and dials only when nothing is owed.
LEMMA KeepSound ==
  ASSUME NEW k, NEW cs, NEW h, Sound(k, cs, h), faults \in 0 .. MaxFaults,
         KeepBootstrap(k, cs, h)
  PROVE  /\ Sound(keeper', conn', due')
         /\ faults' \in 0 .. MaxFaults
         /\ keeper'.inFlight \notin {None, k.inFlight} => due'.ticks = 0
<1> DEFINE turn == [k EXCEPT !.next = Rotate(@)]
<1>1. turn \in Keeper /\ turn.inFlight = k.inFlight /\ turn.failures = k.failures
  BY SlotsType DEF Sound, Keeper
<1>2. Sound(turn, cs, h)
  BY <1>1 DEF Sound, Keeper, Connected, IsBootstrap
<1>3. CASE conn' = cs /\ keeper' = k /\ due' = h /\ faults' = faults
  BY <1>3
<1>4. ASSUME Due(k, cs), NEW c \in FreeIds(cs), due' = h, faults' = faults,
             conn' = [cs EXCEPT ![c] = Dialling(k.next, k.ids[k.next])],
             keeper' = [turn EXCEPT !.inFlight = c]
      PROVE  /\ Sound(keeper', conn', due')
             /\ faults' \in 0 .. MaxFaults
             /\ due'.ticks = 0
  <2>1. Dialling(k.next, k.ids[k.next]) \in Conn
    BY DEF Dialling, Conn, Sound, Keeper
  <2>2. c \in ConnIds /\ conn' \in [ConnIds -> Conn] /\ conn'[c].is = "dialling"
    BY <1>4, <2>1 DEF FreeIds, Sound, Dialling
  <2>3. keeper' \in Keeper /\ keeper'.inFlight = c
    BY <1>1, <1>4, <2>2 DEF Keeper
  <2>4. h.ticks = 0
    BY <1>4 DEF Due, Sound, Debt
  <2> QED
    BY <1>1, <1>4, <2>2, <2>3, <2>4 DEF Sound, Keeper
<1>5. ASSUME faults < MaxFaults, faults' = faults + 1, conn' = cs,
             NEW wait \in Jittered(Doubled(k.failures)), keeper' = BackOff(turn, wait),
             due' = OneMore(h)
      PROVE  /\ Sound(keeper', conn', due')
             /\ faults' \in 0 .. MaxFaults
             /\ keeper'.inFlight = k.inFlight
  <2>1. Sound(keeper', conn', due')
    BY <1>1, <1>2, <1>5, FailureSound
  <2> QED
    BY <1>1, <1>5, <2>1, KeeperAssumption DEF BackOff, Keeper
<1> QED
  BY <1>3, <1>4, <1>5 DEF KeepBootstrap

-----------------------------------------------------------------------------
LEMMA InitSound == Init => IInv
<1> SUFFICES ASSUME Init PROVE IInv
  OBVIOUS
<1>1. PICK c \in [Slots -> ConnIds] :
        conn = [d \in ConnIds |-> IF \E i \in Slots : c[i] = d
                  THEN LET i == CHOOSE j \in Slots : c[j] = d IN Dialling(i, Configured[i])
                  ELSE Free]
  BY DEF Init
<1>2. conn \in [ConnIds -> Conn]
  <2>1. ASSUME NEW d \in ConnIds PROVE conn[d] \in Conn
    <3>1. CASE \E i \in Slots : c[i] = d
      <4> DEFINE i == CHOOSE j \in Slots : c[j] = d
      <4>1. i \in Slots
        BY <3>1
      <4>2. conn[d] = Dialling(i, Configured[i])
        BY <1>1, <3>1
      <4> HIDE DEF i
      <4> QED
        BY <4>1, <4>2, KeeperAssumption DEF Dialling, Conn
    <3>2. CASE ~\E i \in Slots : c[i] = d
      BY <1>1, <3>2 DEF Conn
    <3> QED
      BY <3>1, <3>2
  <2> QED
    BY <1>1, <2>1
<1>3. keeper \in Keeper /\ due \in Debt
  BY KeeperAssumption, SlotsType DEF Init, Keeper, Debt, Settled
<1>4. Sound(keeper, conn, due)
  BY <1>2, <1>3, KeeperAssumption DEF Sound, Init, Settled
<1> QED
  BY <1>2, <1>3, <1>4, KeeperAssumption DEF IInv, TypeOK, Init, Conn, Keeper, Debt

\* Every step keeps the keeper sound, and a dial begins only when none is owed.
LEMMA StepSound ==
  IInv /\ [Next]_vars => /\ IInv'
                         /\ keeper'.inFlight \notin {None, keeper.inFlight} => due'.ticks = 0
<1> SUFFICES ASSUME IInv, [Next]_vars
             PROVE  /\ IInv'
                    /\ keeper'.inFlight \notin {None, keeper.inFlight} => due'.ticks = 0
  OBVIOUS
<1> USE DEF IInv
<1>a. /\ Sound(keeper, conn, due) /\ faults \in 0 .. MaxFaults
      /\ at \in [Slots -> Peers] /\ up \in [Slots -> BOOLEAN] /\ rekeys \in 0 .. MaxRekeys
  BY DEF TypeOK
<1>b. ASSUME Sound(keeper', conn', due'), faults' \in 0 .. MaxFaults, UNCHANGED world
      PROVE  IInv'
  BY <1>a, <1>b DEF TypeOK, Sound, Conn, Keeper, Debt, world
<1>1. CASE Check
  BY <1>1, <1>a, <1>b, KeepSound DEF Check
<1>2. ASSUME NEW c \in ConnIds, Established(c)
      PROVE  IInv' /\ keeper'.inFlight \in {None, keeper.inFlight}
  <2> DEFINE i == conn[c].addr
             learnt == [keeper EXCEPT !.ids[i] = at[i]]
  <2>1. i \in Slots /\ at[i] \in Peers
    BY <1>2, <1>a DEF Established, Sound, Conn, Free
  <2>2. /\ learnt \in Keeper /\ learnt.ids[i] = at[i]
        /\ learnt.inFlight = keeper.inFlight /\ learnt.failures = keeper.failures
    BY <1>a, <2>1 DEF Sound, Keeper
  <2>3. Open(at[i], TRUE) \in Conn
    BY <2>1, KeeperAssumption DEF Open, Conn
  <2>4. /\ conn' \in [ConnIds -> Conn] /\ conn'[c] = Open(at[i], TRUE)
        /\ \A d \in ConnIds \ {c} : conn'[d] = conn[d]
    BY <1>2, <1>a, <2>3 DEF Established, Sound
  <2>5. /\ keeper' \in Keeper /\ keeper'.ids[i] = at[i] /\ keeper'.failures = keeper.failures
        /\ keeper'.inFlight = IF keeper.inFlight = c THEN None ELSE keeper.inFlight
    BY <1>2, <2>2 DEF Established, Up, Keeper
  <2>6. at[i] \in Connected(keeper', conn')
    BY <2>1, <2>4, <2>5 DEF Connected, IsBootstrap, OpenTo, Open
  <2>7. Sound(keeper', conn', due')
    BY <1>2, <1>a, <2>4, <2>5, <2>6, KeeperAssumption DEF Established, Sound, Keeper
  <2> QED
    BY <1>2, <1>a, <1>b, <2>5, <2>7 DEF Established
<1>3. ASSUME NEW c \in ConnIds, DialFails(c)
      PROVE  IInv' /\ keeper'.inFlight \in {None, keeper.inFlight}
  <2>1. /\ conn' \in [ConnIds -> Conn] /\ conn'[c] = Free
        /\ \A d \in ConnIds \ {c} : conn'[d] = conn[d]
    BY <1>3, <1>a DEF DialFails, Sound, Conn
  <2>2. faults' \in 0 .. MaxFaults
    BY <1>3, <1>a, KeeperAssumption DEF DialFails
  <2>3. \A k : Connected(k, conn') = Connected(k, conn)
    BY <1>3, <2>1 DEF Connected, OpenTo, DialFails, Free
  <2>4. CASE keeper.inFlight = c
    <3> DEFINE idle == [keeper EXCEPT !.inFlight = None]
    <3>1. idle \in Keeper /\ idle.failures = keeper.failures /\ idle.inFlight = None
      BY <1>a DEF Sound, Keeper
    <3>2. Sound(idle, conn', due)
      BY <1>a, <2>1, <2>3, <3>1 DEF Sound, Keeper, Connected, IsBootstrap
    <3>3. PICK wait \in Jittered(Doubled(keeper.failures)) : keeper' = BackOff(idle, wait)
      BY <1>3, <2>4 DEF DialFails, Failed
    <3>4. Sound(keeper', conn', due')
      BY <1>3, <2>4, <3>1, <3>2, <3>3, FailureSound DEF DialFails
    <3> QED
      BY <1>3, <1>b, <2>2, <3>1, <3>3, <3>4 DEF DialFails, BackOff, Keeper
  <2>5. CASE keeper.inFlight # c
    <3>1. Sound(keeper', conn', due')
      BY <1>3, <1>a, <2>1, <2>3, <2>5 DEF DialFails, Sound, Keeper
    <3> QED
      BY <1>3, <1>b, <2>2, <2>5, <3>1 DEF DialFails
  <2> QED
    BY <2>4, <2>5
<1>4. ASSUME NEW c \in ConnIds, Closed(c)
      PROVE  /\ IInv'
             /\ keeper'.inFlight \notin {None, keeper.inFlight} => due'.ticks = 0
  <2> DEFINE p == conn[c].peer
             left == [conn EXCEPT ![c] = Free]
             last == OpenTo(left, p) = {} /\ IsBootstrap(keeper, p)
             h == AfterClose(conn[c], due)
  <2>1. /\ left \in [ConnIds -> Conn] /\ left[c] = Free
        /\ \A d \in ConnIds \ {c} : left[d] = conn[d]
    BY <1>a DEF Sound, Conn
  <2>2. keeper.inFlight # None => left[keeper.inFlight].is = "dialling"
    BY <1>4, <1>a, <2>1 DEF Closed, Sound, Keeper
  <2>3. CASE ~last /\ conn' = left /\ UNCHANGED <<keeper, faults, due>>
    <3>1. Connected(keeper, conn) # {} => Connected(keeper, left) # {}
      <4> SUFFICES ASSUME NEW q \in Connected(keeper, conn) PROVE Connected(keeper, left) # {}
        OBVIOUS
      <4>1. CASE q = p
        BY <2>3, <4>1 DEF Connected
      <4>2. CASE q # p
        <5>1. PICK d \in ConnIds : conn[d].is = "open" /\ conn[d].peer = q
          BY DEF Connected, OpenTo
        <5>2. d # c
          BY <4>2, <5>1
        <5> QED
          BY <2>1, <5>1, <5>2 DEF Connected, OpenTo
      <4> QED
        BY <4>1, <4>2
    <3>2. Sound(keeper', conn', due')
      BY <1>a, <2>1, <2>2, <2>3, <3>1 DEF Sound
    <3> QED
      BY <1>4, <1>a, <1>b, <2>3, <3>2 DEF Closed
  <2>4. ASSUME NEW k, Sound(k, left, h), k.inFlight = keeper.inFlight, KeepBootstrap(k, left, h)
        PROVE  /\ IInv'
               /\ keeper'.inFlight \notin {None, keeper.inFlight} => due'.ticks = 0
    <3> HIDE DEF left, h
    <3>1. /\ Sound(keeper', conn', due') /\ faults' \in 0 .. MaxFaults
          /\ keeper'.inFlight \notin {None, k.inFlight} => due'.ticks = 0
      BY <1>a, <2>4, KeepSound
    <3> QED
      BY <1>4, <1>b, <2>4, <3>1 DEF Closed
  <2>5. ASSUME Short(c), NEW wait \in Jittered(Doubled(keeper.failures)),
               KeepBootstrap(BackOff(keeper, wait), left, h)
        PROVE  /\ IInv'
               /\ keeper'.inFlight \notin {None, keeper.inFlight} => due'.ticks = 0
    <3>1. Sound(BackOff(keeper, wait), conn, h) /\ h = OneMore(due)
      BY <1>a, <2>5, FailureSound DEF Short, AfterClose
    <3>2. BackOff(keeper, wait).inFlight = keeper.inFlight /\ BackOff(keeper, wait).wait = wait
      BY <1>a DEF Sound, Keeper, BackOff
    <3>3. Doubled(due.streak) \in Nat /\ h.ticks <= wait
      BY <1>a, <2>5, <3>1, DoubledType, JitteredType DEF Sound, OneMore, Debt
    <3>4. Sound(BackOff(keeper, wait), left, h)
      BY <2>1, <2>2, <3>1, <3>2, <3>3 DEF Sound
    <3> QED
      BY <2>4, <2>5, <3>2, <3>4
  <2>6. ASSUME ~Short(c), KeepBootstrap([keeper EXCEPT !.failures = 0, !.wait = 0], left, h)
        PROVE  /\ IInv'
               /\ keeper'.inFlight \notin {None, keeper.inFlight} => due'.ticks = 0
    <3> DEFINE k == [keeper EXCEPT !.failures = 0, !.wait = 0]
    <3>1. h = Settled /\ h \in Debt
      BY <2>6, KeeperAssumption DEF Short, AfterClose, Settled, Debt
    <3>2. k \in Keeper /\ k.inFlight = keeper.inFlight /\ k.failures = 0 /\ k.wait = 0
      <4>1. keeper \in Keeper
        BY <1>a DEF Sound
      <4>2. 0 \in 0 .. MaxFailures
        BY KeeperAssumption
      <4> QED
        BY <4>1, <4>2 DEF Keeper
    <3>3. Sound(k, left, h)
      BY <2>1, <2>2, <3>1, <3>2 DEF Sound, Settled
    <3> QED
      BY <2>4, <2>6, <3>2, <3>3
  <2> QED
    BY <1>4, <2>3, <2>5, <2>6 DEF Closed
<1>5. ASSUME Tick
      PROVE  IInv' /\ keeper'.inFlight = keeper.inFlight
  <2>1. /\ keeper' \in Keeper /\ keeper'.inFlight = keeper.inFlight
        /\ keeper'.failures = keeper.failures /\ keeper'.ids = keeper.ids
        /\ keeper'.wait = Less(keeper.wait)
    BY <1>5, <1>a DEF Tick, Sound, Keeper, Less
  <2>2. ASSUME NEW d \in ConnIds
        PROVE  /\ conn'[d] \in Conn
               /\ conn'[d].is = conn[d].is
               /\ conn[d].is = "open" => conn'[d].peer = conn[d].peer
    <3>1. conn[d] \in Conn /\ conn'[d] = Older(conn[d])
      BY <1>5, <1>a DEF Tick, Sound
    <3>2. CASE conn[d].is = "open" /\ conn[d].tagged
      <4>1. conn[d] \in [is : {"open"}, peer : Peers, tagged : BOOLEAN, age : 0 .. Stable]
        BY <3>1, <3>2 DEF Conn, Free
      <4>2. AtMost(conn[d].age + 1, Stable) \in 0 .. Stable
        BY <4>1, KeeperAssumption DEF AtMost
      <4> QED
        BY <3>1, <3>2, <4>1, <4>2 DEF Older, Conn
    <3>3. CASE ~(conn[d].is = "open" /\ conn[d].tagged)
      BY <3>1, <3>3 DEF Older
    <3> QED
      BY <3>2, <3>3
  <2>3. conn' \in [ConnIds -> Conn] /\ Connected(keeper', conn') = Connected(keeper, conn)
    <3>1. conn' \in [ConnIds -> Conn]
      BY <1>5, <2>2 DEF Tick
    <3>2. \A q : OpenTo(conn', q) = OpenTo(conn, q)
      BY <2>2 DEF OpenTo
    <3>3. \A q : IsBootstrap(keeper', q) = IsBootstrap(keeper, q)
      BY <2>1 DEF IsBootstrap
    <3> QED
      BY <3>1, <3>2, <3>3 DEF Connected
  <2>4. /\ due' \in Debt /\ due'.streak = due.streak
        /\ due.ticks <= keeper.wait => due'.ticks <= keeper'.wait
    BY <1>5, <1>a, <2>1 DEF Tick, Sound, Debt, Keeper, Less
  <2>5. Sound(keeper', conn', due')
    BY <1>a, <2>1, <2>2, <2>3, <2>4 DEF Sound, Keeper
  <2> QED
    BY <1>5, <1>a, <1>b, <2>1, <2>5 DEF Tick
<1>6. ASSUME NEW i \in Slots, OtherConnects(i)
      PROVE  IInv' /\ keeper' = keeper
  <2>1. PICK c \in FreeIds(conn) : conn' = [conn EXCEPT ![c] = Open(at[i], FALSE)]
    BY <1>6 DEF OtherConnects
  <2>2. Open(at[i], FALSE) \in Conn
    BY <1>a, KeeperAssumption DEF Open, Conn
  <2>3. /\ conn' \in [ConnIds -> Conn] /\ c \in ConnIds /\ conn[c] = Free
        /\ \A d \in ConnIds \ {c} : conn'[d] = conn[d]
    BY <1>a, <2>1, <2>2 DEF Sound, FreeIds
  <2>4. \A q : OpenTo(conn, q) \subseteq OpenTo(conn', q)
    BY <2>3 DEF OpenTo, Free
  <2>5. Connected(keeper, conn) \subseteq Connected(keeper, conn')
    BY <2>4 DEF Connected
  <2>6. Sound(keeper', conn', due')
    <3>1. UNCHANGED <<keeper, due>>
      BY <1>6 DEF OtherConnects
    <3>2. keeper.inFlight # None => conn'[keeper.inFlight].is = "dialling"
      <4>1. keeper.inFlight # None => keeper.inFlight \in ConnIds /\ conn[keeper.inFlight].is = "dialling"
        BY <1>a DEF Sound, Keeper
      <4> QED
        BY <2>3, <4>1 DEF Free
    <3> QED
      BY <1>a, <2>3, <2>5, <3>1, <3>2 DEF Sound
  <2> QED
    BY <1>6, <1>a, <1>b, <2>6 DEF OtherConnects
<1>7. ASSUME NEW i \in Slots, Switch(i) \/ Rekey(i)
      PROVE  IInv' /\ keeper' = keeper
  <2>1. UNCHANGED <<conn, keeper, faults, due>>
    BY <1>7 DEF Switch, Rekey
  <2>2. /\ at' \in [Slots -> Peers] /\ up' \in [Slots -> BOOLEAN]
        /\ rekeys' \in 0 .. MaxRekeys
    <3>1. CASE Switch(i)
      BY <1>a, <3>1 DEF Switch
    <3>2. CASE Rekey(i)
      <4>1. PICK p \in Peers : at' = [at EXCEPT ![i] = p]
        BY <3>2 DEF Rekey
      <4>2. rekeys' \in 0 .. MaxRekeys
        BY <1>a, <3>2, KeeperAssumption DEF Rekey
      <4> QED
        BY <1>a, <3>2, <4>1, <4>2 DEF Rekey
    <3> QED
      BY <1>7, <3>1, <3>2
  <2> QED
    BY <1>a, <2>1, <2>2 DEF TypeOK, Sound
<1>8. CASE UNCHANGED vars
  BY <1>8, <1>a DEF vars, world, TypeOK, Sound
<1> QED
  BY <1>1, <1>2, <1>3, <1>4, <1>5, <1>6, <1>7, <1>8, KeepSound, <1>a DEF Next, Check

-----------------------------------------------------------------------------
\* The keeper's fields, the connections and the history stay of their types.
THEOREM KeeperTypes == Spec => []TypeOK
<1>1. IInv /\ [Next]_vars => IInv'
  BY StepSound
<1> QED
  BY <1>1, InitSound, PTL DEF Spec, IInv

\* The dial the keeper waits for is always one the Swarm still answers for.
THEOREM DialStaysTracked == Spec => []DialIsTracked
<1>1. IInv /\ [Next]_vars => IInv'
  BY StepSound
<1>2. IInv => DialIsTracked
  BY DEF IInv, Sound, DialIsTracked
<1> QED
  BY <1>1, <1>2, InitSound, PTL DEF Spec

\* A dial begins only when the failures in a row before it, of which the history
\* keeps count until a connection settles them (AfterClose), call for no more waiting.
THEOREM DialsKeepTheirDistance == Spec => DialsAreSpaced
<1>1. IInv /\ [Next]_vars => IInv'
  BY StepSound
<1>2. IInv /\ [Next]_vars => [keeper'.inFlight \notin {None, keeper.inFlight} => due'.ticks = 0]_vars
  BY StepSound
<1> QED
  BY <1>1, <1>2, InitSound, PTL DEF Spec, DialsAreSpaced
=============================================================================
