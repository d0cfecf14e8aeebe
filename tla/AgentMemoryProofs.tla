-------------------------- MODULE AgentMemoryProofs --------------------------
(***************************************************************************)
(* For every set of genes, keys and writes and every quota: the store      *)
(* keeps its types; an entry keeps its creator and, against everyone else, *)
(* its policies; the quota holds; the audit log adds up to what is held;   *)
(* and an eviction takes the first entries of its order, and no more than  *)
(* it needs.  The total is a number of units, so that it follows unions    *)
(* and differences of entries; what the loop of the eviction has taken is  *)
(* an invariant of its turns (InOrder).                                    *)
(***************************************************************************)
EXTENDS AgentMemory, FiniteSetTheorems, WellFoundedInduction, TLAPS

\* Taking keys out keeps what stays.
LEMMA WithoutType ==
  ASSUME NEW es \in [Keys -> Entry \cup {NoEntry}], NEW gone
  PROVE  Without(es, gone) \in [Keys -> Entry \cup {NoEntry}]
BY DEF Without

\* The purge keeps what stays.
LEMMA LiveType == TypeOK => Live \in [Keys -> Entry \cup {NoEntry}]
BY WithoutType DEF TypeOK, Live

\* Any entry is told from no entry by its category.
LEMMA NoEntryIsNone == NoEntry \notin Entry
BY DEF Entry, NoEntry, Categories

\* What a write stores is an entry, and an update keeps the creator.
LEMMA WrittenType ==
  ASSUME TypeOK, NEW w \in Requests, NEW es \in [Keys -> Entry \cup {NoEntry}], ~Denied(es, w)
  PROVE  /\ Written(es, w) \in Entry
         /\ es[w.key] # NoEntry => Written(es, w).by = es[w.key].by
         /\ es[w.key] # NoEntry /\ w.gene # es[w.key].by =>
              Written(es, w).policy = es[w.key].policy /\ Written(es, w).ret = es[w.key].ret
<1> DEFINE e == es[w.key]
<1>1. /\ w.gene \in Genes /\ w.key \in Keys /\ w.size \in Nat \ {0} /\ w.cat \in Categories
      /\ w.policy \in Policies \cup {Deployer, Unchanged}
      /\ w.ret \in Days \cup {Omitted, Inherit, Unlimited}
  BY MemoryAssumption
<1>2. w.policy # Deployer
  BY DEF Denied
<1>3. clock \in Nat
  BY DEF TypeOK
<1>4. DefaultPolicy \in Policies
  BY DEF DefaultPolicy, Policies, Scopes
<1>5. CASE e = NoEntry
  <2>1. Written(es, w) = [cat |-> w.cat, size |-> w.size, last |-> w.gene, upd |-> clock,
                          by |-> w.gene,
                          policy |-> IF w.policy # Unchanged THEN w.policy ELSE DefaultPolicy,
                          ret |-> IF w.ret # Omitted THEN w.ret ELSE Inherit]
    BY <1>5 DEF Written
  <2>2. QED
    BY <1>1, <1>2, <1>3, <1>4, <1>5, <2>1 DEF Entry
<1>6. CASE e # NoEntry
  <2>1. e \in Entry
    BY <1>1, <1>6
  <2>2. Written(es, w) = [cat |-> w.cat, size |-> w.size, last |-> w.gene, upd |-> clock,
                          by |-> e.by,
                          policy |-> IF w.policy # Unchanged THEN w.policy ELSE e.policy,
                          ret |-> IF w.ret # Omitted THEN w.ret ELSE e.ret]
    BY <1>6 DEF Written
  <2>3. Written(es, w) \in Entry
    BY <1>1, <1>2, <1>3, <2>1, <2>2 DEF Entry
  <2>4. ASSUME w.gene # e.by PROVE Written(es, w).policy = e.policy /\ Written(es, w).ret = e.ret
    <3>1. w.policy \in {Unchanged, e.policy} /\ w.ret \in {Omitted, e.ret}
      BY <1>6, <2>4 DEF Denied
    <3>2. QED
      BY <2>2, <3>1
  <2>5. QED
    BY <2>2, <2>3, <2>4
<1>7. QED
  BY <1>5, <1>6

\* A read changes the last reader only.
LEMMA ReadType ==
  ASSUME TypeOK, NEW g \in Genes, NEW k \in Keys, Live[k] # NoEntry
  PROVE  /\ [Live EXCEPT ![k].last = g] \in [Keys -> Entry \cup {NoEntry}]
         /\ \A j \in Keys : Live[j] # NoEntry =>
              /\ [Live EXCEPT ![k].last = g][j].by = Live[j].by
              /\ [Live EXCEPT ![k].last = g][j].policy = Live[j].policy
              /\ [Live EXCEPT ![k].last = g][j].ret = Live[j].ret
<1>1. Live \in [Keys -> Entry \cup {NoEntry}] /\ Live[k] \in Entry
  BY LiveType
<1>2. /\ [Live[k] EXCEPT !.last = g] \in Entry
      /\ [Live[k] EXCEPT !.last = g].by = Live[k].by
      /\ [Live[k] EXCEPT !.last = g].policy = Live[k].policy
      /\ [Live[k] EXCEPT !.last = g].ret = Live[k].ret
  BY <1>1 DEF Entry
<1>3. [Live EXCEPT ![k].last = g] = [Live EXCEPT ![k] = [Live[k] EXCEPT !.last = g]]
  OBVIOUS
<1>4. QED
  BY <1>1, <1>2, <1>3

\* What an entry is left with by any step.
Faithful(es, next) ==
  /\ next \in [Keys -> Entry \cup {NoEntry}]
  /\ \A k \in Keys : es[k] # NoEntry /\ next[k] # NoEntry =>
       next[k].by = es[k].by /\ next[k].policy = es[k].policy /\ next[k].ret = es[k].ret

\* Taking keys out of the live entries is faithful to them.
LEMMA RemovalFaithful ==
  ASSUME TypeOK, NEW gone
  PROVE  Faithful(Live, Without(Live, gone))
BY LiveType, WithoutType DEF Faithful, Without

\* So is the purge alone, and leaving the entries as they are.
LEMMA PurgeFaithful ==
  ASSUME TypeOK
  PROVE  Faithful(Live, Live) /\ Faithful(Live, entries)
<1>1. \A k \in Keys : Live[k] # NoEntry => Live[k] = entries[k]
  BY DEF Live, Without
<1>2. QED
  BY <1>1, LiveType DEF Faithful, TypeOK

\* A write is faithful too, except to what its own gene created.
LEMMA WriteFaithful ==
  ASSUME TypeOK, NEW w \in Requests, NEW n \in BOOLEAN, Write(w, n)
  PROVE  \/ Faithful(Live, entries')
         \/ /\ entries' \in [Keys -> Entry \cup {NoEntry}]
            /\ \A k \in Keys : Live[k] # NoEntry /\ entries'[k] # NoEntry =>
                 /\ entries'[k].by = Live[k].by
                 /\ \/ entries'[k].policy = Live[k].policy /\ entries'[k].ret = Live[k].ret
                    \/ w.key = k /\ w.gene = Live[k].by
<1> DEFINE plan == Plan(Live, w)
           kept == Without(Live, plan.out)
<1>1. CASE entries' = Live \/ entries' = entries
  BY <1>1, PurgeFaithful
<1>2. CASE ~Denied(Live, w) /\ entries' = [kept EXCEPT ![w.key] = Written(Live, w)]
  <2> HIDE DEF plan
  <2>1. w.key \in Keys
    BY MemoryAssumption
  <2>2. Live \in [Keys -> Entry \cup {NoEntry}] /\ kept \in [Keys -> Entry \cup {NoEntry}]
    BY LiveType, WithoutType
  <2>3. /\ Written(Live, w) \in Entry
        /\ Live[w.key] # NoEntry => Written(Live, w).by = Live[w.key].by
        /\ Live[w.key] # NoEntry /\ w.gene # Live[w.key].by =>
             Written(Live, w).policy = Live[w.key].policy /\ Written(Live, w).ret = Live[w.key].ret
    BY <1>2, <2>2, WrittenType
  <2>4. entries' \in [Keys -> Entry \cup {NoEntry}] /\ entries'[w.key] = Written(Live, w)
    BY <1>2, <2>1, <2>2, <2>3
  <2>5. \A k \in Keys : k # w.key => entries'[k] = kept[k]
    BY <1>2, <2>2
  <2>6. \A k \in Keys : kept[k] = Live[k] \/ kept[k] = NoEntry
    BY DEF Without
  <2>7. QED
    BY <2>3, <2>4, <2>5, <2>6
<1>3. QED
  BY <1>1, <1>2 DEF Write, Purge

\* Every step keeps the types.
LEMMA TypeStep == TypeOK /\ [Next]_vars => TypeOK'
<1> SUFFICES ASSUME TypeOK, [Next]_vars PROVE TypeOK'
  OBVIOUS
<1>1. CASE Tick
  BY <1>1 DEF Tick, TypeOK
<1>2. ASSUME NEW r \in Runs, OpenMemory(r) PROVE TypeOK'
  BY <1>2, LiveType DEF OpenMemory, Purge, TypeOK
<1>3. ASSUME NEW r \in Runs, CreateMemory(r) PROVE TypeOK'
  BY <1>3 DEF CreateMemory, TypeOK
<1>4. ASSUME NEW r \in Runs, SetRetention(r) PROVE TypeOK'
  BY <1>4 DEF SetRetention, TypeOK
<1>5. ASSUME NEW r \in Runs, EndRun(r) PROVE TypeOK'
  BY <1>5 DEF EndRun, TypeOK
<1>6. ASSUME NEW w \in Requests, NEW n \in BOOLEAN, Write(w, n) PROVE TypeOK'
  <2>1. entries' \in [Keys -> Entry \cup {NoEntry}]
    BY <1>6, WriteFaithful DEF Faithful
  <2>2. UNCHANGED <<clock, exists, days, run>> /\ (faults' = faults \/ faults' = faults + 1)
    BY <1>6 DEF Write
  <2>3. QED
    BY <2>1, <2>2 DEF TypeOK
<1>7. ASSUME NEW g \in Genes, NEW k \in Keys, Read(g, k) PROVE TypeOK'
  <2>1. entries' \in [Keys -> Entry \cup {NoEntry}]
    BY <1>7, LiveType, ReadType DEF Read, Purge
  <2>2. QED
    BY <1>7, <2>1 DEF Read, TypeOK
<1>8. ASSUME NEW gone, RemoveKeys(gone) PROVE TypeOK'
  BY <1>8, LiveType, WithoutType DEF RemoveKeys, TypeOK
<1>9. CASE Query
  BY <1>9, LiveType DEF Query, Purge, TypeOK
<1>10. CASE UNCHANGED vars
  BY <1>10 DEF vars, TypeOK
<1>11. QED
  BY <1>1, <1>2, <1>3, <1>4, <1>5, <1>6, <1>7, <1>8, <1>9, <1>10 DEF Next, Delete, DeployerDelete

-----------------------------------------------------------------------------
\* The store keeps its types whatever the genes ask.
THEOREM MemoryTypes == Spec => []TypeOK
<1>1. ASSUME Init PROVE TypeOK
  <2>1. [k \in Keys |-> NoEntry] \in [Keys -> Entry \cup {NoEntry}]
    OBVIOUS
  <2>2. [r \in Runs |-> "idle"] \in [Runs -> {"idle", "create", "retain", "open"}]
    OBVIOUS
  <2>3. QED
    BY <1>1, <2>1, <2>2 DEF Init, TypeOK
<1>2. QED
  BY <1>1, TypeStep, PTL DEF Spec

\* One step: an entry that stays keeps its creator, and its policies change only
\* by a write of its creator.
LEMMA PoliciesStep ==
  ASSUME TypeOK, [Next]_vars, NEW k \in Keys, Live[k] # NoEntry, entries'[k] # NoEntry
  PROVE  /\ entries'[k].by = entries[k].by
         /\ \/ entries'[k].policy = entries[k].policy /\ entries'[k].ret = entries[k].ret
            \/ \E w \in Requests, n \in BOOLEAN :
                 w.key = k /\ w.gene = entries[k].by /\ Write(w, n)
<1>1. Live[k] = entries[k]
  BY DEF Live, Without
<1>2. CASE Faithful(Live, entries')
  BY <1>1, <1>2 DEF Faithful
<1>3. ASSUME NEW w \in Requests, NEW n \in BOOLEAN, Write(w, n), ~Faithful(Live, entries')
      PROVE  /\ entries'[k].by = entries[k].by
             /\ \/ entries'[k].policy = entries[k].policy /\ entries'[k].ret = entries[k].ret
                \/ w.key = k /\ w.gene = entries[k].by
  BY <1>1, <1>3, WriteFaithful
<1>4. ASSUME NEW g \in Genes, NEW j \in Keys, Read(g, j) PROVE Faithful(Live, entries')
  <2>1. CASE entries' = Live
    BY <2>1, PurgeFaithful
  <2>2. CASE Live[j] # NoEntry /\ entries' = [Live EXCEPT ![j].last = g]
    BY <2>2, LiveType, ReadType DEF Faithful
  <2>3. QED
    BY <1>4, <2>1, <2>2 DEF Read, Purge
<1>5. ASSUME NEW gone, RemoveKeys(gone) PROVE Faithful(Live, entries')
  BY <1>5, RemovalFaithful DEF RemoveKeys
<1>6. CASE Query \/ Tick \/ UNCHANGED vars
           \/ \E r \in Runs : OpenMemory(r) \/ CreateMemory(r) \/ SetRetention(r) \/ EndRun(r)
  <2>1. entries' = Live \/ entries' = entries
    BY <1>6 DEF Query, Tick, vars, OpenMemory, CreateMemory, SetRetention, EndRun, Purge
  <2>2. QED
    BY <1>2, <2>1, PurgeFaithful
<1>7. QED
  BY <1>2, <1>3, <1>4, <1>5, <1>6 DEF Next, Delete, DeployerDelete

\* An entry's creator is fixed, and nobody else changes its policies (write() in
\* backend.ts), for every set of genes and whatever the quota evicts.
THEOREM CreatorsKeepPolicies == Spec => PoliciesAreTheCreators
<1>1. TypeOK /\ [Next]_vars => [\A k \in Keys : Live[k] # NoEntry /\ entries'[k] # NoEntry =>
        /\ entries'[k].by = entries[k].by
        /\ \/ entries'[k].policy = entries[k].policy /\ entries'[k].ret = entries[k].ret
           \/ \E w \in Requests, n \in BOOLEAN :
                w.key = k /\ w.gene = entries[k].by /\ Write(w, n)]_vars
  BY PoliciesStep
<1>2. QED
  BY <1>1, MemoryTypes, PTL DEF Spec, PoliciesAreTheCreators

-----------------------------------------------------------------------------
Tables == [Keys -> Entry \cup {NoEntry}]

\* Induction over the naturals, for a set of them.
LEMMA NatSetInduction ==
  ASSUME NEW S, 0 \in S, \A n \in Nat : n \in S => n + 1 \in S
  PROVE  Nat \subseteq S
<1> DEFINE R == OpToRel(<, Nat)
<1> SUFFICES ASSUME Nat \ S # {} PROVE FALSE
  OBVIOUS
<1>1. PICK x \in Nat \ S : \A y \in Nat \ S : <<y, x>> \notin R
  <2>1. IsWellFoundedOn(R, Nat)
    BY NatLessThanWellFounded
  <2> HIDE DEF R
  <2>2. QED
    BY <2>1, WFMin
<1>2. x # 0 /\ x - 1 \in Nat /\ x - 1 < x
  OBVIOUS
<1>3. x - 1 \in Nat \ S
  BY <1>2
<1>4. <<x - 1, x>> \in R
  BY <1>2 DEF OpToRel
<1>5. QED
  BY <1>1, <1>3, <1>4

\* Some numbers have a smallest one.
LEMMA Smallest ==
  ASSUME NEW S, S \subseteq Nat, S # {}
  PROVE  \E m \in S : \A n \in S : m <= n
<1> DEFINE R == OpToRel(<, Nat)
<1>1. PICK x \in S : \A y \in S : <<y, x>> \notin R
  <2>1. IsWellFoundedOn(R, Nat)
    BY NatLessThanWellFounded
  <2> HIDE DEF R
  <2>2. QED
    BY <2>1, WFMin
<1>2. \A y \in S : ~(y < x)
  BY <1>1 DEF OpToRel
<1> HIDE DEF R
<1>3. \A y \in S : x <= y
  BY <1>2
<1>4. QED
  BY <1>3

-----------------------------------------------------------------------------
\* What is left when keys are taken out, and then more.
LEMMA WithoutTwice ==
  ASSUME NEW es \in Tables, NEW A, NEW B
  PROVE  /\ Without(es, A) \in Tables
         /\ Held(Without(es, A)) = Held(es) \ A
         /\ Without(Without(es, A), B) = Without(es, A \cup B)
BY DEF Without, Held, Tables

\* Finitely many entries have finitely many units.
LEMMA TotalIsNat ==
  ASSUME NEW es \in Tables, IsFiniteSet(Held(es))
  PROVE  IsFiniteSet(Units(es)) /\ Total(es) \in Nat
<1> DEFINE of(k) == {k} \X (1 .. es[k].size)
           all == {of(k) : k \in Held(es)}
<1>1. IsFiniteSet(all)
  <2> DEFINE f == [k \in Held(es) |-> of(k)]
  <2>1. f \in Surjection(Held(es), all)
    BY DEF Surjection
  <2> HIDE DEF f, all
  <2>2. QED
    BY <2>1, FS_Surjection
<1>2. ASSUME NEW k \in Held(es) PROVE IsFiniteSet(of(k))
  <2>1. es[k].size \in Nat
    BY NoEntryIsNone DEF Tables, Held, Entry
  <2> DEFINE n == es[k].size
  <2> HIDE DEF n
  <2>2. n \in Nat
    BY <2>1 DEF n
  <2>3. IsFiniteSet(1 .. n)
    BY <2>2, FS_Interval
  <2>4. IsFiniteSet({k})
    BY FS_Singleton
  <2>5. IsFiniteSet({k} \X (1 .. n))
    BY <2>3, <2>4, FS_Product
  <2>6. QED
    BY <2>5 DEF n
<1>3. \A T \in all : IsFiniteSet(T)
  BY <1>2
<1>4. Units(es) = UNION all
  BY DEF Units
<1> HIDE DEF all
<1>5. IsFiniteSet(Units(es))
  BY <1>1, <1>3, <1>4, FS_UNION
<1>6. QED
  BY <1>5, FS_CardinalityType DEF Total

\* Only which keys are held and how large their entries are counts.
LEMMA SameTotal ==
  ASSUME NEW es \in Tables, NEW fs \in Tables,
         \A k \in Keys : /\ es[k] = NoEntry <=> fs[k] = NoEntry
                         /\ es[k] # NoEntry => es[k].size = fs[k].size
  PROVE  Total(es) = Total(fs)
<1>1. Held(es) = Held(fs) /\ \A k \in Held(es) : es[k].size = fs[k].size
  BY DEF Held
<1>2. Units(es) = Units(fs)
  BY <1>1 DEF Units
<1>3. QED
  BY <1>2 DEF Total

SizeAt(es, k) == IF es[k] = NoEntry THEN 0 ELSE es[k].size

\* An entry taken out leaves the total smaller by its size.
LEMMA TotalSplits ==
  ASSUME NEW es \in Tables, IsFiniteSet(Held(es)), NEW k \in Keys
  PROVE  /\ SizeAt(es, k) \in Nat
         /\ Total(Without(es, {k})) \in Nat
         /\ Total(es) = Total(Without(es, {k})) + SizeAt(es, k)
<1> DEFINE fs == Without(es, {k})
<1>1. fs \in Tables /\ Held(fs) = Held(es) \ {k}
  BY WithoutTwice
<1>2. IsFiniteSet(Held(fs))
  BY <1>1, FS_Subset
<1>3. IsFiniteSet(Units(fs)) /\ Total(fs) \in Nat
  BY <1>1, <1>2, TotalIsNat
<1>4. CASE es[k] = NoEntry
  <2>1. fs = es
    BY <1>4 DEF Without, Tables
  <2>2. QED
    BY <1>3, <1>4, <2>1 DEF SizeAt
<1>5. CASE es[k] # NoEntry
  <2> DEFINE n == es[k].size
             own == {k} \X (1 .. n)
  <2>1. n \in Nat
    BY <1>5, NoEntryIsNone DEF Tables, Entry
  <2>2. \A j \in Held(fs) : es[j].size = fs[j].size
    BY <1>1 DEF Without, Held
  <2>3. Held(es) = Held(fs) \cup {k}
    BY <1>1, <1>5 DEF Held
  <2>4. Units(es) = Units(fs) \cup own
    BY <2>2, <2>3 DEF Units
  <2>5. Units(fs) \cap own = {}
    BY <1>1 DEF Units
  <2>6. IsFiniteSet(own) /\ Cardinality(own) = n
    <3> HIDE DEF n
    <3>1. IsFiniteSet(1 .. n) /\ Cardinality(1 .. n) = n
      BY <2>1, FS_Interval
    <3>2. IsFiniteSet({k}) /\ Cardinality({k}) = 1
      BY FS_Singleton
    <3>3. IsFiniteSet(own) /\ Cardinality(own) = Cardinality({k}) * Cardinality(1 .. n)
      BY <3>1, <3>2, FS_Product
    <3>4. QED
      BY <2>1, <3>1, <3>2, <3>3
  <2>7. SizeAt(es, k) = n
    BY <1>5 DEF SizeAt
  <2> HIDE DEF own, n, fs
  <2>8. Cardinality(Units(es)) = Cardinality(Units(fs)) + Cardinality(own) - 0
    BY <1>3, <2>4, <2>5, <2>6, FS_Union, FS_EmptySet
  <2>9. QED
    BY <1>3, <2>1, <2>6, <2>7, <2>8 DEF Total, fs
<1>6. QED
  BY <1>4, <1>5

-----------------------------------------------------------------------------
RankOf(es, k) == [CACHE |-> 1, PATTERN |-> 2, CONTEXT |-> 3][es[k].cat]

\* The categories that give way, in their order, and what an entry to be evicted
\* is known to have.
LEMMA Ranks ==
  /\ DOMAIN EvictionOrder = 1 .. 3
  /\ EvictionOrder[1] = "CACHE" /\ EvictionOrder[2] = "PATTERN" /\ EvictionOrder[3] = "CONTEXT"
  /\ \A es, k, i : i \in 1 .. 3 /\ es[k].cat = EvictionOrder[i] => RankOf(es, k) = i
BY DEF EvictionOrder, RankOf

LEMMA EvictableFields ==
  ASSUME NEW es \in Tables, NEW w, NEW k \in Evictable(es, w)
  PROVE  /\ k \in Keys /\ k \in Held(es) /\ k # w.key /\ k \in Nat
         /\ es[k] \in Entry /\ es[k].upd \in Nat /\ es[k].size \in Nat
         /\ es[k].cat # "PREFERENCE"
         /\ \E i \in 1 .. 3 : es[k].cat = EvictionOrder[i] /\ RankOf(es, k) = i
<1>1. k \in Held(es) /\ k # w.key /\ \E i \in DOMAIN EvictionOrder : es[k].cat = EvictionOrder[i]
  BY DEF Evictable
<1>2. k \in Keys /\ k \in Nat /\ es[k] \in Entry
  BY <1>1, MemoryAssumption DEF Held, Tables
<1>3. es[k].upd \in Nat /\ es[k].size \in Nat
  BY <1>2 DEF Entry
<1>4. PICK i \in 1 .. 3 : es[k].cat = EvictionOrder[i]
  BY <1>1, Ranks
<1>5. RankOf(es, k) = i
  BY <1>4, Ranks
<1>6. es[k].cat # "PREFERENCE"
  BY <1>4, Ranks
<1>7. QED
  BY <1>1, <1>2, <1>3, <1>4, <1>5, <1>6

LEMMA SparedAreEvictable ==
  ASSUME NEW es \in Tables, NEW w, NEW k \in Held(es) \ {w.key}, es[k].cat # "PREFERENCE"
  PROVE  k \in Evictable(es, w)
<1>1. es[k] \in Entry
  BY DEF Held, Tables
<1>2. es[k].cat \in {"PATTERN", "CONTEXT", "CACHE"}
  BY <1>1 DEF Entry, Categories
<1>3. \E i \in DOMAIN EvictionOrder : es[k].cat = EvictionOrder[i]
  BY <1>2, Ranks
<1>4. QED
  BY <1>3 DEF Evictable

\* Of two entries at most one gives way before the other.
LEMMA AheadOneWay ==
  ASSUME NEW es \in Tables, NEW w, NEW k \in Evictable(es, w), NEW l \in Evictable(es, w),
         Ahead(es, k, l)
  PROVE  ~Ahead(es, l, k)
<1>1. /\ k \in Nat /\ es[k].upd \in Nat /\ RankOf(es, k) \in Nat
      /\ l \in Nat /\ es[l].upd \in Nat /\ RankOf(es, l) \in Nat
  BY EvictableFields
<1>2. \A i, j : Ahead(es, i, j) <=>
        \/ RankOf(es, i) < RankOf(es, j)
        \/ /\ RankOf(es, i) = RankOf(es, j)
           /\ es[i].upd < es[j].upd \/ (es[i].upd = es[j].upd /\ i < j)
  BY DEF Ahead, RankOf
<1>3. QED
  BY <1>1, <1>2

\* The loops come to the one that gives way before all others that are left.
LEMMA FirstIsAhead ==
  ASSUME NEW es \in Tables, NEW w, NEW left \in SUBSET Evictable(es, w), left # {}
  PROVE  /\ FirstOf(es, left) \in left
         /\ \A l \in left \ {FirstOf(es, left)} : Ahead(es, FirstOf(es, left), l)
<1> DEFINE of(i) == {k \in left : es[k].cat = EvictionOrder[i]}
           same == Candidates(es, left)
           x == FirstOf(es, left)
<1>1. ASSUME NEW k \in left
      PROVE  /\ k \in Nat /\ es[k].upd \in Nat
             /\ \E i \in 1 .. 3 : es[k].cat = EvictionOrder[i] /\ RankOf(es, k) = i
  BY EvictableFields
<1>2. \E i \in 1 .. 3 : of(i) # {} /\ \A j \in 1 .. (i - 1) : of(j) = {}
  <2> DEFINE S == {i \in 1 .. 3 : of(i) # {}}
  <2>1. S # {}
    BY <1>1
  <2>2. S \subseteq Nat
    OBVIOUS
  <2> HIDE DEF S
  <2>3. PICK i \in S : \A n \in S : i <= n
    BY <2>1, <2>2, Smallest
  <2>4. QED
    BY <2>3 DEF S
<1>3. PICK c \in 1 .. 3 : /\ same = of(c) /\ of(c) # {}
                          /\ \A j \in 1 .. (c - 1) : of(j) = {}
  <2> DEFINE c == CHOOSE i \in DOMAIN EvictionOrder : of(i) # {} /\ \A j \in 1 .. (i - 1) : of(j) = {}
  <2>1. c \in 1 .. 3 /\ of(c) # {} /\ \A j \in 1 .. (c - 1) : of(j) = {}
    BY <1>2, Ranks
  <2>2. same = of(c)
    BY DEF Candidates
  <2>3. QED
    BY <2>1, <2>2
<1>4. \A k \in same : k \in left /\ RankOf(es, k) = c
  BY <1>3, Ranks
<1>5. \A l \in left \ same : RankOf(es, l) > c /\ RankOf(es, l) \in Nat
  <2> SUFFICES ASSUME NEW l \in left \ same PROVE RankOf(es, l) > c /\ RankOf(es, l) \in Nat
    OBVIOUS
  <2>1. PICK i \in 1 .. 3 : es[l].cat = EvictionOrder[i] /\ RankOf(es, l) = i
    BY <1>1
  <2>2. l \in of(i)
    BY <2>1
  <2>3. i # c /\ i \notin 1 .. (c - 1)
    BY <1>3, <2>2
  <2>4. QED
    BY <2>1, <2>3
<1>6. x \in same /\ \A l \in same \ {x} : OldestFirst(es[x], x, es[l], l)
  <2>1. PICK t \in {es[k].upd : k \in same} : \A n \in {es[k].upd : k \in same} : t <= n
    <3>1. {es[k].upd : k \in same} \subseteq Nat /\ {es[k].upd : k \in same} # {}
      BY <1>1, <1>3
    <3>2. QED
      BY <3>1, Smallest
  <2>2. PICK k \in {j \in same : es[j].upd = t} : \A n \in {j \in same : es[j].upd = t} : k <= n
    <3>1. {j \in same : es[j].upd = t} \subseteq Nat /\ {j \in same : es[j].upd = t} # {}
      BY <1>1, <1>4, <2>1
    <3>2. QED
      BY <3>1, Smallest
  <2>3. k \in same /\ \A l \in same \ {k} : OldestFirst(es[k], k, es[l], l)
    <3> SUFFICES ASSUME NEW l \in same \ {k} PROVE OldestFirst(es[k], k, es[l], l)
      BY <2>2
    <3>1. /\ k \in Nat /\ l \in Nat /\ es[l].upd \in Nat /\ t \in Nat
          /\ es[k].upd = t /\ t <= es[l].upd /\ (es[l].upd = t => k <= l)
      BY <1>1, <1>4, <2>1, <2>2
    <3>2. QED
      BY <3>1 DEF OldestFirst
  <2> HIDE DEF same
  <2>4. x = CHOOSE j \in same : \A l \in same \ {j} : OldestFirst(es[j], j, es[l], l)
    BY DEF FirstOf, same
  <2>5. QED
    BY <2>3, <2>4
<1> HIDE DEF same, x
<1>7. ASSUME NEW l \in left \ {x} PROVE Ahead(es, x, l)
  <2>1. Ahead(es, x, l) <=>
          \/ RankOf(es, x) < RankOf(es, l)
          \/ /\ RankOf(es, x) = RankOf(es, l)
             /\ es[x].upd < es[l].upd \/ (es[x].upd = es[l].upd /\ x < l)
    BY DEF Ahead, RankOf
  <2>2. RankOf(es, x) = c
    BY <1>4, <1>6
  <2>3. CASE l \in same
    BY <1>4, <1>6, <2>1, <2>2, <2>3 DEF OldestFirst
  <2>4. CASE l \notin same
    BY <1>5, <2>1, <2>2, <2>4
  <2>5. QED
    BY <2>3, <2>4
<1>8. QED
  BY <1>4, <1>6, <1>7 DEF x

-----------------------------------------------------------------------------
\* The loops of write(), turn by turn.
Start(es, w) == [free |-> Room(es, w), out |-> {}]

Turns(es, w, f) ==
  f = [n \in Nat |-> IF n = 0 THEN Start(es, w) ELSE Taken(es, w, f[n - 1])]

\* What n turns yield, when g is that of each number of turns up to n.
UpTo(es, w, n, g) ==
  /\ g[0] = Start(es, w)
  /\ \A i \in 1 .. n : g[i] = Taken(es, w, g[i - 1])

LEMMA UpToExists ==
  ASSUME NEW es, NEW w
  PROVE  \A n \in Nat : \E g : UpTo(es, w, n, g)
<1> DEFINE S == {n \in Nat : \E g : UpTo(es, w, n, g)}
<1>1. 0 \in S
  <2> DEFINE g == [i \in {0} |-> Start(es, w)]
  <2>1. g[0] = Start(es, w) /\ 1 .. 0 = {}
    OBVIOUS
  <2> HIDE DEF g
  <2>2. UpTo(es, w, 0, g)
    BY <2>1 DEF UpTo
  <2>3. QED
    BY <2>2
<1>2. ASSUME NEW n \in Nat, n \in S PROVE n + 1 \in S
  <2>1. PICK g : UpTo(es, w, n, g)
    BY <1>2
  <2> DEFINE h == [i \in 0 .. n + 1 |-> IF i = n + 1 THEN Taken(es, w, g[n]) ELSE g[i]]
  <2>2. h[0] = g[0] /\ h[n + 1] = Taken(es, w, g[n]) /\ \A i \in 0 .. n : h[i] = g[i]
    OBVIOUS
  <2> HIDE DEF h
  <2>3. ASSUME NEW i \in 1 .. n + 1 PROVE h[i] = Taken(es, w, h[i - 1])
    <3>1. CASE i = n + 1
      <4>1. h[i - 1] = g[n]
        BY <2>2, <3>1
      <4>2. QED
        BY <2>2, <3>1, <4>1
    <3>2. CASE i # n + 1
      <4>1. i \in 1 .. n /\ i \in 0 .. n /\ i - 1 \in 0 .. n
        BY <3>2
      <4>2. QED
        BY <2>1, <2>2, <4>1 DEF UpTo
    <3>3. QED
      BY <3>1, <3>2
  <2>4. UpTo(es, w, n + 1, h)
    BY <2>1, <2>2, <2>3 DEF UpTo
  <2>5. QED
    BY <2>4
<1> HIDE DEF S
<1>3. Nat \subseteq S
  BY <1>1, <1>2, NatSetInduction
<1>4. QED
  BY <1>3 DEF S

LEMMA UpToAgrees ==
  ASSUME NEW es, NEW w, NEW n \in Nat, NEW g, NEW h,
         UpTo(es, w, n, g), UpTo(es, w, n + 1, h)
  PROVE  g[n] = h[n]
<1> DEFINE S == {i \in Nat : i <= n => g[i] = h[i]}
<1>1. 0 \in S
  BY DEF UpTo
<1>2. ASSUME NEW i \in Nat, i \in S PROVE i + 1 \in S
  <2> SUFFICES ASSUME i + 1 <= n PROVE g[i + 1] = h[i + 1]
    OBVIOUS
  <2>1. g[i] = h[i]
    BY <1>2
  <2>2. i + 1 \in 1 .. n /\ i + 1 \in 1 .. n + 1 /\ (i + 1) - 1 = i
    OBVIOUS
  <2>3. g[i + 1] = Taken(es, w, g[i]) /\ h[i + 1] = Taken(es, w, h[i])
    BY <2>2 DEF UpTo
  <2>4. QED
    BY <2>1, <2>3
<1> HIDE DEF S
<1>3. Nat \subseteq S
  BY <1>1, <1>2, NatSetInduction
<1>4. QED
  BY <1>3 DEF S

\* The loops have a result after each number of turns.
LEMMA TurnsExist ==
  ASSUME NEW es, NEW w
  PROVE  \E f : Turns(es, w, f)
<1> DEFINE G(n) == CHOOSE g : UpTo(es, w, n, g)
           f == [n \in Nat |-> G(n)[n]]
<1>1. ASSUME NEW n \in Nat PROVE UpTo(es, w, n, G(n))
  BY UpToExists
<1>2. f[0] = Start(es, w)
  BY <1>1 DEF UpTo
<1>3. ASSUME NEW n \in Nat \ {0} PROVE f[n] = Taken(es, w, f[n - 1])
  <2>1. n - 1 \in Nat /\ (n - 1) + 1 = n /\ n \in 1 .. n
    OBVIOUS
  <2>2. UpTo(es, w, n - 1, G(n - 1)) /\ UpTo(es, w, n, G(n))
    BY <1>1, <2>1
  <2> HIDE DEF G
  <2>3. G(n - 1)[n - 1] = G(n)[n - 1]
    BY <2>1, <2>2, UpToAgrees
  <2>4. G(n)[n] = Taken(es, w, G(n)[n - 1])
    BY <2>1, <2>2 DEF UpTo
  <2>5. QED
    BY <2>1, <2>3, <2>4
<1> HIDE DEF f
<1>4. f = [n \in Nat |-> IF n = 0 THEN Start(es, w) ELSE Taken(es, w, f[n - 1])]
  <2>1. f = [n \in Nat |-> f[n]]
    BY DEF f
  <2>2. QED
    BY <1>2, <1>3, <2>1
<1>5. QED
  BY <1>4 DEF Turns

\* Plan is the result of as many turns as there are entries.
LEMMA PlanIsReached ==
  ASSUME NEW es, NEW w
  PROVE  \E f : Turns(es, w, f) /\ Plan(es, w) = f[Cardinality(Held(es))]
<1> DEFINE f == CHOOSE f : Turns(es, w, f)
<1>1. Turns(es, w, f)
  BY TurnsExist
<1>2. Plan(es, w) = f[Cardinality(Held(es))]
  BY DEF Plan, Turns, Start
<1>3. QED
  BY <1>1, <1>2

-----------------------------------------------------------------------------
\* k was the last to be taken, and without it the write did not fit.
LastWasNeeded(es, w, out) ==
  \A k \in out : (\A l \in out \ {k} : Ahead(es, l, k)) =>
    Total(Without(es, (out \ {k}) \cup {w.key})) + w.size > Quota

\* What holds after every turn of the loops: free is the room there is once the
\* entries in out are gone, and they are the first to give way.
InOrder(es, w, p) ==
  /\ p.out \subseteq Evictable(es, w)
  /\ p.free = Quota - Total(Without(es, p.out \cup {w.key}))
  /\ \A k \in p.out, l \in Evictable(es, w) \ p.out : Ahead(es, k, l)
  /\ LastWasNeeded(es, w, p.out)

LEMMA WithoutIsFinite ==
  ASSUME NEW es \in Tables, IsFiniteSet(Held(es)), NEW gone
  PROVE  /\ Without(es, gone) \in Tables
         /\ IsFiniteSet(Held(Without(es, gone)))
         /\ Total(Without(es, gone)) \in Nat
<1>1. Without(es, gone) \in Tables /\ Held(Without(es, gone)) = Held(es) \ gone
  BY WithoutTwice
<1>2. IsFiniteSet(Held(Without(es, gone)))
  <2>1. Held(es) \ gone \in SUBSET Held(es)
    OBVIOUS
  <2>2. QED
    BY <1>1, <2>1, FS_Subset
<1>3. QED
  BY <1>1, <1>2, TotalIsNat

LEMMA StartInOrder ==
  ASSUME NEW es \in Tables, NEW w
  PROVE  InOrder(es, w, Start(es, w))
<1>1. {} \cup {w.key} = {w.key}
  OBVIOUS
<1>2. QED
  BY <1>1 DEF Start, Room, InOrder, LastWasNeeded

LEMMA TurnInOrder ==
  ASSUME NEW es \in Tables, IsFiniteSet(Held(es)), NEW w \in Requests, NEW p, InOrder(es, w, p)
  PROVE  InOrder(es, w, Taken(es, w, p))
<1> DEFINE left == Evictable(es, w) \ p.out
           x == FirstOf(es, left)
           q == [free |-> p.free + es[x].size, out |-> p.out \cup {x}]
           kept == Without(es, p.out \cup {w.key})
<1>1. CASE w.size <= p.free \/ left = {}
  <2>1. Taken(es, w, p) = p
    BY <1>1 DEF Taken
  <2>2. QED
    BY <2>1
<1>2. CASE ~(w.size <= p.free \/ left = {})
  <2>1. Taken(es, w, p) = q
    BY <1>2 DEF Taken
  <2>2. x \in left /\ \A l \in left \ {x} : Ahead(es, x, l)
    BY <1>2, FirstIsAhead
  <2> HIDE DEF x
  <2>3. /\ x \in Evictable(es, w) /\ x \notin p.out
        /\ x \in Keys /\ x # w.key /\ x \in Held(es)
    BY <2>2, EvictableFields
  <2>4. kept \in Tables /\ IsFiniteSet(Held(kept)) /\ Total(kept) \in Nat
    BY WithoutIsFinite
  <2>5. kept[x] = es[x] /\ es[x] # NoEntry
    BY <2>3 DEF Without, Held
  <2>6. Without(kept, {x}) = Without(es, q.out \cup {w.key})
    <3>1. (p.out \cup {w.key}) \cup {x} = q.out \cup {w.key}
      OBVIOUS
    <3>2. QED
      BY <3>1, WithoutTwice
  <2> HIDE DEF kept
  <2>7. /\ es[x].size \in Nat /\ Total(Without(es, q.out \cup {w.key})) \in Nat
        /\ Total(kept) = Total(Without(es, q.out \cup {w.key})) + es[x].size
    BY <2>3, <2>4, <2>5, <2>6, TotalSplits DEF SizeAt
  <2>8. Quota \in Nat /\ w.size \in Nat /\ p.free = Quota - Total(kept)
    BY MemoryAssumption DEF InOrder, kept
  <2>9. q.free = Quota - Total(Without(es, q.out \cup {w.key}))
    BY <2>4, <2>7, <2>8
  <2>10. q.out \subseteq Evictable(es, w)
    BY <2>3 DEF InOrder
  <2>11. \A k \in q.out, l \in Evictable(es, w) \ q.out : Ahead(es, k, l)
    BY <2>2, <2>3 DEF InOrder
  <2>12. ASSUME NEW k \in q.out, \A l \in q.out \ {k} : Ahead(es, l, k)
         PROVE  Total(Without(es, (q.out \ {k}) \cup {w.key})) + w.size > Quota
    <3>1. k = x
      <4> SUFFICES ASSUME k # x PROVE FALSE
        OBVIOUS
      <4>1. k \in p.out /\ x \in q.out \ {k}
        OBVIOUS
      <4>2. Ahead(es, x, k) /\ Ahead(es, k, x)
        BY <2>2, <2>3, <2>12, <4>1 DEF InOrder
      <4>3. k \in Evictable(es, w)
        BY <4>1 DEF InOrder
      <4>4. QED
        BY <2>3, <4>2, <4>3, AheadOneWay
    <3>2. (q.out \ {k}) \cup {w.key} = p.out \cup {w.key}
      BY <2>3, <3>1
    <3>3. Total(Without(es, (q.out \ {k}) \cup {w.key})) = Total(kept)
      BY <3>2 DEF kept
    <3>4. w.size > p.free /\ p.free \in Int
      BY <1>2, <2>4, <2>8
    <3>5. QED
      BY <2>4, <2>8, <3>3, <3>4
  <2>13. InOrder(es, w, q)
    BY <2>9, <2>10, <2>11, <2>12 DEF InOrder, LastWasNeeded
  <2>14. QED
    BY <2>1, <2>13
<1>3. QED
  BY <1>1, <1>2

\* The plan of a write is in order.
LEMMA PlanInOrder ==
  ASSUME NEW es \in Tables, IsFiniteSet(Held(es)), NEW w \in Requests
  PROVE  InOrder(es, w, Plan(es, w))
<1>1. PICK f : Turns(es, w, f) /\ Plan(es, w) = f[Cardinality(Held(es))]
  BY PlanIsReached
<1> DEFINE S == {n \in Nat : InOrder(es, w, f[n])}
<1>2. 0 \in S
  <2>1. f[0] = Start(es, w)
    BY <1>1 DEF Turns
  <2>2. QED
    BY <2>1, StartInOrder
<1>3. ASSUME NEW n \in Nat, n \in S PROVE n + 1 \in S
  <2>1. n + 1 \in Nat /\ n + 1 # 0 /\ (n + 1) - 1 = n
    OBVIOUS
  <2>2. f[n + 1] = Taken(es, w, f[n])
    BY <1>1, <2>1 DEF Turns
  <2>3. InOrder(es, w, f[n])
    BY <1>3
  <2>4. InOrder(es, w, f[n + 1])
    BY <2>2, <2>3, TurnInOrder
  <2>5. QED
    BY <2>1, <2>4
<1> HIDE DEF S
<1>4. Nat \subseteq S
  BY <1>2, <1>3, NatSetInduction
<1>5. Cardinality(Held(es)) \in S
  BY <1>4, FS_CardinalityType
<1>6. QED
  BY <1>1, <1>5 DEF S

-----------------------------------------------------------------------------
\* Taking entries out never makes the total larger.
LEMMA TotalShrinks ==
  ASSUME NEW es \in Tables, IsFiniteSet(Held(es)), NEW gone
  PROVE  Total(Without(es, gone)) <= Total(es)
<1>1. Held(Without(es, gone)) = Held(es) \ gone
  BY WithoutTwice
<1>2. \A k \in Held(Without(es, gone)) : k \in Held(es) /\ Without(es, gone)[k] = es[k]
  BY <1>1 DEF Without, Held
<1>3. Units(Without(es, gone)) \subseteq Units(es)
  BY <1>2 DEF Units
<1>4. IsFiniteSet(Units(es))
  BY TotalIsNat
<1> HIDE DEF Units, Without, Held
<1>5. QED
  BY <1>3, <1>4, FS_Subset DEF Total

\* What the quota and the audit log rely on.
Sizes ==
  /\ IsFiniteSet(Held(entries))
  /\ QuotaHolds
  /\ AuditAddsUp

\* A step whose lines say what it adds up to, and that adds nothing.
LEMMA BookedSizes ==
  ASSUME TypeOK, TypeOK', Sizes, IsFiniteSet(Held(entries')), Total(entries') <= Total(entries),
         audited' = audited + Total(entries') - Total(entries), faults' = faults
  PROVE  Sizes'
<1>1. Total(entries) \in Nat
  BY TotalIsNat DEF TypeOK, Tables, Sizes
<1>2. Total(entries') \in Nat
  BY TotalIsNat DEF TypeOK, Tables
<1>3. QuotaHolds'
  BY <1>1, <1>2, MemoryAssumption DEF Sizes, QuotaHolds
<1>4. AuditAddsUp'
  BY <1>1, <1>2 DEF Sizes, AuditAddsUp
<1>5. QED
  BY <1>3, <1>4 DEF Sizes

LEMMA SameSizes ==
  ASSUME Sizes, entries' = entries, audited' = audited, faults' = faults \/ faults' # 0
  PROVE  Sizes'
BY DEF Sizes, QuotaHolds, AuditAddsUp

LEMMA LiveSizes ==
  ASSUME TypeOK, Sizes
  PROVE  /\ Live \in Tables /\ IsFiniteSet(Held(Live))
         /\ Total(Live) \in Nat /\ Total(Live) <= Total(entries)
BY WithoutIsFinite, TotalShrinks DEF TypeOK, Tables, Sizes, Live

\* A write: what it evicts makes the room it needs, and its lines, the purge's
\* and the evictions' add up to what it changes.
LEMMA WriteSizes ==
  ASSUME TypeOK, TypeOK', Sizes, NEW w \in Requests, NEW n \in BOOLEAN, Write(w, n)
  PROVE  Sizes'
<1> DEFINE es == Live
           plan == Plan(es, w)
           kept == Without(es, plan.out)
           new == [kept EXCEPT ![w.key] = Written(es, w)]
<1>1. es \in Tables /\ IsFiniteSet(Held(es)) /\ Total(es) \in Nat /\ Total(es) <= Total(entries)
  BY LiveSizes
<1>2. InOrder(es, w, plan)
  BY <1>1, PlanInOrder
<1>3. /\ w.key \in Keys /\ w.size \in Nat /\ Quota \in Nat
      /\ Total(entries) \in Nat /\ Total(entries) <= Quota
  BY MemoryAssumption, TotalIsNat DEF TypeOK, Tables, Sizes, QuotaHolds
<1>4. CASE Purge /\ UNCHANGED faults
  BY <1>1, <1>4, BookedSizes DEF Purge
<1>5. CASE /\ ~(Denied(es, w) \/ w.size > plan.free)
           /\ audited' = audited + Total(kept) - Total(entries) + WriteDelta(es, w)
           /\ entries' = new /\ UNCHANGED faults
  <2> HIDE DEF es, plan
  <2>1. kept \in Tables /\ IsFiniteSet(Held(kept)) /\ Total(kept) \in Nat
    BY <1>1, WithoutIsFinite
  <2>2. kept[w.key] = es[w.key]
    BY <1>2, <1>3 DEF InOrder, Evictable, Without
  <2>3. /\ SizeAt(kept, w.key) \in Nat /\ Total(Without(kept, {w.key})) \in Nat
        /\ Total(kept) = Total(Without(kept, {w.key})) + SizeAt(kept, w.key)
    BY <1>3, <2>1, TotalSplits
  <2>4. Total(Without(kept, {w.key})) = Quota - plan.free
    <3>1. Without(kept, {w.key}) = Without(es, plan.out \cup {w.key})
      BY <1>1, WithoutTwice
    <3>2. Total(Without(es, plan.out \cup {w.key})) \in Nat
      BY <1>1, WithoutIsFinite
    <3>3. QED
      BY <1>2, <1>3, <3>1, <3>2 DEF InOrder
  <2>5. new \in Tables
    BY <1>5 DEF TypeOK, Tables
  <2>6. new[w.key] # NoEntry /\ new[w.key].size = w.size
    <3>1. new[w.key] = Written(es, w)
      BY <1>3, <2>1 DEF Tables
    <3>2. Written(es, w).size = w.size /\ Written(es, w).cat = w.cat
      BY DEF Written
    <3>3. w.cat # "none"
      BY MemoryAssumption DEF Categories
    <3>4. QED
      BY <3>1, <3>2, <3>3 DEF NoEntry
  <2>7. IsFiniteSet(Held(new))
    <3>1. Held(new) \subseteq Held(kept) \cup {w.key}
      BY <1>3, <2>1 DEF Held, Tables
    <3>2. IsFiniteSet(Held(kept) \cup {w.key})
      BY <2>1, FS_AddElement
    <3> HIDE DEF kept, new
    <3>3. QED
      BY <3>1, <3>2, FS_Subset
  <2>8. Total(new) = Total(Without(kept, {w.key})) + w.size
    <3>1. Without(new, {w.key}) = Without(kept, {w.key})
      BY <2>1 DEF Without, Tables
    <3> HIDE DEF kept, new
    <3>2. Total(new) = Total(Without(new, {w.key})) + SizeAt(new, w.key)
      BY <1>3, <2>5, <2>7, TotalSplits
    <3>3. QED
      BY <2>6, <3>1, <3>2 DEF SizeAt
  <2>9. WriteDelta(es, w) = w.size - SizeAt(kept, w.key)
    BY <2>2 DEF WriteDelta, SizeAt
  <2>10. w.size <= plan.free /\ plan.free \in Int
    <3>1. Total(Without(es, plan.out \cup {w.key})) \in Nat
      BY <1>1, WithoutIsFinite
    <3>2. plan.free \in Int
      BY <1>2, <1>3, <3>1 DEF InOrder
    <3>3. QED
      BY <1>3, <1>5, <3>2
  <2> HIDE DEF kept, new
  <2>11. Total(new) \in Nat /\ Total(new) <= Quota
    BY <1>3, <2>3, <2>4, <2>8, <2>10
  <2>12. entries' = new
    BY <1>5
  <2>13. QuotaHolds'
    BY <2>11, <2>12 DEF QuotaHolds
  <2>14. AuditAddsUp'
    <3>1. audited' = audited + Total(kept) - Total(entries) + (w.size - SizeAt(kept, w.key)) /\ faults' = faults
      BY <1>5, <2>9
    <3>2. faults = 0 => audited = Total(entries)
      BY DEF Sizes, AuditAddsUp
    <3>3. faults = 0 => audited' = Total(new)
      BY <1>3, <2>1, <2>3, <2>8, <3>1, <3>2
    <3>4. QED
      BY <2>12, <3>1, <3>3 DEF AuditAddsUp
  <2>15. QED
    BY <2>7, <2>12, <2>13, <2>14 DEF Sizes
<1>6. CASE faults' = faults + 1 /\ entries' \in {entries, es}
  <2>1. faults' # 0
    BY <1>6 DEF TypeOK
  <2>2. IsFiniteSet(Held(entries')) /\ Total(entries') <= Quota
    BY <1>1, <1>3, <1>6 DEF Sizes
  <2>3. QED
    BY <2>1, <2>2 DEF Sizes, QuotaHolds, AuditAddsUp
<1>7. QED
  BY <1>4, <1>5, <1>6 DEF Write

LEMMA SizesStep == TypeOK /\ Sizes /\ [Next]_vars => Sizes'
<1> SUFFICES ASSUME TypeOK, Sizes, [Next]_vars PROVE Sizes'
  OBVIOUS
<1>1. TypeOK'
  BY TypeStep
<1>2. ASSUME Purge, faults' = faults PROVE Sizes'
  BY <1>1, <1>2, LiveSizes, BookedSizes DEF Purge
<1>3. ASSUME NEW gone, RemoveKeys(gone) PROVE Sizes'
  <2>1. entries' = Without(Live, gone) /\ audited' = audited + Total(entries') - Total(entries)
        /\ faults' = faults
    BY <1>3 DEF RemoveKeys
  <2>2. /\ Live \in Tables /\ IsFiniteSet(Held(Live))
        /\ Total(Live) \in Nat /\ Total(Live) <= Total(entries) /\ Total(entries) \in Nat
    BY LiveSizes, TotalIsNat DEF TypeOK, Tables, Sizes
  <2>3. IsFiniteSet(Held(entries')) /\ Total(entries') <= Total(Live) /\ Total(entries') \in Nat
    BY <2>1, <2>2, WithoutIsFinite, TotalShrinks
  <2>4. Total(entries') <= Total(entries)
    BY <2>2, <2>3
  <2>5. QED
    BY <1>1, <2>1, <2>3, <2>4, BookedSizes
<1>4. ASSUME NEW g \in Genes, NEW k \in Keys, Live[k] # NoEntry,
             entries' = [Live EXCEPT ![k].last = g],
             audited' = audited + Total(Live) - Total(entries), faults' = faults
      PROVE  Sizes'
  <2>1. Live \in Tables /\ IsFiniteSet(Held(Live)) /\ Total(Live) <= Total(entries)
    BY LiveSizes
  <2>2. entries' \in Tables
    BY <1>1 DEF TypeOK, Tables
  <2>3. entries' = [Live EXCEPT ![k] = [Live[k] EXCEPT !.last = g]]
    BY <1>4
  <2>4. Live[k] \in Entry
    BY <1>4, <2>1 DEF Tables
  <2>5. [Live[k] EXCEPT !.last = g] \in Entry /\ [Live[k] EXCEPT !.last = g].size = Live[k].size
    BY <2>4 DEF Entry
  <2>6. \A j \in Keys : /\ Live[j] = NoEntry <=> entries'[j] = NoEntry
                        /\ Live[j] # NoEntry => Live[j].size = entries'[j].size
    BY <1>4, <2>1, <2>3, <2>5, NoEntryIsNone DEF Tables
  <2>7. Total(Live) = Total(entries')
    BY <2>1, <2>2, <2>6, SameTotal
  <2>8. Held(entries') = Held(Live)
    BY <2>6 DEF Held
  <2>9. QED
    BY <1>1, <1>4, <2>1, <2>7, <2>8, BookedSizes
<1>5. ASSUME NEW r \in Runs, OpenMemory(r) \/ CreateMemory(r) \/ SetRetention(r) \/ EndRun(r)
      PROVE  Sizes'
  <2>1. \/ Purge /\ faults' = faults
        \/ entries' = entries /\ audited' = audited /\ (faults' = faults \/ faults' = faults + 1)
    BY <1>5 DEF OpenMemory, CreateMemory, SetRetention, EndRun
  <2>2. faults + 1 # 0
    BY DEF TypeOK
  <2>3. QED
    BY <1>2, <2>1, <2>2, SameSizes
<1>6. CASE Tick \/ UNCHANGED vars
  BY <1>6, SameSizes DEF Tick, vars
<1>7. CASE Query
  BY <1>2, <1>7 DEF Query
<1>8. ASSUME NEW w \in Requests, NEW n \in BOOLEAN, Write(w, n) PROVE Sizes'
  BY <1>1, <1>8, WriteSizes
<1>9. ASSUME NEW g \in Genes, NEW k \in Keys, Read(g, k) PROVE Sizes'
  BY <1>2, <1>4, <1>9 DEF Read
<1>10. QED
  BY <1>3, <1>5, <1>6, <1>7, <1>8, <1>9 DEF Next, Delete, DeployerDelete

\* The memory is finite, within its quota and accounted for, whatever the genes
\* write, update, let expire and delete, and whatever save fails.
LEMMA SizesHold == Spec => []Sizes
<1>1. Init => Sizes
  <2> SUFFICES ASSUME Init PROVE Sizes
    OBVIOUS
  <2>1. Held(entries) = {}
    BY DEF Init, Held
  <2>2. Units(entries) = {}
    BY <2>1 DEF Units
  <2>3. IsFiniteSet(Held(entries)) /\ Total(entries) = 0
    BY <2>1, <2>2, FS_EmptySet DEF Total
  <2>4. QED
    BY <2>3, MemoryAssumption DEF Init, Sizes, QuotaHolds, AuditAddsUp
<1>2. QED
  BY <1>1, SizesStep, MemoryTypes, PTL DEF Spec

\* What the memory holds never exceeds its quota: the loops of write() leave the
\* written entry the room they say, although an update frees what it replaces
\* and a failed save leaves the old entries.
THEOREM QuotaIsKept == Spec => []QuotaHolds
<1>1. Sizes => QuotaHolds
  BY DEF Sizes
<1>2. QED
  BY <1>1, SizesHold, PTL

\* Until a save fails, the sizes of the audit log add up to what the memory
\* holds: no entry expires, is evicted, is replaced or is deleted without a line
\* (save() and loadLive() in backend.ts).
THEOREM AuditIsComplete == Spec => []AuditAddsUp
<1>1. Sizes => AuditAddsUp
  BY DEF Sizes
<1>2. QED
  BY <1>1, SizesHold, PTL

\* In every state, whatever is written next: the loops of write() take no
\* PREFERENCE and not the written entry, take no entry before one that gives way
\* first, and stop as soon as the write fits.
THEOREM EvictionTakesTheLeast == Spec => []EvictionIsMinimal
<1>1. TypeOK /\ Sizes => EvictionIsMinimal
  <2> SUFFICES ASSUME TypeOK, Sizes, NEW w \in Requests
               PROVE  LET es == Live
                          plan == Plan(es, w)
                          spared == {k \in Held(es) \ ({w.key} \cup plan.out) : es[k].cat # "PREFERENCE"}
                      IN  /\ \A k \in plan.out : es[k].cat # "PREFERENCE" /\ k # w.key
                          /\ \A k \in plan.out, l \in spared : Ahead(es, k, l)
                          /\ LastWasNeeded(es, w, plan.out)
    BY DEF EvictionIsMinimal, LastWasNeeded
  <2> DEFINE es == Live
             plan == Plan(es, w)
             spared == {k \in Held(es) \ ({w.key} \cup plan.out) : es[k].cat # "PREFERENCE"}
  <2>1. es \in Tables /\ IsFiniteSet(Held(es))
    BY LiveSizes
  <2> HIDE DEF es
  <2>2. InOrder(es, w, plan)
    BY <2>1, PlanInOrder
  <2> HIDE DEF plan
  <2>3. \A k \in plan.out : es[k].cat # "PREFERENCE" /\ k # w.key
    BY <2>1, <2>2, EvictableFields DEF InOrder
  <2>4. spared \subseteq Evictable(es, w) \ plan.out
    BY <2>1, SparedAreEvictable
  <2>5. \A k \in plan.out, l \in spared : Ahead(es, k, l)
    BY <2>2, <2>4 DEF InOrder
  <2>6. LastWasNeeded(es, w, plan.out)
    BY <2>2 DEF InOrder
  <2>7. QED
    BY <2>3, <2>5, <2>6 DEF es, plan
<1>2. QED
  BY <1>1, SizesHold, MemoryTypes, PTL
=============================================================================
