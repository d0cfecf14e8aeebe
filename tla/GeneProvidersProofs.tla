------------------------- MODULE GeneProvidersProofs -------------------------
(***************************************************************************)
(* What holds of GeneProviders for every set of genes, peers and           *)
(* pseudonyms and for all budgets: the types, the two budgets of other     *)
(* nodes' entries, and the fairness of an eviction. Lists are thinned by   *)
(* `retain` and swap_remove; that neither brings an entry in is said by an *)
(* embedding of the new list in the old one, and the budgets, which are    *)
(* cardinalities, follow from the embeddings.                              *)
(***************************************************************************)
EXTENDS GeneProviders, FiniteSetTheorems, TLAPS

(* An entry; one without a holder is this node's own.                        *)
ProviderEntry ==
    {e \in [provider: Peers, holder: Holder, expires: Nat] :
        e.holder = Own => e.provider = Local}
Lists == [Genes -> Seq(ProviderEntry)]

Types ==
    /\ providers \in Lists
    /\ proof \in Proofs
    /\ now \in Nat

Budgets(lists) ==
    /\ \A g \in Genes : Cardinality(ForeignAt(lists[g])) <= ProvidersPerKey
    /\ Cardinality(ForeignSlots(lists)) <= MaxProviderEntries

-----------------------------------------------------------------------------
(* Induction over the naturals, for a set of them.                           *)
LEMMA NatSetInduction ==
    ASSUME NEW S, 0 \in S, \A n \in Nat : n \in S => n + 1 \in S
    PROVE  Nat \subseteq S
  <1> DEFINE R == OpToRel(<, Nat)
  <1> SUFFICES ASSUME Nat \ S # {} PROVE FALSE
    OBVIOUS
  <1>1. IsWellFoundedOn(R, Nat)
    BY NatLessThanWellFounded
  <1>2. PICK x \in Nat \ S : \A y \in Nat \ S : <<y, x>> \notin R
    <2> HIDE DEF R
    <2> QED  BY <1>1, WFMin
  <1>3. x # 0 /\ x - 1 \in Nat /\ x - 1 < x
    OBVIOUS
  <1>4. x - 1 \in Nat \ S
    BY <1>3
  <1>5. <<x - 1, x>> \in R
    BY <1>3 DEF OpToRel
  <1> QED  BY <1>2, <1>4, <1>5

(* Some places have a first one.                                             *)
LEMMA FirstIsOne ==
    ASSUME NEW S, S \subseteq Nat, S # {}
    PROVE  First(S) \in S
  <1> DEFINE R == OpToRel(<, Nat)
  <1>1. IsWellFoundedOn(R, Nat)
    BY NatLessThanWellFounded
  <1>2. PICK x \in S : \A y \in S : <<y, x>> \notin R
    <2> HIDE DEF R
    <2> QED  BY <1>1, WFMin
  <1>3. ASSUME NEW y \in S PROVE x <= y
    <2>1. x \in Nat /\ y \in Nat
      OBVIOUS
    <2>2. ~(y < x)
      BY <1>2, <2>1 DEF OpToRel
    <2> QED  BY <2>1, <2>2
  <1> QED  BY <1>2, <1>3 DEF First

-----------------------------------------------------------------------------
(* The entries of `t` are entries of `s` at different places of `P`.         *)
Embeds(t, s, P) ==
    \E e \in [DOMAIN t -> P] :
        /\ \A i, j \in DOMAIN t : i # j => e[i] # e[j]
        /\ \A i \in DOMAIN t : t[i] = s[e[i]]

(* The recursion of Retain has the solution its equation names.              *)
LEMMA RetainUnfolds ==
    ASSUME NEW E, NEW list \in Seq(E), NEW kept
    PROVE  \E f : /\ Retain(list, kept) = f[Len(list)]
                  /\ f[0] = <<>>
                  /\ \A n \in 1 .. Len(list) :
                        f[n] = IF n \in kept THEN Append(f[n - 1], list[n]) ELSE f[n - 1]
  <1> DEFINE Solves(f, m) ==
               f = [n \in 0 .. m |->
                      IF n = 0 THEN <<>>
                      ELSE IF n \in kept THEN Append(f[n - 1], list[n]) ELSE f[n - 1]]
             S == {m \in Nat : \E f : Solves(f, m)}
  <1>1. 0 \in S
    <2>1. Solves([n \in 0 .. 0 |-> <<>>], 0)
      OBVIOUS
    <2> QED  BY <2>1
  <1>2. ASSUME NEW m \in Nat, m \in S
        PROVE  m + 1 \in S
    <2>1. PICK f : Solves(f, m)
      BY <1>2
    <2> DEFINE last == IF m + 1 \in kept THEN Append(f[m], list[m + 1]) ELSE f[m]
               g == [n \in 0 .. m + 1 |-> IF n <= m THEN f[n] ELSE last]
    <2>2. \A n \in 0 .. m : g[n] = f[n]
      OBVIOUS
    <2>3. g[m + 1] = last
      OBVIOUS
    <2>4. \A n \in 0 .. m + 1 :
            g[n] = IF n = 0 THEN <<>>
                   ELSE IF n \in kept THEN Append(g[n - 1], list[n]) ELSE g[n - 1]
      <3> SUFFICES ASSUME NEW n \in 0 .. m + 1
                   PROVE  g[n] = IF n = 0 THEN <<>>
                                 ELSE IF n \in kept THEN Append(g[n - 1], list[n]) ELSE g[n - 1]
        OBVIOUS
      <3> HIDE DEF g
      <3>1. CASE n = 0
        BY <2>1, <2>2, <3>1
      <3>2. CASE n \in 1 .. m
        <4>1. n \in 0 .. m /\ n - 1 \in 0 .. m /\ n # 0
          BY <3>2
        <4>2. f[n] = IF n \in kept THEN Append(f[n - 1], list[n]) ELSE f[n - 1]
          BY <2>1, <4>1
        <4> QED  BY <2>2, <4>1, <4>2
      <3>3. CASE n = m + 1
        BY <2>2, <2>3, <3>3
      <3> QED  BY <3>1, <3>2, <3>3
    <2>5. Solves(g, m + 1)
      BY <2>4
    <2>6. \E h : Solves(h, m + 1)
      <3> HIDE DEF Solves, g
      <3> QED  BY <2>5
    <2>7. m + 1 \in Nat
      OBVIOUS
    <2> HIDE DEF Solves
    <2> QED  BY <2>6, <2>7
  <1>3. Len(list) \in S
    <2> HIDE DEF S
    <2> QED  BY <1>1, <1>2, NatSetInduction
  <1> DEFINE up == CHOOSE f : Solves(f, Len(list))
  <1>4. Solves(up, Len(list))
    BY <1>3
  <1>5. Retain(list, kept) = up[Len(list)]
    BY DEF Retain
  <1> HIDE DEF up
  <1>6. up[0] = <<>>
    BY <1>4
  <1>7. ASSUME NEW n \in 1 .. Len(list)
        PROVE  up[n] = IF n \in kept THEN Append(up[n - 1], list[n]) ELSE up[n - 1]
    <2>1. n \in 0 .. Len(list) /\ n # 0
      BY <1>7
    <2> QED  BY <1>4, <2>1
  <1> QED  BY <1>5, <1>6, <1>7

(* What is retained keeps its order of places: it embeds in the list.        *)
LEMMA RetainEmbeds ==
    ASSUME NEW E, NEW list \in Seq(E), NEW kept
    PROVE  /\ Retain(list, kept) \in Seq(E)
           /\ Embeds(Retain(list, kept), list, kept \cap DOMAIN list)
  <1>1. PICK f : /\ Retain(list, kept) = f[Len(list)]
                 /\ f[0] = <<>>
                 /\ \A n \in 1 .. Len(list) :
                       f[n] = IF n \in kept THEN Append(f[n - 1], list[n]) ELSE f[n - 1]
    BY RetainUnfolds
  <1> DEFINE Good(t, m) == t \in Seq(E) /\ Embeds(t, list, kept \cap (1 .. m))
             S == {m \in Nat : m <= Len(list) => Good(f[m], m)}
  <1>2. 0 \in S
    <2>1. f[0] \in Seq(E) /\ DOMAIN f[0] = {}
      BY <1>1
    <2>2. [i \in {} |-> 0] \in [DOMAIN f[0] -> kept \cap (1 .. 0)]
      BY <2>1
    <2> QED  BY <2>1, <2>2 DEF Embeds
  <1>3. ASSUME NEW m \in Nat, m \in S
        PROVE  m + 1 \in S
    <2> SUFFICES ASSUME m + 1 <= Len(list)
                 PROVE  Good(f[m + 1], m + 1)
      OBVIOUS
    <2>1. Good(f[m], m) /\ m + 1 \in 1 .. Len(list) /\ m + 1 - 1 = m
      BY <1>3
    <2>2. f[m + 1] = IF m + 1 \in kept THEN Append(f[m], list[m + 1]) ELSE f[m]
      BY <1>1, <2>1
    <2>3. PICK e \in [DOMAIN f[m] -> kept \cap (1 .. m)] :
             /\ \A i, j \in DOMAIN f[m] : i # j => e[i] # e[j]
             /\ \A i \in DOMAIN f[m] : f[m][i] = list[e[i]]
      BY <2>1 DEF Embeds
    <2>4. CASE m + 1 \notin kept
      <3>1. e \in [DOMAIN f[m] -> kept \cap (1 .. m + 1)]
        BY <2>3
      <3> QED  BY <2>1, <2>2, <2>3, <2>4, <3>1 DEF Embeds
    <2>5. CASE m + 1 \in kept
      <3> DEFINE t == f[m]
                 u == Append(t, list[m + 1])
                 d == [i \in DOMAIN u |-> IF i = Len(t) + 1 THEN m + 1 ELSE e[i]]
      <3>1. t \in Seq(E) /\ list[m + 1] \in E
        BY <2>1
      <3>2. u \in Seq(E) /\ DOMAIN u = 1 .. Len(t) + 1 /\ DOMAIN t = 1 .. Len(t) /\ Len(t) \in Nat
        BY <3>1
      <3>3. u[Len(t) + 1] = list[m + 1] /\ \A i \in 1 .. Len(t) : u[i] = t[i]
        BY <3>1
      <3> HIDE DEF t, u
      <3>4. \A i \in DOMAIN u : i # Len(t) + 1 => i \in DOMAIN t /\ d[i] = e[i]
        BY <3>2
      <3>5. d[Len(t) + 1] = m + 1
        BY <3>2
      <3>6. \A i \in DOMAIN t : e[i] \in kept /\ e[i] \in 1 .. m
        BY <2>3 DEF t
      <3>7. d \in [DOMAIN u -> kept \cap (1 .. m + 1)]
        BY <2>5, <3>4, <3>6
      <3> HIDE DEF d
      <3>8. ASSUME NEW i \in DOMAIN u, NEW j \in DOMAIN u, i # j
            PROVE  d[i] # d[j]
        <4>1. CASE i # Len(t) + 1 /\ j # Len(t) + 1
          BY <2>3, <3>4, <3>8, <4>1 DEF t
        <4>2. CASE i = Len(t) + 1 \/ j = Len(t) + 1
          BY <3>4, <3>5, <3>6, <3>8, <4>2
        <4> QED  BY <4>1, <4>2
      <3>9. ASSUME NEW i \in DOMAIN u
            PROVE  u[i] = list[d[i]]
        <4>1. CASE i # Len(t) + 1
          BY <2>3, <3>2, <3>3, <3>4, <4>1 DEF t
        <4>2. CASE i = Len(t) + 1
          BY <3>3, <3>5, <4>2
        <4> QED  BY <4>1, <4>2
      <3>10. Good(u, m + 1)
        BY <3>2, <3>7, <3>8, <3>9 DEF Embeds
      <3> QED  BY <2>2, <2>5, <3>10 DEF t, u
    <2> QED  BY <2>4, <2>5
  <1>4. Len(list) \in S
    <2> HIDE DEF S
    <2> QED  BY <1>2, <1>3, NatSetInduction
  <1>5. Good(Retain(list, kept), Len(list)) /\ DOMAIN list = 1 .. Len(list)
    BY <1>1, <1>4
  <1> QED  BY <1>5

(* swap_remove takes one entry out and moves the last one to its place.      *)
LEMMA SwapRemoveThins ==
    ASSUME NEW E, NEW list \in Seq(E), NEW i \in DOMAIN list
    PROVE  /\ SwapRemove(list, i) \in Seq(E)
           /\ Len(SwapRemove(list, i)) = Len(list) - 1
           /\ Embeds(SwapRemove(list, i), list, DOMAIN list \ {i})
           /\ \A j \in DOMAIN list \ {i} : list[j] \in Entries(SwapRemove(list, i))
  <1> DEFINE n == Len(list)
             t == SwapRemove(list, i)
             e == [j \in 1 .. n - 1 |-> IF j = i THEN n ELSE j]
  <1>1. n \in Nat /\ n >= 1 /\ DOMAIN list = 1 .. n /\ i \in 1 .. n
    OBVIOUS
  <1>2. [list EXCEPT ![i] = list[n]] \in Seq(E) /\ Len([list EXCEPT ![i] = list[n]]) = n
    BY <1>1
  <1>3. /\ t \in Seq(E) /\ Len(t) = n - 1 /\ DOMAIN t = 1 .. n - 1
        /\ \A j \in 1 .. n - 1 : t[j] = [list EXCEPT ![i] = list[n]][j]
    BY <1>1, <1>2 DEF SwapRemove, Front, Last
  <1>4. \A j \in 1 .. n - 1 : t[j] = list[e[j]]
    BY <1>1, <1>3
  <1>5. e \in [1 .. n - 1 -> DOMAIN list \ {i}]
    BY <1>1
  <1>6. \A j, k \in 1 .. n - 1 : j # k => e[j] # e[k]
    BY <1>1
  <1>7. Embeds(t, list, DOMAIN list \ {i})
    <2> HIDE DEF t, e
    <2>1. DOMAIN t = 1 .. n - 1
      BY <1>3
    <2> QED  BY <1>4, <1>5, <1>6, <2>1 DEF Embeds
  <1>8. ASSUME NEW j \in DOMAIN list \ {i}
        PROVE  list[j] \in Entries(t)
    <2>1. CASE j = n
      <3>1. i \in 1 .. n - 1 /\ e[i] = n
        BY <1>1, <2>1
      <3> QED  BY <1>3, <1>4, <2>1, <3>1 DEF Entries
    <2>2. CASE j # n
      <3>1. j \in 1 .. n - 1 /\ e[j] = j
        BY <1>1, <2>2
      <3> QED  BY <1>3, <1>4, <3>1 DEF Entries
    <2> QED  BY <2>1, <2>2
  <1> QED  BY <1>3, <1>7, <1>8

LEMMA EmbedsItself ==
    ASSUME NEW E, NEW list \in Seq(E)
    PROVE  Embeds(list, list, DOMAIN list)
  <1>1. [i \in DOMAIN list |-> i] \in [DOMAIN list -> DOMAIN list]
    OBVIOUS
  <1> QED  BY <1>1 DEF Embeds

LEMMA EmbedsWider ==
    ASSUME NEW t, NEW s, NEW P, NEW Q, P \subseteq Q, Embeds(t, s, P)
    PROVE  Embeds(t, s, Q)
  <1>1. PICK e \in [DOMAIN t -> P] :
           /\ \A i, j \in DOMAIN t : i # j => e[i] # e[j]
           /\ \A i \in DOMAIN t : t[i] = s[e[i]]
    BY DEF Embeds
  <1>2. e \in [DOMAIN t -> Q]
    OBVIOUS
  <1> QED  BY <1>1, <1>2 DEF Embeds

LEMMA EmbedsEntries ==
    ASSUME NEW t, NEW s, Embeds(t, s, DOMAIN s)
    PROVE  Entries(t) \subseteq Entries(s)
  BY DEF Embeds, Entries

-----------------------------------------------------------------------------
(* Injections do not lose elements: counting by them.                        *)
LEMMA InjectionCounts ==
    ASSUME NEW S, NEW T, IsFiniteSet(T), NEW h \in [S -> T],
           \A x, y \in S : x # y => h[x] # h[y]
    PROVE  IsFiniteSet(S) /\ Cardinality(S) <= Cardinality(T)
  <1>1. h \in Injection(S, T)
    BY DEF Injection, IsInjective
  <1> QED  BY <1>1, FS_Injection

LEMMA ListFinite ==
    ASSUME NEW E, NEW list \in Seq(E)
    PROVE  /\ IsFiniteSet(DOMAIN list) /\ Cardinality(DOMAIN list) = Len(list)
           /\ IsFiniteSet(ForeignAt(list)) /\ Cardinality(ForeignAt(list)) \in Nat
           /\ Cardinality(ForeignAt(list)) <= Len(list)
  <1>1. DOMAIN list = 1 .. Len(list) /\ Len(list) \in Nat
    OBVIOUS
  <1>2. IsFiniteSet(DOMAIN list) /\ Cardinality(DOMAIN list) = Len(list)
    BY <1>1, FS_Interval
  <1>3. ForeignAt(list) \in SUBSET DOMAIN list
    BY DEF ForeignAt, Indices
  <1>4. IsFiniteSet(ForeignAt(list)) /\ Cardinality(ForeignAt(list)) <= Cardinality(DOMAIN list)
    BY <1>2, <1>3, FS_Subset
  <1> QED  BY <1>2, <1>4, FS_CardinalityType

(* A list embedded in the places P of another has no more foreign entries    *)
(* than there are at P.                                                      *)
LEMMA EmbeddedForeign ==
    ASSUME NEW E, NEW s \in Seq(E), NEW t, NEW P \in SUBSET DOMAIN s, Embeds(t, s, P)
    PROVE  /\ IsFiniteSet(ForeignAt(t))
           /\ Cardinality(ForeignAt(t)) <= Cardinality(ForeignAt(s) \cap P)
  <1>1. PICK e \in [DOMAIN t -> P] :
           /\ \A i, j \in DOMAIN t : i # j => e[i] # e[j]
           /\ \A i \in DOMAIN t : t[i] = s[e[i]]
    BY DEF Embeds
  <1> DEFINE h == [i \in ForeignAt(t) |-> e[i]]
  <1>2. ForeignAt(t) \subseteq DOMAIN t
    BY DEF ForeignAt, Indices
  <1>3. h \in [ForeignAt(t) -> ForeignAt(s) \cap P]
    BY <1>1 DEF ForeignAt, Indices
  <1>4. \A i, j \in ForeignAt(t) : i # j => h[i] # h[j]
    BY <1>1, <1>2
  <1>5. IsFiniteSet(ForeignAt(s) \cap P)
    BY ListFinite, FS_Subset
  <1> HIDE DEF h
  <1> QED  BY <1>3, <1>4, <1>5, InjectionCounts

LEMMA SlotsAre ==
    ASSUME NEW lists, NEW x
    PROVE  /\ x \in Slots(lists) <=>
                \E g \in Genes : \E i \in DOMAIN lists[g] : x = <<g, i>>
           /\ x \in ForeignSlots(lists) <=>
                \E g \in Genes : \E i \in ForeignAt(lists[g]) : x = <<g, i>>
  <1>1. x \in Slots(lists) <=> \E g \in Genes : \E i \in DOMAIN lists[g] : x = <<g, i>>
    BY DEF Slots
  <1>2. \A g, i : <<g, i>>[1] = g /\ <<g, i>>[2] = i
    OBVIOUS
  <1> QED  BY <1>1, <1>2 DEF ForeignSlots, ForeignAt, Indices

(* Finitely many genes with a list each have finitely many entries.          *)
LEMMA SlotsFinite ==
    ASSUME NEW E, NEW lists \in [Genes -> Seq(E)]
    PROVE  /\ IsFiniteSet(Slots(lists)) /\ Cardinality(Slots(lists)) \in Nat
           /\ IsFiniteSet(ForeignSlots(lists)) /\ Cardinality(ForeignSlots(lists)) \in Nat
           /\ Cardinality(ForeignSlots(lists)) <= Cardinality(Slots(lists))
  <1> DEFINE At(g) == {g} \X DOMAIN lists[g]
             R == {At(g) : g \in Genes}
             f == [g \in Genes |-> At(g)]
  <1>1. IsFiniteSet(R)
    <2>1. f \in Surjection(Genes, R)
      BY DEF Surjection
    <2> HIDE DEF f, R
    <2> QED  BY <2>1, ProvidersAssumption, FS_Surjection
  <1>2. ASSUME NEW T \in R PROVE IsFiniteSet(T)
    <2>1. PICK g \in Genes : T = {g} \X DOMAIN lists[g]
      OBVIOUS
    <2>2. IsFiniteSet(DOMAIN lists[g])
      BY ListFinite
    <2> QED  BY <2>1, <2>2, FS_Singleton, FS_Product
  <1>3. IsFiniteSet(Slots(lists))
    <2>1. IsFiniteSet(UNION R)
      <3> HIDE DEF R
      <3> QED  BY <1>1, <1>2, FS_UNION
    <2> QED  BY <2>1 DEF Slots
  <1>4. ForeignSlots(lists) \in SUBSET Slots(lists)
    BY DEF ForeignSlots
  <1> QED  BY <1>3, <1>4, FS_Subset, FS_CardinalityType

(* The same for a whole store, list by list.                                 *)
LEMMA EmbeddedStore ==
    ASSUME NEW E, NEW old \in [Genes -> Seq(E)], NEW new, NEW P,
           \A g \in Genes : P[g] \subseteq DOMAIN old[g] /\ Embeds(new[g], old[g], P[g])
    PROVE  /\ IsFiniteSet(ForeignSlots(new))
           /\ Cardinality(ForeignSlots(new))
                <= Cardinality({x \in ForeignSlots(old) : x[2] \in P[x[1]]})
  <1> DEFINE Good(g, e) == /\ e \in [DOMAIN new[g] -> P[g]]
                           /\ \A i, j \in DOMAIN new[g] : i # j => e[i] # e[j]
                           /\ \A i \in DOMAIN new[g] : new[g][i] = old[g][e[i]]
             w == [g \in Genes |-> CHOOSE e : Good(g, e)]
             h == [x \in ForeignSlots(new) |-> <<x[1], w[x[1]][x[2]]>>]
             T == {x \in ForeignSlots(old) : x[2] \in P[x[1]]}
  <1>1. ASSUME NEW g \in Genes PROVE Good(g, w[g])
    <2>1. \E e : Good(g, e)
      BY DEF Embeds
    <2> QED  BY <2>1
  <1> HIDE DEF w
  <1>2. ASSUME NEW x \in ForeignSlots(new)
        PROVE  h[x] \in T
    <2>1. PICK g, i : g \in Genes /\ i \in ForeignAt(new[g]) /\ x = <<g, i>>
      BY SlotsAre
    <2>2. i \in DOMAIN new[g] /\ new[g][i].holder # Own
      BY <2>1 DEF ForeignAt, Indices
    <2>3. w[g][i] \in P[g] /\ new[g][i] = old[g][w[g][i]]
      BY <1>1, <2>1, <2>2
    <2>4. w[g][i] \in ForeignAt(old[g])
      BY <2>1, <2>2, <2>3 DEF ForeignAt, Indices
    <2>5. h[x] = <<g, w[g][i]>>
      BY <2>1
    <2>6. <<g, w[g][i]>> \in ForeignSlots(old)
      BY <2>1, <2>4, SlotsAre
    <2> QED  BY <2>3, <2>5, <2>6
  <1>3. ASSUME NEW x \in ForeignSlots(new), NEW y \in ForeignSlots(new), x # y
        PROVE  h[x] # h[y]
    <2>1. PICK g, i : g \in Genes /\ i \in ForeignAt(new[g]) /\ x = <<g, i>>
      BY SlotsAre
    <2>2. PICK k, j : k \in Genes /\ j \in ForeignAt(new[k]) /\ y = <<k, j>>
      BY SlotsAre
    <2>3. i \in DOMAIN new[g] /\ j \in DOMAIN new[k]
      BY <2>1, <2>2 DEF ForeignAt, Indices
    <2>4. h[x] = <<g, w[g][i]>> /\ h[y] = <<k, w[k][j]>>
      BY <2>1, <2>2
    <2>5. CASE g = k
      <3>1. i # j
        BY <1>3, <2>1, <2>2, <2>5
      <3>2. w[g][i] # w[g][j]
        BY <1>1, <2>1, <2>3, <2>5, <3>1
      <3> QED  BY <2>4, <2>5, <3>2
    <2>6. CASE g # k
      BY <2>4, <2>6
    <2> QED  BY <2>5, <2>6
  <1>4. IsFiniteSet(T)
    BY SlotsFinite, FS_Subset
  <1>5. h \in [ForeignSlots(new) -> T]
    BY <1>2
  <1> HIDE DEF h, T
  <1>6. /\ IsFiniteSet(ForeignSlots(new))
        /\ Cardinality(ForeignSlots(new)) <= Cardinality(T)
    BY <1>3, <1>4, <1>5, InjectionCounts
  <1> QED  BY <1>6 DEF T

LEMMA ThinnedKeepsBudgets ==
    ASSUME NEW E, NEW old \in [Genes -> Seq(E)], NEW new,
           \A g \in Genes : Embeds(new[g], old[g], DOMAIN old[g]),
           Budgets(old)
    PROVE  Budgets(new)
  <1> DEFINE P == [g \in Genes |-> DOMAIN old[g]]
  <1>1. ASSUME NEW g \in Genes
        PROVE  Cardinality(ForeignAt(new[g])) <= ProvidersPerKey
    <2>1. ForeignAt(old[g]) \cap DOMAIN old[g] = ForeignAt(old[g])
      BY DEF ForeignAt, Indices
    <2>2. /\ IsFiniteSet(ForeignAt(new[g]))
          /\ Cardinality(ForeignAt(new[g])) <= Cardinality(ForeignAt(old[g]))
      BY <2>1, EmbeddedForeign
    <2>3. Cardinality(ForeignAt(new[g])) \in Nat /\ Cardinality(ForeignAt(old[g])) \in Nat
      BY <2>2, ListFinite, FS_CardinalityType
    <2> QED  BY <2>2, <2>3, ProvidersAssumption DEF Budgets
  <1>2. {x \in ForeignSlots(old) : x[2] \in P[x[1]]} = ForeignSlots(old)
    <2>1. ASSUME NEW x \in ForeignSlots(old) PROVE x[2] \in P[x[1]]
      <3>1. PICK g, i : g \in Genes /\ i \in ForeignAt(old[g]) /\ x = <<g, i>>
        BY SlotsAre
      <3> QED  BY <3>1 DEF ForeignAt, Indices
    <2> QED  BY <2>1
  <1>3. \A g \in Genes : P[g] \subseteq DOMAIN old[g] /\ Embeds(new[g], old[g], P[g])
    OBVIOUS
  <1> HIDE DEF P
  <1>4. /\ IsFiniteSet(ForeignSlots(new))
        /\ Cardinality(ForeignSlots(new)) <= Cardinality(ForeignSlots(old))
    BY <1>2, <1>3, EmbeddedStore
  <1>5. Cardinality(ForeignSlots(new)) \in Nat /\ Cardinality(ForeignSlots(old)) \in Nat
    BY <1>4, SlotsFinite, FS_CardinalityType
  <1> QED  BY <1>1, <1>4, <1>5, ProvidersAssumption DEF Budgets

-----------------------------------------------------------------------------
LEMMA HolderOfType ==
    ASSUME NEW q \in Proofs, NEW p \in Peers
    PROVE  /\ HolderOf(q, p) \in Holder \ {Own}
           /\ HolderOf(q, p).class \in {"registered", "anonymous"}
  <1>1. q[p] \in Pseudonyms \cup {NoProof}
    BY DEF Proofs
  <1>2. CASE q[p] = NoProof
    BY <1>2 DEF HolderOf, Anonymous, Holder, Own
  <1>3. CASE q[p] # NoProof
    BY <1>1, <1>3 DEF HolderOf, Registered, Holder, Own
  <1> QED  BY <1>2, <1>3

LEMMA SweepThins ==
    ASSUME Types
    PROVE  /\ Sweep \in Lists
           /\ \A g \in Genes : Embeds(Sweep[g], providers[g], DOMAIN providers[g])
  <1> SUFFICES ASSUME NEW g \in Genes
               PROVE  /\ Live(providers[g]) \in Seq(ProviderEntry)
                      /\ Embeds(Live(providers[g]), providers[g], DOMAIN providers[g])
    BY DEF Sweep, Lists
  <1> DEFINE kept == Indices(providers[g], LAMBDA e : e.expires > now)
  <1>1. providers[g] \in Seq(ProviderEntry)
    BY DEF Types, Lists
  <1> HIDE DEF kept
  <1>2. /\ Retain(providers[g], kept) \in Seq(ProviderEntry)
        /\ Embeds(Retain(providers[g], kept), providers[g], kept \cap DOMAIN providers[g])
    BY <1>1, RetainEmbeds
  <1>3. Embeds(Retain(providers[g], kept), providers[g], DOMAIN providers[g])
    BY <1>2, EmbedsWider
  <1> QED  BY <1>2, <1>3 DEF Live, kept

LEMMA NotLocalThins ==
    ASSUME NEW list \in Seq(ProviderEntry)
    PROVE  /\ NotLocal(list) \in Seq(ProviderEntry)
           /\ Embeds(NotLocal(list), list, DOMAIN list)
  <1> DEFINE kept == Indices(list, LAMBDA e : e.provider # Local)
  <1> HIDE DEF kept
  <1>1. /\ Retain(list, kept) \in Seq(ProviderEntry)
        /\ Embeds(Retain(list, kept), list, kept \cap DOMAIN list)
    BY RetainEmbeds
  <1>2. Embeds(Retain(list, kept), list, DOMAIN list)
    BY <1>1, EmbedsWider
  <1> QED  BY <1>1, <1>2 DEF NotLocal, kept

LEMMA EntryType ==
    ASSUME NEW p \in Peers, NEW h \in Holder, h = Own => p = Local, NEW t \in Nat
    PROVE  EntryOf(p, h, t) \in ProviderEntry
  BY DEF EntryOf, ProviderEntry

(* A peer's entry, and where it goes.                                        *)
LEMMA AdmitParts ==
    ASSUME Types, NEW g \in Genes, NEW p \in Peers \ {Local}
    PROVE  LET h == HolderOf(proof, p)
               entry == EntryOf(p, h, now + StoreTtl)
           IN  /\ h \in Holder \ {Own} /\ h.class \in {"registered", "anonymous"}
               /\ entry \in ProviderEntry
               /\ entry.holder = h /\ entry.provider = p
               /\ Sweep[g] \in Seq(ProviderEntry)
               /\ OwnEntries(Sweep[g], p, h) # {} =>
                    First(OwnEntries(Sweep[g], p, h)) \in OwnEntries(Sweep[g], p, h)
  <1> DEFINE h == HolderOf(proof, p)
             list == Sweep[g]
  <1>1. h \in Holder \ {Own} /\ h.class \in {"registered", "anonymous"}
    BY HolderOfType DEF Types
  <1>2. now + StoreTtl \in Nat
    BY ProvidersAssumption DEF Types
  <1>3. EntryOf(p, h, now + StoreTtl) \in ProviderEntry
    BY <1>1, <1>2, EntryType
  <1>4. list \in Seq(ProviderEntry)
    BY SweepThins DEF Lists
  <1>5. OwnEntries(list, p, h) \subseteq Nat
    <2>1. DOMAIN list = 1 .. Len(list) /\ Len(list) \in Nat
      BY <1>4
    <2> HIDE DEF list
    <2>2. OwnEntries(list, p, h) \subseteq DOMAIN list
      BY DEF OwnEntries, Indices
    <2> QED  BY <2>1, <2>2
  <1>6. OwnEntries(list, p, h) # {} => First(OwnEntries(list, p, h)) \in OwnEntries(list, p, h)
    BY <1>5, FirstIsOne
  <1>7. EntryOf(p, h, now + StoreTtl).holder = h /\ EntryOf(p, h, now + StoreTtl).provider = p
    BY DEF EntryOf
  <1> QED  BY <1>1, <1>3, <1>4, <1>6, <1>7

LEMMA AdmitType ==
    ASSUME Types, NEW g \in Genes, NEW p \in Peers \ {Local}, AdmitProvider(g, p)
    PROVE  providers' \in Lists
  <1> DEFINE h == HolderOf(proof, p)
             entry == EntryOf(p, h, now + StoreTtl)
             list == Sweep[g]
             same == OwnEntries(list, p, h)
  <1>1. entry \in ProviderEntry /\ list \in Seq(ProviderEntry) /\ Sweep \in Lists
    BY AdmitParts, SweepThins
  <1>2. same # {} => First(same) \in DOMAIN list
    BY AdmitParts DEF OwnEntries, Indices
  <1> HIDE DEF entry, list, same
  <1>3. CASE same # {} /\ providers' = [Sweep EXCEPT ![g][First(same)] = entry]
    <2>1. [list EXCEPT ![First(same)] = entry] \in Seq(ProviderEntry)
      BY <1>1, <1>2, <1>3
    <2>2. providers' = [Sweep EXCEPT ![g] = [list EXCEPT ![First(same)] = entry]]
      BY <1>3 DEF list
    <2> QED  BY <1>1, <2>1, <2>2 DEF Lists
  <1>4. CASE providers' = [Sweep EXCEPT ![g] = Append(list, entry)]
    <2>1. Append(list, entry) \in Seq(ProviderEntry)
      BY <1>1
    <2> QED  BY <1>1, <1>4, <2>1 DEF Lists
  <1>5. ASSUME NEW i \in Evictable(list, h),
               providers' = [Sweep EXCEPT ![g] = Append(SwapRemove(list, i), entry)]
        PROVE  providers' \in Lists
    <2>1. i \in DOMAIN list
      BY <1>5 DEF Evictable, OfClass, Indices
    <2>2. SwapRemove(list, i) \in Seq(ProviderEntry)
      BY <1>1, <2>1, SwapRemoveThins
    <2>3. Append(SwapRemove(list, i), entry) \in Seq(ProviderEntry)
      BY <1>1, <2>2
    <2> QED  BY <1>1, <1>5, <2>3 DEF Lists
  <1> QED  BY <1>3, <1>4, <1>5 DEF AdmitProvider, list, same, entry

LEMMA NextTypes == Types /\ [Next]_vars => Types'
  <1> SUFFICES ASSUME Types, [Next]_vars PROVE Types'
    OBVIOUS
  <1>1. ASSUME NEW g \in Genes, NEW p \in Peers \ {Local}, AdmitProvider(g, p)
        PROVE  Types'
    BY <1>1, AdmitType DEF AdmitProvider, Types
  <1>2. ASSUME NEW g \in Genes, NEW p \in Peers \ {Local}, RefuseProvider(g, p)
        PROVE  Types'
    BY <1>2, SweepThins DEF RefuseProvider, Types
  <1>3. ASSUME NEW g \in Genes, StartProviding(g)
        PROVE  Types'
    <2>1. providers[g] \in Seq(ProviderEntry)
      BY DEF Types, Lists
    <2>2. EntryOf(Local, Own, Never) \in ProviderEntry
      <3>1. Never \in Nat
        BY ProvidersAssumption DEF Never
      <3> QED  BY <3>1, EntryType, HoldersAssumption DEF Holder
    <2>3. Append(NotLocal(providers[g]), EntryOf(Local, Own, Never)) \in Seq(ProviderEntry)
      BY <2>1, <2>2, NotLocalThins
    <2> QED  BY <1>3, <2>3 DEF StartProviding, Types, Lists
  <1>4. ASSUME NEW g \in Genes, StopProviding(g)
        PROVE  Types'
    <2>1. NotLocal(providers[g]) \in Seq(ProviderEntry)
      BY NotLocalThins DEF Types, Lists
    <2> QED  BY <1>4, <2>1 DEF StopProviding, Types, Lists
  <1>5. ASSUME NEW p \in Peers, NEW r \in Pseudonyms \cup {NoProof}, ProofChanges(p, r)
        PROVE  Types'
    <2>1. proof \in [Peers -> Pseudonyms \cup {NoProof}] /\ proof[Local] = NoProof
      BY DEF Types, Proofs
    <2>2. proof' = [proof EXCEPT ![p] = r] /\ p # Local
      BY <1>5 DEF ProofChanges
    <2>3. proof' \in Proofs
      BY <2>1, <2>2, HoldersAssumption DEF Proofs
    <2> QED  BY <1>5, <2>3 DEF ProofChanges, Types
  <1>6. CASE SweepTick
    BY <1>6, SweepThins DEF SweepTick, Types
  <1>7. CASE Tick
    BY <1>7 DEF Tick, Types
  <1>8. CASE Restart
    <2>1. NoProofs \in Proofs
      BY HoldersAssumption DEF NoProofs, Proofs
    <2> QED  BY <1>8, <2>1 DEF Restart, Types, Lists
  <1>9. CASE UNCHANGED vars
    BY <1>9 DEF vars, Types
  <1> QED  BY <1>1, <1>2, <1>3, <1>4, <1>5, <1>6, <1>7, <1>8, <1>9 DEF Next

LEMMA InitTypes == Init => Types
  <1>1. NoProofs \in Proofs
    BY HoldersAssumption DEF NoProofs, Proofs
  <1> QED  BY <1>1 DEF Init, Types, Lists

-----------------------------------------------------------------------------
LEMMA OneMore ==
    ASSUME NEW S, NEW T, NEW x, NEW n \in Nat, IsFiniteSet(S), Cardinality(S) < n, T \subseteq S \cup {x}
    PROVE  IsFiniteSet(T) /\ Cardinality(T) <= n
  <1>1. /\ IsFiniteSet(S \cup {x})
        /\ Cardinality(S \cup {x}) = IF x \in S THEN Cardinality(S) ELSE Cardinality(S) + 1
    BY FS_AddElement
  <1>2. Cardinality(S) \in Nat
    BY FS_CardinalityType
  <1>3. IsFiniteSet(T) /\ Cardinality(T) <= Cardinality(S \cup {x})
    BY <1>1, FS_Subset
  <1>4. Cardinality(T) \in Nat
    BY <1>3, FS_CardinalityType
  <1> QED  BY <1>1, <1>2, <1>3, <1>4

(* One entry pushed onto one list.                                           *)
LEMMA PushedEntry ==
    ASSUME NEW E, NEW lists \in [Genes -> Seq(E)], NEW g \in Genes, NEW l \in Seq(E), NEW e \in E
    PROVE  LET mid == [lists EXCEPT ![g] = l]
               new == [lists EXCEPT ![g] = Append(l, e)]
           IN  /\ ForeignAt(new[g]) \subseteq ForeignAt(l) \cup {Len(l) + 1}
               /\ ForeignSlots(new) \subseteq ForeignSlots(mid) \cup {<<g, Len(l) + 1>>}
               /\ e.holder = Own => /\ ForeignAt(new[g]) \subseteq ForeignAt(l)
                                    /\ ForeignSlots(new) \subseteq ForeignSlots(mid)
               /\ \A k \in Genes \ {g} : new[k] = lists[k] /\ mid[k] = lists[k]
               /\ mid[g] = l
  <1> DEFINE mid == [lists EXCEPT ![g] = l]
             new == [lists EXCEPT ![g] = Append(l, e)]
  <1>1. /\ new[g] = Append(l, e) /\ mid[g] = l
        /\ \A k \in Genes \ {g} : new[k] = lists[k] /\ mid[k] = lists[k]
    OBVIOUS
  <1>2. /\ Len(l) \in Nat /\ DOMAIN l = 1 .. Len(l) /\ DOMAIN Append(l, e) = 1 .. Len(l) + 1
        /\ Append(l, e)[Len(l) + 1] = e
        /\ \A i \in 1 .. Len(l) : Append(l, e)[i] = l[i]
    OBVIOUS
  <1> HIDE DEF mid, new
  <1>3. ASSUME NEW i \in ForeignAt(new[g])
        PROVE  i \in ForeignAt(l) \/ (i = Len(l) + 1 /\ e.holder # Own)
    <2>1. i \in 1 .. Len(l) + 1 /\ Append(l, e)[i].holder # Own
      BY <1>1, <1>2 DEF ForeignAt, Indices
    <2>2. CASE i \in 1 .. Len(l)
      BY <1>2, <2>1, <2>2 DEF ForeignAt, Indices
    <2>3. CASE i = Len(l) + 1
      BY <1>2, <2>1, <2>3
    <2> QED  BY <1>2, <2>1, <2>2, <2>3
  <1>4. ASSUME NEW x \in ForeignSlots(new)
        PROVE  x \in ForeignSlots(mid) \/ (x = <<g, Len(l) + 1>> /\ e.holder # Own)
    <2>1. PICK k, i : k \in Genes /\ i \in ForeignAt(new[k]) /\ x = <<k, i>>
      BY SlotsAre
    <2>2. CASE k # g
      <3>1. i \in ForeignAt(mid[k])
        BY <1>1, <2>1, <2>2
      <3> QED  BY <2>1, <3>1, SlotsAre
    <2>3. CASE k = g /\ i \in ForeignAt(l)
      <3>1. i \in ForeignAt(mid[g])
        BY <1>1, <2>3
      <3> QED  BY <2>1, <2>3, <3>1, SlotsAre
    <2>4. CASE k = g /\ i = Len(l) + 1 /\ e.holder # Own
      BY <2>1, <2>4
    <2> QED  BY <1>3, <2>1, <2>2, <2>3, <2>4
  <1>5. ForeignAt(new[g]) \subseteq ForeignAt(l) \cup {Len(l) + 1}
    BY <1>3
  <1>6. ForeignSlots(new) \subseteq ForeignSlots(mid) \cup {<<g, Len(l) + 1>>}
    BY <1>4
  <1>7. e.holder = Own => /\ ForeignAt(new[g]) \subseteq ForeignAt(l)
                          /\ ForeignSlots(new) \subseteq ForeignSlots(mid)
    BY <1>3, <1>4
  <1> QED  BY <1>1, <1>5, <1>6, <1>7 DEF mid, new

(* Where there is room in the list and in the store, a push keeps both       *)
(* budgets.                                                                  *)
LEMMA PushKeepsBudgets ==
    ASSUME NEW E, NEW lists \in [Genes -> Seq(E)], NEW g \in Genes, NEW l \in Seq(E), NEW e \in E,
           Budgets(lists),
           Cardinality(ForeignAt(l)) < ProvidersPerKey,
           Cardinality(ForeignSlots([lists EXCEPT ![g] = l])) < MaxProviderEntries
    PROVE  Budgets([lists EXCEPT ![g] = Append(l, e)])
  <1> DEFINE mid == [lists EXCEPT ![g] = l]
             new == [lists EXCEPT ![g] = Append(l, e)]
  <1>1. /\ ForeignAt(new[g]) \subseteq ForeignAt(l) \cup {Len(l) + 1}
        /\ ForeignSlots(new) \subseteq ForeignSlots(mid) \cup {<<g, Len(l) + 1>>}
        /\ \A k \in Genes \ {g} : new[k] = lists[k]
    BY PushedEntry
  <1>2. mid \in [Genes -> Seq(E)]
    OBVIOUS
  <1>3. IsFiniteSet(ForeignAt(l))
    BY ListFinite
  <1> HIDE DEF mid, new
  <1>4. IsFiniteSet(ForeignSlots(mid))
    BY <1>2, SlotsFinite
  <1>5. Cardinality(ForeignAt(new[g])) <= ProvidersPerKey
    BY <1>1, <1>3, OneMore, ProvidersAssumption
  <1>6. Cardinality(ForeignSlots(new)) <= MaxProviderEntries
    BY <1>1, <1>4, OneMore, ProvidersAssumption DEF mid
  <1>7. ASSUME NEW k \in Genes PROVE Cardinality(ForeignAt(new[k])) <= ProvidersPerKey
    BY <1>1, <1>5 DEF Budgets
  <1> QED  BY <1>6, <1>7 DEF Budgets, new

(* Overwriting a foreign entry in place adds none.                           *)
LEMMA OverwriteKeepsBudgets ==
    ASSUME NEW E, NEW lists \in [Genes -> Seq(E)], NEW g \in Genes, NEW e,
           NEW i \in ForeignAt(lists[g]), Budgets(lists)
    PROVE  Budgets([lists EXCEPT ![g][i] = e])
  <1> DEFINE new == [lists EXCEPT ![g][i] = e]
  <1>1. i \in DOMAIN lists[g]
    BY DEF ForeignAt, Indices
  <1>2. /\ \A k \in Genes \ {g} : new[k] = lists[k]
        /\ DOMAIN new[g] = DOMAIN lists[g]
        /\ \A j \in DOMAIN lists[g] \ {i} : new[g][j] = lists[g][j]
    BY <1>1
  <1> HIDE DEF new
  <1>3. ASSUME NEW k \in Genes
        PROVE  ForeignAt(new[k]) \subseteq ForeignAt(lists[k])
    BY <1>2 DEF ForeignAt, Indices
  <1>4. ForeignSlots(new) \subseteq ForeignSlots(lists)
    <2> SUFFICES ASSUME NEW x \in ForeignSlots(new) PROVE x \in ForeignSlots(lists)
      OBVIOUS
    <2>1. PICK k, j : k \in Genes /\ j \in ForeignAt(new[k]) /\ x = <<k, j>>
      BY SlotsAre
    <2>2. j \in ForeignAt(lists[k])
      BY <1>3, <2>1
    <2> QED  BY <2>1, <2>2, SlotsAre
  <1>5. ASSUME NEW k \in Genes
        PROVE  Cardinality(ForeignAt(new[k])) <= ProvidersPerKey
    <2>1. /\ IsFiniteSet(ForeignAt(lists[k])) /\ Cardinality(ForeignAt(lists[k])) \in Nat
          /\ Cardinality(ForeignAt(lists[k])) <= ProvidersPerKey
      BY ListFinite DEF Budgets
    <2>2. IsFiniteSet(ForeignAt(new[k])) /\ Cardinality(ForeignAt(new[k])) <= Cardinality(ForeignAt(lists[k]))
      BY <1>3, <2>1, FS_Subset
    <2>3. Cardinality(ForeignAt(new[k])) \in Nat
      BY <2>2, FS_CardinalityType
    <2> QED  BY <2>1, <2>2, <2>3, ProvidersAssumption
  <1>6. Cardinality(ForeignSlots(new)) <= MaxProviderEntries
    <2>1. /\ IsFiniteSet(ForeignSlots(lists)) /\ Cardinality(ForeignSlots(lists)) \in Nat
          /\ Cardinality(ForeignSlots(lists)) <= MaxProviderEntries
      BY SlotsFinite DEF Budgets
    <2>2. IsFiniteSet(ForeignSlots(new)) /\ Cardinality(ForeignSlots(new)) <= Cardinality(ForeignSlots(lists))
      BY <1>4, <2>1, FS_Subset
    <2>3. Cardinality(ForeignSlots(new)) \in Nat
      BY <2>2, FS_CardinalityType
    <2> QED  BY <2>1, <2>2, <2>3, ProvidersAssumption
  <1> QED  BY <1>5, <1>6 DEF Budgets, new

(* A foreign entry that leaves makes room in the list and in the store.      *)
LEMMA EvictionMakesRoom ==
    ASSUME NEW E, NEW lists \in [Genes -> Seq(E)], NEW g \in Genes, NEW i \in ForeignAt(lists[g]),
           Budgets(lists)
    PROVE  LET l == SwapRemove(lists[g], i)
           IN  /\ Cardinality(ForeignAt(l)) < ProvidersPerKey
               /\ Cardinality(ForeignSlots([lists EXCEPT ![g] = l])) < MaxProviderEntries
  <1> DEFINE list == lists[g]
             l == SwapRemove(list, i)
             mid == [lists EXCEPT ![g] = l]
             P == [k \in Genes |-> IF k = g THEN DOMAIN list \ {i} ELSE DOMAIN lists[k]]
             T == {x \in ForeignSlots(lists) : x[2] \in P[x[1]]}
  <1>1. list \in Seq(E) /\ i \in DOMAIN list
    BY DEF ForeignAt, Indices
  <1>2. Embeds(l, list, DOMAIN list \ {i})
    BY <1>1, SwapRemoveThins
  <1>3. Cardinality(ForeignAt(l)) < ProvidersPerKey
    <2>1. ForeignAt(list) \cap (DOMAIN list \ {i}) = ForeignAt(list) \ {i}
      BY DEF ForeignAt, Indices
    <2>2. /\ IsFiniteSet(ForeignAt(list)) /\ Cardinality(ForeignAt(list)) \in Nat
          /\ Cardinality(ForeignAt(list)) <= ProvidersPerKey
      BY <1>1, ListFinite DEF Budgets
    <2>3. Cardinality(ForeignAt(list) \ {i}) = Cardinality(ForeignAt(list)) - 1
      BY <2>2, FS_RemoveElement
    <2>4. IsFiniteSet(ForeignAt(l)) /\ Cardinality(ForeignAt(l)) <= Cardinality(ForeignAt(list)) - 1
      <3> HIDE DEF list, l
      <3>1. (DOMAIN list \ {i}) \in SUBSET DOMAIN list
        OBVIOUS
      <3>2. /\ IsFiniteSet(ForeignAt(l))
            /\ Cardinality(ForeignAt(l)) <= Cardinality(ForeignAt(list) \cap (DOMAIN list \ {i}))
        BY <1>1, <1>2, <3>1, EmbeddedForeign
      <3> QED  BY <2>1, <2>3, <3>2
    <2>5. Cardinality(ForeignAt(l)) \in Nat
      BY <2>4, FS_CardinalityType
    <2> QED  BY <2>2, <2>4, <2>5, ProvidersAssumption
  <1>4. ASSUME NEW k \in Genes
        PROVE  P[k] \subseteq DOMAIN lists[k] /\ Embeds(mid[k], lists[k], P[k])
    <2>1. CASE k = g
      <3>1. mid[k] = l /\ P[k] = DOMAIN list \ {i}
        BY <2>1
      <3> QED  BY <1>2, <2>1, <3>1
    <2>2. CASE k # g
      <3>1. mid[k] = lists[k] /\ P[k] = DOMAIN lists[k] /\ lists[k] \in Seq(E)
        BY <2>2
      <3> QED  BY <3>1, EmbedsItself
    <2> QED  BY <2>1, <2>2
  <1>5. T \subseteq ForeignSlots(lists) \ {<<g, i>>}
    OBVIOUS
  <1> HIDE DEF P, mid
  <1>6. IsFiniteSet(ForeignSlots(mid)) /\ Cardinality(ForeignSlots(mid)) <= Cardinality(T)
    BY <1>4, EmbeddedStore
  <1>7. <<g, i>> \in ForeignSlots(lists)
    BY SlotsAre
  <1>8. /\ IsFiniteSet(ForeignSlots(lists)) /\ Cardinality(ForeignSlots(lists)) \in Nat
        /\ Cardinality(ForeignSlots(lists)) <= MaxProviderEntries
    BY SlotsFinite DEF Budgets
  <1>9. /\ IsFiniteSet(ForeignSlots(lists) \ {<<g, i>>})
        /\ Cardinality(ForeignSlots(lists) \ {<<g, i>>}) = Cardinality(ForeignSlots(lists)) - 1
    BY <1>7, <1>8, FS_RemoveElement
  <1> HIDE DEF T
  <1>10. IsFiniteSet(T) /\ Cardinality(T) <= Cardinality(ForeignSlots(lists)) - 1
    BY <1>5, <1>9, FS_Subset
  <1>11. Cardinality(T) \in Nat /\ Cardinality(ForeignSlots(mid)) \in Nat
    BY <1>6, <1>10, FS_CardinalityType
  <1>12. Cardinality(ForeignSlots(mid)) < MaxProviderEntries
    BY <1>6, <1>8, <1>10, <1>11, ProvidersAssumption
  <1> QED  BY <1>3, <1>12 DEF mid

(* An entry that may be overwritten or evicted for a peer is not this        *)
(* node's.                                                                   *)
LEMMA TakenAreForeign ==
    ASSUME NEW list \in Seq(ProviderEntry), NEW p \in Peers \ {Local}, NEW h \in Holder \ {Own},
           h.class \in {"registered", "anonymous"}
    PROVE  /\ OwnEntries(list, p, h) \subseteq ForeignAt(list)
           /\ Evictable(list, h) \subseteq ForeignAt(list)
  <1>1. ASSUME NEW i \in OwnEntries(list, p, h)
        PROVE  i \in ForeignAt(list)
    <2>1. i \in DOMAIN list /\ (list[i].provider = p \/ list[i].holder = h)
      BY DEF OwnEntries, Indices
    <2>2. list[i] \in ProviderEntry
      BY <2>1
    <2>3. list[i].holder # Own
      BY <2>1, <2>2 DEF ProviderEntry
    <2> QED  BY <2>1, <2>3 DEF ForeignAt, Indices
  <1>2. ASSUME NEW i \in Evictable(list, h)
        PROVE  i \in ForeignAt(list)
    <2>1. EvictedClass(h.class, Counts(list), Share) \in {"registered", "anonymous"}
      BY DEF EvictedClass, OtherClass
    <2>2. i \in DOMAIN list /\ list[i].holder.class = EvictedClass(h.class, Counts(list), Share)
      BY DEF Evictable, OfClass, Indices
    <2>3. list[i].holder # Own
      BY <2>1, <2>2 DEF Own
    <2> QED  BY <2>2, <2>3 DEF ForeignAt, Indices
  <1> QED  BY <1>1, <1>2

LEMMA AdmitKeepsBudgets ==
    ASSUME Types, Budgets(providers), NEW g \in Genes, NEW p \in Peers \ {Local}, AdmitProvider(g, p)
    PROVE  Budgets(providers')
  <1> DEFINE h == HolderOf(proof, p)
             entry == EntryOf(p, h, now + StoreTtl)
             lists == Sweep
             list == lists[g]
             same == OwnEntries(list, p, h)
  <1>1. /\ entry \in ProviderEntry /\ h \in Holder \ {Own} /\ h.class \in {"registered", "anonymous"}
        /\ same # {} => First(same) \in same
    BY AdmitParts
  <1>2. lists \in Lists /\ Budgets(lists)
    <2>1. providers \in [Genes -> Seq(ProviderEntry)]
      BY DEF Types, Lists
    <2> QED  BY <2>1, SweepThins, ThinnedKeepsBudgets
  <1> HIDE DEF h, entry, lists, list
  <1>3. lists \in [Genes -> Seq(ProviderEntry)] /\ list \in Seq(ProviderEntry)
    BY <1>2 DEF Lists, list
  <1>4. same \subseteq ForeignAt(list) /\ Evictable(list, h) \subseteq ForeignAt(list)
    BY <1>1, <1>3, TakenAreForeign
  <1>5. CASE same # {} /\ providers' = [lists EXCEPT ![g][First(same)] = entry]
    <2>1. First(same) \in ForeignAt(lists[g])
      BY <1>1, <1>4, <1>5 DEF list
    <2> HIDE DEF same
    <2> QED  BY <1>2, <1>3, <1>5, <2>1, OverwriteKeepsBudgets
  <1>6. CASE /\ same = {}
             /\ Len(list) < ProvidersPerKey
             /\ providers' = [lists EXCEPT ![g] = Append(list, entry)]
    <2>1. ~AllFull(lists)
      BY <1>6 DEF AdmitProvider, Refused, lists, list, h
    <2>2. [lists EXCEPT ![g] = list] = lists
      BY <1>3 DEF list
    <2>3. Cardinality(ForeignSlots(lists)) < MaxProviderEntries
      BY <1>3, <2>1, SlotsFinite, ProvidersAssumption DEF AllFull, EntriesHeld
    <2>4. Cardinality(ForeignAt(list)) < ProvidersPerKey
      <3>1. Len(list) \in Nat
        BY <1>3
      <3> QED  BY <1>3, <1>6, <3>1, ListFinite, ProvidersAssumption
    <2> QED  BY <1>1, <1>2, <1>3, <1>6, <2>2, <2>3, <2>4, PushKeepsBudgets
  <1>7. ASSUME NEW i \in Evictable(list, h),
               providers' = [lists EXCEPT ![g] = Append(SwapRemove(list, i), entry)]
        PROVE  Budgets(providers')
    <2> DEFINE l == SwapRemove(list, i)
    <2>1. i \in ForeignAt(lists[g]) /\ i \in DOMAIN list
      BY <1>4 DEF list, ForeignAt, Indices
    <2>2. /\ Cardinality(ForeignAt(l)) < ProvidersPerKey
          /\ Cardinality(ForeignSlots([lists EXCEPT ![g] = l])) < MaxProviderEntries
      BY <1>2, <1>3, <2>1, EvictionMakesRoom DEF list
    <2>3. l \in Seq(ProviderEntry)
      BY <1>3, <2>1, SwapRemoveThins
    <2> HIDE DEF l
    <2>4. Budgets([lists EXCEPT ![g] = Append(l, entry)])
      BY <1>1, <1>2, <1>3, <2>2, <2>3, PushKeepsBudgets
    <2> QED  BY <1>7, <2>4 DEF l
  <1> QED  BY <1>5, <1>6, <1>7 DEF AdmitProvider, lists, list, h, entry

LEMMA NextBudgets ==
    ASSUME Types, Budgets(providers), [Next]_vars
    PROVE  Budgets(providers')
  <1> DEFINE Thins(new) == \A g \in Genes : Embeds(new[g], providers[g], DOMAIN providers[g])
  <1>1. providers \in [Genes -> Seq(ProviderEntry)]
    BY DEF Types, Lists
  <1>2. \A g \in Genes : Embeds(providers[g], providers[g], DOMAIN providers[g])
    BY <1>1, EmbedsItself
  <1>3. ASSUME NEW new, Thins(new) PROVE Budgets(new)
    BY <1>1, <1>3, ThinnedKeepsBudgets
  <1>4. Budgets(Sweep)
    BY <1>3, SweepThins
  <1>5. ASSUME NEW g \in Genes
        PROVE  LET l == NotLocal(providers[g])
                   mid == [providers EXCEPT ![g] = l]
               IN  /\ mid \in [Genes -> Seq(ProviderEntry)]
                   /\ l \in Seq(ProviderEntry)
                   /\ Budgets(mid)
    <2> DEFINE l == NotLocal(providers[g])
               mid == [providers EXCEPT ![g] = l]
    <2>1. l \in Seq(ProviderEntry) /\ Embeds(l, providers[g], DOMAIN providers[g])
      BY <1>1, NotLocalThins
    <2> HIDE DEF l
    <2>2. mid \in [Genes -> Seq(ProviderEntry)]
      BY <1>1, <2>1
    <2>3. ASSUME NEW k \in Genes
          PROVE  Embeds(mid[k], providers[k], DOMAIN providers[k])
      <3>1. CASE k = g
        BY <1>1, <2>1, <3>1
      <3>2. CASE k # g
        <4>1. mid[k] = providers[k]
          BY <1>1, <3>2
        <4> QED  BY <1>2, <4>1
      <3> QED  BY <3>1, <3>2
    <2> HIDE DEF mid
    <2>4. Budgets(mid)
      BY <1>3, <2>3
    <2> QED  BY <2>1, <2>2, <2>4 DEF mid, l
  <1> HIDE DEF Thins
  <1>6. ASSUME NEW g \in Genes, NEW p \in Peers \ {Local}, AdmitProvider(g, p)
        PROVE  Budgets(providers')
    BY <1>6, AdmitKeepsBudgets
  <1>7. ASSUME NEW g \in Genes, NEW p \in Peers \ {Local}, RefuseProvider(g, p)
        PROVE  Budgets(providers')
    BY <1>4, <1>7 DEF RefuseProvider
  <1>8. ASSUME NEW g \in Genes, StartProviding(g)
        PROVE  Budgets(providers')
    <2> DEFINE l == NotLocal(providers[g])
               e == EntryOf(Local, Own, Never)
               mid == [providers EXCEPT ![g] = l]
    <2>1. mid \in [Genes -> Seq(ProviderEntry)] /\ l \in Seq(ProviderEntry) /\ Budgets(mid)
      BY <1>5
    <2>2. e \in ProviderEntry /\ e.holder = Own
      <3>1. Never \in Nat
        BY ProvidersAssumption DEF Never
      <3>2. EntryOf(Local, Own, Never) \in ProviderEntry
        BY <3>1, EntryType, HoldersAssumption DEF Holder
      <3> QED  BY <3>2 DEF EntryOf
    <2>3. providers' = [providers EXCEPT ![g] = Append(l, e)]
      BY <1>8 DEF StartProviding
    <2> HIDE DEF l, e
    <2>4. /\ ForeignAt(providers'[g]) \subseteq ForeignAt(l)
          /\ ForeignSlots(providers') \subseteq ForeignSlots(mid)
          /\ \A k \in Genes \ {g} : providers'[k] = mid[k]
          /\ mid[g] = l
      BY <1>1, <2>1, <2>2, <2>3, PushedEntry
    <2> HIDE DEF mid
    <2>5. ASSUME NEW k \in Genes
          PROVE  Cardinality(ForeignAt(providers'[k])) <= ProvidersPerKey
      <3>1. ForeignAt(providers'[k]) \subseteq ForeignAt(mid[k])
        BY <2>4
      <3>2. mid[k] \in Seq(ProviderEntry)
        BY <2>1
      <3>3. /\ IsFiniteSet(ForeignAt(mid[k])) /\ Cardinality(ForeignAt(mid[k])) \in Nat
            /\ Cardinality(ForeignAt(mid[k])) <= ProvidersPerKey
        BY <2>1, <3>2, ListFinite DEF Budgets
      <3>4. /\ IsFiniteSet(ForeignAt(providers'[k]))
            /\ Cardinality(ForeignAt(providers'[k])) <= Cardinality(ForeignAt(mid[k]))
        BY <3>1, <3>3, FS_Subset
      <3>5. Cardinality(ForeignAt(providers'[k])) \in Nat
        BY <3>4, FS_CardinalityType
      <3> QED  BY <3>3, <3>4, <3>5, ProvidersAssumption
    <2>6. Cardinality(ForeignSlots(providers')) <= MaxProviderEntries
      <3>1. /\ IsFiniteSet(ForeignSlots(mid)) /\ Cardinality(ForeignSlots(mid)) \in Nat
            /\ Cardinality(ForeignSlots(mid)) <= MaxProviderEntries
        BY <2>1, SlotsFinite DEF Budgets
      <3>2. /\ IsFiniteSet(ForeignSlots(providers'))
            /\ Cardinality(ForeignSlots(providers')) <= Cardinality(ForeignSlots(mid))
        BY <2>4, <3>1, FS_Subset
      <3>3. Cardinality(ForeignSlots(providers')) \in Nat
        BY <3>2, FS_CardinalityType
      <3> QED  BY <3>1, <3>2, <3>3, ProvidersAssumption
    <2> QED  BY <2>5, <2>6 DEF Budgets
  <1>9. ASSUME NEW g \in Genes, StopProviding(g)
        PROVE  Budgets(providers')
    BY <1>5, <1>9 DEF StopProviding
  <1>10. CASE SweepTick
    BY <1>4, <1>10 DEF SweepTick
  <1>11. CASE Restart
    <2>1. \A g \in Genes : Embeds(providers'[g], providers[g], DOMAIN providers[g])
      <3> SUFFICES ASSUME NEW g \in Genes
                   PROVE  Embeds(providers'[g], providers[g], DOMAIN providers[g])
        OBVIOUS
      <3>1. providers'[g] = <<>>
        BY <1>11 DEF Restart
      <3>2. [i \in {} |-> 0] \in [DOMAIN providers'[g] -> DOMAIN providers[g]] /\ DOMAIN providers'[g] = {}
        BY <3>1
      <3> QED  BY <3>2 DEF Embeds
    <2> QED  BY <1>3, <2>1 DEF Thins
  <1>12. CASE UNCHANGED providers
    BY <1>12
  <1> QED
    BY <1>6, <1>7, <1>8, <1>9, <1>10, <1>11, <1>12 DEF Next, vars, ProofChanges, Tick

LEMMA InitBudgets == Init => Budgets(providers)
  <1> SUFFICES ASSUME Init PROVE Budgets(providers)
    OBVIOUS
  <1>1. \A g \in Genes : ForeignAt(providers[g]) = {}
    BY DEF Init, ForeignAt, Indices
  <1>2. ForeignSlots(providers) = {}
    BY <1>1, SlotsAre
  <1> QED  BY <1>1, <1>2, FS_EmptySet, ProvidersAssumption DEF Budgets

(* The types: a node's own entries, those without a holder, are its own      *)
(* PeerId's; every other entry is held by a peer or a pseudonym.             *)
THEOREM Typed == Spec => []Types
  <1>1. Init => Types
    BY InitTypes
  <1>2. Types /\ [Next]_vars => Types'
    BY NextTypes
  <1> QED  BY <1>1, <1>2, PTL DEF Spec

(* Other nodes' entries stay within the budget of a gene and the budget of   *)
(* the store, whatever this node adds and takes back of its own.             *)
THEOREM ForeignEntriesStayBudgeted == Spec => []ProviderBudgets
  <1>1. Init => Budgets(providers)
    BY InitBudgets
  <1>2. Types /\ Budgets(providers) /\ [Next]_vars => Budgets(providers)'
    <2> SUFFICES ASSUME Types, Budgets(providers), [Next]_vars
                 PROVE  Budgets(providers')
      BY DEF Budgets, ForeignAt, Indices, ForeignSlots, Slots
    <2> QED  BY NextBudgets
  <1>3. Budgets(providers) => ProviderBudgets
    BY DEF Budgets, ProviderBudgets
  <1> QED  BY <1>1, <1>2, <1>3, Typed, PTL DEF Spec

-----------------------------------------------------------------------------
LEMMA PushedEntries ==
    ASSUME NEW E, NEW l \in Seq(E), NEW e \in E
    PROVE  Entries(Append(l, e)) = Entries(l) \cup {e}
  <1>1. /\ Len(l) \in Nat /\ DOMAIN l = 1 .. Len(l) /\ DOMAIN Append(l, e) = 1 .. Len(l) + 1
        /\ Append(l, e)[Len(l) + 1] = e
        /\ \A i \in 1 .. Len(l) : Append(l, e)[i] = l[i]
    OBVIOUS
  <1>2. ASSUME NEW i \in DOMAIN Append(l, e)
        PROVE  Append(l, e)[i] \in Entries(l) \cup {e}
    <2>1. CASE i \in 1 .. Len(l)
      BY <1>1, <2>1 DEF Entries
    <2>2. CASE i = Len(l) + 1
      BY <1>1, <2>2
    <2> QED  BY <1>1, <2>1, <2>2
  <1>3. ASSUME NEW i \in DOMAIN l
        PROVE  l[i] \in Entries(Append(l, e))
    <2>1. i \in 1 .. Len(l) /\ i \in 1 .. Len(l) + 1
      BY <1>1
    <2> QED  BY <1>1, <2>1 DEF Entries
  <1>4. e \in Entries(Append(l, e))
    <2>1. Len(l) + 1 \in 1 .. Len(l) + 1
      BY <1>1
    <2> QED  BY <1>1, <2>1 DEF Entries
  <1> QED  BY <1>2, <1>3, <1>4 DEF Entries

(* What a peer's entry costs the list it comes into: nothing, or the one     *)
(* entry at a place that is the sender's, or that may be evicted for it.     *)
LEMMA AdmitCosts ==
    ASSUME Types, NEW g \in Genes, NEW p \in Peers \ {Local}, AdmitProvider(g, p)
    PROVE  LET h == HolderOf(proof, p)
               entry == EntryOf(p, h, now + StoreTtl)
               list == Sweep[g]
           IN  /\ \A k \in Genes \ {g} : providers'[k] = Sweep[k]
               /\ Entries(providers'[g]) \subseteq Entries(list) \cup {entry}
               /\ \/ Entries(list) \subseteq Entries(providers'[g])
                  \/ \E i \in OwnEntries(list, p, h) :
                        Entries(list) \ {list[i]} \subseteq Entries(providers'[g])
                  \/ /\ Len(list) >= ProvidersPerKey
                     /\ \E i \in Evictable(list, h) :
                           Entries(list) \ {list[i]} \subseteq Entries(providers'[g])
  <1> DEFINE h == HolderOf(proof, p)
             entry == EntryOf(p, h, now + StoreTtl)
             lists == Sweep
             list == lists[g]
             same == OwnEntries(list, p, h)
  <1>1. /\ entry \in ProviderEntry
        /\ same # {} => First(same) \in same
        /\ list \in Seq(ProviderEntry) /\ lists \in [Genes -> Seq(ProviderEntry)]
    BY AdmitParts, SweepThins DEF Lists
  <1> HIDE DEF h, entry
  <1>2. CASE same # {} /\ providers' = [lists EXCEPT ![g][First(same)] = entry]
    <2>1. First(same) \in DOMAIN list /\ First(same) \in same
      BY <1>1, <1>2 DEF OwnEntries, Indices
    <2> DEFINE i == First(same)
               new == [list EXCEPT ![i] = entry]
    <2>2. providers'[g] = new /\ \A k \in Genes \ {g} : providers'[k] = lists[k]
      BY <1>1, <1>2
    <2> HIDE DEF i, lists, list, same
    <2>3. DOMAIN new = DOMAIN list /\ \A j \in DOMAIN list : new[j] = IF j = i THEN entry ELSE list[j]
      BY <1>1, <2>1
    <2>4. Entries(new) \subseteq Entries(list) \cup {entry}
      BY <2>3 DEF Entries
    <2>5. Entries(list) \ {list[i]} \subseteq Entries(new)
      BY <2>3 DEF Entries
    <2>6. i \in OwnEntries(list, p, h)
      BY <2>1 DEF same, i
    <2> QED  BY <2>2, <2>4, <2>5, <2>6 DEF lists, list, h, entry
  <1>3. CASE /\ Len(list) < ProvidersPerKey
             /\ providers' = [lists EXCEPT ![g] = Append(list, entry)]
    <2>1. providers'[g] = Append(list, entry) /\ \A k \in Genes \ {g} : providers'[k] = lists[k]
      BY <1>1, <1>3
    <2> HIDE DEF lists, list
    <2>2. Entries(Append(list, entry)) = Entries(list) \cup {entry}
      BY <1>1, PushedEntries
    <2> QED  BY <2>1, <2>2 DEF lists, list, h, entry
  <1>4. CASE /\ Len(list) >= ProvidersPerKey
             /\ \E i \in Evictable(list, h) :
                   providers' = [lists EXCEPT ![g] = Append(SwapRemove(list, i), entry)]
    <2>1. PICK i \in Evictable(list, h) :
             providers' = [lists EXCEPT ![g] = Append(SwapRemove(list, i), entry)]
      BY <1>4
    <2> DEFINE l == SwapRemove(list, i)
    <2>2. providers'[g] = Append(l, entry) /\ \A k \in Genes \ {g} : providers'[k] = lists[k]
      BY <1>1, <2>1
    <2>3. i \in DOMAIN list
      BY DEF Evictable, OfClass, Indices
    <2>4. /\ l \in Seq(ProviderEntry)
          /\ Embeds(l, list, DOMAIN list \ {i})
          /\ \A j \in DOMAIN list \ {i} : list[j] \in Entries(l)
      <3> HIDE DEF lists, list
      <3> QED  BY <1>1, <2>3, SwapRemoveThins
    <2> HIDE DEF l, lists, list
    <2>5. Entries(Append(l, entry)) = Entries(l) \cup {entry}
      BY <1>1, <2>4, PushedEntries
    <2>6. Entries(l) \subseteq Entries(list)
      <3>1. DOMAIN list \ {i} \subseteq DOMAIN list
        OBVIOUS
      <3> QED  BY <2>4, <3>1, EmbedsWider, EmbedsEntries
    <2>7. Entries(list) \ {list[i]} \subseteq Entries(l)
      BY <2>4 DEF Entries
    <2> QED  BY <1>4, <2>2, <2>5, <2>6, <2>7 DEF lists, list, h, entry
  <1> QED  BY <1>2, <1>3, <1>4 DEF AdmitProvider, h, entry

(* A new entry of a peer's came by admit_provider into this gene's list.     *)
LEMMA NewFromAdmit ==
    ASSUME Types, [Next]_vars, NEW g \in Genes,
           NEW e \in Entries(providers'[g]) \ Entries(providers[g]), e.provider # Local
    PROVE  \E p \in Peers \ {Local} : AdmitProvider(g, p)
  <1>1. \A k \in Genes : Entries(Sweep[k]) \subseteq Entries(providers[k])
    BY SweepThins, EmbedsEntries
  <1>2. \A k \in Genes : /\ providers[k] \in Seq(ProviderEntry)
                         /\ NotLocal(providers[k]) \in Seq(ProviderEntry)
                         /\ Entries(NotLocal(providers[k])) \subseteq Entries(providers[k])
    <2> SUFFICES ASSUME NEW k \in Genes
                 PROVE  /\ providers[k] \in Seq(ProviderEntry)
                        /\ NotLocal(providers[k]) \in Seq(ProviderEntry)
                        /\ Entries(NotLocal(providers[k])) \subseteq Entries(providers[k])
      OBVIOUS
    <2>1. providers[k] \in Seq(ProviderEntry)
      BY DEF Types, Lists
    <2> QED  BY <2>1, NotLocalThins, EmbedsEntries
  <1>3. ASSUME NEW k \in Genes, NEW p \in Peers \ {Local}, AdmitProvider(k, p)
        PROVE  k = g
    <2> SUFFICES ASSUME k # g PROVE FALSE
      OBVIOUS
    <2>1. providers'[g] = Sweep[g]
      BY <1>3, AdmitCosts
    <2> QED  BY <1>1, <2>1
  <1>4. ASSUME NEW k \in Genes, NEW p \in Peers \ {Local}, RefuseProvider(k, p)
        PROVE  FALSE
    BY <1>1, <1>4 DEF RefuseProvider
  <1>5. ASSUME NEW k \in Genes, StartProviding(k)
        PROVE  FALSE
    <2> DEFINE own == EntryOf(Local, Own, Never)
    <2>1. own \in ProviderEntry /\ own.provider = Local
      <3>1. Never \in Nat
        BY ProvidersAssumption DEF Never
      <3>2. EntryOf(Local, Own, Never) \in ProviderEntry
        BY <3>1, EntryType, HoldersAssumption DEF Holder
      <3> QED  BY <3>2 DEF EntryOf
    <2>2. providers' = [providers EXCEPT ![k] = Append(NotLocal(providers[k]), own)]
      BY <1>5 DEF StartProviding
    <2> HIDE DEF own
    <2>3. Entries(Append(NotLocal(providers[k]), own)) = Entries(NotLocal(providers[k])) \cup {own}
      BY <1>2, <2>1, PushedEntries
    <2>4. Entries(providers'[g]) \subseteq Entries(providers[g]) \cup {own}
      <3>1. providers \in [Genes -> Seq(ProviderEntry)]
        BY DEF Types, Lists
      <3>2. CASE k = g
        <4>1. providers'[g] = Append(NotLocal(providers[g]), own)
          BY <2>2, <3>1, <3>2
        <4> QED  BY <1>2, <2>3, <3>2, <4>1
      <3>3. CASE k # g
        <4>1. providers'[g] = providers[g]
          BY <2>2, <3>1, <3>3
        <4> QED  BY <4>1
      <3> QED  BY <3>2, <3>3
    <2> QED  BY <2>1, <2>4
  <1>6. ASSUME NEW k \in Genes, StopProviding(k)
        PROVE  FALSE
    <2>1. providers \in [Genes -> Seq(ProviderEntry)]
      BY DEF Types, Lists
    <2>2. providers'[g] = providers[g] \/ providers'[g] = NotLocal(providers[g])
      BY <1>6, <2>1 DEF StopProviding
    <2> QED  BY <1>2, <2>2
  <1>7. CASE SweepTick
    BY <1>1, <1>7 DEF SweepTick
  <1>8. CASE Restart
    BY <1>8 DEF Restart, Entries
  <1>9. CASE UNCHANGED providers
    BY <1>9
  <1> QED
    BY <1>3, <1>4, <1>5, <1>6, <1>7, <1>8, <1>9 DEF Next, vars, ProofChanges, Tick

(* The entry admitted for a peer costs no more than the fairness of the      *)
(* eviction allows.                                                          *)
LEMMA AdmitIsFair ==
    ASSUME Types, NEW g \in Genes, NEW p \in Peers \ {Local}, AdmitProvider(g, p),
           NEW e \in Entries(providers'[g]) \ Entries(providers[g])
    PROVE  LET before == Sweep[g]
               gone == Entries(before) \ Entries(providers'[g])
           IN  /\ Cardinality(gone) <= 1
               /\ \A lost \in gone :
                    \/ lost.provider = e.provider
                    \/ lost.holder = e.holder
                    \/ /\ Len(before) >= ProvidersPerKey
                       /\ lost.holder # Own
                       /\ \/ lost.holder.class = e.holder.class
                          \/ Counts(before)[lost.holder.class] > ProviderShare
  <1> DEFINE h == HolderOf(proof, p)
             entry == EntryOf(p, h, now + StoreTtl)
             list == Sweep[g]
             gone == Entries(list) \ Entries(providers'[g])
  <1>1. Entries(list) \subseteq Entries(providers[g])
    BY SweepThins, EmbedsEntries
  <1>2. /\ Entries(providers'[g]) \subseteq Entries(list) \cup {entry}
        /\ \/ Entries(list) \subseteq Entries(providers'[g])
           \/ \E i \in OwnEntries(list, p, h) :
                 Entries(list) \ {list[i]} \subseteq Entries(providers'[g])
           \/ /\ Len(list) >= ProvidersPerKey
              /\ \E i \in Evictable(list, h) :
                    Entries(list) \ {list[i]} \subseteq Entries(providers'[g])
    BY AdmitCosts
  <1>3. /\ entry.provider = p /\ entry.holder = h
        /\ h \in Holder \ {Own} /\ h.class \in {"registered", "anonymous"}
        /\ list \in Seq(ProviderEntry)
    BY AdmitParts
  <1> HIDE DEF h, entry, list
  <1>4. e.provider = p /\ e.holder = h
    BY <1>1, <1>2, <1>3
  <1>5. CASE gone = {}
    <2>1. Cardinality(gone) <= 1
      BY <1>5, FS_EmptySet
    <2> HIDE DEF gone
    <2> QED  BY <1>5, <2>1 DEF gone, list
  <1>6. ASSUME NEW i, gone \subseteq {list[i]}
        PROVE  Cardinality(gone) <= 1
    <2>1. IsFiniteSet({list[i]}) /\ Cardinality({list[i]}) = 1
      BY FS_Singleton
    <2> HIDE DEF gone
    <2>2. Cardinality(gone) <= Cardinality({list[i]})
      BY <1>6, <2>1, FS_Subset
    <2> QED  BY <2>1, <2>2
  <1>7. ASSUME NEW i \in OwnEntries(list, p, h),
               Entries(list) \ {list[i]} \subseteq Entries(providers'[g])
        PROVE  /\ Cardinality(gone) <= 1
               /\ \A lost \in gone : lost.provider = e.provider \/ lost.holder = e.holder
    <2>1. gone \subseteq {list[i]}
      BY <1>7
    <2>2. list[i].provider = p \/ list[i].holder = h
      BY DEF OwnEntries, Indices
    <2> QED  BY <1>4, <1>6, <2>1, <2>2
  <1>8. ASSUME NEW i \in Evictable(list, h),
               Entries(list) \ {list[i]} \subseteq Entries(providers'[g])
        PROVE  /\ Cardinality(gone) <= 1
               /\ \A lost \in gone :
                     /\ lost.holder # Own
                     /\ \/ lost.holder.class = e.holder.class
                        \/ Counts(list)[lost.holder.class] > ProviderShare
    <2>1. gone \subseteq {list[i]}
      BY <1>8
    <2>2. list[i].holder.class = EvictedClass(h.class, Counts(list), Share)
      BY DEF Evictable, OfClass, Indices
    <2>3. list[i].holder # Own
      BY <1>3, TakenAreForeign DEF ForeignAt, Indices
    <2>4. Share[OtherClass(h.class)] = ProviderShare
      BY <1>3 DEF Share, OtherClass
    <2>5. \/ list[i].holder.class = h.class
          \/ Counts(list)[list[i].holder.class] > ProviderShare
      BY <2>2, <2>4 DEF EvictedClass
    <2> QED  BY <1>4, <1>6, <2>1, <2>3, <2>5
  <1>9. Entries(list) \subseteq Entries(providers'[g]) => gone = {}
    OBVIOUS
  <1> HIDE DEF gone
  <1> QED  BY <1>2, <1>5, <1>7, <1>8, <1>9 DEF gone, list, h

(* A peer's entry costs at most one entry of another provider, in its own    *)
(* gene's list: its own, its pseudonym's, or in a full list one of its class *)
(* or of a class over its share; never one of this node's.                   *)
THEOREM ProviderEvictionStaysFair == Spec => EvictionIsFair
  <1>1. Types /\ [Next]_vars =>
          \A g \in Genes :
            LET before == Sweep[g]
                gone == Entries(before) \ Entries(providers'[g])
                new == Entries(providers'[g]) \ Entries(providers[g])
            IN  \A e \in new : e.provider # Local =>
                  /\ \A h \in Genes \ {g} : providers'[h] = Sweep[h]
                  /\ Cardinality(gone) <= 1
                  /\ \A lost \in gone :
                       \/ lost.provider = e.provider
                       \/ lost.holder = e.holder
                       \/ /\ Len(before) >= ProvidersPerKey
                          /\ lost.holder # Own
                          /\ \/ lost.holder.class = e.holder.class
                             \/ Counts(before)[lost.holder.class] > ProviderShare
    <2> SUFFICES ASSUME Types, [Next]_vars, NEW g \in Genes,
                        NEW e \in Entries(providers'[g]) \ Entries(providers[g]),
                        e.provider # Local
                 PROVE  LET before == Sweep[g]
                            gone == Entries(before) \ Entries(providers'[g])
                        IN  /\ \A h \in Genes \ {g} : providers'[h] = Sweep[h]
                            /\ Cardinality(gone) <= 1
                            /\ \A lost \in gone :
                                 \/ lost.provider = e.provider
                                 \/ lost.holder = e.holder
                                 \/ /\ Len(before) >= ProvidersPerKey
                                    /\ lost.holder # Own
                                    /\ \/ lost.holder.class = e.holder.class
                                       \/ Counts(before)[lost.holder.class] > ProviderShare
      OBVIOUS
    <2>1. PICK p \in Peers \ {Local} : AdmitProvider(g, p)
      BY NewFromAdmit
    <2>2. \A h \in Genes \ {g} : providers'[h] = Sweep[h]
      BY <2>1, AdmitCosts
    <2> QED  BY <2>1, <2>2, AdmitIsFair
  <1> QED  BY <1>1, Typed, PTL DEF Spec, EvictionIsFair
=============================================================================
