--------------------------- MODULE GeneProviders ----------------------------
(***************************************************************************)
(* The provider entries of a node's DHT store (gene_store.rs): per gene, a *)
(* list of who serves it. Peers send entries for themselves only (Kademlia *)
(* checks that), this node adds and removes its own around the budgets.    *)
(* The list is ordered: a returning provider takes the first entry that is *)
(* its own or its pseudonym's, and swap_remove moves the last entry into   *)
(* an evicted one's place.                                                 *)
(*                                                                         *)
(* Addresses are left out. Kademlia stamps an arriving entry with          *)
(* provider_record_ttl; this node's own never expires.                     *)
(***************************************************************************)
EXTENDS DhtHolders, Sequences, SequencesExt

CONSTANTS
    Genes,
    ProvidersPerKey,     \* PROVIDERS_PER_KEY
    ProviderShare,       \* PROVIDER_SHARE
    MaxProviderKeys,     \* MAX_PROVIDER_KEYS
    MaxProviderEntries,  \* MAX_PROVIDER_ENTRIES
    StoreTtl,            \* provider_record_ttl, in ticks
    MaxTime              \* bound of the model: the last tick

ASSUME ProvidersAssumption ==
    /\ IsFiniteSet(Genes)
    /\ ProvidersPerKey \in Nat \ {0} /\ ProviderShare \in 0 .. ProvidersPerKey
    /\ MaxProviderKeys \in Nat \ {0} /\ MaxProviderEntries \in Nat \ {0}
    /\ StoreTtl \in Nat \ {0} /\ MaxTime \in Nat \ {0}

VARIABLES
    providers,  \* gene -> its list of entries: GeneStore.providers
    proof,      \* the registrations the heartbeat desk holds
    now

vars == <<providers, proof, now>>

Never == MaxTime + StoreTtl + 1
EntryOf(p, holder, expires) == [provider |-> p, holder |-> holder, expires |-> expires]

Init ==
    /\ providers = [g \in Genes |-> <<>>]
    /\ proof = NoProofs
    /\ now = 1

-----------------------------------------------------------------------------
Indices(list, Test(_)) == {i \in DOMAIN list : Test(list[i])}
OfClass(list, class) == Indices(list, LAMBDA e : e.holder.class = class)
ForeignAt(list) == Indices(list, LAMBDA e : e.holder # Own)

(* What `retain` leaves: the entries at the places in `kept`, in their order. *)
Retain(list, kept) ==
    LET upTo[n \in 0 .. Len(list)] ==
          IF n = 0 THEN <<>>
          ELSE IF n \in kept THEN Append(upTo[n - 1], list[n]) ELSE upTo[n - 1]
    IN  upTo[Len(list)]

Live(list) == Retain(list, Indices(list, LAMBDA e : e.expires > now))
Sweep == [g \in Genes |-> Live(providers[g])]

(* The places of a store's entries: a gene, and an index of its list.        *)
Slots(lists) == UNION {{g} \X DOMAIN lists[g] : g \in Genes}
ForeignSlots(lists) == {s \in Slots(lists) : lists[s[1]][s[2]].holder # Own}

KeysHeld(lists) == {g \in Genes : lists[g] # <<>>}
EntriesHeld(lists) == Cardinality(Slots(lists))

Share == [class \in {"registered", "anonymous"} |-> ProviderShare]
Counts(list) == [class \in {"registered", "anonymous"} |-> Cardinality(OfClass(list, class))]

(* "The same provider, or the same pseudonym, replaces its own entry": the   *)
(* entries that count as the sender's own.                                   *)
OwnEntries(list, p, holder) ==
    Indices(list, LAMBDA e : \/ e.provider = p
                             \/ holder.class = "registered" /\ e.holder = holder)
First(S) == CHOOSE i \in S : \A j \in S : i <= j

BugPop(list, i) == Front(list)
SwapRemove(list, i) == Front([list EXCEPT ![i] = Last(list)])

(* The entries one of which makes room in a full list.                       *)
Evictable(list, holder) == OfClass(list, EvictedClass(holder.class, Counts(list), Share))

BugAllFullOneLate(lists) == EntriesHeld(lists) > MaxProviderEntries
AllFull(lists) == EntriesHeld(lists) >= MaxProviderEntries

Refused(lists, g, p, holder) ==
    LET list == lists[g]
    IN  /\ OwnEntries(list, p, holder) = {}
        /\ \/ list = <<>> /\ Cardinality(KeysHeld(lists)) >= MaxProviderKeys
           \/ AllFull(lists) /\ Len(list) < ProvidersPerKey
           \/ Len(list) >= ProvidersPerKey /\ Evictable(list, holder) = {}

-----------------------------------------------------------------------------
(* admit_provider, Stored: an entry of the sender's is overwritten in place, *)
(* or a new one appended, in a full list after a random victim has left.     *)
AdmitProvider(g, p) ==
    LET lists == Sweep
        list == lists[g]
        holder == HolderOf(proof, p)
        entry == EntryOf(p, holder, now + StoreTtl)
        same == OwnEntries(list, p, holder)
    IN  /\ ~Refused(lists, g, p, holder)
        /\ \/ /\ same # {}
              /\ providers' = [lists EXCEPT ![g][First(same)] = entry]
           \/ /\ same = {}
              /\ Len(list) < ProvidersPerKey
              /\ providers' = [lists EXCEPT ![g] = Append(list, entry)]
           \/ /\ same = {}
              /\ Len(list) >= ProvidersPerKey
              /\ \E i \in Evictable(list, holder) :
                    providers' = [lists EXCEPT ![g] = Append(SwapRemove(list, i), entry)]
        /\ UNCHANGED <<proof, now>>

(* admit_provider, BadKey or OverBudget. The sweep has run.                  *)
RefuseProvider(g, p) ==
    /\ Refused(Sweep, g, p, HolderOf(proof, p))
    /\ providers' = Sweep
    /\ UNCHANGED <<proof, now>>

(* add_provider and remove_provider: this node starts and stops providing.   *)
NotLocal(list) == Retain(list, Indices(list, LAMBDA e : e.provider # Local))

StartProviding(g) ==
    /\ providers' = [providers EXCEPT ![g] = Append(NotLocal(@), EntryOf(Local, Own, Never))]
    /\ UNCHANGED <<proof, now>>

StopProviding(g) ==
    /\ providers' = [providers EXCEPT ![g] = NotLocal(@)]
    /\ UNCHANGED <<proof, now>>

SweepTick ==
    /\ providers' = Sweep
    /\ UNCHANGED <<proof, now>>

ProofChanges(p, r) ==
    /\ p # Local
    /\ proof' = [proof EXCEPT ![p] = r]
    /\ UNCHANGED <<providers, now>>

Tick ==
    /\ now < MaxTime
    /\ now' = now + 1
    /\ UNCHANGED <<providers, proof>>

Restart ==
    /\ providers' = [g \in Genes |-> <<>>]
    /\ proof' = NoProofs
    /\ UNCHANGED now

Next ==
    \/ \E g \in Genes, p \in Peers \ {Local} : AdmitProvider(g, p) \/ RefuseProvider(g, p)
    \/ \E g \in Genes : StartProviding(g) \/ StopProviding(g)
    \/ \E p \in Peers, r \in Pseudonyms \cup {NoProof} : ProofChanges(p, r)
    \/ SweepTick
    \/ Tick
    \/ Restart

Spec == Init /\ [][Next]_vars

-----------------------------------------------------------------------------
(* The entries of other nodes stay within PROVIDERS_PER_KEY for each gene    *)
(* and MAX_PROVIDER_ENTRIES in all, although this node's own entries, which  *)
(* count as held, come and go without a check.                               *)
ProviderBudgets ==
    /\ \A g \in Genes : Cardinality(ForeignAt(providers[g])) <= ProvidersPerKey
    /\ Cardinality(ForeignSlots(providers)) <= MaxProviderEntries

(* A sender's entry costs at most one unexpired entry of another provider,   *)
(* of its own gene's list only: the entry of its own pseudonym it takes      *)
(* over, or, when the list is full, one of its own class or of a class over  *)
(* its share. This node's own entries are not touched.                       *)
Entries(list) == {list[i] : i \in DOMAIN list}
EvictionIsFair ==
    [][\A g \in Genes :
         LET before == Sweep[g]
             gone == Entries(before) \ Entries(providers'[g])
             new == Entries(providers'[g]) \ Entries(providers[g])
         IN  \A e \in new : e.provider # Local =>
               /\ \A h \in Genes \ {g} : providers'[h] = Sweep[h]
               /\ Cardinality(gone) <= 1
               /\ \A lost \in gone :
                    \/ lost.provider = e.provider
                    \/ lost.holder = e.holder
                    \/ /\ Len(before) >= ProvidersPerKey
                       /\ lost.holder # Own
                       /\ \/ lost.holder.class = e.holder.class
                          \/ Counts(before)[lost.holder.class] > ProviderShare]_vars
=============================================================================
