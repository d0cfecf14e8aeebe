----------------------------- MODULE AgentMemory -----------------------------
(***************************************************************************)
(* An agent's memory: the rules its store applies to every call of a gene  *)
(* (src/memory/backend.ts; the native store of rotifer-core states the     *)
(* same ones in one transaction per call), the agent's DataPolicy in front *)
(* of it on the Node path (access.ts), the two steps that create it when a *)
(* run opens it (host.ts), and the deployer's deletion (agent-memory.ts).  *)
(* A call is atomic; the processes of two runs interleave between calls,   *)
(* and a save may fail after its audit lines are written.                  *)
(***************************************************************************)
EXTENDS Integers, Sequences, FiniteSets

CONSTANTS Genes, DomainOf,  \* the calling genes, the domain of each
          Keys,             \* numbers, in the order of the entry ids
          Requests,         \* the writes a gene may ask for
          Quota,            \* of the agent record, in units of size
          AgentDays,        \* retention of the record's DataPolicy
          Runs,             \* processes that run the agent
          MaxClock, MaxFaults   \* bounds of the model; the clock counts days

Omitted == -2      \* a retentionPolicy that was not passed
Inherit == -1      \* null: the agent's own retention
Unlimited == 0     \* maxRetentionDays: null
Days == Nat \ {0}

Categories == {"PREFERENCE", "PATTERN", "CONTEXT", "CACHE"}
Scopes == {"CREATOR_GENE_ONLY", "SAME_DOMAIN", "ALL_GENES"}
Policies == [read : Scopes, write : Scopes]
DefaultPolicy == [read |-> "SAME_DOMAIN", write |-> "SAME_DOMAIN"]
Deployer == [read |-> "DEPLOYER_CONFIGURED", write |-> "DEPLOYER_CONFIGURED"]
Unchanged == [read |-> "stored", write |-> "stored"]  \* an accessPolicy that was not passed

ASSUME MemoryAssumption ==
  /\ Keys \subseteq Nat
  /\ Quota \in Nat
  /\ AgentDays \in Days \cup {Unlimited}
  /\ Requests \subseteq [gene : Genes, key : Keys, size : Nat \ {0}, cat : Categories,
                         policy : Policies \cup {Deployer, Unchanged},
                         ret : Days \cup {Omitted, Inherit, Unlimited}]

VARIABLES clock, exists, days, entries, audited, run, faults

vars == <<clock, exists, days, entries, audited, run, faults>>

Entry == [cat : Categories, size : Nat \ {0}, by : Genes, last : Genes, upd : Nat,
          policy : Policies, ret : Days \cup {Inherit, Unlimited}]
NoEntry == [cat |-> "none"]

-----------------------------------------------------------------------------
\* What is stored.

Held(es) == {k \in Keys : es[k] # NoEntry}
Units(es) == UNION {{k} \X (1 .. es[k].size) : k \in Held(es)}
Total(es) == Cardinality(Units(es))
Without(es, gone) == [k \in Keys |-> IF k \in gone THEN NoEntry ELSE es[k]]

DaysOf(e) == IF e.ret = Inherit THEN days ELSE e.ret

\* Elapsed days are compared with the entry's; null days never expire.
Expired(e) == DaysOf(e) \in Days /\ clock - e.upd >= DaysOf(e)

\* loadLive: every call purges the expired entries first, and audits them, even
\* when it is then refused.
Live == Without(entries, {k \in Held(entries) : Expired(entries[k])})

Purge ==
  /\ entries' = Live
  /\ audited' = audited + Total(Live) - Total(entries)

May(g, e, scope) ==
  \/ scope = "ALL_GENES"
  \/ scope = "SAME_DOMAIN" /\ DomainOf[g] = DomainOf[e.by]
  \/ scope = "CREATOR_GENE_ONLY" /\ g = e.by

-----------------------------------------------------------------------------
\* Eviction: CACHE, then PATTERN, then CONTEXT, the oldest first.

EvictionOrder == <<"CACHE", "PATTERN", "CONTEXT">>

\* Mutant: the newest first.
BugOldestFirst(e, k, f, l) == e.upd > f.upd \/ (e.upd = f.upd /\ k < l)

OldestFirst(e, k, f, l) == e.upd < f.upd \/ (e.upd = f.upd /\ k < l)

\* The candidates of the first category that still has some.
Candidates(es, left) ==
  LET of(i) == {k \in left : es[k].cat = EvictionOrder[i]}
  IN  of(CHOOSE i \in DOMAIN EvictionOrder : of(i) # {} /\ \A j \in 1 .. (i - 1) : of(j) = {})

\* The entry the loops over the categories and their entries come to first.
FirstOf(es, left) ==
  CHOOSE k \in Candidates(es, left) :
    \A l \in Candidates(es, left) \ {k} : OldestFirst(es[k], k, es[l], l)

Evictable(es, w) ==
  {k \in Held(es) \ {w.key} : \E i \in DOMAIN EvictionOrder : es[k].cat = EvictionOrder[i]}

\* Mutant: the entry being replaced counts as free twice.
BugRoom(es, w) == Quota - Total(Without(es, {w.key})) + (IF es[w.key] = NoEntry THEN 0 ELSE es[w.key].size)

\* What the quota leaves for the written entry before anything is evicted.
Room(es, w) == Quota - Total(Without(es, {w.key}))

\* One turn of the loops: the next entry is taken, unless the write fits by now
\* or none is left.
Taken(es, w, p) ==
  LET left == Evictable(es, w) \ p.out
      k == FirstOf(es, left)
  IN  IF w.size <= p.free \/ left = {} THEN p
      ELSE [free |-> p.free + es[k].size, out |-> p.out \cup {k}]

\* The entries the loops take, and the room they leave.
Plan(es, w) ==
  LET plan[n \in Nat] ==
        IF n = 0 THEN [free |-> Room(es, w), out |-> {}] ELSE Taken(es, w, plan[n - 1])
  IN  plan[Cardinality(Held(es))]

-----------------------------------------------------------------------------
Init ==
  /\ clock = 0
  /\ exists = FALSE
  /\ days = Unlimited
  /\ entries = [k \in Keys |-> NoEntry]
  /\ audited = 0
  /\ run = [r \in Runs |-> "idle"]
  /\ faults = 0

Tick ==
  /\ clock < MaxClock
  /\ clock' = clock + 1
  /\ UNCHANGED <<exists, days, entries, audited, run, faults>>

\* ensureAgentMemory: memoryGet, and when there is none, memoryCreate and then
\* memorySetDataPolicyRetention.
OpenMemory(r) ==
  /\ run[r] = "idle"
  /\ IF exists
       THEN Purge /\ run' = [run EXCEPT ![r] = "open"]
       ELSE run' = [run EXCEPT ![r] = "create"] /\ UNCHANGED <<entries, audited>>
  /\ UNCHANGED <<clock, exists, days, faults>>

\* memoryCreate; when another run was faster it throws, and this run ends.
CreateMemory(r) ==
  /\ run[r] = "create"
  /\ exists' = TRUE
  /\ run' = [run EXCEPT ![r] = IF exists THEN "idle"
                               ELSE IF AgentDays = Unlimited THEN "open" ELSE "retain"]
  /\ UNCHANGED <<clock, days, entries, audited, faults>>

SetRetention(r) ==
  /\ run[r] = "retain"
  /\ days' = AgentDays
  /\ run' = [run EXCEPT ![r] = "open"]
  /\ UNCHANGED <<clock, exists, entries, audited, faults>>

\* The run ends, or its process dies or cannot reach the store while opening.
EndRun(r) ==
  /\ \/ run[r] = "open" /\ UNCHANGED faults
     \/ run[r] \in {"create", "retain"} /\ faults < MaxFaults /\ faults' = faults + 1
  /\ run' = [run EXCEPT ![r] = "idle"]
  /\ UNCHANGED <<clock, exists, days, entries, audited>>

IsOpen == \E r \in Runs : run[r] = "open"

-----------------------------------------------------------------------------
\* dataPolicyViolation: only the Node path asks it.
OutsideDataPolicy(w) ==
  \/ AgentDays # Unlimited /\ (w.ret = Unlimited \/ w.ret > AgentDays)
  \/ w.policy = Deployer

\* Mutant: whoever may write may also change the policies.
BugDenied(es, w) ==
  LET e == es[w.key]
  IN  \/ e # NoEntry /\ ~May(w.gene, e, e.policy.write)
      \/ w.policy = Deployer

\* The scope of the stored entry, its creator's right to the policies, and the
\* scope nothing resolves.
Denied(es, w) ==
  LET e == es[w.key]
  IN  \/ e # NoEntry /\ ~May(w.gene, e, e.policy.write)
      \/ e # NoEntry /\ w.gene # e.by /\ (\/ w.policy \notin {Unchanged, e.policy}
                                          \/ w.ret \notin {Omitted, e.ret})
      \/ w.policy = Deployer

\* The stored entry: an update keeps its creator, and the policies not passed.
Written(es, w) ==
  LET e == es[w.key]
      isNew == e = NoEntry
  IN  [cat |-> w.cat, size |-> w.size, last |-> w.gene, upd |-> clock,
       by |-> IF isNew THEN w.gene ELSE e.by,
       policy |-> IF w.policy # Unchanged THEN w.policy
                  ELSE IF isNew THEN DefaultPolicy ELSE e.policy,
       ret |-> IF w.ret # Omitted THEN w.ret ELSE IF isNew THEN Inherit ELSE e.ret]

\* Mutant: the line of an update counts the whole entry as added.
BugWriteDelta(es, w) == w.size

\* sizeDelta of the line of the write itself.
WriteDelta(es, w) == w.size - (IF es[w.key] = NoEntry THEN 0 ELSE es[w.key].size)

\* write(): a refusal keeps the purge and nothing else; a save that fails after
\* its audit lines (the purge, the evictions, the write) leaves the old entries,
\* with or without the purge.
Write(w, viaNode) ==
  /\ IsOpen
  /\ LET es == Live
         plan == Plan(es, w)
         kept == Without(es, plan.out)
         refused == Denied(es, w) \/ w.size > plan.free \/ (viaNode /\ OutsideDataPolicy(w))
     IN  IF refused
           THEN Purge /\ UNCHANGED faults
           ELSE /\ audited' = audited + Total(kept) - Total(entries) + WriteDelta(es, w)
                /\ \/ /\ entries' = [kept EXCEPT ![w.key] = Written(es, w)]
                      /\ UNCHANGED faults
                   \/ /\ faults < MaxFaults
                      /\ faults' = faults + 1
                      /\ entries' \in {entries, es}
  /\ UNCHANGED <<clock, exists, days, run>>

\* read(): a caller with the scope becomes the last reader.
Read(g, k) ==
  /\ IsOpen
  /\ LET e == Live[k]
     IN  IF e # NoEntry /\ May(g, e, e.policy.read)
           THEN /\ entries' = [Live EXCEPT ![k].last = g]
                /\ audited' = audited + Total(Live) - Total(entries)
           ELSE Purge
  /\ UNCHANGED <<clock, exists, days, run, faults>>

\* query(), usage() and `agent memory list` change nothing but the purge.
Query ==
  /\ exists
  /\ Purge
  /\ UNCHANGED <<clock, exists, days, run, faults>>

RemoveKeys(gone) ==
  /\ entries' = Without(Live, gone)
  /\ audited' = audited + Total(Without(Live, gone)) - Total(entries)
  /\ UNCHANGED <<clock, exists, days, run, faults>>

Delete(g, k) ==
  /\ IsOpen
  /\ LET e == Live[k]
     IN  RemoveKeys(IF e # NoEntry /\ May(g, e, e.policy.write) THEN {k} ELSE {})

\* `agent memory delete` by key or by category: the deployer needs no scope.
DeployerDelete ==
  /\ exists
  /\ \/ \E k \in Keys : RemoveKeys({k})
     \/ \E c \in Categories : RemoveKeys({k \in Held(Live) : Live[k].cat = c})

Next ==
  \/ Tick
  \/ \E r \in Runs : OpenMemory(r) \/ CreateMemory(r) \/ SetRetention(r) \/ EndRun(r)
  \/ \E w \in Requests, viaNode \in BOOLEAN : Write(w, viaNode)
  \/ \E g \in Genes, k \in Keys : Read(g, k) \/ Delete(g, k)
  \/ Query
  \/ DeployerDelete

Spec == Init /\ [][Next]_vars

-----------------------------------------------------------------------------
TypeOK ==
  /\ clock \in Nat /\ faults \in Nat
  /\ exists \in BOOLEAN
  /\ days \in {Unlimited, AgentDays}
  /\ entries \in [Keys -> Entry \cup {NoEntry}]
  /\ run \in [Runs -> {"idle", "create", "retain", "open"}]

\* Whatever the genes write, update and let expire, what the memory holds never
\* exceeds its quota (write() in backend.ts).
QuotaHolds == Total(entries) <= Quota

\* k gives way before l: its category does, or it is the older of the two.
Ahead(es, k, l) ==
  LET rank(j) == [CACHE |-> 1, PATTERN |-> 2, CONTEXT |-> 3][es[j].cat]
      older == es[k].upd < es[l].upd \/ (es[k].upd = es[l].upd /\ k < l)
  IN  rank(k) < rank(l) \/ (rank(k) = rank(l) /\ older)

\* Every write evicts as the specification says: never a PREFERENCE, never an
\* entry while one ahead of it stays, and no more than the write needs
\* (EVICTION_ORDER and the loop of write() in backend.ts).
EvictionIsMinimal ==
  LET es == Live
  IN  \A w \in Requests :
        LET plan == Plan(es, w)
            spared == {k \in Held(es) \ ({w.key} \cup plan.out) : es[k].cat # "PREFERENCE"}
        IN  /\ \A k \in plan.out : es[k].cat # "PREFERENCE" /\ k # w.key
            /\ \A k \in plan.out, l \in spared : Ahead(es, k, l)
            /\ \A k \in plan.out : (\A l \in plan.out \ {k} : Ahead(es, l, k)) =>
                 Total(Without(es, (plan.out \ {k}) \cup {w.key})) + w.size > Quota

\* As long as no save failed, the sizes in the audit log add up to what the
\* memory holds (the lines of save() and loadLive() in backend.ts).
AuditAddsUp == faults = 0 => audited = Total(entries)

\* An entry that stays keeps its creator, and its policies change only when its
\* creator writes it (write() in backend.ts).
PoliciesAreTheCreators ==
  [][\A k \in Keys : Live[k] # NoEntry /\ entries'[k] # NoEntry =>
       /\ entries'[k].by = entries[k].by
       /\ \/ entries'[k].policy = entries[k].policy /\ entries'[k].ret = entries[k].ret
          \/ \E w \in Requests, n \in BOOLEAN :
               w.key = k /\ w.gene = entries[k].by /\ Write(w, n)]_vars

\* Once no run is still opening the memory, the agent's DataPolicy binds every
\* entry: none is kept longer than the agent's retention (data-policy.ts).
KeptNoLongerThanPolicy ==
  AgentDays # Unlimited /\ (\A r \in Runs : run[r] # "retain") =>
    \A k \in Held(entries) : DaysOf(entries[k]) \in Days /\ DaysOf(entries[k]) <= AgentDays
=============================================================================
