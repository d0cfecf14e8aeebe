---------------------------- MODULE GeneRecords -----------------------------
(***************************************************************************)
(* The value records of a node's DHT store (gene_store.rs): what it admits *)
(* from peers, what it evicts to make room, what it sweeps, and the node's *)
(* own records, which Kademlia puts and removes around the budgets.        *)
(*                                                                         *)
(* A record is its key (gene, publisher) and its version: the timestamp    *)
(* and the signature that orders two records of one timestamp. Steps 2-6   *)
(* and 8 of validate_record see the bytes; a record that fails them is     *)
(* refused like one outside the time window, so only the window (step 7)   *)
(* is spelled out. The wall clock and the monotonic clock are one clock.   *)
(***************************************************************************)
EXTENDS DhtHolders

CONSTANTS
    Genes,
    NoRecord,             \* an empty slot of the store
    Signatures,           \* a finite set of integers, ordered as bytes are
    OwnSignature,         \* this node's: equal announcements sign equally
    MaxRecords,           \* MAX_RECORDS
    AnonymousRecords,     \* ANONYMOUS_RECORDS
    RecordsPerPublisher,  \* RECORDS_PER_PUBLISHER
    MaxAge,               \* MAX_AGE_MS, in ticks
    StoreTtl,             \* STORE_TTL_MS, in ticks
    MaxFuture,            \* MAX_FUTURE_MS, in ticks
    MaxTime               \* bound of the model: the last tick

ASSUME RecordsAssumption ==
    /\ IsFiniteSet(Genes) /\ IsFiniteSet(Peers)
    /\ Signatures \subseteq Int /\ OwnSignature \in Signatures
    /\ RecordsPerPublisher \in Nat \ {0}
    /\ MaxRecords \in Nat \ {0} /\ AnonymousRecords \in 0 .. MaxRecords
    /\ MaxAge \in Nat /\ StoreTtl \in Nat \ {0} /\ MaxFuture \in Nat /\ MaxTime \in Nat \ {0}

VARIABLES
    records,  \* the store: GeneStore.records
    proof,    \* the registrations the heartbeat desk holds
    now,      \* the clock
    signed    \* per gene, the last timestamp this node signed (0: none yet)

vars == <<records, proof, now, signed>>

Keys == Genes \X Peers
Publisher(k) == k[2]
Time == 1 .. MaxTime
Timestamp == 1 .. MaxTime + MaxFuture
Version == [ts: Timestamp, sig: Signatures]
StoredRecord == [ts: Timestamp, sig: Signatures, holder: Holder, expires: Nat]
ASSUME NoRecordAssumption == NoRecord \notin StoredRecord

VersionOf(record) == [ts |-> record.ts, sig |-> record.sig]

TypeOK ==
    /\ records \in [Keys -> StoredRecord \cup {NoRecord}]
    /\ proof \in Proofs
    /\ now \in Time
    /\ signed \in [Genes -> 0 .. now]

Init ==
    /\ records = [k \in Keys |-> NoRecord]
    /\ proof = NoProofs
    /\ now = 1
    /\ signed = [g \in Genes |-> 0]

-----------------------------------------------------------------------------
(* Who holds what in a store `s`.                                            *)
Stored(s) == {k \in Keys : s[k] # NoRecord}
HeldBy(s, holder) == {k \in Stored(s) : s[k].holder = holder}
HeldByClass(s, class) == {k \in Stored(s) : s[k].holder.class = class}
Foreign(s) == {k \in Stored(s) : s[k].holder # Own}

Share == [class \in {"registered", "anonymous"} |->
            IF class = "anonymous" THEN AnonymousRecords ELSE MaxRecords - AnonymousRecords]
Counts(s) == [class \in {"registered", "anonymous"} |-> Cardinality(HeldByClass(s, class))]

(* A record is dropped once the clock reaches `expires`.                     *)
Expired(record) == record.expires <= now
Sweep(s) == [k \in Keys |-> IF k \in Stored(s) /\ Expired(s[k]) THEN NoRecord ELSE s[k]]

BugSupersedesItself(new, old) ==
    new.ts > old.ts \/ (new.ts = old.ts /\ new.sig <= old.sig)
BugSupersedesByTime(new, old) == new.ts >= old.ts
Supersedes(new, old) ==
    \/ new.ts > old.ts
    \/ new.ts = old.ts /\ new.sig < old.sig

Least(a, b) == IF a <= b THEN a ELSE b
BugExpiresAtIgnoresAge(ts) == now + StoreTtl
ExpiresAt(ts) == Least(ts + MaxAge, now + StoreTtl)
Entry(version, holder) ==
    [ts |-> version.ts, sig |-> version.sig, holder |-> holder, expires |-> ExpiresAt(version.ts)]

InWindow(ts) == now - MaxAge <= ts /\ ts <= now + MaxFuture

BugFullOneLate(s) == Cardinality(Foreign(s)) > MaxRecords
Full(s) == Cardinality(Foreign(s)) >= MaxRecords

(* Mutant: a publisher one short of its budget already loses a record.       *)
BugAtBudget(s, holder) == Cardinality(HeldBy(s, holder)) >= RecordsPerPublisher - 1
AtBudget(s, holder) == Cardinality(HeldBy(s, holder)) >= RecordsPerPublisher

(* The ways to make room in `s` for one more record of `holder`, each the    *)
(* set of keys dropped; no way at all when the record must be refused. A     *)
(* victim is drawn at random.                                                *)
RoomFor(s, holder) ==
    IF AtBudget(s, holder)
    THEN {{k} : k \in HeldBy(s, holder)}
    ELSE IF Full(s)
    THEN {{k} : k \in HeldByClass(s, EvictedClass(holder.class, Counts(s), Share))}
    ELSE {{}}

(* What a peer can send under key `k`. Anyone can resend a record it has     *)
(* read, but only its publisher can sign one: under this node's own keys     *)
(* nothing newer than this node signed exists.                               *)
Offered(k) ==
    {v \in Version : Publisher(k) = Local => v.ts <= signed[k[1]] /\ v.sig = OwnSignature}

-----------------------------------------------------------------------------
(* admit_record: a peer's PUT_VALUE that passes every check.                 *)
AdmitRecord(k, v) ==
    LET s == Sweep(records)
        holder == HolderOf(proof, Publisher(k))
    IN  /\ InWindow(v.ts)
        /\ \/ /\ s[k] # NoRecord
              /\ Supersedes(v, s[k])
              /\ records' = [s EXCEPT ![k] = Entry(v, holder)]
           \/ /\ s[k] = NoRecord
              /\ \E dropped \in RoomFor(s, holder) :
                    records' = [x \in Keys |-> IF x = k THEN Entry(v, holder)
                                               ELSE IF x \in dropped THEN NoRecord ELSE s[x]]
        /\ UNCHANGED <<proof, now, signed>>

(* admit_record: Rejected, NotNewer or OverBudget. The sweep has run.        *)
RefuseRecord(k, v) ==
    LET s == Sweep(records)
    IN  /\ \/ ~InWindow(v.ts)
           \/ s[k] # NoRecord /\ ~Supersedes(v, s[k])
           \/ s[k] = NoRecord /\ RoomFor(s, HolderOf(proof, Publisher(k))) = {}
        /\ records' = s
        /\ UNCHANGED <<proof, now, signed>>

(* put: this node's own announcement, signed now. It is kept unless the      *)
(* stored copy wins; nothing is swept and no budget is consulted.            *)
Put(g) ==
    LET k == <<g, Local>>
        v == [ts |-> now, sig |-> OwnSignature]
    IN  /\ records' = IF k \in Stored(records) /\ ~Supersedes(v, records[k])
                      THEN records
                      ELSE [records EXCEPT ![k] = Entry(v, Own)]
        /\ signed' = [signed EXCEPT ![g] = now]
        /\ UNCHANGED <<proof, now>>

(* remove: this node withdraws a gene.                                       *)
Withdraw(g) ==
    /\ records' = [records EXCEPT ![<<g, Local>>] = NoRecord]
    /\ UNCHANGED <<proof, now, signed>>

(* The event loop's periodic sweep.                                          *)
SweepTick ==
    /\ records' = Sweep(records)
    /\ UNCHANGED <<proof, now, signed>>

(* The desk accepts, replaces or loses a peer's proof of registration.       *)
ProofChanges(p, r) ==
    /\ p # Local
    /\ proof' = [proof EXCEPT ![p] = r]
    /\ UNCHANGED <<records, now, signed>>

Tick ==
    /\ now < MaxTime
    /\ now' = now + 1
    /\ UNCHANGED <<records, proof, signed>>

(* The store and the desk live in memory only.                               *)
Restart ==
    /\ records' = [k \in Keys |-> NoRecord]
    /\ proof' = NoProofs
    /\ UNCHANGED <<now, signed>>

Next ==
    \/ \E k \in Keys : \E v \in Offered(k) : AdmitRecord(k, v) \/ RefuseRecord(k, v)
    \/ \E g \in Genes : Put(g) \/ Withdraw(g)
    \/ \E p \in Peers, r \in Pseudonyms \cup {NoProof} : ProofChanges(p, r)
    \/ SweepTick
    \/ Tick
    \/ Restart

Spec == Init /\ [][Next]_vars

-----------------------------------------------------------------------------
(* Unexpired records that are gone after the step.                           *)
Lost == {k \in Keys : records[k] # NoRecord /\ ~Expired(records[k]) /\ records'[k] = NoRecord}
(* Keys whose first record, or first since the last one expired, came in the *)
(* step.                                                                     *)
Gained == {k \in Keys : /\ Sweep(records)[k] = NoRecord
                        /\ records'[k] \notin {NoRecord, records[k]}}

(* Records stored from other publishers stay within MAX_RECORDS, though a    *)
(* replacement (which may change the holder's class) and this node's own put *)
(* consult no budget at all.                                                 *)
TotalBudget == Cardinality(Foreign(records)) <= MaxRecords

(* "This node's own records are exempt and never evicted" (module header):   *)
(* nothing a peer sends - under other keys, or this node's own record sent   *)
(* back to it - drops an unexpired own record or turns it into a peer's.     *)
OwnRecordsAreExempt ==
    [][\A k \in Keys :
         (records[k] # NoRecord /\ ~Expired(records[k]) /\ records[k].holder = Own) =>
            /\ records'[k] # NoRecord => records'[k].holder = Own
            /\ (\E x \in Gained : records'[x].holder # Own) => k \notin Lost]_vars

(* The eviction rule: a newcomer costs at most one record, and only when a   *)
(* budget is full - one of its own holder's when the holder's budget is,     *)
(* else, when the store is, one of its own class or of a class over its      *)
(* share. A class within its share never loses a record to the other. And no *)
(* newcomer takes its holder past RECORDS_PER_PUBLISHER, or further past it  *)
(* when replacements under a new proof already have.                         *)
Fair(newcomer) ==
    LET holder == records'[newcomer].holder
        before == Sweep(records)
        held == Cardinality(HeldBy(before, holder))
    IN  /\ Cardinality(Lost) <= 1
        /\ \/ Cardinality(HeldBy(records', holder)) <= RecordsPerPublisher
           \/ Cardinality(HeldBy(records', holder)) <= held
        /\ \A x \in Lost :
             \/ records[x].holder = holder /\ held >= RecordsPerPublisher
             \/ /\ Cardinality(Foreign(before)) >= MaxRecords
                /\ \/ records[x].holder.class = holder.class
                   \/ Cardinality(HeldByClass(before, records[x].holder.class))
                         > Share[records[x].holder.class]
EvictionIsFair == [][\A k \in Gained : records'[k].holder # Own => Fair(k)]_vars

(* Sending a stored version again never prolongs its life: while it is held  *)
(* its expiry stands, and no version is held past MAX_AGE_MS of its signing. *)
ReplaysDoNotRefresh ==
    [][\A k \in Keys :
         (records[k] # NoRecord /\ records'[k] # NoRecord) =>
            /\ records'[k].expires <= records'[k].ts + MaxAge
            /\ (VersionOf(records[k]) = VersionOf(records'[k]) /\ ~Expired(records[k]))
                  => records'[k].expires = records[k].expires]_vars

(* The store implements the registers: a reader sees the version of a record *)
(* that has not expired, swept or not. Expiry, eviction, withdrawal and a    *)
(* restart all look like a lost value; an older version never comes back     *)
(* over a newer one that can still be read.                                  *)
Visible == [k \in Keys |-> IF records[k] = NoRecord \/ Expired(records[k])
                           THEN NoRecord ELSE VersionOf(records[k])]
Registers == INSTANCE RecordRegisters WITH NoVersion <- NoRecord, latest <- Visible
VersionsOnlyAdvance == Registers!Spec
=============================================================================
