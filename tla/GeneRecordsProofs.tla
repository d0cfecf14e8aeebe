------------------------- MODULE GeneRecordsProofs --------------------------
(***************************************************************************)
(* What holds of GeneRecords for every set of peers, genes and pseudonyms, *)
(* all budgets and all lifetimes: the types, the total budget, that no     *)
(* peer's write touches this node's own records, that an eviction takes    *)
(* from the class that is over its share, that a replay prolongs no life,  *)
(* and that the store implements RecordRegisters.                          *)
(***************************************************************************)
EXTENDS GeneRecords, FiniteSetTheorems, TLAPS

(* A record the node put itself is the newest it ever signed for the gene,   *)
(* and stands under its own key. That is why nothing a peer can send         *)
(* supersedes it, and so why a replacement, which consults no budget, never  *)
(* makes a foreign record out of an own one.                                 *)
OwnIsNewest ==
    \A k \in Stored(records) : records[k].holder = Own =>
        /\ Publisher(k) = Local
        /\ records[k].ts = signed[k[1]]
        /\ records[k].sig = OwnSignature

IInv == TypeOK /\ OwnIsNewest /\ TotalBudget

-----------------------------------------------------------------------------
(* A proof of registration names a peer's holder, never this node's own.     *)
LEMMA HolderOfType ==
    ASSUME NEW q \in Proofs, NEW p \in Peers
    PROVE  /\ HolderOf(q, p) \in Holder \ {Own}
           /\ HolderOf(q, p).class \in {"registered", "anonymous"}
  <1>1. q[p] \in Pseudonyms \cup {NoProof}
    BY DEF Proofs
  <1>2. CASE q[p] = NoProof
    BY <1>2 DEF HolderOf, Anonymous, Holder, Own
  <1>3. CASE q[p] # NoProof
    BY <1>1, <1>3 DEF HolderOf, Registered, Holder, Own
  <1> QED  BY <1>2, <1>3

(* An admitted version becomes a stored record.                              *)
LEMMA EntryType ==
    ASSUME TypeOK, NEW v \in Version, NEW h \in Holder
    PROVE  Entry(v, h) \in StoredRecord
  <1>1. v.ts \in Nat /\ v.ts \in Timestamp /\ v.sig \in Signatures
    BY RecordsAssumption DEF Version, Timestamp
  <1>2. ExpiresAt(v.ts) \in Nat
    BY <1>1, RecordsAssumption DEF ExpiresAt, Least, TypeOK, Time
  <1> QED  BY <1>1, <1>2 DEF Entry, StoredRecord

(* A sweep drops records and changes none.                                   *)
LEMMA SweepDrops ==
    ASSUME TypeOK
    PROVE  /\ Sweep(records) \in [Keys -> StoredRecord \cup {NoRecord}]
           /\ \A k \in Keys : Sweep(records)[k] \in {records[k], NoRecord}
  BY DEF Sweep, TypeOK

-----------------------------------------------------------------------------
LEMMA InitType == Init => TypeOK
  <1> SUFFICES ASSUME Init PROVE TypeOK
    OBVIOUS
  <1>1. NoProofs \in Proofs
    BY HoldersAssumption DEF NoProofs, Proofs
  <1> QED  BY <1>1, RecordsAssumption DEF Init, TypeOK, Time

LEMMA NextType == TypeOK /\ [Next]_vars => TypeOK'
  <1> SUFFICES ASSUME TypeOK, [Next]_vars PROVE TypeOK'
    OBVIOUS
  <1>1. ASSUME NEW k \in Keys, NEW v \in Offered(k), AdmitRecord(k, v)
        PROVE  TypeOK'
    <2> DEFINE s == Sweep(records)
               h == HolderOf(proof, Publisher(k))
    <2>1. Publisher(k) \in Peers
      BY DEF Keys, Publisher
    <2>2. Entry(v, h) \in StoredRecord
      BY <2>1, HolderOfType, EntryType DEF Offered, TypeOK
    <2>3. records' \in [Keys -> StoredRecord \cup {NoRecord}]
      <3>1. CASE records' = [s EXCEPT ![k] = Entry(v, h)]
        BY <2>2, <3>1, SweepDrops
      <3>2. CASE \E dropped \in RoomFor(s, h) :
                    records' = [x \in Keys |-> IF x = k THEN Entry(v, h)
                                               ELSE IF x \in dropped THEN NoRecord ELSE s[x]]
        BY <2>2, <3>2, SweepDrops
      <3> QED  BY <1>1, <3>1, <3>2 DEF AdmitRecord
    <2> QED  BY <1>1, <2>3 DEF AdmitRecord, TypeOK
  <1>2. ASSUME NEW k \in Keys, NEW v \in Offered(k), RefuseRecord(k, v)
        PROVE  TypeOK'
    BY <1>2, SweepDrops DEF RefuseRecord, TypeOK
  <1>3. ASSUME NEW g \in Genes, Put(g)
        PROVE  TypeOK'
    <2> DEFINE v == [ts |-> now, sig |-> OwnSignature]
    <2>1. v \in Version
      BY RecordsAssumption DEF TypeOK, Time, Version, Timestamp
    <2>2. Entry(v, Own) \in StoredRecord
      BY <2>1, EntryType DEF Holder
    <2>3. records' \in [Keys -> StoredRecord \cup {NoRecord}]
      BY <1>3, <2>2 DEF Put, TypeOK
    <2>4. signed' \in [Genes -> 0 .. now']
      BY <1>3 DEF Put, TypeOK, Time
    <2> QED  BY <1>3, <2>3, <2>4 DEF Put, TypeOK
  <1>4. ASSUME NEW g \in Genes, Withdraw(g)
        PROVE  TypeOK'
    BY <1>4 DEF Withdraw, TypeOK
  <1>5. ASSUME NEW p \in Peers, NEW r \in Pseudonyms \cup {NoProof}, ProofChanges(p, r)
        PROVE  TypeOK'
    <2>1. proof' \in Proofs
      <3>1. /\ proof \in [Peers -> Pseudonyms \cup {NoProof}]
            /\ proof[Local] = NoProof
        BY DEF TypeOK, Proofs
      <3>2. proof' = [proof EXCEPT ![p] = r] /\ p # Local
        BY <1>5 DEF ProofChanges
      <3>3. proof' \in [Peers -> Pseudonyms \cup {NoProof}]
        BY <3>1, <3>2
      <3>4. proof'[Local] = NoProof
        BY <3>1, <3>2, HoldersAssumption
      <3> QED  BY <3>3, <3>4 DEF Proofs
    <2> QED  BY <1>5, <2>1 DEF ProofChanges, TypeOK
  <1>6. CASE SweepTick
    BY <1>6, SweepDrops DEF SweepTick, TypeOK
  <1>7. CASE Tick
    BY <1>7, RecordsAssumption DEF Tick, TypeOK, Time
  <1>8. CASE Restart
    <2>1. NoProofs \in Proofs
      BY HoldersAssumption DEF NoProofs, Proofs
    <2> QED  BY <1>8, <2>1 DEF Restart, TypeOK
  <1>9. CASE UNCHANGED vars
    BY <1>9 DEF vars, TypeOK
  <1> QED  BY <1>1, <1>2, <1>3, <1>4, <1>5, <1>6, <1>7, <1>8, <1>9 DEF Next

-----------------------------------------------------------------------------
LEMMA InitOwn == Init => OwnIsNewest
  BY DEF Init, OwnIsNewest, Stored

(* Nothing a peer can send supersedes a record this node put.                *)
LEMMA NoReplaySupersedes ==
    ASSUME TypeOK, OwnIsNewest,
           NEW k \in Stored(records), records[k].holder = Own, NEW v \in Offered(k)
    PROVE  ~Supersedes(v, records[k])
  <1>1. k \in Keys /\ records[k] \in StoredRecord
    BY DEF Stored, TypeOK
  <1>2. /\ records[k].ts = signed[k[1]]
        /\ records[k].sig = OwnSignature
        /\ Publisher(k) = Local
    BY DEF OwnIsNewest
  <1>3. v.ts <= signed[k[1]] /\ v.sig = OwnSignature
    BY <1>2 DEF Offered
  <1>4. v.ts \in Int /\ signed[k[1]] \in Int /\ OwnSignature \in Int
    BY <1>1, RecordsAssumption DEF Offered, Version, Timestamp, TypeOK, Keys, Time
  <1> QED  BY <1>2, <1>3, <1>4 DEF Supersedes

LEMMA NextOwn == TypeOK /\ OwnIsNewest /\ [Next]_vars => OwnIsNewest'
  <1> SUFFICES ASSUME TypeOK, OwnIsNewest, [Next]_vars,
                      NEW k \in Stored(records)', records'[k].holder = Own
               PROVE  /\ Publisher(k) = Local
                      /\ records'[k].ts = signed'[k[1]]
                      /\ records'[k].sig = OwnSignature
    BY DEF OwnIsNewest
  <1>k. k \in Keys /\ records'[k] # NoRecord
    BY DEF Stored
  <1>0. CASE records'[k] = records[k] /\ signed'[k[1]] = signed[k[1]]
    BY <1>0, <1>k DEF OwnIsNewest, Stored
  <1>1. ASSUME NEW x \in Keys, NEW v \in Offered(x), AdmitRecord(x, v)
        PROVE  records'[k] = records[k] /\ signed' = signed
    <2> DEFINE s == Sweep(records)
               h == HolderOf(proof, Publisher(x))
    <2>1. h # Own
      BY HolderOfType DEF Keys, Publisher, TypeOK
    <2>2. k = x => records'[k] = Entry(v, h)
      <3>1. CASE records' = [s EXCEPT ![x] = Entry(v, h)]
        BY <1>k, <3>1, SweepDrops
      <3>2. CASE \E dropped \in RoomFor(s, h) :
                    records' = [y \in Keys |-> IF y = x THEN Entry(v, h)
                                               ELSE IF y \in dropped THEN NoRecord ELSE s[y]]
        BY <1>k, <3>2
      <3> QED  BY <1>1, <3>1, <3>2 DEF AdmitRecord
    <2>3. k # x
      BY <2>1, <2>2 DEF Entry
    <2>4. records'[k] \in {s[k], NoRecord}
      <3>1. CASE records' = [s EXCEPT ![x] = Entry(v, h)]
        BY <1>k, <2>3, <3>1, SweepDrops
      <3>2. CASE \E dropped \in RoomFor(s, h) :
                    records' = [y \in Keys |-> IF y = x THEN Entry(v, h)
                                               ELSE IF y \in dropped THEN NoRecord ELSE s[y]]
        BY <1>k, <2>3, <3>2
      <3> QED  BY <1>1, <3>1, <3>2 DEF AdmitRecord
    <2> QED  BY <1>1, <1>k, <2>4, SweepDrops DEF AdmitRecord
  <1>2. ASSUME NEW x \in Keys, NEW v \in Offered(x), RefuseRecord(x, v)
        PROVE  records'[k] = records[k] /\ signed' = signed
    BY <1>2, <1>k, SweepDrops DEF RefuseRecord
  <1>3. ASSUME NEW g \in Genes, Put(g)
        PROVE  /\ Publisher(k) = Local
               /\ records'[k].ts = signed'[k[1]]
               /\ records'[k].sig = OwnSignature
    <2> DEFINE own == <<g, Local>>
               v == [ts |-> now, sig |-> OwnSignature]
    <2>1. own \in Keys /\ own[1] = g
      BY HoldersAssumption DEF Keys
    <2>2. signed' = [signed EXCEPT ![g] = now] /\ signed \in [Genes -> 0 .. now] /\ now \in Nat
      BY <1>3 DEF Put, TypeOK, Time
    <2>3. CASE own \in Stored(records) /\ ~Supersedes(v, records[own])
      <3>1. records' = records
        BY <1>3, <2>3 DEF Put
      <3>2. /\ Publisher(k) = Local
            /\ records[k].ts = signed[k[1]]
            /\ records[k].sig = OwnSignature
        BY <1>k, <3>1 DEF OwnIsNewest, Stored
      <3>3. CASE k[1] = g
        <4>1. k = own
          BY <1>k, <3>2, <3>3 DEF Keys, Publisher
        <4>2. ~(now > records[k].ts)
          BY <2>3, <4>1 DEF Supersedes
        <4>3. signed[g] <= now /\ signed[g] \in Nat
          BY <2>2
        <4> QED  BY <2>2, <3>1, <3>2, <3>3, <4>2, <4>3
      <3>4. CASE k[1] # g
        <4>1. signed'[k[1]] = signed[k[1]]
          BY <1>k, <2>2, <3>4 DEF Keys
        <4> QED  BY <3>1, <3>2, <4>1
      <3> QED  BY <3>3, <3>4
    <2>4. CASE ~(own \in Stored(records) /\ ~Supersedes(v, records[own]))
      <3>1. records' = [records EXCEPT ![own] = Entry(v, Own)]
        BY <1>3, <2>4 DEF Put
      <3>2. CASE k = own
        <4>1. records'[k] = Entry(v, Own)
          BY <2>1, <3>1, <3>2 DEF TypeOK
        <4> QED  BY <2>1, <2>2, <3>2, <4>1 DEF Entry, Publisher
      <3>3. CASE k # own
        <4>1. records'[k] = records[k]
          BY <1>k, <3>1, <3>3 DEF TypeOK
        <4>2. /\ Publisher(k) = Local
              /\ records[k].ts = signed[k[1]]
              /\ records[k].sig = OwnSignature
          BY <1>k, <4>1 DEF OwnIsNewest, Stored
        <4>3. k[1] # g
          BY <1>k, <3>3, <4>2 DEF Keys, Publisher
        <4>4. signed'[k[1]] = signed[k[1]]
          BY <1>k, <2>2, <4>3 DEF Keys
        <4> QED  BY <4>1, <4>2, <4>4
      <3> QED  BY <3>2, <3>3
    <2> QED  BY <2>3, <2>4
  <1>4. ASSUME NEW g \in Genes, Withdraw(g)
        PROVE  records'[k] = records[k] /\ signed' = signed
    BY <1>4, <1>k DEF Withdraw, TypeOK
  <1>5. ASSUME NEW p \in Peers, NEW r \in Pseudonyms \cup {NoProof}, ProofChanges(p, r)
        PROVE  records'[k] = records[k] /\ signed' = signed
    BY <1>5 DEF ProofChanges
  <1>6. CASE SweepTick
    BY <1>0, <1>6, <1>k, SweepDrops DEF SweepTick
  <1>7. CASE Tick
    BY <1>0, <1>7 DEF Tick
  <1>8. CASE Restart
    BY <1>8, <1>k DEF Restart
  <1>9. CASE UNCHANGED vars
    BY <1>0, <1>9 DEF vars
  <1> QED  BY <1>0, <1>1, <1>2, <1>3, <1>4, <1>5, <1>6, <1>7, <1>8, <1>9 DEF Next

-----------------------------------------------------------------------------
(* The keys are finite, so everything held is countable.                     *)
LEMMA ForeignFinite ==
    ASSUME NEW s
    PROVE  IsFiniteSet(Foreign(s)) /\ Cardinality(Foreign(s)) \in Nat
  <1>1. IsFiniteSet(Keys)
    BY RecordsAssumption, FS_Product DEF Keys
  <1>2. Foreign(s) \in SUBSET Keys
    BY DEF Foreign, Stored
  <1> QED  BY <1>1, <1>2, FS_Subset, FS_CardinalityType

LEMMA FewerForeign ==
    ASSUME NEW s, NEW t, Foreign(t) \subseteq Foreign(s)
    PROVE  Cardinality(Foreign(t)) <= Cardinality(Foreign(s))
  BY ForeignFinite, FS_Subset

LEMMA OneMore ==
    ASSUME NEW S, NEW x, IsFiniteSet(S)
    PROVE  /\ IsFiniteSet(S \cup {x})
           /\ Cardinality(S \cup {x}) <= Cardinality(S) + 1
  <1>1. Cardinality(S) \in Nat
    BY FS_CardinalityType
  <1>2. /\ IsFiniteSet(S \cup {x})
        /\ Cardinality(S \cup {x}) = IF x \in S THEN Cardinality(S) ELSE Cardinality(S) + 1
    BY FS_AddElement
  <1> QED  BY <1>1, <1>2

(* Making room: the victims are foreign, and after them one more record fits *)
(* the total budget.                                                         *)
LEMMA RoomFits ==
    ASSUME NEW s, NEW h \in Holder \ {Own}, h.class \in {"registered", "anonymous"},
           NEW dropped \in RoomFor(s, h),
           Cardinality(Foreign(s)) <= MaxRecords
    PROVE  Cardinality(Foreign(s) \ dropped) <= MaxRecords - 1
  <1> DEFINE class == EvictedClass(h.class, Counts(s), Share)
  <1>1. Cardinality(Foreign(s)) \in Nat /\ IsFiniteSet(Foreign(s)) /\ MaxRecords \in Nat
    BY ForeignFinite, RecordsAssumption
  <1>2. ASSUME NEW k \in Foreign(s), dropped = {k}
        PROVE  Cardinality(Foreign(s) \ dropped) <= MaxRecords - 1
    <2>1. Cardinality(Foreign(s) \ {k}) = Cardinality(Foreign(s)) - 1
      BY <1>1, <1>2, FS_RemoveElement
    <2> QED  BY <1>1, <1>2, <2>1
  <1>3. HeldBy(s, h) \subseteq Foreign(s)
    BY DEF HeldBy, Foreign
  <1>4. HeldByClass(s, class) \subseteq Foreign(s)
    BY DEF HeldByClass, Foreign, EvictedClass, OtherClass, Own
  <1>5. CASE dropped = {} /\ Cardinality(Foreign(s)) < MaxRecords
    BY <1>1, <1>5
  <1>6. \/ \E k \in Foreign(s) : dropped = {k}
        \/ dropped = {} /\ Cardinality(Foreign(s)) < MaxRecords
    BY <1>1, <1>3, <1>4 DEF RoomFor, AtBudget, Full
  <1> QED  BY <1>2, <1>5, <1>6

LEMMA InitBudget == Init => TotalBudget
  <1> SUFFICES ASSUME Init PROVE TotalBudget
    OBVIOUS
  <1>1. Foreign(records) = {}
    BY DEF Init, Foreign, Stored
  <1> QED  BY <1>1, FS_EmptySet, RecordsAssumption DEF TotalBudget

LEMMA NextBudget == TypeOK /\ OwnIsNewest /\ TotalBudget /\ [Next]_vars => TotalBudget'
  <1> SUFFICES ASSUME TypeOK, OwnIsNewest, TotalBudget, [Next]_vars PROVE TotalBudget'
    OBVIOUS
  <1>0. ASSUME Foreign(records') \subseteq Foreign(records)
        PROVE  TotalBudget'
    BY <1>0, FewerForeign, ForeignFinite, RecordsAssumption DEF TotalBudget
  <1>s. Foreign(Sweep(records)) \subseteq Foreign(records)
    BY SweepDrops DEF Foreign, Stored
  <1>1. ASSUME NEW k \in Keys, NEW v \in Offered(k), AdmitRecord(k, v)
        PROVE  TotalBudget'
    <2> DEFINE s == Sweep(records)
               h == HolderOf(proof, Publisher(k))
    <2>1. h \in Holder \ {Own} /\ h.class \in {"registered", "anonymous"}
      BY HolderOfType DEF Keys, Publisher, TypeOK
    <2>2. CASE /\ s[k] # NoRecord
               /\ Supersedes(v, s[k])
               /\ records' = [s EXCEPT ![k] = Entry(v, h)]
      \* A replacement: the record replaced is foreign too.
      <3>1. s[k] = records[k] /\ k \in Stored(records)
        BY <2>2, SweepDrops DEF Stored
      <3>2. records[k].holder # Own
        BY <2>2, <3>1, NoReplaySupersedes
      <3>3. Foreign(records') \subseteq Foreign(records)
        BY <2>2, <3>1, <3>2, <1>s, SweepDrops DEF Foreign, Stored
      <3> QED  BY <1>0, <3>3
    <2>3. ASSUME s[k] = NoRecord,
                 NEW dropped \in RoomFor(s, h),
                 records' = [x \in Keys |-> IF x = k THEN Entry(v, h)
                                            ELSE IF x \in dropped THEN NoRecord ELSE s[x]]
          PROVE  TotalBudget'
      \* A new record: room was made before it went in.
      <3>1. Cardinality(Foreign(s)) <= MaxRecords
        BY <1>s, FewerForeign, ForeignFinite, RecordsAssumption DEF TotalBudget
      <3>2. Cardinality(Foreign(s) \ dropped) <= MaxRecords - 1
        BY <2>1, <2>3, <3>1, RoomFits
      <3>3. IsFiniteSet(Foreign(s) \ dropped)
        BY ForeignFinite, FS_Subset
      <3>4. Foreign(records') \subseteq (Foreign(s) \ dropped) \cup {k}
        BY <2>3 DEF Foreign, Stored
      <3>5. /\ IsFiniteSet((Foreign(s) \ dropped) \cup {k})
            /\ Cardinality((Foreign(s) \ dropped) \cup {k}) <= Cardinality(Foreign(s) \ dropped) + 1
        BY <3>3, OneMore
      <3>6. Cardinality(Foreign(records')) <= Cardinality((Foreign(s) \ dropped) \cup {k})
        BY <3>4, <3>5, FS_Subset
      <3>7. /\ Cardinality(Foreign(records')) \in Nat
            /\ Cardinality((Foreign(s) \ dropped) \cup {k}) \in Nat
            /\ Cardinality(Foreign(s) \ dropped) \in Nat
        BY <3>3, <3>5, ForeignFinite, FS_CardinalityType
      <3> QED  BY <3>2, <3>5, <3>6, <3>7, RecordsAssumption DEF TotalBudget
    <2> QED  BY <1>1, <2>2, <2>3 DEF AdmitRecord
  <1>2. ASSUME NEW k \in Keys, NEW v \in Offered(k), RefuseRecord(k, v)
        PROVE  TotalBudget'
    BY <1>0, <1>2, <1>s DEF RefuseRecord
  <1>3. ASSUME NEW g \in Genes, Put(g)
        PROVE  TotalBudget'
    <2>1. Foreign(records') \subseteq Foreign(records)
      BY <1>3 DEF Put, Foreign, Stored, Entry, TypeOK
    <2> QED  BY <1>0, <2>1
  <1>4. ASSUME NEW g \in Genes, Withdraw(g)
        PROVE  TotalBudget'
    <2>1. Foreign(records') \subseteq Foreign(records)
      BY <1>4 DEF Withdraw, Foreign, Stored, TypeOK
    <2> QED  BY <1>0, <2>1
  <1>5. ASSUME NEW p \in Peers, NEW r \in Pseudonyms \cup {NoProof}, ProofChanges(p, r)
        PROVE  TotalBudget'
    BY <1>0, <1>5 DEF ProofChanges
  <1>6. CASE SweepTick
    BY <1>0, <1>6, <1>s DEF SweepTick
  <1>7. CASE Tick
    BY <1>0, <1>7 DEF Tick
  <1>8. CASE Restart
    <2>1. Foreign(records') \subseteq Foreign(records)
      BY <1>8 DEF Restart, Foreign, Stored
    <2> QED  BY <1>0, <2>1
  <1>9. CASE UNCHANGED vars
    BY <1>0, <1>9 DEF vars
  <1> QED  BY <1>1, <1>2, <1>3, <1>4, <1>5, <1>6, <1>7, <1>8, <1>9 DEF Next

-----------------------------------------------------------------------------
(* Every slot of the store holds a well-formed record or nothing, for every  *)
(* value of the constants.                                                   *)
THEOREM TypeCorrect == Spec => []TypeOK
  BY InitType, NextType, PTL DEF Spec

LEMMA Inductive == Spec => []IInv
  <1>1. Init => IInv
    BY InitType, InitOwn, InitBudget DEF IInv
  <1>2. IInv /\ [Next]_vars => IInv'
    BY NextType, NextOwn, NextBudget DEF IInv
  <1> QED  BY <1>1, <1>2, PTL DEF Spec

(* Records from other publishers never exceed MAX_RECORDS, whatever peers    *)
(* send, however registrations change, and however often the node restarts.  *)
THEOREM BudgetHolds == Spec => []TotalBudget
  BY Inductive, PTL DEF IInv

(* A record this node put is always the newest it signed for its gene.       *)
THEOREM OwnStaysNewest == Spec => []OwnIsNewest
  BY Inductive, PTL DEF IInv

-----------------------------------------------------------------------------
(* What a step may do to the store: sweeps, withdrawals, proofs and restarts *)
(* leave or drop records and bring none in; only the two writes do.          *)
Quiet == \A k \in Keys : records'[k] \in {records[k], NoRecord}

LEMMA StepCases ==
    ASSUME TypeOK, [Next]_vars
    PROVE  \/ Quiet
           \/ \E k \in Keys : \E v \in Offered(k) : AdmitRecord(k, v)
           \/ \E g \in Genes : Put(g)
  <1>1. ASSUME NEW k \in Keys, NEW v \in Offered(k), RefuseRecord(k, v)
        PROVE  Quiet
    BY <1>1, SweepDrops DEF RefuseRecord, Quiet
  <1>2. ASSUME NEW g \in Genes, Withdraw(g)
        PROVE  Quiet
    BY <1>2 DEF Withdraw, Quiet, TypeOK
  <1>3. ASSUME NEW p \in Peers, NEW r \in Pseudonyms \cup {NoProof}, ProofChanges(p, r)
        PROVE  Quiet
    BY <1>3 DEF ProofChanges, Quiet
  <1>4. CASE SweepTick
    BY <1>4, SweepDrops DEF SweepTick, Quiet
  <1>5. CASE Tick
    BY <1>5 DEF Tick, Quiet
  <1>6. CASE Restart
    BY <1>6 DEF Restart, Quiet
  <1>7. CASE UNCHANGED vars
    BY <1>7 DEF vars, Quiet
  <1> QED  BY <1>1, <1>2, <1>3, <1>4, <1>5, <1>6, <1>7 DEF Next

(* The clock never runs backwards, and a write does not wait for it.         *)
LEMMA ClockAdvances ==
    ASSUME TypeOK, [Next]_vars
    PROVE  now \in Nat /\ now' \in Nat /\ now <= now'
  <1>1. now \in Nat
    BY DEF TypeOK, Time
  <1>2. now' = now \/ now' = now + 1
    BY DEF Next, vars, AdmitRecord, RefuseRecord, Put, Withdraw, ProofChanges, SweepTick,
           Tick, Restart
  <1> QED  BY <1>1, <1>2

(* A peer's write: under its own key a record that is new to the swept store *)
(* or supersedes the one there; elsewhere nothing but the victims go.        *)
LEMMA AdmitEffect ==
    ASSUME TypeOK, NEW k \in Keys, NEW v \in Offered(k), AdmitRecord(k, v)
    PROVE  LET s == Sweep(records)
               h == HolderOf(proof, Publisher(k))
           IN  /\ h \in Holder \ {Own}
               /\ h.class \in {"registered", "anonymous"}
               /\ Entry(v, h) \in StoredRecord
               /\ records'[k] = Entry(v, h)
               /\ s[k] # NoRecord => /\ Supersedes(v, s[k])
                                     /\ \A x \in Keys \ {k} : records'[x] = s[x]
               /\ s[k] = NoRecord =>
                    \E dropped \in RoomFor(s, h) :
                       \A x \in Keys \ {k} :
                          records'[x] = IF x \in dropped THEN NoRecord ELSE s[x]
               /\ \A x \in Keys \ {k} : records'[x] \in {records[x], NoRecord}
               /\ UNCHANGED <<now, signed>>
  <1> DEFINE s == Sweep(records)
             h == HolderOf(proof, Publisher(k))
  <1>1. h \in Holder \ {Own} /\ h.class \in {"registered", "anonymous"}
    BY HolderOfType DEF Keys, Publisher, TypeOK
  <1>2. Entry(v, h) \in StoredRecord
    BY <1>1, EntryType DEF Offered
  <1>3. CASE /\ s[k] # NoRecord
             /\ Supersedes(v, s[k])
             /\ records' = [s EXCEPT ![k] = Entry(v, h)]
    <2>1. records'[k] = Entry(v, h) /\ \A x \in Keys \ {k} : records'[x] = s[x]
      BY <1>3, SweepDrops
    <2>2. \A x \in Keys \ {k} : records'[x] \in {records[x], NoRecord}
      BY <2>1, SweepDrops
    <2> QED  BY <1>1, <1>2, <1>3, <2>1, <2>2 DEF AdmitRecord
  <1>4. ASSUME s[k] = NoRecord, NEW dropped \in RoomFor(s, h),
               records' = [x \in Keys |-> IF x = k THEN Entry(v, h)
                                          ELSE IF x \in dropped THEN NoRecord ELSE s[x]]
        PROVE  /\ records'[k] = Entry(v, h)
               /\ \E d \in RoomFor(s, h) :
                    \A x \in Keys \ {k} : records'[x] = IF x \in d THEN NoRecord ELSE s[x]
               /\ \A x \in Keys \ {k} : records'[x] \in {records[x], NoRecord}
    <2>1. records'[k] = Entry(v, h)
      BY <1>4
    <2>2. \A x \in Keys \ {k} : records'[x] = IF x \in dropped THEN NoRecord ELSE s[x]
      BY <1>4
    <2>3. \A x \in Keys \ {k} : records'[x] \in {records[x], NoRecord}
      BY <2>2, SweepDrops
    <2> QED  BY <2>1, <2>2, <2>3
  <1> QED  BY <1>1, <1>2, <1>3, <1>4 DEF AdmitRecord

(* This node's own put: its key's copy is replaced unless it wins, and no    *)
(* other key is touched.                                                     *)
LEMMA PutEffect ==
    ASSUME TypeOK, NEW g \in Genes, Put(g)
    PROVE  LET k == <<g, Local>>
               v == [ts |-> now, sig |-> OwnSignature]
           IN  /\ k \in Keys /\ v \in Version
               /\ Entry(v, Own) \in StoredRecord
               /\ \A x \in Keys \ {k} : records'[x] = records[x]
               /\ \/ records'[k] = records[k]
                  \/ /\ records'[k] = Entry(v, Own)
                     /\ records[k] # NoRecord => Supersedes(v, records[k])
               /\ UNCHANGED now
  <1> DEFINE k == <<g, Local>>
             v == [ts |-> now, sig |-> OwnSignature]
  <1>1. k \in Keys
    BY HoldersAssumption DEF Keys
  <1>2. v \in Version
    BY RecordsAssumption DEF TypeOK, Time, Version, Timestamp
  <1>3. Entry(v, Own) \in StoredRecord
    BY <1>2, EntryType DEF Holder
  <1>4. CASE k \in Stored(records) /\ ~Supersedes(v, records[k])
    <2>1. records' = records
      BY <1>4 DEF Put
    <2> QED  BY <1>1, <1>2, <1>3, <2>1 DEF Put
  <1>5. CASE ~(k \in Stored(records) /\ ~Supersedes(v, records[k]))
    <2>1. records' = [records EXCEPT ![k] = Entry(v, Own)]
      BY <1>5 DEF Put
    <2>2. records'[k] = Entry(v, Own) /\ \A x \in Keys \ {k} : records'[x] = records[x]
      BY <1>1, <2>1 DEF TypeOK
    <2>3. records[k] # NoRecord => Supersedes(v, records[k])
      BY <1>1, <1>5 DEF Stored
    <2> QED  BY <1>1, <1>2, <1>3, <2>2, <2>3 DEF Put
  <1> QED  BY <1>4, <1>5

-----------------------------------------------------------------------------
LEMMA ExpiryBounds ==
    ASSUME TypeOK, NEW v \in Version
    PROVE  ExpiresAt(v.ts) <= v.ts + MaxAge
  <1>1. v.ts \in Int /\ now \in Int
    BY RecordsAssumption DEF Version, Timestamp, TypeOK, Time
  <1> QED  BY <1>1, RecordsAssumption DEF ExpiresAt, Least

(* No record outlives MAX_AGE from its signing.                              *)
LivesAreShort == \A k \in Stored(records) : records[k].expires <= records[k].ts + MaxAge

LEMMA NextShort == TypeOK /\ LivesAreShort /\ [Next]_vars => LivesAreShort'
  <1> SUFFICES ASSUME TypeOK, LivesAreShort, [Next]_vars, NEW k \in Keys, records'[k] # NoRecord
               PROVE  records'[k].expires <= records'[k].ts + MaxAge
    BY DEF LivesAreShort, Stored
  <1>0. CASE records'[k] = records[k]
    BY <1>0 DEF LivesAreShort, Stored
  <1>1. ASSUME NEW v \in Version, NEW h, records'[k] = Entry(v, h)
        PROVE  records'[k].expires <= records'[k].ts + MaxAge
    BY <1>1, ExpiryBounds DEF Entry
  <1>2. CASE Quiet
    BY <1>0, <1>2 DEF Quiet
  <1>3. ASSUME NEW x \in Keys, NEW v \in Offered(x), AdmitRecord(x, v)
        PROVE  records'[k].expires <= records'[k].ts + MaxAge
    <2>1. v \in Version
      BY DEF Offered
    <2>2. CASE k = x
      BY <1>1, <1>3, <2>1, <2>2, AdmitEffect
    <2>3. CASE k # x
      BY <1>0, <1>3, <2>3, AdmitEffect
    <2> QED  BY <2>2, <2>3
  <1>4. ASSUME NEW g \in Genes, Put(g)
        PROVE  records'[k].expires <= records'[k].ts + MaxAge
    BY <1>0, <1>1, <1>4, PutEffect
  <1> QED  BY <1>2, <1>3, <1>4, StepCases

LEMMA StayShort == Spec => [](TypeOK /\ LivesAreShort)
  <1>1. Init => TypeOK /\ LivesAreShort
    BY InitType DEF Init, LivesAreShort, Stored
  <1>2. TypeOK /\ LivesAreShort /\ [Next]_vars => (TypeOK /\ LivesAreShort)'
    BY NextType, NextShort
  <1> QED  BY <1>1, <1>2, PTL DEF Spec

(* What the clock has not passed, a sweep leaves.                            *)
LEMMA SweepKeeps ==
    ASSUME NEW k \in Keys
    PROVE  /\ ~Expired(records[k]) => Sweep(records)[k] = records[k]
           /\ Sweep(records)[k] # NoRecord =>
                records[k] # NoRecord /\ ~Expired(records[k]) /\ Sweep(records)[k] = records[k]
  BY DEF Sweep, Stored

LEMMA NewerDiffers ==
    ASSUME NEW v \in Version, NEW old \in StoredRecord, Supersedes(v, old)
    PROVE  VersionOf(old) # v
  <1>1. v.ts \in Timestamp /\ v.sig \in Signatures
    BY DEF Version
  <1>2. v.ts \in Int
    BY <1>1, RecordsAssumption DEF Timestamp
  <1>4. v.sig \in Int
    BY <1>1, RecordsAssumption
  <1>3. CASE VersionOf(old) = v
    <2>1. old.ts = v.ts /\ old.sig = v.sig
      BY <1>3 DEF VersionOf
    <2> QED  BY <1>2, <1>4, <2>1 DEF Supersedes
  <1> QED  BY <1>3

LEMMA EntryVersion ==
    ASSUME NEW v \in Version, NEW h
    PROVE  VersionOf(Entry(v, h)) = v
  <1>1. v = [ts |-> v.ts, sig |-> v.sig]
    BY DEF Version
  <1> QED  BY <1>1 DEF Entry, VersionOf

(* Sending a stored version again never prolongs its life, and no version is *)
(* held past MAX_AGE of its signing, for every budget and lifetime.          *)
THEOREM ReplaysAreIdle == Spec => ReplaysDoNotRefresh
  <1>1. ASSUME TypeOK, LivesAreShort, LivesAreShort', [Next]_vars, NEW k \in Keys,
               records[k] # NoRecord, records'[k] # NoRecord
        PROVE  /\ records'[k].expires <= records'[k].ts + MaxAge
               /\ (VersionOf(records[k]) = VersionOf(records'[k]) /\ ~Expired(records[k]))
                    => records'[k].expires = records[k].expires
    <2>1. records'[k].expires <= records'[k].ts + MaxAge
      BY <1>1 DEF LivesAreShort, Stored
    <2>2. CASE records'[k] = records[k]
      BY <2>1, <2>2
    <2>3. ASSUME NEW v \in Version, NEW h, records'[k] = Entry(v, h),
                 ~Expired(records[k]) => Supersedes(v, records[k])
          PROVE  ~(VersionOf(records[k]) = VersionOf(records'[k]) /\ ~Expired(records[k]))
      BY <1>1, <2>3, NewerDiffers, EntryVersion DEF TypeOK
    <2>4. CASE Quiet
      BY <1>1, <2>2, <2>4 DEF Quiet
    <2>5. ASSUME NEW x \in Keys, NEW v \in Offered(x), AdmitRecord(x, v)
          PROVE  \/ records'[k] = records[k]
                 \/ \E h : records'[k] = Entry(v, h) /\ (~Expired(records[k]) => Supersedes(v, records[k]))
      <3>1. CASE k = x
        <4>1. ~Expired(records[k]) => Supersedes(v, records[k])
          BY <1>1, <2>5, <3>1, AdmitEffect, SweepKeeps
        <4> QED  BY <1>1, <2>5, <3>1, <4>1, AdmitEffect
      <3>2. CASE k # x
        BY <1>1, <2>5, <3>2, AdmitEffect
      <3> QED  BY <3>1, <3>2
    <2>6. ASSUME NEW g \in Genes, Put(g)
          PROVE  \/ records'[k] = records[k]
                 \/ \E v \in Version :
                      records'[k] = Entry(v, Own) /\ (~Expired(records[k]) => Supersedes(v, records[k]))
      BY <1>1, <2>6, PutEffect
    <2> QED  BY <1>1, <2>1, <2>2, <2>3, <2>4, <2>5, <2>6, StepCases DEF Offered
  <1>2. TypeOK /\ LivesAreShort /\ LivesAreShort' /\ [Next]_vars =>
          \A k \in Keys :
            (records[k] # NoRecord /\ records'[k] # NoRecord) =>
               /\ records'[k].expires <= records'[k].ts + MaxAge
               /\ (VersionOf(records[k]) = VersionOf(records'[k]) /\ ~Expired(records[k]))
                     => records'[k].expires = records[k].expires
    BY <1>1
  <1> QED  BY <1>2, StayShort, PTL DEF Spec, ReplaysDoNotRefresh

-----------------------------------------------------------------------------
LEMMA PutWritesOwn ==
    ASSUME TypeOK, NEW g \in Genes, Put(g), NEW x \in Keys
    PROVE  records'[x] = records[x] \/ records'[x].holder = Own
  <1> DEFINE v == [ts |-> now, sig |-> OwnSignature]
  <1>1. records'[x] = records[x] \/ records'[x] = Entry(v, Own)
    BY PutEffect
  <1>2. Entry(v, Own).holder = Own
    BY DEF Entry
  <1> QED  BY <1>1, <1>2

(* Nothing a peer sends drops an unexpired own record or makes it a peer's.  *)
LEMMA ExemptStep ==
    ASSUME TypeOK, OwnIsNewest, [Next]_vars,
           NEW k \in Keys, records[k] # NoRecord, ~Expired(records[k]), records[k].holder = Own
    PROVE  /\ records'[k] # NoRecord => records'[k].holder = Own
           /\ (\E x \in Gained : records'[x].holder # Own) => k \notin Lost
  <1>1. CASE Quiet
    <2>1. Gained = {}
      BY <1>1 DEF Quiet, Gained
    <2> QED  BY <1>1, <2>1 DEF Quiet
  <1>2. ASSUME NEW x \in Keys, NEW v \in Offered(x), AdmitRecord(x, v)
        PROVE  records'[k] = records[k]
    <2> DEFINE s == Sweep(records)
               h == HolderOf(proof, Publisher(x))
    <2>1. s[k] = records[k]
      BY SweepKeeps
    <2>2. k # x
      <3>1. s[x] # NoRecord => Supersedes(v, s[x])
        BY <1>2, AdmitEffect
      <3> QED  BY <2>1, <3>1, NoReplaySupersedes DEF Stored
    <2>3. \A d \in RoomFor(s, h) : k \notin d
      <3>1. h # Own /\ h.class \in {"registered", "anonymous"}
        BY <1>2, AdmitEffect
      <3>2. k \notin HeldBy(s, h)
        BY <2>1, <3>1 DEF HeldBy
      <3>3. \A class \in {"registered", "anonymous"} : k \notin HeldByClass(s, class)
        BY <2>1 DEF HeldByClass, Own
      <3>4. EvictedClass(h.class, Counts(s), Share) \in {"registered", "anonymous"}
        BY <3>1 DEF EvictedClass, OtherClass
      <3> QED  BY <3>2, <3>3, <3>4 DEF RoomFor, AtBudget
    <2> QED  BY <1>2, <2>1, <2>2, <2>3, AdmitEffect
  <1>3. ASSUME NEW g \in Genes, Put(g)
        PROVE  /\ records'[k] # NoRecord => records'[k].holder = Own
               /\ ~ \E x \in Gained : records'[x].holder # Own
    <2>1. \A x \in Keys : records'[x] = records[x] \/ records'[x].holder = Own
      BY <1>3, PutWritesOwn
    <2> QED  BY <2>1 DEF Gained
  <1>4. records'[k] = records[k] => k \notin Lost
    BY DEF Lost
  <1> QED  BY <1>1, <1>2, <1>3, <1>4, StepCases

(* This node's own records are exempt, for every set of peers and budgets.   *)
THEOREM OwnRecordsStay == Spec => OwnRecordsAreExempt
  <1>1. IInv /\ [Next]_vars =>
          \A k \in Keys :
            (records[k] # NoRecord /\ ~Expired(records[k]) /\ records[k].holder = Own) =>
               /\ records'[k] # NoRecord => records'[k].holder = Own
               /\ (\E x \in Gained : records'[x].holder # Own) => k \notin Lost
    BY ExemptStep DEF IInv
  <1> QED  BY <1>1, Inductive, PTL DEF Spec, OwnRecordsAreExempt

-----------------------------------------------------------------------------
LEMMA AtMostOne ==
    ASSUME NEW S, NEW x, S \subseteq {x}
    PROVE  Cardinality(S) <= 1
  <1>1. CASE S = {}
    BY <1>1, FS_EmptySet
  <1>2. CASE S = {x}
    <2>1. Cardinality({x}) = 1
      BY FS_Singleton
    <2> QED  BY <1>2, <2>1
  <1> QED  BY <1>1, <1>2

(* The victim of a newcomer, and the budget it was in the way of.            *)
LEMMA RoomIsFair ==
    ASSUME NEW s, NEW h, h.class \in {"registered", "anonymous"}, NEW d \in RoomFor(s, h)
    PROVE  \/ d = {}
           \/ \E x \in Stored(s) :
                /\ d = {x}
                /\ \/ s[x].holder = h /\ Cardinality(HeldBy(s, h)) >= RecordsPerPublisher
                   \/ /\ Cardinality(Foreign(s)) >= MaxRecords
                      /\ \/ s[x].holder.class = h.class
                         \/ Cardinality(HeldByClass(s, s[x].holder.class)) > Share[s[x].holder.class]
  <1> DEFINE class == EvictedClass(h.class, Counts(s), Share)
  <1>1. CASE Cardinality(HeldBy(s, h)) >= RecordsPerPublisher
    <2>1. PICK x \in HeldBy(s, h) : d = {x}
      BY <1>1 DEF RoomFor, AtBudget
    <2> QED  BY <1>1, <2>1 DEF HeldBy
  <1>2. CASE ~(Cardinality(HeldBy(s, h)) >= RecordsPerPublisher) /\ Full(s)
    <2>1. PICK x \in HeldByClass(s, class) : d = {x}
      BY <1>2 DEF RoomFor, AtBudget
    <2>2. x \in Stored(s) /\ s[x].holder.class = class
      BY DEF HeldByClass
    <2>3. \/ class = h.class
          \/ Counts(s)[class] > Share[class] /\ class \in {"registered", "anonymous"}
      BY DEF EvictedClass, OtherClass
    <2>4. class \in {"registered", "anonymous"} => Counts(s)[class] = Cardinality(HeldByClass(s, class))
      BY DEF Counts
    <2> QED  BY <1>2, <2>1, <2>2, <2>3, <2>4 DEF Full
  <1>3. CASE ~(Cardinality(HeldBy(s, h)) >= RecordsPerPublisher) /\ ~Full(s)
    BY <1>3 DEF RoomFor, AtBudget
  <1> QED  BY <1>1, <1>2, <1>3

(* With the victim gone, one more record fits the budget of its holder, or   *)
(* takes the place of one of the holder's.                                   *)
LEMMA HolderFits ==
    ASSUME NEW s, NEW h, NEW d \in RoomFor(s, h), NEW k, NEW after,
           after \subseteq (HeldBy(s, h) \ d) \cup {k}
    PROVE  \/ Cardinality(after) <= RecordsPerPublisher
           \/ Cardinality(after) <= Cardinality(HeldBy(s, h))
  <1> DEFINE held == HeldBy(s, h)
  <1>1. IsFiniteSet(held) /\ Cardinality(held) \in Nat /\ RecordsPerPublisher \in Nat
    <2>1. IsFiniteSet(Keys)
      BY RecordsAssumption, FS_Product DEF Keys
    <2>2. held \in SUBSET Keys
      BY DEF HeldBy, Stored
    <2> QED  BY <2>1, <2>2, FS_Subset, FS_CardinalityType, RecordsAssumption
  <1>2. ASSUME NEW rest, rest \subseteq held, after \subseteq rest \cup {k}
        PROVE  /\ Cardinality(rest) \in Nat /\ Cardinality(after) \in Nat
               /\ Cardinality(after) <= Cardinality(rest) + 1
    <2>1. IsFiniteSet(rest) /\ Cardinality(rest) \in Nat
      BY <1>1, <1>2, FS_Subset, FS_CardinalityType
    <2>2. IsFiniteSet(rest \cup {k}) /\ Cardinality(rest \cup {k}) <= Cardinality(rest) + 1
      BY <2>1, OneMore
    <2>3. IsFiniteSet(after) /\ Cardinality(after) <= Cardinality(rest \cup {k})
      BY <1>2, <2>2, FS_Subset
    <2>4. Cardinality(after) \in Nat /\ Cardinality(rest \cup {k}) \in Nat
      BY <2>2, <2>3, FS_CardinalityType
    <2> QED  BY <2>1, <2>2, <2>3, <2>4
  <1>3. CASE Cardinality(held) >= RecordsPerPublisher
    <2>1. PICK x \in held : d = {x}
      BY <1>3 DEF RoomFor, AtBudget
    <2>2. Cardinality(held \ {x}) = Cardinality(held) - 1
      BY <1>1, <2>1, FS_RemoveElement
    <2>3. Cardinality(after) <= Cardinality(held \ {x}) + 1 /\ Cardinality(after) \in Nat
      BY <1>2, <2>1
    <2> QED  BY <1>1, <2>2, <2>3
  <1>4. CASE ~(Cardinality(held) >= RecordsPerPublisher)
    <2>1. Cardinality(after) <= Cardinality(held) + 1 /\ Cardinality(after) \in Nat
      BY <1>2
    <2> QED  BY <1>1, <1>4, <2>1
  <1> QED  BY <1>3, <1>4

LEMMA FairStep ==
    ASSUME TypeOK, [Next]_vars, NEW k \in Gained, records'[k].holder # Own
    PROVE  Fair(k)
  <1> DEFINE s == Sweep(records)
  <1>k. k \in Keys /\ s[k] = NoRecord /\ records'[k] \notin {NoRecord, records[k]}
    BY DEF Gained
  <1>1. ~Quiet
    BY <1>k DEF Quiet
  <1>2. ~ \E g \in Genes : Put(g)
    BY <1>k, PutWritesOwn
  <1>a. PICK y \in Keys : \E v \in Offered(y) : AdmitRecord(y, v)
    BY <1>1, <1>2, StepCases
  <1>3. PICK v \in Offered(y) : AdmitRecord(y, v)
    BY <1>a
  <1>4. y = k
    BY <1>3, <1>k, AdmitEffect
  <1> DEFINE h == HolderOf(proof, Publisher(k))
  <1>5. /\ records'[k] = Entry(v, h)
        /\ h.class \in {"registered", "anonymous"}
        /\ Entry(v, h) \in StoredRecord
    BY <1>3, <1>4, AdmitEffect
  <1>6. PICK d \in RoomFor(s, h) :
           \A x \in Keys \ {k} : records'[x] = IF x \in d THEN NoRecord ELSE s[x]
    BY <1>3, <1>4, <1>k, AdmitEffect
  <1>7. \A x \in Lost : x \in d /\ s[x] = records[x]
    <2> SUFFICES ASSUME NEW x \in Lost PROVE x \in d /\ s[x] = records[x]
      OBVIOUS
    <2>1. x \in Keys /\ s[x] = records[x] /\ records[x] # NoRecord /\ records'[x] = NoRecord
      BY SweepKeeps DEF Lost
    <2>2. x # k
      BY <1>k, <2>1
    <2> QED  BY <1>6, <2>1, <2>2
  <1>8. records'[k].holder = h
    BY <1>5 DEF Entry
  <1>9. \/ Cardinality(HeldBy(records', h)) <= RecordsPerPublisher
        \/ Cardinality(HeldBy(records', h)) <= Cardinality(HeldBy(s, h))
    <2>1. HeldBy(records', h) \subseteq (HeldBy(s, h) \ d) \cup {k}
      BY <1>6 DEF HeldBy, Stored
    <2> QED  BY <2>1, HolderFits
  <1> DEFINE Due(x) ==
        \/ records[x].holder = h /\ Cardinality(HeldBy(s, h)) >= RecordsPerPublisher
        \/ /\ Cardinality(Foreign(s)) >= MaxRecords
           /\ \/ records[x].holder.class = h.class
              \/ Cardinality(HeldByClass(s, records[x].holder.class)) > Share[records[x].holder.class]
  <1>10. Cardinality(Lost) <= 1 /\ \A x \in Lost : Due(x)
    <2>1. CASE d = {}
      <3>1. Lost = {}
        BY <1>7, <2>1
      <3> QED  BY <3>1, FS_EmptySet
    <2>2. ASSUME NEW x \in Stored(s), d = {x},
                 \/ s[x].holder = h /\ Cardinality(HeldBy(s, h)) >= RecordsPerPublisher
                 \/ /\ Cardinality(Foreign(s)) >= MaxRecords
                    /\ \/ s[x].holder.class = h.class
                       \/ Cardinality(HeldByClass(s, s[x].holder.class)) > Share[s[x].holder.class]
          PROVE  Cardinality(Lost) <= 1 /\ \A z \in Lost : Due(z)
      <3>1. Lost \subseteq {x}
        BY <1>7, <2>2
      <3>2. \A z \in Lost : z = x /\ records[z] = s[x]
        BY <1>7, <3>1
      <3> QED  BY <2>2, <3>1, <3>2, AtMostOne
    <2> QED  BY <1>5, <2>1, <2>2, RoomIsFair
  <1> QED  BY <1>8, <1>9, <1>10 DEF Fair

(* A newcomer costs at most one record, one a full budget entitles it to,    *)
(* and its holder keeps its own, for every set of peers and every split of   *)
(* the budget between the classes.                                           *)
THEOREM EvictionStaysFair == Spec => EvictionIsFair
  <1>1. TypeOK /\ [Next]_vars => \A k \in Gained : records'[k].holder # Own => Fair(k)
    BY FairStep
  <1> QED  BY <1>1, TypeCorrect, PTL DEF Spec, EvictionIsFair

-----------------------------------------------------------------------------
(* The refinement: a key's register is what a reader sees under it.          *)

LEMMA VersionType ==
    ASSUME NEW record \in StoredRecord
    PROVE  VersionOf(record) \in Version
  BY DEF StoredRecord, VersionOf, Version

(* A key whose record stays or goes keeps or loses its value; time only      *)
(* takes values away.                                                        *)
LEMMA QuietRegister ==
    ASSUME TypeOK, [Next]_vars, NEW k \in Keys, records'[k] \in {records[k], NoRecord}
    PROVE  Visible'[k] \in {Visible[k], NoRecord}
  <1>1. CASE records'[k] = NoRecord
    BY <1>1 DEF Visible
  <1>2. CASE records'[k] = records[k] /\ records[k] # NoRecord
    <2>1. records[k].expires \in Nat
      BY <1>2 DEF TypeOK, StoredRecord
    <2>2. Expired(records[k]) => Expired(records[k])'
      BY <1>2, <2>1, ClockAdvances DEF Expired
    <2> QED  BY <1>2, <2>2 DEF Visible
  <1> QED  BY <1>1, <1>2

(* A written key gets a value newer than any it had.                         *)
LEMMA WrittenRegister ==
    ASSUME TypeOK, TypeOK', [Next]_vars, NEW k \in Keys, NEW v \in Version, NEW h,
           records'[k] = Entry(v, h),
           ~Expired(records[k]) /\ records[k] # NoRecord => Supersedes(v, records[k])
    PROVE  Registers!Accept(k) \/ Registers!Forget(k)
  <1>1. VersionOf(records'[k]) = v
    BY EntryVersion
  <1>2. Visible'[k] = v \/ Visible'[k] = NoRecord
    BY <1>1 DEF Visible
  <1>3. CASE Visible'[k] = NoRecord
    BY <1>3 DEF Registers!Forget
  <1>4. CASE Visible'[k] = v
    <2>1. ASSUME Visible[k] # NoRecord
          PROVE  Registers!Newer(v, Visible[k])
      <3>1. records[k] # NoRecord /\ ~Expired(records[k]) /\ Visible[k] = VersionOf(records[k])
        BY <2>1 DEF Visible
      <3> QED  BY <3>1 DEF Supersedes, VersionOf, Registers!Newer
    <2> QED  BY <1>4, <2>1 DEF Registers!Accept, Registers!Version, Version
  <1> QED  BY <1>2, <1>3, <1>4

LEMMA RegistersStep ==
    ASSUME TypeOK, TypeOK', [Next]_vars
    PROVE  [Registers!Next]_Visible
  <1>t. Visible' \in [Keys -> Registers!Version \cup {NoRecord}]
    <2> SUFFICES ASSUME NEW k \in Keys, records'[k] # NoRecord
                 PROVE  VersionOf(records'[k]) \in Version
      BY DEF Visible, Registers!Version, Version
    <2>1. records'[k] \in StoredRecord
      BY DEF TypeOK
    <2> QED  BY <2>1, VersionType
  <1>q. ASSUME NEW k \in Keys, records'[k] \in {records[k], NoRecord}
        PROVE  Registers!Keep(k) \/ Registers!Forget(k)
    BY <1>q, QuietRegister DEF Registers!Keep, Registers!Forget
  <1>1. ASSUME NEW k \in Keys, Registers!Accept(k) \/ Registers!Forget(k) \/ Registers!Keep(k),
               \A x \in Keys \ {k} : records'[x] \in {records[x], NoRecord}
        PROVE  Registers!Next
    BY <1>t, <1>q, <1>1 DEF Registers!Next
  <1>2. CASE Quiet
    <2>1. CASE Keys = {}
      <3>1. Visible' = Visible
        BY <2>1 DEF Visible
      <3> QED  BY <3>1
    <2>2. ASSUME NEW k \in Keys PROVE Registers!Next
      BY <1>2, <1>q, <1>1 DEF Quiet
    <2> QED  BY <2>1, <2>2
  <1>3. ASSUME NEW k \in Keys, NEW v \in Offered(k), AdmitRecord(k, v)
        PROVE  Registers!Next
    <2> DEFINE h == HolderOf(proof, Publisher(k))
    <2>1. v \in Version /\ records'[k] = Entry(v, h)
      BY <1>3, AdmitEffect DEF Offered
    <2>2. ~Expired(records[k]) /\ records[k] # NoRecord => Supersedes(v, records[k])
      BY <1>3, AdmitEffect, SweepKeeps
    <2>3. Registers!Accept(k) \/ Registers!Forget(k)
      BY <2>1, <2>2, WrittenRegister
    <2> QED  BY <1>1, <1>3, <2>3, AdmitEffect
  <1>4. ASSUME NEW g \in Genes, Put(g)
        PROVE  Registers!Next
    <2> DEFINE k == <<g, Local>>
               v == [ts |-> now, sig |-> OwnSignature]
    <2>1. k \in Keys /\ v \in Version /\ \A x \in Keys \ {k} : records'[x] = records[x]
      BY <1>4, PutEffect
    <2>2. CASE records'[k] = records[k]
      BY <1>1, <1>q, <2>1, <2>2
    <2>3. CASE records'[k] = Entry(v, Own) /\ (records[k] # NoRecord => Supersedes(v, records[k]))
      <3>1. Registers!Accept(k) \/ Registers!Forget(k)
        BY <2>1, <2>3, WrittenRegister
      <3> QED  BY <1>1, <2>1, <3>1
    <2> QED  BY <1>4, <2>2, <2>3, PutEffect
  <1> QED  BY <1>2, <1>3, <1>4, StepCases

(* The store implements the registers RecordRegisters promises, for every    *)
(* budget, lifetime and clock: whatever is evicted, expired, withdrawn or    *)
(* replayed, a value that can be read is only ever followed by a newer one.  *)
THEOREM StoreRefinesRegisters == Spec => VersionsOnlyAdvance
  <1>1. Init => Registers!Init
    BY DEF Init, Registers!Init, Visible
  <1>2. TypeOK /\ TypeOK' /\ [Next]_vars => [Registers!Next]_Visible
    BY RegistersStep
  <1> QED  BY <1>1, <1>2, TypeCorrect, PTL DEF Spec, VersionsOnlyAdvance, Registers!Spec
=============================================================================
