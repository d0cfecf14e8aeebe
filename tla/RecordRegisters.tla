-------------------------- MODULE RecordRegisters ---------------------------
(***************************************************************************)
(* What a DHT record store promises, whatever it evicts: every key is a    *)
(* register that may lose its value at any time, but whose value, while it *)
(* has one, only ever moves to a newer version (the replacement rule of    *)
(* gene_record.rs, supersedes). One step brings at most one value in.      *)
(***************************************************************************)
EXTENDS Integers

CONSTANTS Keys, Timestamp, Signatures, NoVersion

VARIABLE latest

Version == [ts: Timestamp, sig: Signatures]

(* Versions of one key are totally ordered: by timestamp, then the smaller   *)
(* signature wins.                                                           *)
Newer(v, w) ==
    \/ v.ts > w.ts
    \/ v.ts = w.ts /\ v.sig < w.sig

Init == latest = [k \in Keys |-> NoVersion]

Keep(k)   == latest'[k] = latest[k]
Forget(k) == latest'[k] = NoVersion
Accept(k) ==
    /\ latest'[k] \in Version
    /\ latest[k] # NoVersion => Newer(latest'[k], latest[k])

Next ==
    /\ latest' \in [Keys -> Version \cup {NoVersion}]
    /\ \E k \in Keys :
        /\ Accept(k) \/ Keep(k) \/ Forget(k)
        /\ \A x \in Keys \ {k} : Keep(x) \/ Forget(x)

Spec == Init /\ [][Next]_latest
=============================================================================
