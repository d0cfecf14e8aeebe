--------------------------- MODULE CommandsProofs ---------------------------
(***************************************************************************)
(* What two of the commands that work on a project's genes keep.           *)
(*                                                                         *)
(* GeneSnapshots (install, uninstall, rollback), for every set of          *)
(* versions and any number of processes, commands, failures and deaths:    *)
(* as long as commands do not overlap in time, none loses the copy it      *)
(* found and a gene never mixes two copies; and if none died, the sidecar  *)
(* names its snapshot. Commands that overlap break this, since no lock is  *)
(* taken, so Serial is the theorems' hypothesis; types need none.          *)
(*                                                                         *)
(* TryPool (agent run), for every genome, any number of processes and any  *)
(* edits, failures and deaths: a domain fails only when each of its genes  *)
(* has failed, and each gene tried is the best of those left. The heart is *)
(* that the ranking is a permutation: every place has one gene, because    *)
(* the numbers of the genes ahead of each are as many numbers as genes.    *)
(***************************************************************************)
EXTENDS GeneSnapshots, TryPool, FiniteSetTheorems, TLAPS

\* All files of a directory are of one version.
Uniform(d) == d # Absent => \E v \in Versions \cup {Local} : Holds(d, v)

\* Where the copy a command found is, at each of its steps.
Found(p) ==
  /\ at[p] = "idle" => old[p] \in {Absent, gene, snap}
  /\ at[p] \in {"check", "clear", "rename", "forget"} => old[p] = gene
  /\ at[p] \in {"sidecar", "mkdir", "phenotype", "download", "manifest", "discard", "restore"} =>
       old[p] = snap

\* What a step relies on in the directory it works on.
Ready(p) ==
  /\ at[p] \in {"check", "clear", "rename"} => gene # Absent
  /\ at[p] = "rename" => snap = Absent
  /\ at[p] \in {"mkdir", "restore"} => gene = Absent
  /\ at[p] = "sidecar" => gene = Absent
  /\ at[p] \in {"phenotype", "download", "manifest"} => gene # Absent /\ Holds(gene, ver[p])

\* The copy a command found is its own to keep: those of the commands before it
\* passed to it.
Succeeded(p) == at[p] # "idle" => \A q \in Procs \ {p} : old[q] = Absent

\* The inductive invariant, as long as no two commands overlap.
IInv ==
  /\ TypeOK
  /\ Uniform(gene) /\ Uniform(snap)
  /\ \A p \in Procs : Found(p) /\ Ready(p) /\ Succeeded(p)

\* A directory is not the absence of one.
LEMMA DirIsThere == Absent \notin Dir /\ Empty \in Dir /\ Authored \in Dir
<1>1. \A d \in Dir : DOMAIN d = Files
  BY DEF Dir
<1>2. DOMAIN Absent = {} /\ "wasm" \in Files
  BY DEF Absent, Files
<1>3. Empty \in [Files -> Versions \cup {None, Local}] /\ Empty["manifest"] = None
  BY DEF Empty, Files
<1>4. Authored \in [Files -> Versions \cup {None, Local}] /\ Authored["manifest"] = None
  BY DEF Authored, Files
<1>5. QED
  BY <1>1, <1>2, <1>3, <1>4 DEF Dir, None, Local

\* A removal under way leaves a directory, of the same version.
LEMMA TornIsUniform ==
  ASSUME NEW d \in Dir, Uniform(d), NEW e \in Torn(d)
  PROVE  e \in Dir /\ e # Absent /\ Uniform(e)
<1>1. e \in Dir /\ \A f \in Files : e[f] \in {d[f], None}
  BY DEF Torn
<1>2. d # Absent /\ e # Absent
  BY <1>1, DirIsThere
<1>3. PICK v \in Versions \cup {Local} : Holds(d, v)
  BY <1>2 DEF Uniform
<1>4. Holds(e, v)
  BY <1>1, <1>3 DEF Holds
<1>5. QED
  BY <1>1, <1>2, <1>4 DEF Uniform

\* A file of the Registry written into a directory.
LEMMA WriteIsDir ==
  ASSUME NEW d \in Dir, NEW v \in Versions, NEW f \in Files
  PROVE  [d EXCEPT ![f] = v] \in Dir
<1> DEFINE e == [d EXCEPT ![f] = v]
<1>1. v # Local
  BY SnapshotAssumption DEF Local
<1>2. "manifest" \in Files /\ d \in [Files -> Versions \cup {None, Local}] /\ d["manifest"] # Local
  BY DEF Dir, Files
<1>3. e \in [Files -> Versions \cup {None, Local}] /\ e["manifest"] \in {d["manifest"], v}
  BY <1>2
<1>4. QED
  BY <1>1, <1>2, <1>3 DEF Dir

\* Writing a file of version v into a directory of version v.
LEMMA WriteIsUniform ==
  ASSUME NEW d \in Dir, NEW v \in Versions, Holds(d, v), NEW f \in Files
  PROVE  LET e == [d EXCEPT ![f] = v] IN e \in Dir /\ e # Absent /\ Holds(e, v) /\ Uniform(e)
<1> DEFINE e == [d EXCEPT ![f] = v]
<1>1. e \in Dir
  BY WriteIsDir
<1>2. Holds(e, v)
  BY DEF Holds, Dir
<1>3. QED
  BY <1>1, <1>2, DirIsThere DEF Uniform

-----------------------------------------------------------------------------
\* Types hold however the commands of the processes overlap.
LEMMA BeginTypes ==
  ASSUME TypeOK, NEW p \in Procs, Install(p) \/ Uninstall(p) \/ Rollback(p)
  PROVE  TypeOK'
<1>1. PICK what \in {"install", "uninstall", "rollback"}, step \in {"check", "mkdir", "discard"} :
        Begin(p, what, step)
  BY DEF Install, Uninstall, Rollback, FirstStep
<1>2. ver' \in [Procs -> Versions]
  BY DEF Install, Uninstall, Rollback, TypeOK
<1>3. at' \in [Procs -> Steps] /\ doing' \in [Procs -> {"install", "uninstall", "rollback"}]
  BY <1>1 DEF Begin, Goto, TypeOK, Steps
<1>4. old' \in [Procs -> Dir \cup {Absent}]
  BY <1>1 DEF Begin, Kept, TypeOK
<1>5. commands' \in Nat /\ UNCHANGED <<gene, snap, side, read, crashes>>
  BY <1>1 DEF Begin, TypeOK
<1>6. QED
  BY <1>2, <1>3, <1>4, <1>5 DEF TypeOK

LEMMA FileTypes ==
  ASSUME TypeOK, NEW p \in Procs, NEW f \in Files, NEW next \in Steps, WriteFile(p, f, next)
  PROVE  TypeOK'
<1>1. at' \in [Procs -> Steps] /\ UNCHANGED <<snap, side, doing, ver, read, old, commands, crashes>>
  BY DEF WriteFile, Goto, TypeOK, Steps, rest
<1>2. gene' \in Dir \cup {Absent}
  <2>1. \/ gene' = gene
        \/ gene # Absent /\ gene' = [gene EXCEPT ![f] = ver[p]]
    BY DEF WriteFile
  <2>2. gene # Absent => [gene EXCEPT ![f] = ver[p]] \in Dir
    BY WriteIsDir DEF TypeOK
  <2>3. QED
    BY <2>1, <2>2 DEF TypeOK
<1>3. QED
  BY <1>1, <1>2 DEF TypeOK

LEMMA TypeStep == ASSUME TypeOK, [Next]_vars PROVE TypeOK'
<1>1. ASSUME NEW p \in Procs, Check(p) \/ WriteSidecar(p) \/ ForgetSidecar(p) \/ Crash(p) PROVE TypeOK'
  <2>1. /\ UNCHANGED <<gene, snap, doing, ver, read, old, commands>>
        /\ \E step \in Steps : at' = [at EXCEPT ![p] = step]
        /\ side' \in {side, None, read[p]} /\ crashes' \in {crashes, crashes + 1}
    BY <1>1 DEF Check, WriteSidecar, ForgetSidecar, Crash, Goto, AfterSnapshot, SidecarOf, rest, Steps
  <2>2. QED
    BY <2>1 DEF TypeOK
<1>2. ASSUME NEW p \in Procs, Clear(p) \/ Discard(p) PROVE TypeOK'
  <2>1. /\ UNCHANGED <<side, doing, ver, read, old, commands, crashes>>
        /\ at' = at \/ \E step \in Steps : at' = [at EXCEPT ![p] = step]
        /\ gene' \in {gene, Absent} \/ gene' \in Torn(gene)
        /\ snap' \in {snap, Absent} \/ snap' \in Torn(snap)
    BY <1>2 DEF Clear, Discard, Goto, rest, Steps
  <2>2. \A d : Torn(d) \subseteq Dir
    BY DEF Torn
  <2>3. QED
    BY <2>1, <2>2 DEF TypeOK
<1>3. ASSUME NEW p \in Procs, MoveAside(p) PROVE TypeOK'
  <2>1. CASE Renames(gene, snap)
    <3>1. gene \in Dir /\ "manifest" \in Files
      BY <2>1 DEF Renames, TypeOK, Files
    <3>2. VersionOf(gene) \in Versions \cup {None}
      BY <3>1 DEF Dir, VersionOf
    <3>3. /\ snap' = gene /\ gene' = Absent /\ read' = [read EXCEPT ![p] = VersionOf(gene)]
          /\ at' = [at EXCEPT ![p] = "sidecar"]
          /\ UNCHANGED <<side, doing, ver, old, commands, crashes>>
      BY <1>3, <2>1 DEF MoveAside, Goto
    <3>4. QED
      BY <3>2, <3>3 DEF TypeOK, Steps
  <2>2. CASE ~Renames(gene, snap)
    BY <1>3, <2>2 DEF MoveAside, Goto, TypeOK, Steps
  <2>3. QED
    BY <2>1, <2>2
<1>4. ASSUME NEW p \in Procs, Mkdir(p) \/ Restore(p) PROVE TypeOK'
  <2>1. /\ UNCHANGED <<side, doing, ver, read, old, commands, crashes>>
        /\ \E step \in Steps : at' = [at EXCEPT ![p] = step]
        /\ gene' \in {gene, snap, Empty} /\ snap' \in {snap, Absent}
    BY <1>4 DEF Mkdir, Restore, Consumed, Goto, rest, Steps
  <2>2. QED
    BY <2>1, DirIsThere DEF TypeOK
<1>5. ASSUME NEW p \in Procs, WritePhenotype(p) \/ Download(p) \/ WriteManifest(p) PROVE TypeOK'
  <2>1. \/ \E f \in Files, next \in Steps : WriteFile(p, f, next)
        \/ /\ UNCHANGED <<gene, snap, side, rest>>
           /\ \E step \in Steps : at' = [at EXCEPT ![p] = step]
    BY <1>5 DEF WritePhenotype, Download, WriteManifest, Goto, Files, Steps
  <2>2. QED
    BY <2>1, FileTypes DEF TypeOK, rest
<1>6. CASE Author \/ UNCHANGED vars
  BY <1>6, DirIsThere DEF Author, vars, rest, TypeOK
<1>7. QED
  BY <1>1, <1>2, <1>3, <1>4, <1>5, <1>6, BeginTypes DEF Next

LEMMA TypeStart == Init => TypeOK
BY DirIsThere DEF Init, TypeOK, Steps

\* The directories, sidecar and processes keep their types, even when commands
\* of several processes overlap.
THEOREM SnapshotTypes == Spec => []TypeOK
<1>1. TypeOK /\ [Next]_vars => TypeOK'
  BY TypeStep
<1>2. QED
  BY <1>1, TypeStart, PTL DEF Spec

-----------------------------------------------------------------------------
\* While a command runs, the others rest, and have nothing to keep.
LEMMA OthersRest ==
  ASSUME Serial, IInv, NEW p \in Procs, at[p] # "idle", old' = old,
         at' = [at EXCEPT ![p] = at'[p]]
  PROVE  \A q \in Procs \ {p} : at'[q] = "idle" /\ old'[q] = Absent
BY DEF Serial, IInv, Succeeded, TypeOK

\* Then what holds of the running one holds of all.
LEMMA ForAll ==
  ASSUME NEW p \in Procs, \A q \in Procs \ {p} : at'[q] = "idle" /\ old'[q] = Absent,
         TypeOK', Uniform(gene)', Uniform(snap)', Found(p)', Ready(p)'
  PROVE  IInv'
<1>1. ASSUME NEW q \in Procs \ {p} PROVE Found(q)' /\ Ready(q)' /\ Succeeded(q)'
  BY DEF Found, Ready, Succeeded
<1>2. Succeeded(p)'
  BY DEF Succeeded
<1>3. QED
  BY <1>1, <1>2 DEF IInv

LEMMA BeginStep ==
  ASSUME Serial', IInv, TypeOK', NEW p \in Procs, Install(p) \/ Uninstall(p) \/ Rollback(p)
  PROVE  IInv'
<1>1. PICK what \in {"install", "uninstall", "rollback"}, step \in {"check", "mkdir", "discard"} :
        /\ Begin(p, what, step)
        /\ step = "check" => gene # Absent /\ what # "rollback"
        /\ step = "mkdir" => gene = Absent
        /\ step = "discard" => what = "rollback"
  BY DEF Install, Uninstall, Rollback, FirstStep
<1>2. /\ at[p] = "idle" /\ UNCHANGED <<gene, snap>>
      /\ at' = [at EXCEPT ![p] = step]
      /\ old' = [q \in Procs |-> IF q = p THEN Kept(what)
                                  ELSE IF at[q] = "idle" THEN Absent ELSE old[q]]
  BY <1>1 DEF Begin, Goto
<1>3. at'[p] = step /\ old'[p] = Kept(what)
  BY <1>2 DEF IInv, TypeOK
<1>4. Found(p)' /\ Ready(p)'
  BY <1>1, <1>2, <1>3 DEF Found, Ready, Kept
<1>5. ASSUME NEW q \in Procs \ {p} PROVE at'[q] = "idle" /\ old'[q] = Absent
  <2>1. at'[q] = "idle"
    BY <1>3 DEF Serial
  <2>2. at[q] = "idle"
    BY <1>2, <2>1 DEF IInv, TypeOK
  <2>3. QED
    BY <1>2, <2>1, <2>2
<1>6. QED
  BY <1>2, <1>4, <1>5, ForAll DEF IInv, Uniform

\* The steps that leave the directories alone.
LEMMA LookStep ==
  ASSUME Serial, IInv, TypeOK', NEW p \in Procs,
         Check(p) \/ WriteSidecar(p) \/ ForgetSidecar(p) \/ Crash(p)
  PROVE  IInv'
<1>1. /\ UNCHANGED <<gene, snap, ver, old>> /\ at[p] # "idle"
      /\ at' = [at EXCEPT ![p] = at'[p]]
      /\ \/ at[p] = "check" /\ at'[p] = "clear"
         \/ at[p] = "sidecar" /\ at'[p] \in {"mkdir", "idle"}
         \/ at'[p] = "idle"
  BY DEF Check, WriteSidecar, ForgetSidecar, Crash, Goto, AfterSnapshot, rest, IInv, TypeOK, Ready
<1>2. Found(p) /\ Ready(p) /\ at[p] \in Steps
  BY DEF IInv, TypeOK
<1>3. Found(p)' /\ Ready(p)'
  BY <1>1, <1>2 DEF Found, Ready, Steps
<1>4. QED
  BY <1>1, <1>3, OthersRest, ForAll DEF IInv, Uniform

\* snapshotGene: the old snapshot goes, the gene takes its place.
LEMMA SnapshotStep ==
  ASSUME Serial, IInv, TypeOK', NEW p \in Procs, Clear(p) \/ MoveAside(p)
  PROVE  IInv'
<1>1. Found(p) /\ Ready(p) /\ TypeOK /\ Uniform(gene) /\ Uniform(snap)
  BY DEF IInv
<1>2. CASE Clear(p)
  <2>1. /\ at[p] = "clear" /\ UNCHANGED <<gene, old>>
        /\ \/ snap' = Absent /\ at' = [at EXCEPT ![p] = "rename"]
           \/ snap # Absent /\ snap' \in Torn(snap) /\ at' = at
    BY <1>2 DEF Clear, Goto, rest
  <2>2. Uniform(snap)'
    BY <1>1, <2>1, TornIsUniform DEF TypeOK, Uniform
  <2>3. Found(p)' /\ Ready(p)' /\ at' = [at EXCEPT ![p] = at'[p]]
    BY <1>1, <2>1 DEF Found, Ready, TypeOK
  <2>4. QED
    BY <1>1, <2>1, <2>2, <2>3, OthersRest, ForAll DEF Uniform
<1>3. CASE MoveAside(p)
  <2>1. /\ at[p] = "rename" /\ snap' = gene /\ gene' = Absent /\ old' = old
        /\ at' = [at EXCEPT ![p] = "sidecar"]
    BY <1>1, <1>3 DEF MoveAside, Goto, Ready, Renames
  <2>2. Found(p)' /\ Ready(p)' /\ at' = [at EXCEPT ![p] = at'[p]]
    BY <1>1, <2>1 DEF Found, Ready, TypeOK
  <2>3. QED
    BY <1>1, <2>1, <2>2, OthersRest, ForAll DEF Uniform
<1>4. QED
  BY <1>2, <1>3

\* installGeneFromCloud writes into the directory it made.
LEMMA FileStep ==
  ASSUME Serial, IInv, TypeOK', NEW p \in Procs, NEW f \in Files, NEW next \in Steps,
         at[p] \in {"phenotype", "download", "manifest"},
         next \in {"download", "manifest", "idle"}, WriteFile(p, f, next)
  PROVE  IInv'
<1>1. Found(p) /\ Ready(p) /\ TypeOK /\ Uniform(snap)
  BY DEF IInv
<1>2. gene \in Dir /\ Holds(gene, ver[p]) /\ ver[p] \in Versions /\ old[p] = snap
  BY <1>1 DEF TypeOK, Ready, Found
<1>3. /\ gene' = [gene EXCEPT ![f] = ver[p]] /\ at' = [at EXCEPT ![p] = next]
      /\ UNCHANGED <<snap, ver, old>>
  BY <1>2, DirIsThere DEF WriteFile, Goto, rest
<1>4. gene' # Absent /\ Holds(gene', ver[p]) /\ Uniform(gene)'
  BY <1>2, <1>3, WriteIsUniform DEF Uniform
<1>5. Found(p)' /\ Ready(p)' /\ at' = [at EXCEPT ![p] = at'[p]]
  BY <1>1, <1>2, <1>3, <1>4 DEF Found, Ready, TypeOK
<1>6. QED
  BY <1>1, <1>3, <1>4, <1>5, OthersRest, ForAll DEF Uniform

LEMMA InstallStep ==
  ASSUME Serial, IInv, TypeOK', NEW p \in Procs,
         Mkdir(p) \/ WritePhenotype(p) \/ Download(p) \/ WriteManifest(p)
  PROVE  IInv'
<1>1. Found(p) /\ Ready(p) /\ TypeOK /\ Uniform(snap)
  BY DEF IInv
<1>2. CASE Mkdir(p)
  <2>1. /\ at[p] = "mkdir" /\ gene' = Empty /\ at' = [at EXCEPT ![p] = "phenotype"]
        /\ UNCHANGED <<snap, ver, old>>
    BY <1>1, <1>2 DEF Mkdir, Goto, Ready, rest
  <2>2. gene' # Absent /\ \A v : Holds(gene', v)
    BY <2>1, DirIsThere DEF Holds, Empty
  <2>3. Found(p)' /\ Ready(p)' /\ at' = [at EXCEPT ![p] = at'[p]]
    BY <1>1, <2>1, <2>2 DEF Found, Ready, TypeOK
  <2>4. Uniform(gene)' /\ Uniform(snap)'
    BY <1>1, <2>1, <2>2 DEF Uniform
  <2>5. QED
    BY <2>1, <2>3, <2>4, OthersRest, ForAll
<1>3. CASE WritePhenotype(p)
  BY <1>3, FileStep DEF WritePhenotype, Files, Steps
<1>4. CASE WriteManifest(p)
  BY <1>4, FileStep DEF WriteManifest, Files, Steps
<1>5. CASE Download(p)
  <2>1. CASE WriteFile(p, "wasm", "manifest")
    BY <1>5, <2>1, FileStep DEF Download, Files, Steps
  <2>2. CASE \E next \in {"manifest", "idle"} : Goto(p, next) /\ UNCHANGED <<gene, snap, side, rest>>
    <3>1. /\ at[p] = "download" /\ UNCHANGED <<gene, snap, ver, old>>
          /\ \E next \in {"manifest", "idle"} : at' = [at EXCEPT ![p] = next]
      BY <1>5, <2>2 DEF Download, Goto, rest
    <3>2. Found(p)' /\ Ready(p)' /\ at' = [at EXCEPT ![p] = at'[p]]
      BY <1>1, <3>1 DEF Found, Ready, TypeOK
    <3>3. QED
      BY <3>1, <3>2, OthersRest, ForAll DEF IInv, Uniform
  <2>3. QED
    BY <1>5, <2>1, <2>2 DEF Download
<1>6. QED
  BY <1>2, <1>3, <1>4, <1>5

\* restoreGene: what occupies the directory goes, the snapshot takes its place.
LEMMA RestoreStep ==
  ASSUME Serial, IInv, TypeOK', NEW p \in Procs, Discard(p) \/ Restore(p)
  PROVE  IInv'
<1>1. Found(p) /\ Ready(p) /\ TypeOK /\ Uniform(gene) /\ Uniform(snap)
  BY DEF IInv
<1>2. CASE Discard(p)
  <2>1. /\ at[p] = "discard" /\ UNCHANGED <<snap, old>>
        /\ \/ gene' = Absent /\ at' = [at EXCEPT ![p] = "restore"]
           \/ gene # Absent /\ gene' \in Torn(gene) /\ at' = at
    BY <1>2 DEF Discard, Goto, rest
  <2>2. Uniform(gene)'
    BY <1>1, <2>1, TornIsUniform DEF TypeOK, Uniform
  <2>3. Found(p)' /\ Ready(p)' /\ at' = [at EXCEPT ![p] = at'[p]]
    BY <1>1, <2>1 DEF Found, Ready, TypeOK
  <2>4. QED
    BY <1>1, <2>1, <2>2, <2>3, OthersRest, ForAll DEF Uniform
<1>3. CASE Restore(p)
  <2>1. /\ at[p] = "restore" /\ old' = old
        /\ \/ gene' = snap /\ snap' = Absent /\ at' = [at EXCEPT ![p] = "forget"]
           \/ snap = Absent /\ UNCHANGED <<gene, snap>> /\ at' = [at EXCEPT ![p] = "idle"]
    BY <1>1, <1>3 DEF Restore, Goto, rest, Renames, Consumed, Ready
  <2>2. Found(p)' /\ Ready(p)' /\ at' = [at EXCEPT ![p] = at'[p]]
    BY <1>1, <2>1 DEF Found, Ready, TypeOK
  <2>3. QED
    BY <1>1, <2>1, <2>2, OthersRest, ForAll DEF Uniform
<1>4. QED
  BY <1>2, <1>3

\* The user writes the gene anew while nothing runs.
LEMMA AuthorStep == ASSUME IInv, TypeOK', Author PROVE IInv'
<1>1. /\ gene = Absent /\ gene' = Authored /\ UNCHANGED <<snap, at, old>>
      /\ \A p \in Procs : at[p] = "idle"
  BY DEF Author, rest
<1>2. Holds(Authored, Local)
  BY DEF Holds, Authored
<1>3. ASSUME NEW p \in Procs PROVE Found(p)' /\ Ready(p)' /\ Succeeded(p)'
  BY <1>1 DEF IInv, Found, Ready, Succeeded
<1>4. QED
  BY <1>1, <1>2, <1>3 DEF IInv, Uniform

LEMMA InvariantStep == IInv /\ Serial /\ Serial' /\ [Next]_vars => IInv'
<1> SUFFICES ASSUME IInv, Serial, Serial', [Next]_vars PROVE IInv'
  OBVIOUS
<1>1. TypeOK'
  BY TypeStep DEF IInv
<1>2. CASE UNCHANGED vars
  BY <1>2 DEF vars, IInv, TypeOK, Uniform, Found, Ready, Succeeded
<1>3. QED
  BY <1>1, <1>2, BeginStep, LookStep, SnapshotStep, InstallStep, RestoreStep, AuthorStep DEF Next

\* The initial project: the gene as written in it, or none, and no snapshot.
LEMMA InvariantStart == Init => IInv
<1> SUFFICES ASSUME Init PROVE IInv
  OBVIOUS
<1>1. Holds(Authored, Local)
  BY DEF Holds, Authored
<1>2. QED
  BY <1>1, TypeStart DEF Init, IInv, Uniform, Found, Ready, Succeeded

-----------------------------------------------------------------------------
\* While commands do not overlap, the invariant holds for ever.
LEMMA Invariant == Spec /\ []Serial => []IInv
<1>1. Init => IInv
  BY InvariantStart
<1>2. IInv /\ Serial /\ Serial' /\ [Next]_vars => IInv'
  BY InvariantStep
<1>3. QED
  BY <1>1, <1>2, PTL DEF Spec

\* Whatever fails or dies, the copy a command found is whole, as the gene or as
\* its snapshot (snapshotGene, restoreGene, installGeneFromCloud).
THEOREM NoCopyIsLost == Spec /\ []Serial => []OldCopySurvives
<1>1. IInv => OldCopySurvives
  BY DEF IInv, TypeOK, Steps, Found, OldCopySurvives
<1>2. QED
  BY <1>1, Invariant, PTL

\* An install never writes over a file of another copy (installGeneFromCloud).
THEOREM NoCopyIsMixed == Spec /\ []Serial => []NothingIsMixed
<1>1. IInv => NothingIsMixed
  BY DEF IInv, Uniform, NothingIsMixed
<1>2. QED
  BY <1>1, Invariant, PTL

-----------------------------------------------------------------------------
\* The sidecar names the snapshot, and none is there without one.
Agrees ==
  \/ snap = Absent /\ side = None
  \/ snap # Absent /\ side = VersionOf(snap)

\* Where snapshot and sidecar are changed, one after the other.
Unsettled == {"clear", "rename", "sidecar", "forget"}

\* As long as no command died: what the second of the two changes relies on.
Noted ==
  crashes = 0 =>
    /\ (\A p \in Procs : at[p] \notin Unsettled) => Agrees
    /\ \A p \in Procs : at[p] = "sidecar" => snap # Absent /\ read[p] = VersionOf(snap)
    /\ \A p \in Procs : at[p] = "forget" => snap = Absent

LEMMA NotedForAll ==
  ASSUME NEW p \in Procs, \A q \in Procs \ {p} : at'[q] = "idle",
         crashes' = 0 => /\ at'[p] \notin Unsettled => Agrees'
                         /\ at'[p] = "sidecar" => snap' # Absent /\ read'[p] = VersionOf(snap')
                         /\ at'[p] = "forget" => snap' = Absent
  PROVE  Noted'
BY DEF Noted

\* A command that changes neither the snapshot nor its sidecar.
LEMMA NotedKept ==
  ASSUME Noted, NEW p \in Procs, UNCHANGED <<snap, side>>,
         \A q \in Procs \ {p} : at[q] = "idle" /\ at'[q] = "idle",
         crashes' = crashes, at[p] \notin Unsettled,
         at'[p] \notin Unsettled \/ at'[p] = "clear"
  PROVE  Noted'
<1>1. crashes = 0 => Agrees
  BY DEF Noted, Unsettled
<1>2. crashes' = 0 => Agrees'
  BY <1>1 DEF Agrees
<1>3. at'[p] # "sidecar" /\ at'[p] # "forget"
  BY DEF Unsettled
<1>4. QED
  BY <1>2, <1>3, NotedForAll

\* While a process takes a step, the others rest.
LEMMA OthersIdle ==
  ASSUME IInv, Serial, Serial', NEW p \in Procs, NEW step, at' = [at EXCEPT ![p] = step],
         at[p] # "idle" \/ step # "idle"
  PROVE  /\ at'[p] = step
         /\ \A q \in Procs \ {p} : at[q] = "idle" /\ at'[q] = "idle"
BY DEF IInv, TypeOK, Serial

LEMMA NotedStep == IInv /\ Serial /\ Serial' /\ Noted /\ [Next]_vars => Noted'
<1> SUFFICES ASSUME IInv, Serial, Serial', Noted, [Next]_vars PROVE Noted'
  OBVIOUS
<1>1. CASE UNCHANGED vars
  BY <1>1 DEF vars, Noted, Agrees
<1>2. CASE Author
  BY <1>2 DEF Author, rest, Noted, Agrees
<1>3. ASSUME NEW p \in Procs, Install(p) \/ Uninstall(p) \/ Rollback(p) PROVE Noted'
  <2>1. PICK step \in {"check", "mkdir", "discard"} :
          /\ at[p] = "idle" /\ UNCHANGED <<snap, side, crashes>>
          /\ at' = [at EXCEPT ![p] = step]
    BY <1>3 DEF Install, Uninstall, Rollback, Begin, Goto, FirstStep
  <2>2. QED
    BY <2>1, OthersIdle, NotedKept DEF Unsettled
<1>4. ASSUME NEW p \in Procs,
             Check(p) \/ Mkdir(p) \/ WritePhenotype(p) \/ Download(p) \/ WriteManifest(p) \/ Discard(p)
      PROVE  Noted'
  <2>1. /\ at[p] \in {"check", "mkdir", "phenotype", "download", "manifest", "discard"}
        /\ UNCHANGED <<snap, side, crashes>>
        /\ at' = at \/ \E step \in Steps \ {"rename", "sidecar", "forget"} : at' = [at EXCEPT ![p] = step]
    BY <1>4 DEF Check, Mkdir, WritePhenotype, Download, WriteManifest, Discard, WriteFile,
                AfterSnapshot, Goto, rest, Steps
  <2>2. at' = [at EXCEPT ![p] = at'[p]] /\ at'[p] \notin {"rename", "sidecar", "forget"}
    BY <2>1 DEF IInv, TypeOK, Steps
  <2>3. at[p] \notin Unsettled /\ (at'[p] \notin Unsettled \/ at'[p] = "clear")
    BY <2>1, <2>2 DEF Unsettled
  <2>4. QED
    BY <2>1, <2>2, <2>3, OthersIdle, NotedKept
<1>5. ASSUME NEW p \in Procs, Clear(p) PROVE Noted'
  <2>1. at[p] = "clear" /\ at'[p] \in {"clear", "rename"} /\ at' = [at EXCEPT ![p] = at'[p]]
    BY <1>5 DEF Clear, Goto, IInv, TypeOK
  <2>2. QED
    BY <2>1, OthersIdle, NotedForAll DEF Unsettled
<1>6. ASSUME NEW p \in Procs, MoveAside(p) PROVE Noted'
  <2>1. at[p] = "rename" /\ gene # Absent /\ snap = Absent
    BY <1>6 DEF MoveAside, IInv, Ready
  <2>2. /\ snap' = gene /\ at' = [at EXCEPT ![p] = "sidecar"] /\ read'[p] = VersionOf(gene)
    BY <1>6, <2>1 DEF MoveAside, Renames, Goto, IInv, TypeOK
  <2>3. QED
    BY <2>1, <2>2, OthersIdle, NotedForAll DEF Unsettled
<1>7. ASSUME NEW p \in Procs, WriteSidecar(p) PROVE Noted'
  <2>1. PICK step \in {"mkdir", "idle"} :
          /\ at[p] = "sidecar" /\ side' = read[p] /\ snap' = snap /\ crashes' = crashes
          /\ at' = [at EXCEPT ![p] = step]
    BY <1>7 DEF WriteSidecar, SidecarOf, AfterSnapshot, Goto, rest
  <2>2. crashes' = 0 => Agrees'
    BY <2>1 DEF Noted, Agrees, VersionOf
  <2>3. QED
    BY <2>1, <2>2, OthersIdle, NotedForAll
<1>8. ASSUME NEW p \in Procs, Restore(p) PROVE Noted'
  <2>1. CASE Renames(snap, gene)
    <3>1. snap' = Absent /\ at[p] = "restore" /\ at' = [at EXCEPT ![p] = "forget"]
      BY <1>8, <2>1 DEF Restore, Consumed, Goto
    <3>2. QED
      BY <3>1, OthersIdle, NotedForAll DEF Unsettled
  <2>2. CASE ~Renames(snap, gene)
    <3>1. /\ at[p] = "restore" /\ at' = [at EXCEPT ![p] = "idle"] /\ UNCHANGED <<snap, side, crashes>>
      BY <1>8, <2>2 DEF Restore, Goto, rest
    <3>2. QED
      BY <3>1, OthersIdle, NotedKept DEF Unsettled
  <2>3. QED
    BY <2>1, <2>2
<1>9. ASSUME NEW p \in Procs, ForgetSidecar(p) PROVE Noted'
  <2>1. /\ at[p] = "forget" /\ side' = None /\ snap' = snap /\ crashes' = crashes
        /\ at' = [at EXCEPT ![p] = "idle"]
    BY <1>9 DEF ForgetSidecar, Goto, rest
  <2>2. crashes' = 0 => Agrees'
    BY <2>1 DEF Noted, Agrees
  <2>3. QED
    BY <2>1, <2>2, OthersIdle, NotedForAll
<1>10. ASSUME NEW p \in Procs, Crash(p) PROVE Noted'
  <2>1. crashes' = crashes + 1 /\ crashes \in Nat
    BY <1>10 DEF Crash, IInv, TypeOK
  <2>2. QED
    BY <2>1 DEF Noted
<1>11. QED
  BY <1>1, <1>2, <1>3, <1>4, <1>5, <1>6, <1>7, <1>8, <1>9, <1>10 DEF Next

\* Between commands that all came to an end, the sidecar names the version of
\* the snapshot, and there is none without a snapshot: although each of them is
\* changed by a system call of its own (snapshotGene, restoreGene).
THEOREM SidecarsAreRight == Spec /\ []Serial => []SidecarNamesTheCopy
<1>1. Init => Noted
  BY DEF Init, Noted, Agrees
<1>2. IInv /\ Serial /\ Serial' /\ Noted /\ [Next]_vars => Noted'
  BY NotedStep
<1>3. IInv /\ Noted => SidecarNamesTheCopy
  BY DEF Noted, Agrees, SidecarNamesTheCopy, Unsettled
<1>4. QED
  BY <1>1, <1>2, <1>3, Invariant, PTL DEF Spec

-----------------------------------------------------------------------------
\* A list of genes of a domain, none twice; all of them; in the order of fitness.
Distinct(s) == \A i, j \in DOMAIN s : i # j => s[i] # s[j]
Whole(s, d) == s \in Seq(GenesOf(d)) /\ Distinct(s) /\ Run(s) = GenesOf(d)
Descends(s, fit) == \A i, j \in DOMAIN s : i <= j => fit[s[j]] <= fit[s[i]]

-----------------------------------------------------------------------------
\* Genes are strictly and totally ordered by fitness, ties by their place.
LEMMA FitterIsAnOrder ==
  ASSUME NEW S, NEW genes \in Seq(S), NEW fit, \A g \in S : fit[g] \in Nat
  PROVE  /\ \A i \in DOMAIN genes : ~Fitter(fit, genes, i, i)
         /\ \A i, j \in DOMAIN genes : i # j =>
              Fitter(fit, genes, i, j) \/ Fitter(fit, genes, j, i)
         /\ \A i, j, k \in DOMAIN genes :
              Fitter(fit, genes, i, j) /\ Fitter(fit, genes, j, k) => Fitter(fit, genes, i, k)
         /\ \A i, j \in DOMAIN genes : Fitter(fit, genes, i, j) => fit[genes[j]] <= fit[genes[i]]
<1>1. DOMAIN genes = 1 .. Len(genes) /\ \A i \in DOMAIN genes : fit[genes[i]] \in Nat
  OBVIOUS
<1>2. \A i \in DOMAIN genes : i \in Nat
  BY <1>1
<1>3. QED
  BY <1>1, <1>2 DEF Fitter

\* The places ahead of a place can be counted, and their number tells places apart.
LEMMA AheadCounts ==
  ASSUME NEW S, NEW genes \in Seq(S), NEW fit, \A g \in S : fit[g] \in Nat
  PROVE  /\ \A i \in DOMAIN genes : Cardinality(AheadOf(genes, fit, i)) \in 0 .. (Len(genes) - 1)
         /\ \A i, j \in DOMAIN genes : Fitter(fit, genes, i, j) =>
              Cardinality(AheadOf(genes, fit, i)) < Cardinality(AheadOf(genes, fit, j))
         /\ \A i, j \in DOMAIN genes :
              Cardinality(AheadOf(genes, fit, i)) = Cardinality(AheadOf(genes, fit, j)) => i = j
<1> DEFINE I == DOMAIN genes
           n == Len(genes)
           A(i) == AheadOf(genes, fit, i)
<1>1. n \in Nat /\ I = 1 .. n
  OBVIOUS
<1>2. IsFiniteSet(I) /\ Cardinality(I) = n
  BY <1>1, FS_Interval
<1>3. ASSUME NEW i \in I
      PROVE  IsFiniteSet(A(i)) /\ Cardinality(A(i)) \in 0 .. (n - 1)
  <2>1. A(i) \subseteq I \ {i}
    BY FitterIsAnOrder DEF AheadOf
  <2>2. IsFiniteSet(I \ {i}) /\ Cardinality(I \ {i}) = n - 1
    BY <1>1, <1>2, FS_RemoveElement
  <2>3. IsFiniteSet(A(i)) /\ Cardinality(A(i)) <= n - 1
    BY <2>1, <2>2, FS_Subset
  <2>4. Cardinality(A(i)) \in Nat
    BY <2>3, FS_CardinalityType
  <2>5. QED
    BY <1>1, <2>3, <2>4
<1>4. ASSUME NEW i \in I, NEW j \in I, Fitter(fit, genes, i, j)
      PROVE  Cardinality(A(i)) < Cardinality(A(j))
  <2>1. A(i) \cup {i} \subseteq A(j)
    BY <1>4, FitterIsAnOrder DEF AheadOf
  <2>2. i \notin A(i)
    BY FitterIsAnOrder DEF AheadOf
  <2>3. Cardinality(A(i) \cup {i}) = Cardinality(A(i)) + 1
    BY <1>3, <2>2, FS_AddElement
  <2>4. Cardinality(A(i) \cup {i}) <= Cardinality(A(j))
    BY <1>3, <2>1, FS_Subset
  <2>5. Cardinality(A(i)) \in Nat /\ Cardinality(A(j)) \in Nat
    BY <1>3
  <2>6. QED
    BY <2>3, <2>4, <2>5
<1>5. ASSUME NEW i \in I, NEW j \in I, Cardinality(A(i)) = Cardinality(A(j))
      PROVE  i = j
  <2>1. Cardinality(A(i)) \in Nat
    BY <1>3
  <2>2. ~Fitter(fit, genes, i, j) /\ ~Fitter(fit, genes, j, i)
    BY <1>4, <1>5, <2>1
  <2>3. QED
    BY <2>2, FitterIsAnOrder
<1>6. QED
  BY <1>3, <1>4, <1>5

\* So every place of the ranking has its gene.
LEMMA RanksAreGiven ==
  ASSUME NEW S, NEW genes \in Seq(S), NEW fit, \A g \in S : fit[g] \in Nat
  PROVE  \A m \in DOMAIN genes :
           \E i \in DOMAIN genes : Cardinality(AheadOf(genes, fit, i)) = m - 1
<1> DEFINE I == DOMAIN genes
           rank == [i \in I |-> Cardinality(AheadOf(genes, fit, i)) + 1]
<1>1. Len(genes) \in Nat /\ I = 1 .. Len(genes) /\ IsFiniteSet(I)
  BY FS_Interval
<1>2. \A i \in I : Cardinality(AheadOf(genes, fit, i)) \in Nat /\ rank[i] \in I
  BY <1>1, AheadCounts
<1>3. \A i, j \in I : rank[i] = rank[j] => i = j
  BY <1>2, AheadCounts
<1>4. rank \in [I -> I]
  BY <1>2
<1> HIDE DEF rank, I
<1>5. rank \in Injection(I, I)
  BY <1>3, <1>4 DEF Injection, IsInjective
<1>6. rank \in Surjection(I, I)
  BY <1>1, <1>5, FS_Injection
<1>7. \A m \in I : \E i \in I : rank[i] = m
  BY <1>6 DEF Surjection
<1>8. \A m \in I, i \in I : rank[i] = m => Cardinality(AheadOf(genes, fit, i)) = m - 1
  BY <1>2 DEF rank
<1>9. QED
  BY <1>7, <1>8 DEF I

\* The ranking takes from each place of the list once, and from fitter ones first.
LEMMA FromIsOnto ==
  ASSUME NEW S, NEW genes \in Seq(S), NEW fit, \A g \in S : fit[g] \in Nat
  PROVE  /\ \A m \in DOMAIN genes : From(genes, fit, m) \in DOMAIN genes
         /\ \A m, k \in DOMAIN genes : From(genes, fit, m) = From(genes, fit, k) => m = k
         /\ \A i \in DOMAIN genes : \E m \in DOMAIN genes : From(genes, fit, m) = i
         /\ \A m, k \in DOMAIN genes : m < k =>
              ~Fitter(fit, genes, From(genes, fit, k), From(genes, fit, m))
<1> DEFINE I == DOMAIN genes
           C(i) == Cardinality(AheadOf(genes, fit, i))
<1>1. Len(genes) \in Nat /\ I = 1 .. Len(genes)
  OBVIOUS
<1>2. \A m \in I : From(genes, fit, m) \in I /\ C(From(genes, fit, m)) = m - 1
  BY RanksAreGiven DEF From
<1>3. \A m, k \in I : From(genes, fit, m) = From(genes, fit, k) => m = k
  BY <1>1, <1>2
<1>4. ASSUME NEW i \in I PROVE \E m \in I : From(genes, fit, m) = i
  <2>1. C(i) \in Nat /\ C(i) + 1 \in I
    BY <1>1, AheadCounts
  <2>2. C(From(genes, fit, C(i) + 1)) = C(i) /\ From(genes, fit, C(i) + 1) \in I
    BY <1>2, <2>1
  <2>3. From(genes, fit, C(i) + 1) = i
    BY <2>2, AheadCounts
  <2>4. QED
    BY <2>1, <2>3
<1>5. ASSUME NEW m \in I, NEW k \in I, m < k
      PROVE  ~Fitter(fit, genes, From(genes, fit, k), From(genes, fit, m))
  <2>1. ~(C(From(genes, fit, k)) < C(From(genes, fit, m)))
    BY <1>1, <1>2, <1>5
  <2>2. QED
    BY <1>2, <2>1, AheadCounts
<1>6. QED
  BY <1>2, <1>3, <1>4, <1>5

\* The ranking has the genes it was given, each once, fitter ones first.
LEMMA RankedIsSorted ==
  ASSUME NEW d, NEW genes, Whole(genes, d), NEW fit, \A g \in GenesOf(d) : fit[g] \in Nat
  PROVE  Whole(Ranked(genes, fit), d) /\ Descends(Ranked(genes, fit), fit)
<1> DEFINE I == DOMAIN genes
           from(m) == From(genes, fit, m)
           r == Ranked(genes, fit)
<1>1. genes \in Seq(GenesOf(d)) /\ Distinct(genes) /\ Run(genes) = GenesOf(d)
  BY DEF Whole
<1>2. I = 1 .. Len(genes) /\ Len(genes) \in Nat
  BY <1>1
<1>3. r = [m \in I |-> genes[from(m)]]
  BY DEF Ranked
<1> HIDE DEF r
<1>4. /\ \A m \in I : from(m) \in I
      /\ \A m, k \in I : from(m) = from(k) => m = k
      /\ \A i \in I : \E m \in I : from(m) = i
      /\ \A m, k \in I : m < k => ~Fitter(fit, genes, from(k), from(m))
  BY <1>1, FromIsOnto
<1>5. r \in Seq(GenesOf(d)) /\ DOMAIN r = I
  <2>1. \A m \in I : genes[from(m)] \in GenesOf(d)
    BY <1>1, <1>4
  <2>2. r \in [1 .. Len(genes) -> GenesOf(d)]
    BY <1>2, <1>3, <2>1
  <2>3. QED
    BY <1>2, <2>2
<1>6. Distinct(r)
  BY <1>1, <1>3, <1>4, <1>5 DEF Distinct
<1>7. Run(r) = GenesOf(d)
  <2>1. Run(r) = {genes[from(m)] : m \in I}
    BY <1>3, <1>5 DEF Run
  <2>2. Run(genes) = {genes[i] : i \in I}
    BY DEF Run
  <2>3. QED
    BY <1>1, <1>4, <2>1, <2>2
<1>8. /\ \A i, j \in I : i # j => Fitter(fit, genes, i, j) \/ Fitter(fit, genes, j, i)
      /\ \A i, j \in I : Fitter(fit, genes, i, j) => fit[genes[j]] <= fit[genes[i]]
  <2> HIDE DEF I
  <2> QED  BY <1>1, FitterIsAnOrder DEF I
<1>9. ASSUME NEW m \in I, NEW k \in I, m <= k
      PROVE  fit[r[k]] <= fit[r[m]]
  <2>1. r[k] = genes[from(k)] /\ r[m] = genes[from(m)] /\ fit[r[k]] \in Nat
    BY <1>3, <1>5
  <2>2. CASE m = k
    BY <2>1, <2>2
  <2>3. CASE m # k
    <3>1. /\ ~Fitter(fit, genes, from(k), from(m)) /\ from(m) # from(k)
          /\ from(m) \in I /\ from(k) \in I
      BY <1>2, <1>4, <1>9, <2>3
    <3>2. QED
      BY <1>8, <2>1, <3>1
  <2>4. QED
    BY <2>2, <2>3
<1>10. Whole(r, d) /\ Descends(r, fit)
  BY <1>5, <1>6, <1>7, <1>9 DEF Whole, Descends
<1>11. QED
  BY <1>10 DEF r

-----------------------------------------------------------------------------
\* What is left of a list without one gene, and of one whose first gene is run.
LEMMA CandidatesAreTheRest ==
  ASSUME NEW d, NEW s, Whole(s, d), NEW g \in GenesOf(d), NEW fit, Descends(s, fit)
  PROVE  /\ Candidates(s, g) \in Seq(GenesOf(d)) /\ Distinct(Candidates(s, g))
         /\ Run(Candidates(s, g)) = GenesOf(d) \ {g}
         /\ Descends(Candidates(s, g), fit)
<1> DEFINE gap == CHOOSE i \in DOMAIN s : s[i] = g
           n == Len(s) - 1
           place(i) == IF i < gap THEN i ELSE i + 1
           c == Candidates(s, g)
<1>1. s \in Seq(GenesOf(d)) /\ Distinct(s) /\ Run(s) = GenesOf(d)
  BY DEF Whole
<1>2. gap \in DOMAIN s /\ s[gap] = g
  <2>1. \E i \in DOMAIN s : s[i] = g
    BY <1>1 DEF Run
  <2>2. QED
    BY <2>1
<1>3. c = [i \in 1 .. n |-> s[place(i)]]
  BY DEF Candidates
<1> HIDE DEF gap, c
<1>4. DOMAIN s = 1 .. Len(s) /\ Len(s) \in Nat /\ n \in Nat
  BY <1>1, <1>2
<1>5. /\ \A i \in 1 .. n : place(i) \in DOMAIN s \ {gap}
      /\ \A i, j \in 1 .. n : i < j => place(i) < place(j)
  BY <1>2, <1>4
<1>6. \A k \in DOMAIN s \ {gap} : \E i \in 1 .. n : place(i) = k
  <2> SUFFICES ASSUME NEW k \in DOMAIN s \ {gap} PROVE \E i \in 1 .. n : place(i) = k
    OBVIOUS
  <2>1. CASE k < gap
    BY <1>2, <1>4, <2>1
  <2>2. CASE k > gap
    <3>1. k - 1 \in 1 .. n /\ place(k - 1) = k
      BY <1>2, <1>4, <2>2
    <3>2. QED
      BY <3>1
  <2>3. QED
    BY <1>2, <1>4, <2>1, <2>2
<1>7. c \in Seq(GenesOf(d)) /\ DOMAIN c = 1 .. n
  <2>1. \A i \in 1 .. n : s[place(i)] \in GenesOf(d)
    BY <1>1, <1>5
  <2>2. c \in [1 .. n -> GenesOf(d)]
    BY <1>3, <2>1
  <2>3. QED
    BY <1>4, <2>2
<1>8. Distinct(c)
  <2>1. \A i, j \in 1 .. n : i # j => place(i) # place(j)
    BY <1>2, <1>4
  <2>2. QED
    BY <1>1, <1>3, <1>5, <1>7, <2>1 DEF Distinct
<1>9. Run(c) = GenesOf(d) \ {g}
  <2>1. Run(c) = {s[place(i)] : i \in 1 .. n}
    BY <1>3, <1>7 DEF Run
  <2>2. Run(s) = {s[k] : k \in DOMAIN s}
    BY DEF Run
  <2>3. \A k \in DOMAIN s \ {gap} : s[k] # g
    BY <1>1, <1>2 DEF Distinct
  <2>4. Run(s) \ {g} = {s[k] : k \in DOMAIN s \ {gap}}
    BY <1>2, <2>2, <2>3
  <2>5. {s[k] : k \in DOMAIN s \ {gap}} = {s[place(i)] : i \in 1 .. n}
    <3> HIDE DEF place
    <3> QED  BY <1>5, <1>6
  <2>6. QED
    BY <1>1, <2>1, <2>4, <2>5
<1>10. Descends(c, fit)
  <2> SUFFICES ASSUME NEW i \in 1 .. n, NEW j \in 1 .. n, i <= j PROVE fit[c[j]] <= fit[c[i]]
    BY <1>7 DEF Descends
  <2>1. place(i) <= place(j) /\ place(i) \in DOMAIN s /\ place(j) \in DOMAIN s
    BY <1>2, <1>4, <1>5
  <2>2. QED
    BY <1>3, <2>1 DEF Descends
<1>11. QED
  BY <1>7, <1>8, <1>9, <1>10 DEF c

LEMMA TailIsTheRest ==
  ASSUME NEW S, NEW s \in Seq(S), s # <<>>, Distinct(s), NEW fit, Descends(s, fit)
  PROVE  /\ s[1] \in S /\ Tail(s) \in Seq(S) /\ Distinct(Tail(s))
         /\ Run(Tail(s)) = Run(s) \ {s[1]} /\ s[1] \in Run(s) /\ Descends(Tail(s), fit)
         /\ \A h \in Run(s) : fit[h] <= fit[s[1]]
<1> DEFINE t == Tail(s)
<1>1. /\ Len(s) \in Nat \ {0} /\ DOMAIN s = 1 .. Len(s)
      /\ t \in Seq(S) /\ DOMAIN t = 1 .. (Len(s) - 1)
      /\ \A i \in DOMAIN t : t[i] = s[i + 1] /\ i + 1 \in DOMAIN s
      /\ \A i \in DOMAIN s \ {1} : i - 1 \in DOMAIN t /\ s[i] = t[i - 1]
      /\ 1 \in DOMAIN s /\ s[1] \in S
  OBVIOUS
<1> HIDE DEF t
<1>2. Distinct(t)
  BY <1>1 DEF Distinct
<1>3. Run(t) = Run(s) \ {s[1]}
  <2>1. \A i \in DOMAIN t : t[i] # s[1]
    BY <1>1 DEF Distinct
  <2>2. QED
    BY <1>1, <2>1 DEF Run
<1>4. Descends(t, fit)
  BY <1>1 DEF Descends
<1>5. \A h \in Run(s) : fit[h] <= fit[s[1]]
  BY <1>1 DEF Run, Descends
<1>6. QED
  BY <1>1, <1>2, <1>3, <1>4, <1>5 DEF t, Run

LEMMA OneMoreRun ==
  ASSUME NEW S, NEW s \in Seq(S), NEW g \in S, Distinct(s), g \notin Run(s)
  PROVE  /\ Append(s, g) \in Seq(S) \ {<<>>} /\ Distinct(Append(s, g))
         /\ Run(Append(s, g)) = Run(s) \cup {g}
         /\ Append(s, g)[Len(Append(s, g))] = g
<1> DEFINE t == Append(s, g)
<1>1. /\ Len(s) \in Nat /\ DOMAIN s = 1 .. Len(s)
      /\ t \in Seq(S) \ {<<>>} /\ DOMAIN t = 1 .. (Len(s) + 1) /\ Len(t) = Len(s) + 1
      /\ \A i \in DOMAIN s : t[i] = s[i]
      /\ t[Len(s) + 1] = g
  OBVIOUS
<1> HIDE DEF t
<1>2. Distinct(t)
  BY <1>1 DEF Distinct, Run
<1>3. Run(t) = Run(s) \cup {g}
  BY <1>1 DEF Run
<1>4. QED
  BY <1>1, <1>2, <1>3 DEF t

-----------------------------------------------------------------------------
Engine == [executor : [Genes -> {"wasm", "node", "refuses", "throws"}],
           fitness : [Genes -> Nat], pool : [Domains -> Seq(Genes)],
           active : [Domains -> Genes], left : [Domains -> Seq(Genes)],
           tried : [Domains -> Seq(Genes)],
           status : [Domains -> {"none", "running", "success", "all_failed"}]]

File == {Blank, Garbled} \cup {Saved(fit) : fit \in [Genes -> Nat]}

PoolTypes == engine \in [Runners -> Engine] /\ file \in File

\* Where a domain of a run stands. Before its first try the active gene is one of
\* the best; after it the genes left are those not tried yet, in the order of what
\* is known of them, and a success is the last one tried.
Sound(e, d) ==
  LET ran == e.tried[d]
      left == e.left[d]
  IN  /\ Whole(e.pool[d], d)
      /\ ran \in Seq(GenesOf(d)) /\ Distinct(ran)
      /\ e.status[d] = "none" => ran = <<>>
      /\ e.status[d] = "running" /\ ran = <<>> =>
           /\ e.active[d] \in GenesOf(d)
           /\ \A h \in GenesOf(d) : e.fitness[h] <= e.fitness[e.active[d]]
      /\ e.status[d] = "running" /\ ran # <<>> =>
           /\ left \in Seq(GenesOf(d)) \ {<<>>} /\ Distinct(left)
           /\ Run(left) = GenesOf(d) \ Run(ran) /\ Descends(left, e.fitness)
      /\ e.status[d] = "success" => e.active[d] = ran[Len(ran)]
      /\ e.status[d] = "all_failed" => Run(ran) = GenesOf(d)

PoolInv ==
  /\ PoolTypes
  /\ \A p \in Runners, d \in Domains : Sound(engine[p], d)

LEMMA PoolsAreWhole ==
  /\ \A d \in Domains : Whole(Pools[d], d) /\ GenesOf(d) \subseteq Genes
  /\ \A d \in Domains : Pools[d] \in Seq(Genes) /\ Pools[d][1] \in GenesOf(d)
  /\ Fresh \in [Genes -> Nat] /\ \A g \in Genes : Fresh[g] = Initial
<1>1. ASSUME NEW d \in Domains
      PROVE  Whole(Pools[d], d) /\ GenesOf(d) \subseteq Genes /\ Pools[d] \in Seq(Genes)
             /\ Pools[d][1] \in GenesOf(d)
  <2>1. Pools[d] \in Seq(GenesOf(d)) \ {<<>>}
    <3>1. Pools[d] \in Seq(Genes) \ {<<>>}
      BY PoolAssumption
    <3>2. Pools[d] \in [1 .. Len(Pools[d]) -> GenesOf(d)] /\ Len(Pools[d]) \in Nat
      BY <3>1 DEF GenesOf
    <3>3. QED
      BY <3>1, <3>2
  <2>2. Distinct(Pools[d])
    BY PoolAssumption DEF Distinct
  <2>3. Run(Pools[d]) = GenesOf(d)
    BY DEF Run, GenesOf
  <2>4. GenesOf(d) \subseteq Genes
    BY DEF Genes
  <2>5. QED
    BY <2>1, <2>2, <2>3, <2>4 DEF Whole
<1>2. Fresh \in [Genes -> Nat] /\ \A g \in Genes : Fresh[g] = Initial
  BY PoolAssumption DEF Fresh
<1>3. QED
  BY <1>1, <1>2

\* A process that runs nothing.
LEMMA NothingIsSound ==
  Nothing \in Engine /\ \A d \in Domains : Sound(Nothing, d)
<1>1. /\ Nothing \in Engine /\ Nothing.pool = Pools
      /\ \A d \in Domains : Nothing.tried[d] = <<>> /\ Nothing.status[d] = "none"
  <2>1. [d \in Domains |-> Pools[d][1]] \in [Domains -> Genes]
    BY PoolsAreWhole
  <2>2. Pools \in [Domains -> Seq(Genes)]
    BY PoolsAreWhole, PoolAssumption
  <2>3. QED
    BY <2>1, <2>2, PoolsAreWhole DEF Nothing, Engine
<1>2. \A S : <<>> \in Seq(S) /\ Distinct(<<>>)
  BY DEF Distinct
<1>3. QED
  BY <1>1, <1>2, PoolsAreWhole DEF Sound

-----------------------------------------------------------------------------
LEMMA FreshIsSound == ASSUME TryInit PROVE PoolInv
<1>1. engine = [p \in Runners |-> Nothing] /\ file = Blank
  BY DEF TryInit
<1>2. QED
  BY <1>1, NothingIsSound DEF PoolInv, PoolTypes, File

\* One process's engine changes, and the fitness file as little as the step says.
LEMMA OneEngine ==
  ASSUME PoolInv, NEW p \in Runners, NEW f, engine' = [engine EXCEPT ![p] = f],
         f \in Engine, \A d \in Domains : Sound(f, d), file' \in File
  PROVE  PoolInv'
<1>1. engine' \in [Runners -> Engine] /\ \A q \in Runners : engine'[q] = IF q = p THEN f ELSE engine[q]
  BY DEF PoolInv, PoolTypes
<1>2. \A q \in Runners, d \in Domains : Sound(engine'[q], d)
  BY <1>1 DEF PoolInv
<1>3. PoolTypes'
  BY <1>1 DEF PoolTypes
<1>4. QED
  BY <1>2, <1>3 DEF PoolInv

LEMMA StartSound ==
  ASSUME PoolInv, NEW p \in Runners, Start(p)
  PROVE  /\ PoolInv'
         /\ \/ engine' = engine
            \/ \E f : engine' = [engine EXCEPT ![p] = f] /\ \A d \in Domains : f.tried[d] = <<>>
<1>1. PICK sandbox \in BOOLEAN, trust \in BOOLEAN :
        LET built == [g \in Genes |-> Executor(setup[g], sandbox, trust)]
            found == file.is = "saved"
            fit == IF found THEN file.fitness ELSE Fresh
            ranked == IF found THEN [d \in Domains |-> Ranked(Pools[d], fit)] ELSE Pools
        IN  IF \E g \in Genes : built[g] = "throws"
              THEN UNCHANGED <<stage, engine, loaded>>
              ELSE /\ stage' = [stage EXCEPT ![p] = "running"]
                   /\ loaded' = [loaded EXCEPT ![p] = found]
                   /\ engine' = [engine EXCEPT ![p] =
                        [Nothing EXCEPT !.executor = built, !.fitness = fit, !.pool = ranked,
                           !.active = ActiveOf(ranked), !.status = [d \in Domains |-> "running"]]]
  BY DEF Start
<1>2. file' = file
  BY DEF Start
<1> DEFINE built == [g \in Genes |-> Executor(setup[g], sandbox, trust)]
           found == file.is = "saved"
           fit == IF found THEN file.fitness ELSE Fresh
           ranked == IF found THEN [d \in Domains |-> Ranked(Pools[d], fit)] ELSE Pools
           f == [Nothing EXCEPT !.executor = built, !.fitness = fit, !.pool = ranked,
                   !.active = ActiveOf(ranked), !.status = [d \in Domains |-> "running"]]
<1>3. CASE \E g \in Genes : built[g] = "throws"
  <2>1. engine' = engine
    BY <1>1, <1>3
  <2>2. QED
    BY <1>2, <2>1 DEF PoolInv, PoolTypes, Sound
<1>4. CASE ~\E g \in Genes : built[g] = "throws"
  <2>1. engine' = [engine EXCEPT ![p] = f]
    BY <1>1, <1>4
  <2>2. fit \in [Genes -> Nat]
    <3>1. found => file.fitness \in [Genes -> Nat]
      BY DEF PoolInv, PoolTypes, File, Blank, Garbled, Saved
    <3>2. QED
      BY <3>1, PoolsAreWhole
  <2>3. ASSUME NEW d \in Domains
        PROVE  Whole(ranked[d], d) /\ Descends(ranked[d], fit)
    <3>1. CASE ~found
      <4>1. \A i \in DOMAIN Pools[d] : fit[Pools[d][i]] = Initial
        BY <3>1, PoolsAreWhole
      <4>2. QED
        BY <3>1, <4>1, PoolsAreWhole, PoolAssumption DEF Descends
    <3>2. CASE found
      <4>1. \A g \in GenesOf(d) : fit[g] \in Nat
        BY <2>2, PoolsAreWhole
      <4>2. ranked[d] = Ranked(Pools[d], fit)
        BY <3>2
      <4>3. QED
        <5> HIDE DEF fit, ranked
        <5> QED  BY <4>1, <4>2, RankedIsSorted, PoolsAreWhole
    <3>3. QED
      BY <3>1, <3>2
  <2>4. ranked = [d \in Domains |-> ranked[d]]
    <3>1. CASE ~found
      <4>1. Pools = [d \in Domains |-> Pools[d]]
        BY PoolAssumption
      <4>2. QED
        BY <3>1, <4>1
    <3>2. CASE found
      BY <3>2
    <3>3. QED
      BY <3>1, <3>2
  <2> HIDE DEF fit, ranked
  <2>5. ASSUME NEW d \in Domains
        PROVE  /\ ranked[d] \in Seq(Genes) /\ ranked[d][1] \in GenesOf(d)
               /\ GenesOf(d) \subseteq Genes
               /\ \A h \in GenesOf(d) : fit[h] <= fit[ranked[d][1]]
    <3>1. /\ ranked[d] \in Seq(GenesOf(d)) /\ Run(ranked[d]) = GenesOf(d)
          /\ GenesOf(d) \subseteq Genes
      BY <2>3, PoolsAreWhole DEF Whole
    <3>2. GenesOf(d) # {}
      BY PoolsAreWhole
    <3>3. 1 \in DOMAIN ranked[d] /\ \A i \in DOMAIN ranked[d] : 1 <= i
      BY <3>1, <3>2 DEF Run
    <3>4. QED
      BY <2>3, <3>1, <3>3 DEF Run, Descends
  <2>6. \A g \in Genes : built[g] \in {"wasm", "node", "refuses", "throws"}
    BY DEF Executor
  <2>7. built \in [Genes -> {"wasm", "node", "refuses", "throws"}]
    BY <2>6
  <2> HIDE DEF built
  <2>8. ranked \in [Domains -> Seq(Genes)] /\ ActiveOf(ranked) \in [Domains -> Genes]
        /\ \A d \in Domains : ActiveOf(ranked)[d] = ranked[d][1]
    <3>1. \A d \in Domains : ranked[d][1] \in Genes
      BY <2>5
    <3>2. ActiveOf(ranked) \in [Domains -> Genes]
      BY <3>1 DEF ActiveOf
    <3>3. QED
      BY <2>4, <2>5, <3>2 DEF ActiveOf
  <2>9. /\ f \in Engine
        /\ \A d \in Domains :
             /\ f.pool[d] = ranked[d] /\ f.fitness = fit /\ f.tried[d] = <<>>
             /\ f.status[d] = "running" /\ f.active[d] = ranked[d][1]
    BY <2>2, <2>7, <2>8, NothingIsSound DEF Engine, Nothing
  <2>10. \A d \in Domains : Sound(f, d)
    <3> HIDE DEF f
    <3>1. \A S : <<>> \in Seq(S) /\ Distinct(<<>>)
      BY DEF Distinct
    <3>2. QED
      BY <2>3, <2>5, <2>9, <3>1 DEF Sound
  <2>11. file' \in File
    BY <1>2 DEF PoolInv, PoolTypes
  <2>12. QED
    <3> HIDE DEF f
    <3> QED  BY <2>1, <2>9, <2>10, <2>11, OneEngine
<1>5. QED
  BY <1>3, <1>4

\* A run that saves or ends, well or not, leaves the file readable or not.
LEMMA EndSound ==
  ASSUME PoolInv, NEW p \in Runners, Truncate(p) \/ Save(p) \/ Kill(p)
  PROVE  /\ PoolInv'
         /\ engine' = engine \/ engine' = [engine EXCEPT ![p] = Nothing]
<1>1. engine' = engine \/ engine' = [engine EXCEPT ![p] = Nothing]
  BY DEF Truncate, Save, Kill, Ends
<1>2. engine[p].fitness \in [Genes -> Nat]
  BY DEF PoolInv, PoolTypes, Engine
<1>3. file' \in {Saved(engine[p].fitness), file, Blank, Garbled}
  BY DEF Truncate, Save, Kill
<1>4. file' \in File
  BY <1>2, <1>3 DEF PoolInv, PoolTypes, File
<1>5. CASE engine' = engine
  BY <1>4, <1>5 DEF PoolInv, PoolTypes, Sound
<1>6. CASE engine' = [engine EXCEPT ![p] = Nothing]
  BY <1>4, <1>6, NothingIsSound, OneEngine
<1>7. QED
  BY <1>1, <1>5, <1>6

-----------------------------------------------------------------------------
\* The gene a domain tries next.
Picked(e, d) == IF e.tried[d] = <<>> THEN e.active[d] ELSE e.left[d][1]

\* An engine of which one domain's parts are written.
Edited(e, d, fit, pool, ran, active, left, status) ==
  [e EXCEPT !.fitness = fit, !.pool[d] = pool, !.tried[d] = ran,
     !.active[d] = active, !.left[d] = left, !.status[d] = status]

WrittenAs(f, e, d, fit, pool, ran, active, left, status) ==
  /\ f \in Engine /\ f.fitness = fit
  /\ f.pool = [e.pool EXCEPT ![d] = pool] /\ f.tried = [e.tried EXCEPT ![d] = ran]
  /\ f.active = [e.active EXCEPT ![d] = active] /\ f.left = [e.left EXCEPT ![d] = left]
  /\ f.status = [e.status EXCEPT ![d] = status]

LEMMA DomainWritten ==
  ASSUME NEW e \in Engine, NEW d \in Domains, NEW fit \in [Genes -> Nat],
         NEW pool \in Seq(Genes), NEW ran \in Seq(Genes), NEW active \in Genes,
         NEW left \in Seq(Genes), NEW status \in {"none", "running", "success", "all_failed"},
         NEW f, f = Edited(e, d, fit, pool, ran, active, left, status)
  PROVE  WrittenAs(f, e, d, fit, pool, ran, active, left, status)
<1>1. f = [e EXCEPT !.fitness = fit, !.pool = [e.pool EXCEPT ![d] = pool],
             !.tried = [e.tried EXCEPT ![d] = ran], !.active = [e.active EXCEPT ![d] = active],
             !.left = [e.left EXCEPT ![d] = left], !.status = [e.status EXCEPT ![d] = status]]
  BY DEF Edited
<1>2. /\ [e.pool EXCEPT ![d] = pool] \in [Domains -> Seq(Genes)]
      /\ [e.tried EXCEPT ![d] = ran] \in [Domains -> Seq(Genes)]
      /\ [e.active EXCEPT ![d] = active] \in [Domains -> Genes]
      /\ [e.left EXCEPT ![d] = left] \in [Domains -> Seq(Genes)]
      /\ [e.status EXCEPT ![d] = status] \in [Domains -> {"none", "running", "success", "all_failed"}]
  BY DEF Engine
<1>3. /\ f.fitness = fit
      /\ f.pool = [e.pool EXCEPT ![d] = pool] /\ f.tried = [e.tried EXCEPT ![d] = ran]
      /\ f.active = [e.active EXCEPT ![d] = active] /\ f.left = [e.left EXCEPT ![d] = left]
      /\ f.status = [e.status EXCEPT ![d] = status]
  BY <1>1 DEF Engine
<1>4. f \in Engine
  BY <1>1, <1>2 DEF Engine
<1>5. QED
  BY <1>3, <1>4 DEF WrittenAs

\* A success, the first failure and a later one; a failure is the domain's when no
\* gene is left.
Outcome(e, f, d) ==
  \/ f.status[d] = "success" /\ f.active[d] = Picked(e, d) /\ f.pool[d] = e.pool[d]
  \/ /\ e.tried[d] = <<>>
     /\ f.pool[d] = Ranked(e.pool[d], f.fitness)
     /\ f.left[d] = Candidates(f.pool[d], Picked(e, d))
     /\ f.status[d] = IF f.left[d] = <<>> THEN "all_failed" ELSE "running"
  \/ /\ e.tried[d] # <<>>
     /\ f.pool[d] = e.pool[d]
     /\ f.left[d] = Tail(e.left[d])
     /\ f.status[d] = IF f.left[d] = <<>> THEN "all_failed" ELSE "running"

\* What one answer does to the engine, part by part.
LEMMA AnswerParts ==
  ASSUME PoolInv, NEW p \in Runners, NEW d \in Domains, Answer(p, d),
         NEW e, e = engine[p]
  PROVE  LET g == Picked(e, d)
             f == engine'[p]
         IN  /\ e \in Engine /\ e.status[d] = "running" /\ g \in GenesOf(d)
             /\ g \notin Run(e.tried[d]) /\ e.tried[d] \in Seq(GenesOf(d))
             /\ f \in Engine /\ engine' = [engine EXCEPT ![p] = f] /\ file' = file
             /\ \A h \in Genes \ {g} : f.fitness[h] = e.fitness[h]
             /\ f.tried = [e.tried EXCEPT ![d] = Append(@, g)]
             /\ \A c \in Domains \ {d} : /\ f.pool[c] = e.pool[c] /\ f.active[c] = e.active[c]
                                         /\ f.left[c] = e.left[c] /\ f.status[c] = e.status[c]
             /\ Outcome(e, f, d)
<1> DEFINE g == Picked(e, d)
           first == e.tried[d] = <<>>
           ok == Succeeds(p, g)
           fit == [e.fitness EXCEPT ![g] = IF ok THEN Rewarded(@) ELSE Penalized(@)]
           ranked == IF first /\ ~ok THEN Ranked(e.pool[d], fit) ELSE e.pool[d]
           others == IF first THEN Candidates(ranked, g) ELSE Tail(e.left[d])
           active == IF ok THEN g ELSE e.active[d]
           left == IF ok THEN <<>> ELSE others
           status == IF ok THEN "success" ELSE IF others = <<>> THEN "all_failed" ELSE e.status[d]
           f == Edited(e, d, fit, ranked, Append(e.tried[d], g), active, left, status)
<1>1. engine' = [engine EXCEPT ![p] = f] /\ file' = file /\ e.status[d] = "running"
  BY DEF Answer, Picked, Edited
<1>2. e \in Engine /\ Sound(e, d) /\ engine \in [Runners -> Engine]
  BY DEF PoolInv, PoolTypes
<1>3. GenesOf(d) \subseteq Genes
  BY PoolsAreWhole
<1>4. /\ g \in GenesOf(d) /\ g \notin Run(e.tried[d]) /\ e.tried[d] \in Seq(GenesOf(d))
      /\ ~first => e.left[d] \in Seq(GenesOf(d)) \ {<<>>} /\ Distinct(e.left[d])
                   /\ Descends(e.left[d], e.fitness)
  <2>1. CASE first
    BY <1>1, <1>2, <2>1 DEF Sound, Picked, Run
  <2>2. CASE ~first
    <3>1. /\ e.left[d] \in Seq(GenesOf(d)) \ {<<>>} /\ Distinct(e.left[d])
          /\ Descends(e.left[d], e.fitness) /\ Run(e.left[d]) = GenesOf(d) \ Run(e.tried[d])
      BY <1>1, <1>2, <2>2 DEF Sound
    <3>2. e.left[d][1] \in Run(e.left[d])
      BY <3>1, TailIsTheRest
    <3>3. QED
      BY <1>2, <2>2, <3>1, <3>2 DEF Picked, Sound
  <2>3. QED
    BY <2>1, <2>2
<1> HIDE DEF g, ok
<1>5. fit \in [Genes -> Nat] /\ \A h \in Genes \ {g} : fit[h] = e.fitness[h]
  <2>1. \A n \in Nat : Rewarded(n) \in Nat /\ Penalized(n) \in Nat
    BY PoolAssumption DEF Rewarded, Penalized
  <2>2. QED
    BY <1>2, <1>3, <1>4, <2>1 DEF Engine
<1> HIDE DEF fit
<1>6. ranked \in Seq(GenesOf(d)) /\ Whole(ranked, d) /\ (first => others \in Seq(GenesOf(d)))
  <2>1. Whole(e.pool[d], d)
    BY <1>2 DEF Sound
  <2>2. \A h \in GenesOf(d) : fit[h] \in Nat
    BY <1>3, <1>5
  <2>3. Whole(ranked, d)
    BY <2>1, <2>2, RankedIsSorted
  <2>4. first => others \in Seq(GenesOf(d))
    <3> DEFINE flat == [h \in GenesOf(d) |-> 0]
    <3>1. Descends(ranked, flat)
      BY <2>3 DEF Descends, Whole
    <3>2. Candidates(ranked, g) \in Seq(GenesOf(d))
      <4> HIDE DEF ranked, flat
      <4> QED  BY <1>4, <2>3, <3>1, CandidatesAreTheRest
    <3>3. QED
      BY <3>2
  <2>5. QED
    BY <2>3, <2>4 DEF Whole
<1>7. others \in Seq(GenesOf(d))
  BY <1>4, <1>6, TailIsTheRest
<1> HIDE DEF ranked, others
<1>8. \A s : s \in Seq(GenesOf(d)) => s \in Seq(Genes)
  BY <1>3
<1>9. Append(e.tried[d], g) \in Seq(GenesOf(d))
  BY <1>4
<1>10. /\ ranked \in Seq(Genes) /\ others \in Seq(Genes) /\ <<>> \in Seq(Genes)
       /\ Append(e.tried[d], g) \in Seq(Genes) /\ g \in Genes
  BY <1>3, <1>4, <1>6, <1>7, <1>8, <1>9
<1>11. e.tried[d] \in Seq(Genes) /\ e.active[d] \in Genes /\ e.status[d] = "running"
  BY <1>1, <1>2 DEF Engine
<1>12. /\ f \in Engine /\ f.fitness = fit /\ f.pool = [e.pool EXCEPT ![d] = ranked]
       /\ f.tried = [e.tried EXCEPT ![d] = Append(e.tried[d], g)]
       /\ f.active = [e.active EXCEPT ![d] = active] /\ f.left = [e.left EXCEPT ![d] = left]
       /\ f.status = [e.status EXCEPT ![d] = status]
  <2>1. /\ active \in Genes /\ left \in Seq(Genes)
        /\ status \in {"none", "running", "success", "all_failed"}
    BY <1>10, <1>11
  <2> DEFINE ran == Append(e.tried[d], g)
  <2>2. e \in Engine /\ fit \in [Genes -> Nat] /\ ranked \in Seq(Genes) /\ ran \in Seq(Genes)
    BY <1>2, <1>5, <1>10
  <2> HIDE DEF active, left, status, ran
  <2>3. /\ f = Edited(e, d, fit, ranked, ran, active, left, status)
    BY DEF ran
  <2> HIDE DEF f
  <2>4. WrittenAs(f, e, d, fit, ranked, ran, active, left, status)
    BY <2>1, <2>2, <2>3, DomainWritten
  <2>5. QED
    BY <2>4 DEF WrittenAs, ran
<1>13. engine'[p] = f
  <2> HIDE DEF f
  <2> QED  BY <1>1, <1>2
<1>14. /\ \A c \in Domains \ {d} : /\ f.pool[c] = e.pool[c] /\ f.active[c] = e.active[c]
                                   /\ f.left[c] = e.left[c] /\ f.status[c] = e.status[c]
       /\ f.fitness = fit /\ f.tried = [e.tried EXCEPT ![d] = Append(@, g)]
       /\ f.pool[d] = ranked
       /\ f.active[d] = active /\ f.left[d] = left /\ f.status[d] = status
  <2> HIDE DEF f, active, left, status
  <2> QED  BY <1>2, <1>12 DEF Engine
<1> HIDE DEF f
<1>15. Outcome(e, f, d)
  <2>1. CASE ok
    BY <1>14, <2>1 DEF ranked, active, status, Outcome, g
  <2>2. CASE ~ok /\ first
    BY <1>1, <1>14, <1>11, <2>2 DEF ranked, others, left, status, Outcome, g
  <2>3. CASE ~ok /\ ~first
    BY <1>1, <1>14, <1>11, <2>3 DEF ranked, others, left, status, Outcome, g
  <2>4. QED
    BY <2>1, <2>2, <2>3
<1>16. /\ e \in Engine /\ e.status[d] = "running" /\ g \in GenesOf(d)
       /\ g \notin Run(e.tried[d]) /\ e.tried[d] \in Seq(GenesOf(d))
       /\ f \in Engine /\ engine' = [engine EXCEPT ![p] = f] /\ file' = file
       /\ \A h \in Genes \ {g} : f.fitness[h] = e.fitness[h]
  BY <1>1, <1>2, <1>4, <1>5, <1>12, <1>14
<1>17. QED
  BY <1>13, <1>14, <1>15, <1>16, Zenon DEF g

\* The domain that answered stands where Sound says, and so does every other.
LEMMA AnswerSound ==
  ASSUME PoolInv, NEW p \in Runners, NEW d \in Domains, Answer(p, d)
  PROVE  PoolInv'
<1> DEFINE e == engine[p]
           f == engine'[p]
           g == Picked(e, d)
<1>1. /\ e \in Engine /\ e.status[d] = "running" /\ g \in GenesOf(d)
      /\ g \notin Run(e.tried[d]) /\ e.tried[d] \in Seq(GenesOf(d))
      /\ f \in Engine /\ engine' = [engine EXCEPT ![p] = f] /\ file' = file
      /\ \A h \in Genes \ {g} : f.fitness[h] = e.fitness[h]
      /\ f.tried = [e.tried EXCEPT ![d] = Append(@, g)]
      /\ \A c \in Domains \ {d} : /\ f.pool[c] = e.pool[c] /\ f.active[c] = e.active[c]
                                  /\ f.left[c] = e.left[c] /\ f.status[c] = e.status[c]
  BY AnswerParts
<1>2. Outcome(e, f, d)
  BY AnswerParts
<1>3. \A c \in Domains : Sound(e, c) /\ GenesOf(c) \subseteq Genes
  BY PoolsAreWhole DEF PoolInv
<1>4. file \in File
  BY DEF PoolInv, PoolTypes
<1> DEFINE ran == Append(e.tried[d], g)
<1>5. /\ ran \in Seq(GenesOf(d)) \ {<<>>} /\ Distinct(ran)
      /\ Run(ran) = Run(e.tried[d]) \cup {g} /\ ran[Len(ran)] = g
  BY <1>1, <1>3, OneMoreRun DEF Sound
<1>6. /\ f.tried[d] = ran /\ \A c \in Domains \ {d} : f.tried[c] = e.tried[c]
      /\ \A h \in Genes : f.fitness[h] \in Nat
  BY <1>1 DEF Engine
<1> HIDE DEF e, f, g, ran
<1>7. ASSUME NEW c \in Domains \ {d} PROVE Sound(f, c)
  <2>1. \A h \in GenesOf(c) : f.fitness[h] = e.fitness[h]
    BY <1>1, <1>3, PoolAssumption
  <2>2. Sound(e, c)
    BY <1>3
  <2>3. \A s \in Seq(GenesOf(c)) : Descends(s, e.fitness) => Descends(s, f.fitness)
    <3>1. \A s \in Seq(GenesOf(c)) : \A i \in DOMAIN s : f.fitness[s[i]] = e.fitness[s[i]]
      BY <2>1
    <3>2. QED
      BY <3>1 DEF Descends
  <2>4. /\ f.pool[c] = e.pool[c] /\ f.active[c] = e.active[c] /\ f.left[c] = e.left[c]
        /\ f.status[c] = e.status[c] /\ f.tried[c] = e.tried[c]
    BY <1>1, <1>6
  <2>5. QED
    BY <2>1, <2>2, <2>3, <2>4 DEF Sound
<1>8. Sound(f, d)
  <2>1. Whole(e.pool[d], d) /\ \A h \in GenesOf(d) : f.fitness[h] \in Nat
    BY <1>3, <1>6 DEF Sound
  <2>2. CASE f.status[d] = "success" /\ f.active[d] = g /\ f.pool[d] = e.pool[d]
    BY <1>5, <1>6, <2>1, <2>2 DEF Sound
  <2>3. ASSUME f.status[d] = IF f.left[d] = <<>> THEN "all_failed" ELSE "running",
               f.left[d] \in Seq(GenesOf(d)), Distinct(f.left[d]),
               Run(f.left[d]) = GenesOf(d) \ Run(ran), Descends(f.left[d], f.fitness),
               Whole(f.pool[d], d)
        PROVE  Sound(f, d)
    <3>1. f.left[d] = <<>> => Run(ran) = GenesOf(d)
      <4>1. f.left[d] = <<>> => Run(f.left[d]) = {}
        BY DEF Run
      <4>2. Run(ran) \subseteq GenesOf(d)
        BY <1>5 DEF Run
      <4>3. QED
        BY <2>3, <4>1, <4>2
    <3>2. QED
      BY <1>5, <1>6, <2>3, <3>1 DEF Sound
  <2>4. CASE /\ e.tried[d] = <<>>
             /\ f.pool[d] = Ranked(e.pool[d], f.fitness)
             /\ f.left[d] = Candidates(f.pool[d], g)
             /\ f.status[d] = IF f.left[d] = <<>> THEN "all_failed" ELSE "running"
    <3>1. Whole(f.pool[d], d) /\ Descends(f.pool[d], f.fitness)
      BY <2>1, <2>4, RankedIsSorted
    <3>2. /\ f.left[d] \in Seq(GenesOf(d)) /\ Distinct(f.left[d])
          /\ Run(f.left[d]) = GenesOf(d) \ {g} /\ Descends(f.left[d], f.fitness)
      BY <1>1, <2>4, <3>1, CandidatesAreTheRest
    <3>3. Run(ran) = {g}
      <4>1. Run(<<>>) = {}
        BY DEF Run
      <4>2. QED
        BY <1>5, <2>4, <4>1
    <3>4. QED
      BY <2>3, <2>4, <3>1, <3>2, <3>3
  <2>5. CASE /\ e.tried[d] # <<>>
             /\ f.pool[d] = e.pool[d]
             /\ f.left[d] = Tail(e.left[d])
             /\ f.status[d] = IF f.left[d] = <<>> THEN "all_failed" ELSE "running"
    <3>1. /\ e.left[d] \in Seq(GenesOf(d)) /\ e.left[d] # <<>> /\ Distinct(e.left[d])
          /\ Run(e.left[d]) = GenesOf(d) \ Run(e.tried[d]) /\ Descends(e.left[d], e.fitness)
      BY <1>1, <1>3, <2>5 DEF Sound
    <3>2. /\ f.left[d] \in Seq(GenesOf(d)) /\ Distinct(f.left[d])
          /\ Run(f.left[d]) = Run(e.left[d]) \ {e.left[d][1]} /\ Descends(f.left[d], e.fitness)
      BY <2>5, <3>1, TailIsTheRest
    <3>3. g = e.left[d][1]
      BY <2>5 DEF g, Picked
    <3>4. Run(f.left[d]) = GenesOf(d) \ Run(ran)
      BY <1>5, <3>1, <3>2, <3>3
    <3>5. \A i \in DOMAIN f.left[d] : f.fitness[f.left[d][i]] = e.fitness[f.left[d][i]]
      <4>1. \A i \in DOMAIN f.left[d] : f.left[d][i] \in GenesOf(d) /\ f.left[d][i] # g
        BY <1>5, <3>2, <3>4 DEF Run
      <4>2. QED
        BY <1>1, <1>3, <4>1
    <3>6. Descends(f.left[d], f.fitness)
      BY <3>2, <3>5 DEF Descends
    <3>7. QED
      BY <2>1, <2>3, <2>5, <3>2, <3>4, <3>6
  <2>6. QED
    BY <1>2, <2>2, <2>4, <2>5 DEF Outcome, g
<1>9. \A c \in Domains : Sound(f, c)
  BY <1>7, <1>8
<1>10. QED
  BY <1>1, <1>4, <1>9, OneEngine

LEMMA PoolStep == ASSUME PoolInv, [TryNext]_tryVars PROVE PoolInv'
<1>1. ASSUME NEW p \in Runners, Start(p) PROVE PoolInv'
  BY <1>1, StartSound
<1>2. ASSUME NEW p \in Runners, NEW d \in Domains, Answer(p, d) PROVE PoolInv'
  BY <1>2, AnswerSound
<1>3. ASSUME NEW p \in Runners, Truncate(p) \/ Save(p) \/ Kill(p) PROVE PoolInv'
  BY <1>3, EndSound
<1>4. CASE Turn \/ Edit \/ UNCHANGED tryVars
  <2>1. engine' = engine /\ file' = file
    BY <1>4 DEF Turn, Edit, tryVars
  <2>2. QED
    BY <2>1 DEF PoolInv, PoolTypes, Sound
<1>5. QED
  BY <1>1, <1>2, <1>3, <1>4 DEF TryNext

LEMMA RunsAreSound == TrySpec => []PoolInv
<1>1. TryInit => PoolInv
  BY FreshIsSound
<1>2. PoolInv /\ [TryNext]_tryVars => PoolInv'
  BY PoolStep
<1>3. QED
  BY <1>1, <1>2, PTL DEF TrySpec

-----------------------------------------------------------------------------
\* A domain fails only when each of its genes has been run, once, and succeeds with
\* the last one run (executeDomain in domain-failover.ts), however many processes
\* and domains run side by side.
THEOREM DomainsFailLast == TrySpec => []FailsOnlyWhenAllFailed
<1>1. PoolInv => FailsOnlyWhenAllFailed
  BY DEF PoolInv, Sound, Distinct, FailsOnlyWhenAllFailed
<1>2. QED
  BY <1>1, RunsAreSound, PTL

\* Each gene a domain tries is one of the best of those it has not tried, by the
\* fitness its process knows (getByDomain and executeDomain).
THEOREM BestComesFirst == TrySpec => BestFirst
<1>1. ASSUME PoolInv, [TryNext]_tryVars, NEW p \in Runners, NEW d \in Domains,
             engine'[p].tried[d] # engine[p].tried[d], engine'[p].tried[d] # <<>>,
             NEW h \in GenesOf(d) \ Run(engine'[p].tried[d])
      PROVE  engine[p].fitness[h] <=
               engine[p].fitness[engine'[p].tried[d][Len(engine'[p].tried[d])]]
  <2> DEFINE e == engine[p]
             f == engine'[p]
             g == Picked(e, d)
  <2>1. Answer(p, d)
    <3>1. CASE UNCHANGED engine
      BY <1>1, <3>1
    <3>2. ASSUME NEW q \in Runners, Start(q) PROVE FALSE
      <4>1. PICK k : engine' = [engine EXCEPT ![q] = k] /\ \A c \in Domains : k.tried[c] = <<>>
        BY <1>1, <3>1, <3>2, StartSound
      <4>2. QED
        BY <1>1, <4>1 DEF PoolInv, PoolTypes
    <3>3. ASSUME NEW q \in Runners, Truncate(q) \/ Save(q) \/ Kill(q) PROVE FALSE
      <4>1. engine' = [engine EXCEPT ![q] = Nothing] /\ Nothing.tried[d] = <<>>
        BY <1>1, <3>1, <3>3, EndSound DEF Nothing
      <4>2. QED
        BY <1>1, <4>1 DEF PoolInv, PoolTypes
    <3>4. ASSUME NEW q \in Runners, NEW c \in Domains, Answer(q, c), <<q, c>> # <<p, d>> PROVE FALSE
      <4>1. /\ engine' = [engine EXCEPT ![q] = engine'[q]]
            /\ engine'[q].tried = [engine[q].tried EXCEPT ![c] = Append(@, Picked(engine[q], c))]
        BY <1>1, <3>4, AnswerParts
      <4>2. engine \in [Runners -> Engine]
        BY <1>1 DEF PoolInv, PoolTypes
      <4>3. CASE q # p
        BY <1>1, <4>2, <4>1, <4>3
      <4>4. CASE q = p
        BY <1>1, <3>4, <4>2, <4>1, <4>4 DEF Engine
      <4>5. QED
        BY <4>3, <4>4
    <3>5. CASE Turn \/ Edit \/ UNCHANGED tryVars
      BY <3>1, <3>5 DEF Turn, Edit, tryVars
    <3>6. QED
      BY <1>1, <3>2, <3>3, <3>4, <3>5 DEF TryNext
  <2>2. /\ e \in Engine /\ e.status[d] = "running" /\ g \in GenesOf(d)
        /\ g \notin Run(e.tried[d]) /\ e.tried[d] \in Seq(GenesOf(d))
        /\ f.tried = [e.tried EXCEPT ![d] = Append(@, g)]
    BY <1>1, <2>1, AnswerParts
  <2>3. Sound(e, d)
    BY <1>1 DEF PoolInv
  <2> HIDE DEF e, f, g
  <2>4. f.tried[d] = Append(e.tried[d], g)
    BY <2>2 DEF Engine
  <2>5. f.tried[d][Len(f.tried[d])] = g /\ Run(f.tried[d]) = Run(e.tried[d]) \cup {g}
    BY <2>2, <2>3, <2>4, OneMoreRun DEF Sound
  <2>6. h \in GenesOf(d) /\ h \notin Run(e.tried[d])
    BY <1>1, <2>5 DEF f
  <2>7. e.fitness[h] <= e.fitness[g]
    <3>1. CASE e.tried[d] = <<>>
      BY <2>2, <2>3, <2>6, <3>1 DEF Sound, g, Picked
    <3>2. CASE e.tried[d] # <<>>
      <4>1. /\ e.left[d] \in Seq(GenesOf(d)) /\ e.left[d] # <<>> /\ Distinct(e.left[d])
            /\ Run(e.left[d]) = GenesOf(d) \ Run(e.tried[d]) /\ Descends(e.left[d], e.fitness)
        BY <2>2, <2>3, <3>2 DEF Sound
      <4>2. h \in Run(e.left[d])
        BY <2>6, <4>1
      <4>3. e.fitness[h] <= e.fitness[e.left[d][1]]
        BY <4>1, <4>2, TailIsTheRest
      <4>4. QED
        BY <3>2, <4>3 DEF g, Picked
    <3>3. QED
      BY <3>1, <3>2
  <2>8. QED
    BY <2>5, <2>7 DEF e, f
<1>2. PoolInv /\ [TryNext]_tryVars =>
        \A p \in Runners, d \in Domains :
          LET ran == engine'[p].tried[d]
          IN  ran # engine[p].tried[d] /\ ran # <<>> =>
                \A h \in GenesOf(d) \ Run(ran) :
                  engine[p].fitness[h] <= engine[p].fitness[ran[Len(ran)]]
  BY <1>1
<1>3. QED
  BY <1>2, RunsAreSound, PTL DEF TrySpec, BestFirst
=============================================================================
