---------------------------- MODULE GeneSnapshots ----------------------------
(***************************************************************************)
(* One gene's directory and the snapshot an overwrite or an uninstall      *)
(* leaves of it (src/utils/gene-snapshots.ts, with the installs, rollbacks *)
(* and uninstalls of commands/install.ts and rollback.ts that call it). A  *)
(* step is one system call: a process may die between two of them, and the *)
(* processes of a project (terminals, the MCP server) have no lock. Genes  *)
(* share no file, so one is enough.                                        *)
(***************************************************************************)
EXTENDS Integers

CONSTANTS Procs, Versions,   \* the versions the Registry has
          MaxCommands, MaxCrashes   \* bounds of the model

ASSUME SnapshotAssumption == Versions \subseteq Nat \ {0}

None == 0     \* a file that is not there, a version nothing names
Local == -1   \* a file written in the project
Files == {"phenotype", "wasm", "manifest"}
Dir == {d \in [Files -> Versions \cup {None, Local}] : d["manifest"] # Local}
Absent == [f \in {} |-> None]
Empty == [f \in Files |-> None]

\* A gene written in the project: it has no .cloud-manifest.json.
Authored == [f \in Files |-> IF f = "manifest" THEN None ELSE Local]

VARIABLES
  gene,      \* what geneDir holds
  snap,      \* what .snapshots/<name> holds
  side,      \* the version its sidecar names; a corrupt sidecar names none
  at, doing, ver,   \* of each process: its next step, its command, the version it installs
  read,      \* of each process: the replacedVersion it has read
  old,       \* history, of each process: what its last command found and must keep
  commands, crashes

vars == <<gene, snap, side, at, doing, ver, read, old, commands, crashes>>
rest == <<doing, ver, read, old, commands, crashes>>

Steps == {"idle", "check", "clear", "rename", "sidecar", "mkdir", "phenotype", "download",
          "manifest", "discard", "restore", "forget"}

-----------------------------------------------------------------------------
\* A recursive removal under way.
Torn(d) == {e \in Dir : e # d /\ \A f \in Files : e[f] \in {d[f], None}}

\* rename(2) of a directory.
Renames(from, to) == from # Absent /\ to \in {Absent, Empty}

\* readVersion: an authored gene has no manifest to name one.
VersionOf(d) == d["manifest"]

Goto(p, step) == at' = [at EXCEPT ![p] = step]

-----------------------------------------------------------------------------
Init ==
  /\ gene \in {Absent, Authored}
  /\ snap = Absent
  /\ side = None
  /\ at = [p \in Procs |-> "idle"]
  /\ doing = [p \in Procs |-> "install"]
  /\ ver \in [Procs -> Versions]
  /\ read = [p \in Procs |-> None]
  /\ old = [p \in Procs |-> Absent]
  /\ commands = 0 /\ crashes = 0

\* What a command finds and must keep; it takes over from the commands that ended.
Kept(what) == IF what = "rollback" \/ gene = Absent THEN snap ELSE gene

Begin(p, what, step) ==
  /\ at[p] = "idle" /\ commands < MaxCommands
  /\ Goto(p, step)
  /\ doing' = [doing EXCEPT ![p] = what]
  /\ old' = [q \in Procs |-> IF q = p THEN Kept(what)
                              ELSE IF at[q] = "idle" THEN Absent ELSE old[q]]
  /\ commands' = commands + 1
  /\ UNCHANGED <<gene, snap, side, read, crashes>>

\* Mutant: a forced install writes over the files in place.
BugFirstStep == "mkdir"

\* Where a forced install starts.
FirstStep == IF gene = Absent THEN "mkdir" ELSE "check"

\* The row of the Registry is fetched before anything is looked at.
Install(p) ==
  \E v \in Versions, force \in BOOLEAN :
    /\ gene = Absent \/ force
    /\ ver' = [ver EXCEPT ![p] = v]
    /\ Begin(p, "install", FirstStep)

Uninstall(p) ==
  /\ gene # Absent
  /\ Begin(p, "uninstall", "check")
  /\ UNCHANGED ver

Rollback(p) ==
  /\ snap # Absent
  /\ Begin(p, "rollback", "discard")
  /\ UNCHANGED ver

-----------------------------------------------------------------------------
\* snapshotGene.
AfterSnapshot(p) == IF doing[p] = "install" THEN "mkdir" ELSE "idle"

Check(p) ==
  /\ at[p] = "check"
  /\ Goto(p, IF gene = Absent THEN AfterSnapshot(p) ELSE "clear")
  /\ UNCHANGED <<gene, snap, side, rest>>

Clear(p) ==
  /\ at[p] = "clear"
  /\ \/ snap' = Absent /\ Goto(p, "rename")
     \/ snap # Absent /\ snap' \in Torn(snap) /\ UNCHANGED at
  /\ UNCHANGED <<gene, side, rest>>

\* A rename that cannot be done throws, and the command ends.
MoveAside(p) ==
  /\ at[p] = "rename"
  /\ IF Renames(gene, snap)
       THEN /\ snap' = gene /\ gene' = Absent
            /\ read' = [read EXCEPT ![p] = VersionOf(gene)]
            /\ Goto(p, "sidecar")
       ELSE Goto(p, "idle") /\ UNCHANGED <<gene, snap, read>>
  /\ UNCHANGED <<side, doing, ver, old, commands, crashes>>

\* Mutant: a sidecar that is there is kept.
BugSidecarOf(v) == IF side = None THEN v ELSE side

\* The sidecar is overwritten.
SidecarOf(v) == v

WriteSidecar(p) ==
  /\ at[p] = "sidecar"
  /\ side' = SidecarOf(read[p])
  /\ Goto(p, AfterSnapshot(p))
  /\ UNCHANGED <<gene, snap, rest>>

-----------------------------------------------------------------------------
\* installGeneFromCloud, once the old copy is aside.
Mkdir(p) ==
  /\ at[p] = "mkdir"
  /\ gene' = IF gene = Absent THEN Empty ELSE gene
  /\ Goto(p, "phenotype")
  /\ UNCHANGED <<snap, side, rest>>

\* A file cannot be written to a directory that is gone: the command ends.
WriteFile(p, file, next) ==
  /\ IF gene = Absent
       THEN Goto(p, "idle") /\ UNCHANGED gene
       ELSE gene' = [gene EXCEPT ![file] = ver[p]] /\ Goto(p, next)
  /\ UNCHANGED <<snap, side, rest>>

WritePhenotype(p) ==
  /\ at[p] = "phenotype"
  /\ WriteFile(p, "phenotype", "download")

\* The WASM arrives, there is none, or its download or its hash fails: then the
\* directory stays as it is.
Download(p) ==
  /\ at[p] = "download"
  /\ \/ WriteFile(p, "wasm", "manifest")
     \/ /\ \E next \in {"manifest", "idle"} : Goto(p, next)
        /\ UNCHANGED <<gene, snap, side, rest>>

WriteManifest(p) ==
  /\ at[p] = "manifest"
  /\ WriteFile(p, "manifest", "idle")

-----------------------------------------------------------------------------
\* restoreGene.
Discard(p) ==
  /\ at[p] = "discard"
  /\ \/ gene' = Absent /\ Goto(p, "restore")
     \/ gene # Absent /\ gene' \in Torn(gene) /\ UNCHANGED at
  /\ UNCHANGED <<snap, side, rest>>

\* Mutant: the snapshot is copied and stays.
BugConsumed == snap

\* What the rename leaves of the snapshot.
Consumed == Absent

Restore(p) ==
  /\ at[p] = "restore"
  /\ IF Renames(snap, gene)
       THEN gene' = snap /\ snap' = Consumed /\ Goto(p, "forget")
       ELSE Goto(p, "idle") /\ UNCHANGED <<gene, snap>>
  /\ UNCHANGED <<side, rest>>

ForgetSidecar(p) ==
  /\ at[p] = "forget"
  /\ side' = None
  /\ Goto(p, "idle")
  /\ UNCHANGED <<gene, snap, rest>>

-----------------------------------------------------------------------------
\* The process dies; a sidecar may be cut in the middle.
Crash(p) ==
  /\ at[p] # "idle" /\ crashes < MaxCrashes
  /\ Goto(p, "idle")
  /\ side' \in IF at[p] = "sidecar" THEN {side, None} ELSE {side}
  /\ crashes' = crashes + 1
  /\ UNCHANGED <<gene, snap, doing, ver, read, old, commands>>

\* The user writes the gene anew.
Author ==
  /\ gene = Absent
  /\ \A p \in Procs : at[p] = "idle"
  /\ gene' = Authored
  /\ UNCHANGED <<snap, side, at, rest>>

Next ==
  \/ \E p \in Procs :
       \/ Install(p) \/ Uninstall(p) \/ Rollback(p)
       \/ Check(p) \/ Clear(p) \/ MoveAside(p) \/ WriteSidecar(p)
       \/ Mkdir(p) \/ WritePhenotype(p) \/ Download(p) \/ WriteManifest(p)
       \/ Discard(p) \/ Restore(p) \/ ForgetSidecar(p)
       \/ Crash(p)
  \/ Author

Spec == Init /\ [][Next]_vars

-----------------------------------------------------------------------------
TypeOK ==
  /\ gene \in Dir \cup {Absent} /\ snap \in Dir \cup {Absent}
  /\ old \in [Procs -> Dir \cup {Absent}]
  /\ side \in Versions \cup {None}
  /\ at \in [Procs -> Steps]
  /\ doing \in [Procs -> {"install", "uninstall", "rollback"}]
  /\ ver \in [Procs -> Versions]
  /\ read \in [Procs -> Versions \cup {None}]
  /\ commands \in Nat /\ crashes \in Nat

\* The commands of the project's processes do not overlap in time (no lock of the
\* code sees to it; it is what the properties below suppose).
Serial == \A p, q \in Procs : at[p] # "idle" /\ at[q] # "idle" => p = q

\* Wherever a command stops, by a failed download, a failed check or its death,
\* the copy it found (for a rollback: the snapshot) is still there whole, as the
\* gene or as its snapshot ("Move the old copy aside before writing over it",
\* install.ts; "keeping a snapshot so the removal is undoable too",
\* gene-snapshots.ts).
OldCopySurvives == \A p \in Procs : old[p] # Absent => old[p] \in {gene, snap}

\* Every file of d is of version v.
Holds(d, v) == \A f \in Files : d[f] \in {None, v}

\* A gene holds the files of one version: an install writes over no file of
\* another copy ("Move the old copy aside before writing over it", install.ts).
NothingIsMixed == gene # Absent => \E v \in Versions \cup {Local} : Holds(gene, v)

\* Between commands, as long as none died, there is a sidecar only with its
\* snapshot, and it names the version of that copy (snapshotGene, restoreGene).
SidecarNamesTheCopy ==
  crashes = 0 /\ (\A p \in Procs : at[p] = "idle") =>
    \/ snap = Absent /\ side = None
    \/ snap # Absent /\ side = VersionOf(snap)

=============================================================================
