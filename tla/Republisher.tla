---------------------------- MODULE Republisher -----------------------------
(***************************************************************************)
(* The daemon's republish table (announce-table.ts) with what it drives:   *)
(* the native announce and republish tasks (rotifer-napi), and this node's *)
(* own DHT entries (node.rs: PutRecordTo, StartProviding, Withdraw).       *)
(*                                                                         *)
(* Three threads of control interleave. JavaScript runs one callback at a  *)
(* time: a control request, a timer, or the settling of a task. Tasks run  *)
(* on worker threads, one node command after another. The event loop takes *)
(* the commands in the order they arrive. `rotifer network withdraw` is a   *)
(* process of its own, which rewrites the file itself when it finds no      *)
(* daemon. The daemon may die at any time;                                 *)
(* the file is replaced by a rename, so it is either the old or the new.   *)
(*                                                                         *)
(* Timers fire at any moment (12 h and the jitter are not modelled), and   *)
(* the 24 h a record lives are GeneRecords' affair.                        *)
(***************************************************************************)
EXTENDS Integers, FiniteSets

CONSTANTS
    Files,     \* where a gene's files are: (genesRoot, name)
    NameOf(_), \* the name of such a place; two roots may hold one name
    Genes,     \* v2 gene IDs
    Gone,      \* what files that compute no gene ID compute
    Tasks,     \* bound: native tasks in flight at once
    Copies,    \* bound: entry objects with the same fields alive at once
    None,      \* no task, or no withdraw pending in the CLI
    MaxEdits, MaxFaults, MaxCrashes  \* bounds on the environment

ASSUME RepublisherAssumption ==
    /\ Gone \notin Genes
    /\ Copies \in Nat \ {0}
    /\ MaxEdits \in Nat /\ MaxFaults \in Nat /\ MaxCrashes \in Nat

VARIABLES
    computes,   \* the gene ID each place's files compute now
    disk,       \* announced.json
    up,         \* the daemon runs
    listening,  \* its control server answers, and its state file says where
    cli,        \* the CLI's withdraw that found no daemon: what it has read of
                \* the file and will write back, and what it will leave out
    entries,    \* Republisher.entries, objects told apart by `copy`
    timers,     \* Republisher.timers: the entries with a timer in the map
    orphans,    \* armed timers the map has lost, per entry
    restoring,  \* the restore wait is pending
    tasks,      \* the native tasks in flight
    record,     \* genes whose own record the node's store holds
    providing,  \* genes the node provides
    edits, faults, crashes,
    withdrawn,  \* history: withdrawn by the user, and no announce finished since
    leftover,   \* history: a failed announce, or a node call that threw, may
                \* have left these served
    crossed     \* history: the CLI has written over a daemon's table

table == <<entries, timers, orphans, restoring>>
served == <<record, providing>>
bounds == <<edits, faults, crashes>>
history == <<withdrawn, leftover, crossed>>
daemon == <<up, listening>>
vars == <<computes, disk, daemon, cli, table, tasks, served, bounds, history>>

Row == [file: Files, gene: Genes]
Entry == [file: Files, gene: Genes, copy: 1 .. Copies]
RowOf(e) == [file |-> e.file, gene |-> e.gene]
Rows(S) == {RowOf(e) : e \in S}

(* A task is at the command it sends next, or is over and its callback has   *)
(* not run yet: "done", "dropped" (gone or changed) or "failed".             *)
Task ==
    [op: {"announce"}, of: Row, step: {"put", "provide", "done"}]
      \cup [op: {"republish"}, of: Entry, step: {"put", "provide", "done", "dropped", "failed"}]

ASSUME NoneAssumption == None \notin Task

TypeOK ==
    /\ computes \in [Files -> Genes \cup {Gone}]
    /\ disk \subseteq Row
    /\ up \in BOOLEAN /\ listening \in BOOLEAN
    /\ cli \in [keep: SUBSET Row, drop: SUBSET Row] \cup {None}
    /\ entries \subseteq Entry
    /\ timers \subseteq entries
    /\ orphans \in [Entry -> Nat]
    /\ restoring \in BOOLEAN
    /\ tasks \in [Tasks -> Task \cup {None}]
    /\ record \subseteq Genes /\ providing \subseteq Genes
    /\ edits \in 0 .. MaxEdits /\ faults \in 0 .. MaxFaults /\ crashes \in 0 .. MaxCrashes
    /\ withdrawn \subseteq Genes /\ leftover \subseteq Genes /\ crossed \in BOOLEAN

NoOrphans == [e \in Entry |-> 0]
NoTasks == [t \in Tasks |-> None]

Init ==
    /\ computes \in [Files -> Genes \cup {Gone}]
    /\ disk = {}
    /\ up = FALSE /\ listening = FALSE /\ cli = None
    /\ entries = {} /\ timers = {} /\ orphans = NoOrphans /\ restoring = FALSE
    /\ tasks = NoTasks
    /\ record = {} /\ providing = {}
    /\ edits = 0 /\ faults = 0 /\ crashes = 0
    /\ withdrawn = {} /\ leftover = {} /\ crossed = FALSE

-----------------------------------------------------------------------------
InFlight == {t \in Tasks : tasks[t] # None}
Idle == Tasks \ InFlight
RunsOf(e) == {t \in InFlight : tasks[t].op = "republish" /\ tasks[t].of = e}
Listed(g) == \E e \in entries : e.gene = g
GenesOf(S) == {e.gene : e \in S}

Fault == faults < MaxFaults /\ faults' = faults + 1

(* forget: the map's timer is cleared; a timer the map has lost stays armed. *)
BugForgetKeepsTimers(S) == entries' = entries \ S /\ UNCHANGED timers
BugForgetClearsAllTimers(S) == entries' = entries \ S /\ timers' = {}
Forget(S) ==
    /\ entries' = entries \ S
    /\ timers' = timers \ S

(* deps.withdraw on a set of genes: StopProviding and remove, one command.   *)
Unserve(G) ==
    /\ record' = record \ G
    /\ providing' = providing \ G

(* deps.withdraw throws: the event loop took only the commands for `took`    *)
(* (a timed-out command may still have been taken).                          *)
UnserveFails(G) == \E took \in SUBSET G :
    /\ Unserve(took)
    /\ leftover' = leftover \cup (G \ took)

Schedule(e) ==
    /\ timers' = timers \cup {e}
    /\ orphans' = [orphans EXCEPT ![e] = IF e \in timers THEN @ + 1 ELSE @]

(* writeAnnouncedTable as withdraw calls it: the table is written, or it     *)
(* throws and nothing else happens. As save calls it: or the error is logged.*)
BugWriteMayFail(S) == disk' = Rows(S) \/ UNCHANGED disk
WriteTable(S) == disk' = Rows(S)

BugSaveForgotten(S) == UNCHANGED <<disk, faults>>
Save(S) ==
    \/ disk' = Rows(S) /\ UNCHANGED faults
    \/ Fault /\ UNCHANGED disk

(* A republish starts: the task reads the files first, and sends nothing if  *)
(* they no longer compute the entry's gene.                                  *)
BugRunOnlyProvides(e) == [op |-> "republish", of |-> e,
              step |-> IF computes[e.file] = e.gene THEN "provide" ELSE "dropped"]
NewRun(e) == [op |-> "republish", of |-> e,
              step |-> IF computes[e.file] = e.gene THEN "put" ELSE "dropped"]

-----------------------------------------------------------------------------
(* The daemon starts and restores the table; a first look at the DHT peers   *)
(* and every later one are Poll. Only then does it listen.                   *)
Start ==
    /\ ~up
    /\ up' = TRUE /\ listening' = FALSE
    /\ entries' = {[file |-> r.file, gene |-> r.gene, copy |-> 1] : r \in disk}
    /\ timers' = {} /\ orphans' = NoOrphans
    /\ restoring' = (disk # {})
    /\ UNCHANGED <<computes, disk, cli, tasks, served, bounds, history>>

Listen ==
    /\ up /\ ~listening
    /\ listening' = TRUE
    /\ UNCHANGED <<computes, disk, up, cli, table, tasks, served, bounds, history>>

(* restore's poll, once a DHT peer is up or 60 s have passed: every entry of *)
(* the table at that moment is run.                                          *)
Poll ==
    /\ up /\ restoring
    /\ restoring' = FALSE
    /\ \E slot \in [entries -> Idle] :
        /\ \A e, f \in entries : slot[e] = slot[f] => e = f
        /\ tasks' = [t \in Tasks |-> IF \E e \in entries : slot[e] = t
                                     THEN NewRun(CHOOSE e \in entries : slot[e] = t)
                                     ELSE tasks[t]]
    \* run deletes the map's timer without clearing it
    /\ orphans' = [e \in Entry |-> IF e \in timers THEN orphans[e] + 1 ELSE orphans[e]]
    /\ timers' = {}
    /\ UNCHANGED <<computes, disk, daemon, cli, entries, served, bounds, history>>

(* A timer fires and run starts: the map's own timer, or one it has lost, in *)
(* which case run drops the map's without clearing it.                       *)
StartRun(e) ==
    IF e \in entries
    THEN \E t \in Idle : tasks' = [tasks EXCEPT ![t] = NewRun(e)]
    ELSE UNCHANGED tasks

TimerFires(e) ==
    /\ up
    /\ \/ /\ e \in timers
          /\ UNCHANGED orphans
       \/ /\ orphans[e] > 0
          /\ orphans' = [orphans EXCEPT ![e] = IF e \in timers THEN @ ELSE @ - 1]
    /\ timers' = timers \ {e}
    /\ StartRun(e)
    /\ UNCHANGED <<computes, disk, daemon, cli, entries, restoring, served, bounds, history>>

(* POST /announce: the task computes the gene ID from the files.             *)
Announce(f) ==
    /\ listening
    /\ computes[f] # Gone
    /\ \E t \in Idle : tasks' = [tasks EXCEPT ![t] =
            [op |-> "announce", of |-> [file |-> f, gene |-> computes[f]], step |-> "put"]]
    /\ UNCHANGED <<computes, disk, daemon, cli, table, served, bounds, history>>

-----------------------------------------------------------------------------
(* publish_record: the node's own record is put, then sent to the closest    *)
(* peers; once they answer, the node provides the gene. An announce then     *)
(* reads the record back, which changes nothing.                             *)
PutRecordTo(t) ==
    /\ tasks[t] # None /\ tasks[t].step = "put"
    /\ record' = record \cup {tasks[t].of.gene}
    /\ tasks' = [tasks EXCEPT ![t].step = "provide"]
    /\ UNCHANGED <<computes, disk, daemon, cli, table, providing, bounds, history>>

StartProviding(t) ==
    /\ tasks[t] # None /\ tasks[t].step = "provide"
    /\ providing' = providing \cup {tasks[t].of.gene}
    /\ tasks' = [tasks EXCEPT ![t].step = "done"]
    /\ UNCHANGED <<computes, disk, daemon, cli, table, record, bounds, history>>

(* A command fails or times out and the task ends there, its earlier         *)
(* commands not undone. A failed announce only answers its request.          *)
TaskFails(t) ==
    /\ tasks[t] # None
    /\ tasks[t].step \in {"put", "provide"} \/ tasks[t].op = "announce"
    /\ tasks[t].op = "republish" => tasks[t].step # "done"
    /\ Fault
    /\ IF tasks[t].op = "announce"
       THEN /\ tasks' = [tasks EXCEPT ![t] = None]
            /\ leftover' = leftover \cup {tasks[t].of.gene}
       ELSE /\ tasks' = [tasks EXCEPT ![t].step = "failed"]
            /\ UNCHANGED leftover
    /\ UNCHANGED <<computes, disk, daemon, cli, table, served, edits, crashes, withdrawn, crossed>>

-----------------------------------------------------------------------------
(* The entries that an announced row replaces.                               *)
BugReplacesFileOnly(row) == {e \in entries : e.file = row.file}
Replaced(row) == {e \in entries : e.gene = row.gene \/ e.file = row.file}

(* added: an announce has succeeded. Entries of the same gene or the same    *)
(* files give way, and what the same files were announced as before is no    *)
(* longer served. (If that node call throws, the promise's rejection is      *)
(* unhandled and the process dies: Crash.)                                   *)
Added(t) ==
    /\ tasks[t] # None /\ tasks[t].op = "announce" /\ tasks[t].step = "done"
    /\ LET row == tasks[t].of
           old == Replaced(row)
           stale == GenesOf(old) \ {row.gene}
       IN  /\ \E c \in 1 .. Copies :
                LET new == [file |-> row.file, gene |-> row.gene, copy |-> c]
                IN  /\ new \notin entries
                    /\ orphans[new] = 0 /\ RunsOf(new) = {}
                    /\ \A d \in 1 .. c - 1 :
                         LET other == [new EXCEPT !.copy = d]
                         IN  other \in entries \/ orphans[other] > 0 \/ RunsOf(other) # {}
                    /\ entries' = (entries \ old) \cup {new}
                    /\ timers' = (timers \ old) \cup {new}
           /\ Save(entries')
           /\ Unserve(stale)
           /\ withdrawn' = withdrawn \ {row.gene}
           /\ leftover' = leftover \ (stale \cup {row.gene})
    /\ tasks' = [tasks EXCEPT ![t] = None]
    /\ UNCHANGED <<computes, daemon, cli, orphans, restoring, edits, crashes, crossed>>

(* withdraw: POST /withdraw by gene ID or by name. The file is written first *)
(* (if that fails nothing changes and the request is refused), then the      *)
(* schedule is dropped, then the node stops serving, gene by gene.           *)
Matches(S, g) == {e \in S : e.gene = g}
Named(S, f) == {e \in S : NameOf(e.file) = NameOf(f)}

Withdraw(removed) ==
    /\ listening
    /\ removed # {}
    /\ WriteTable(entries \ removed)
    /\ Forget(removed)
    /\ \/ /\ Unserve(GenesOf(removed))
          /\ leftover' = leftover \ GenesOf(removed)
          /\ UNCHANGED faults
       \/ UnserveFails(GenesOf(removed)) /\ Fault
    /\ withdrawn' = withdrawn \cup GenesOf(removed)
    /\ UNCHANGED <<computes, daemon, cli, orphans, restoring, tasks, edits, crashes, crossed>>

(* `rotifer network withdraw` with no answer from a daemon: there is none, it *)
(* does not listen yet, or it has not answered in time. The CLI takes it for *)
(* stopped and edits the file: reads it (if that fails or no row matches,    *)
(* nothing more happens) and writes it back without the matching rows.       *)
GivesUp(match) ==
    /\ cli = None
    /\ \/ ~listening /\ UNCHANGED faults
       \/ listening /\ Fault
    /\ disk \cap match # {}
    /\ cli' = [keep |-> disk \ match, drop |-> disk \cap match]
    /\ UNCHANGED <<computes, disk, daemon, table, tasks, served, edits, crashes, history>>

WithdrawOffline ==
    /\ cli # None
    /\ disk' = cli.keep
    /\ cli' = None
    /\ withdrawn' = withdrawn \cup GenesOf(cli.drop)
    /\ crossed' = (crossed \/ up \/ disk # cli.keep \cup cli.drop)
    /\ UNCHANGED <<computes, daemon, table, tasks, served, bounds, leftover>>

(* run after its await: a republish has come back, with an answer or an      *)
(* error, and its entry is still listed. It is scheduled again.              *)
RunReschedules(t) ==
    /\ tasks[t] # None /\ tasks[t].op = "republish" /\ tasks[t].step \in {"done", "failed"}
    /\ tasks[t].of \in entries
    /\ Schedule(tasks[t].of)
    /\ tasks' = [tasks EXCEPT ![t] = None]
    /\ UNCHANGED <<computes, disk, daemon, cli, entries, restoring, served, bounds, history>>

(* run: the files are gone or compute another gene. Drop the entry, stop     *)
(* serving, save. If the node call throws, the catch block finds the entry   *)
(* gone and tries the call once more, and the save is skipped.               *)
RunDrops(t) ==
    /\ tasks[t] # None /\ tasks[t].op = "republish" /\ tasks[t].step = "dropped"
    /\ tasks[t].of \in entries
    /\ LET e == tasks[t].of
       IN  /\ Forget({e})
           /\ \/ /\ Unserve({e.gene})
                 /\ leftover' = leftover \ {e.gene}
                 /\ Save(entries')
              \/ /\ UnserveFails({e.gene})
                 /\ Fault
                 /\ UNCHANGED disk
    /\ tasks' = [tasks EXCEPT ![t] = None]
    /\ UNCHANGED <<computes, daemon, cli, orphans, restoring, edits, crashes, withdrawn, crossed>>

BugAlwaysAnnouncedAgain(g) == TRUE
AnnouncedAgain(g) == Listed(g)

(* withdrawnMeanwhile: the entry was withdrawn while its republish was in    *)
(* flight. The withdraw is repeated, unless the gene is listed again.        *)
WithdrawnMeanwhile(t) ==
    /\ tasks[t] # None /\ tasks[t].op = "republish"
    /\ tasks[t].step \in {"done", "dropped", "failed"}
    /\ tasks[t].of \notin entries
    /\ LET g == tasks[t].of.gene
       IN  \/ /\ AnnouncedAgain(g)
              /\ UNCHANGED <<served, faults, leftover>>
           \/ /\ ~AnnouncedAgain(g)
              /\ Unserve({g})
              /\ leftover' = leftover \ {g}
              /\ UNCHANGED faults
           \/ /\ ~AnnouncedAgain(g)
              /\ UnserveFails({g})
              /\ Fault
    /\ tasks' = [tasks EXCEPT ![t] = None]
    /\ UNCHANGED <<computes, disk, daemon, cli, table, edits, crashes, withdrawn, crossed>>

-----------------------------------------------------------------------------
(* The user edits, deletes or restores a gene's files.                       *)
Edit(f, g) ==
    /\ edits < MaxEdits /\ edits' = edits + 1
    /\ computes[f] # g
    /\ computes' = [computes EXCEPT ![f] = g]
    /\ UNCHANGED <<disk, daemon, cli, table, tasks, served, faults, crashes, history>>

(* The process ends: killed, by an unhandled rejection, or by /stop, which   *)
(* exits in the same callback. Everything but the file is gone.              *)
Crash ==
    /\ up
    /\ crashes < MaxCrashes /\ crashes' = crashes + 1
    /\ up' = FALSE /\ listening' = FALSE
    /\ entries' = {} /\ timers' = {} /\ orphans' = NoOrphans /\ restoring' = FALSE
    /\ tasks' = NoTasks
    /\ record' = {} /\ providing' = {} /\ leftover' = {}
    /\ UNCHANGED <<computes, disk, cli, edits, faults, withdrawn, crossed>>

Settles(t) == Added(t) \/ RunReschedules(t) \/ RunDrops(t) \/ WithdrawnMeanwhile(t)

Next ==
    \/ Start \/ Listen \/ Poll \/ Crash
    \/ \E e \in Entry : TimerFires(e)
    \/ \E f \in Files : Announce(f) \/ Withdraw(Named(entries, f)) \/ GivesUp(Named(Row, f))
    \/ \E g \in Genes : Withdraw(Matches(entries, g)) \/ GivesUp(Matches(Row, g))
    \/ WithdrawOffline
    \/ \E t \in Tasks : PutRecordTo(t) \/ StartProviding(t) \/ TaskFails(t)
    \/ \E t \in Tasks : Added(t) \/ RunReschedules(t) \/ RunDrops(t) \/ WithdrawnMeanwhile(t)
    \/ \E f \in Files, g \in Genes \cup {Gone} : Edit(f, g)

Spec == Init /\ [][Next]_vars

(* Timers expire, worker threads run and the event loop answers: what has    *)
(* been started goes on. Nobody has to announce, withdraw, edit or restart.  *)
Fairness ==
    /\ WF_vars(Poll)
    /\ \A e \in Entry : WF_vars(TimerFires(e))
    /\ \A t \in Tasks : WF_vars(PutRecordTo(t) \/ StartProviding(t) \/ Settles(t))

FairSpec == Spec /\ Fairness

-----------------------------------------------------------------------------
(* The file and the table agree, unless a write or a call has failed or the  *)
(* CLI has written over a daemon's table.                                    *)
FileMatchesTable == (up /\ faults = 0 /\ ~crossed) => disk = Rows(entries)

(* "once it succeeds the gene stays withdrawn across a restart even if the   *)
(* node call throws": no crash, failed save or republish in flight brings a  *)
(* withdrawn gene back into the file or the table - with no daemon, neither  *)
(* does a restart. (The CLI's write may cross a daemon's start: crossed.)    *)
WithdrawnStaysWithdrawn == crossed \/
    \A g \in withdrawn : ~Listed(g) /\ \A r \in disk : r.gene # g

(* The table lists a gene once, and a place once.                            *)
Unique(S) == \A e, f \in S : (e.gene = f.gene \/ e.file = f.file) => e = f
TableIsUnique == Unique(entries) /\ Unique(disk)

(* A gene that is not listed, and on which no task is at work, is not served *)
(* - except after a failed announce, or a node call that threw.              *)
UnlistedIsNotServed ==
    \A g \in (record \cup providing) \ leftover :
        Listed(g) \/ \E t \in InFlight : tasks[t].of.gene = g

(* A listed gene has its next republish coming: a timer, a run in flight, or *)
(* the restore wait. None falls out of the schedule.                         *)
AlwaysScheduled ==
    \A e \in entries : e \in timers \/ orphans[e] > 0 \/ RunsOf(e) # {} \/ restoring

(* A listed gene is served in the end, or no longer listed, even if a race   *)
(* has stopped serving it for now.                                           *)
ListedEventuallyServed ==
    \A g \in Genes : Listed(g) ~> (~Listed(g) \/ g \in record \cap providing)
=============================================================================
