------------------------- MODULE RepublisherProofs --------------------------
(***************************************************************************)
(* Safety of the republish table for any number of files, genes and tasks, *)
(* and without regard to the bounds on edits, faults and crashes.          *)
(***************************************************************************)
EXTENDS Republisher, TLAPS

(* What TableIsUnique and WithdrawnStaysWithdrawn need besides themselves:   *)
(* what the CLI writes back is part of a table it has read, and a stopped    *)
(* daemon has no entries and no tasks.                                       *)
CliIsUnique == cli # None => Unique(cli.keep \cup cli.drop) /\ cli.keep \cap cli.drop = {}
DownIsEmpty == ~up => ~listening /\ entries = {} /\ tasks = NoTasks

IInv ==
    /\ TypeOK
    /\ TableIsUnique /\ CliIsUnique /\ DownIsEmpty
    /\ WithdrawnStaysWithdrawn
    /\ UnlistedIsNotServed
    /\ AlwaysScheduled
    /\ FileMatchesTable

-----------------------------------------------------------------------------
LEMMA RowsType ==
    /\ \A S \in SUBSET Entry : Rows(S) \in SUBSET Row
    /\ \A S \in SUBSET Entry : GenesOf(S) \in SUBSET Genes
    /\ \A S \in SUBSET Row : GenesOf(S) \in SUBSET Genes
    /\ \A e \in Entry : RowOf(e) \in Row
  BY DEF Rows, RowOf, Row, Entry, GenesOf

LEMMA NewRunType == ASSUME NEW e \in Entry PROVE NewRun(e) \in Task
  BY DEF NewRun, Task

LEMMA NothingType == NoOrphans \in [Entry -> Nat] /\ NoTasks \in [Tasks -> Task \cup {None}]
  BY DEF NoOrphans, NoTasks

LEMMA InitType == Init => TypeOK
  <1> SUFFICES ASSUME Init PROVE TypeOK
    OBVIOUS
  <1>1. /\ disk \subseteq Row /\ entries \subseteq Entry /\ timers \subseteq entries
        /\ record \subseteq Genes /\ providing \subseteq Genes
        /\ withdrawn \subseteq Genes /\ leftover \subseteq Genes
    BY DEF Init
  <1>2. orphans \in [Entry -> Nat] /\ tasks \in [Tasks -> Task \cup {None}]
    BY NothingType DEF Init
  <1>3. edits \in 0 .. MaxEdits /\ faults \in 0 .. MaxFaults /\ crashes \in 0 .. MaxCrashes
    BY RepublisherAssumption DEF Init
  <1> QED  BY <1>1, <1>2, <1>3 DEF Init, TypeOK

LEMMA NextType == TypeOK /\ [Next]_vars => TypeOK'
  <1> SUFFICES ASSUME TypeOK, [Next]_vars PROVE TypeOK'
    OBVIOUS
  <1> USE DEF TypeOK, daemon, table, served, bounds, history
  <1>1. CASE Start
    <2>1. entries' \in SUBSET Entry
      BY <1>1, RepublisherAssumption DEF Start, Entry, Row
    <2>2. restoring' \in BOOLEAN
      BY <1>1 DEF Start
    <2> QED  BY <1>1, <2>1, <2>2, NothingType DEF Start
  <1>2. CASE Listen
    BY <1>2 DEF Listen
  <1>3. CASE Poll
    <2>1. PICK slot \in [entries -> Idle] :
            tasks' = [t \in Tasks |-> IF \E e \in entries : slot[e] = t
                                      THEN NewRun(CHOOSE e \in entries : slot[e] = t)
                                      ELSE tasks[t]]
      BY <1>3 DEF Poll
    <2>2. tasks' \in [Tasks -> Task \cup {None}]
      BY <2>1, NewRunType
    <2>3. orphans' \in [Entry -> Nat]
      BY <1>3 DEF Poll
    <2> QED  BY <1>3, <2>2, <2>3 DEF Poll
  <1>4. CASE Crash
    <2>1. /\ entries' \subseteq Entry /\ timers' \subseteq entries'
          /\ record' \subseteq Genes /\ providing' \subseteq Genes /\ leftover' \subseteq Genes
      BY <1>4 DEF Crash
    <2>2. orphans' \in [Entry -> Nat] /\ tasks' \in [Tasks -> Task \cup {None}]
      BY <1>4, NothingType DEF Crash
    <2>3. crashes' \in 0 .. MaxCrashes
      BY <1>4, RepublisherAssumption DEF Crash
    <2> QED  BY <1>4, <2>1, <2>2, <2>3 DEF Crash
  <1>5. ASSUME NEW e \in Entry, TimerFires(e) PROVE TypeOK'
    <2>1. tasks' \in [Tasks -> Task \cup {None}]
      BY <1>5, NewRunType DEF TimerFires, StartRun, Idle
    <2>2. orphans' \in [Entry -> Nat]
      BY <1>5 DEF TimerFires
    <2> QED  BY <1>5, <2>1, <2>2 DEF TimerFires
  <1>6. ASSUME NEW f \in Files, Announce(f) PROVE TypeOK'
    <2>1. computes[f] \in Genes
      BY <1>6 DEF Announce
    <2>2. [op |-> "announce", of |-> [file |-> f, gene |-> computes[f]], step |-> "put"] \in Task
      BY <2>1 DEF Task, Row
    <2> QED  BY <1>6, <2>2 DEF Announce
  <1>7. ASSUME NEW S \in SUBSET entries, Withdraw(S) PROVE TypeOK'
    <2>1. GenesOf(S) \in SUBSET Genes /\ Rows(entries \ S) \in SUBSET Row
      BY RowsType
    <2>2. disk' \in SUBSET Row /\ entries' \in SUBSET Entry /\ timers' \in SUBSET entries'
      BY <1>7, <2>1 DEF Withdraw, WriteTable, Forget
    <2>3. /\ record' \in SUBSET Genes /\ providing' \in SUBSET Genes
          /\ leftover' \in SUBSET Genes /\ faults' \in 0 .. MaxFaults
      BY <1>7, <2>1, RepublisherAssumption DEF Withdraw, Unserve, UnserveFails, Fault
    <2> QED  BY <1>7, <2>1, <2>2, <2>3 DEF Withdraw
  <1>8. ASSUME NEW S \in SUBSET Row, GivesUp(S) PROVE TypeOK'
    BY <1>8, RepublisherAssumption DEF GivesUp, Fault
  <1>9. CASE WithdrawOffline
    BY <1>9, RowsType DEF WithdrawOffline
  <1>10. ASSUME NEW t \in Tasks, PutRecordTo(t) PROVE TypeOK'
    <2>1. tasks[t] \in Task /\ tasks[t].step = "put"
      BY <1>10 DEF PutRecordTo
    <2>2. tasks[t].of.gene \in Genes /\ [tasks[t] EXCEPT !.step = "provide"] \in Task
      BY <2>1 DEF Task, Row, Entry
    <2> QED  BY <1>10, <2>2 DEF PutRecordTo
  <1>11. ASSUME NEW t \in Tasks, StartProviding(t) PROVE TypeOK'
    <2>1. tasks[t] \in Task /\ tasks[t].step = "provide"
      BY <1>11 DEF StartProviding
    <2>2. tasks[t].of.gene \in Genes /\ [tasks[t] EXCEPT !.step = "done"] \in Task
      BY <2>1 DEF Task, Row, Entry
    <2> QED  BY <1>11, <2>2 DEF StartProviding
  <1>12. ASSUME NEW t \in Tasks, TaskFails(t) PROVE TypeOK'
    <2>1. tasks[t] \in Task
      BY <1>12 DEF TaskFails
    <2>2. tasks[t].of.gene \in Genes
      BY <2>1 DEF Task, Row, Entry
    <2>3. tasks[t].op # "announce" => [tasks[t] EXCEPT !.step = "failed"] \in Task
      BY <2>1 DEF Task
    <2> QED  BY <1>12, <2>2, <2>3, RepublisherAssumption DEF TaskFails, Fault
  <1>13. ASSUME NEW t \in Tasks, Added(t) PROVE TypeOK'
    <2> DEFINE row == tasks[t].of
               old == Replaced(row)
               stale == GenesOf(old) \ {row.gene}
    <2>1. row \in Row /\ old \in SUBSET entries
      BY <1>13 DEF Added, Task, Replaced
    <2>2. PICK c \in 1 .. Copies :
            /\ entries' = (entries \ old) \cup {[file |-> row.file, gene |-> row.gene, copy |-> c]}
            /\ timers' = (timers \ old) \cup {[file |-> row.file, gene |-> row.gene, copy |-> c]}
      BY <1>13 DEF Added
    <2>3. [file |-> row.file, gene |-> row.gene, copy |-> c] \in Entry
      BY <2>1 DEF Entry, Row
    <2>4. entries' \in SUBSET Entry /\ timers' \in SUBSET entries'
      BY <2>1, <2>2, <2>3
    <2>5. disk' \in SUBSET Row /\ faults' \in 0 .. MaxFaults
      <3>1. Save(entries')
        BY <1>13 DEF Added
      <3> QED  BY <3>1, <2>4, RowsType, RepublisherAssumption DEF Save, Fault
    <2>6. /\ record' \in SUBSET Genes /\ providing' \in SUBSET Genes
          /\ withdrawn' \in SUBSET Genes /\ leftover' \in SUBSET Genes
      BY <1>13 DEF Added, Unserve
    <2> QED  BY <1>13, <2>4, <2>5, <2>6 DEF Added
  <1>14. ASSUME NEW t \in Tasks, RunReschedules(t) PROVE TypeOK'
    <2>1. tasks[t].of \in Entry
      BY <1>14 DEF RunReschedules
    <2> QED  BY <1>14, <2>1 DEF RunReschedules, Schedule
  <1>15. ASSUME NEW t \in Tasks, RunDrops(t) PROVE TypeOK'
    <2>1. tasks[t].of \in entries /\ tasks[t].of.gene \in Genes
      BY <1>15 DEF RunDrops, Entry
    <2>2. entries' \in SUBSET Entry /\ timers' \in SUBSET entries'
      BY <1>15 DEF RunDrops, Forget
    <2>3. disk' \in SUBSET Row /\ faults' \in 0 .. MaxFaults
      BY <1>15, <2>2, RowsType, RepublisherAssumption DEF RunDrops, Save, Fault
    <2>4. /\ record' \in SUBSET Genes /\ providing' \in SUBSET Genes
          /\ leftover' \in SUBSET Genes
      BY <1>15, <2>1 DEF RunDrops, Unserve, UnserveFails
    <2> QED  BY <1>15, <2>2, <2>3, <2>4 DEF RunDrops
  <1>16. ASSUME NEW t \in Tasks, WithdrawnMeanwhile(t) PROVE TypeOK'
    <2>1. tasks[t].of.gene \in Genes
      BY <1>16 DEF WithdrawnMeanwhile, Task, Entry
    <2>2. /\ record' \in SUBSET Genes /\ providing' \in SUBSET Genes
          /\ leftover' \in SUBSET Genes /\ faults' \in 0 .. MaxFaults
      BY <1>16, <2>1, RepublisherAssumption
      DEF WithdrawnMeanwhile, Unserve, UnserveFails, Fault
    <2> QED  BY <1>16, <2>2 DEF WithdrawnMeanwhile
  <1>17. ASSUME NEW f \in Files, NEW g \in Genes \cup {Gone}, Edit(f, g) PROVE TypeOK'
    BY <1>17, RepublisherAssumption DEF Edit
  <1>18. CASE UNCHANGED vars
    BY <1>18 DEF vars
  <1>19. /\ \A f \in Files : Named(entries, f) \in SUBSET entries /\ Named(Row, f) \in SUBSET Row
         /\ \A g \in Genes : Matches(entries, g) \in SUBSET entries /\ Matches(Row, g) \in SUBSET Row
    BY DEF Named, Matches
  <1> QED
    BY <1>1, <1>2, <1>3, <1>4, <1>5, <1>6, <1>7, <1>8, <1>9, <1>10, <1>11, <1>12, <1>13,
       <1>14, <1>15, <1>16, <1>17, <1>18, <1>19 DEF Next

(* Type correctness, the bounds on the environment included.                 *)
THEOREM TypeCorrect == Spec => []TypeOK
  BY InitType, NextType, PTL DEF Spec

-----------------------------------------------------------------------------
LEMMA RowsUnique == ASSUME NEW S \in SUBSET Entry, Unique(S) PROVE Unique(Rows(S))
  BY DEF Unique, Rows, RowOf

LEMMA SubsetUnique == ASSUME NEW S, NEW T \in SUBSET S, Unique(S) PROVE Unique(T)
  BY DEF Unique

LEMMA NextUnique ==
    TypeOK /\ TableIsUnique /\ CliIsUnique /\ [Next]_vars => TableIsUnique' /\ CliIsUnique'
  <1> SUFFICES ASSUME TypeOK, TableIsUnique, CliIsUnique, [Next]_vars
               PROVE  TableIsUnique' /\ CliIsUnique'
    OBVIOUS
  <1> USE DEF daemon, table, served, bounds, history
  <1>0. ASSUME UNCHANGED <<entries, disk, cli>> PROVE TableIsUnique' /\ CliIsUnique'
    BY <1>0 DEF TableIsUnique, CliIsUnique
  <1>1. ASSUME UNCHANGED cli, entries' \in SUBSET Entry, Unique(entries'),
               disk' \in {disk, Rows(entries')}
        PROVE  TableIsUnique' /\ CliIsUnique'
    BY <1>1, RowsUnique DEF TableIsUnique, CliIsUnique
  <1>2. \A S \in SUBSET entries : S \in SUBSET Entry /\ Unique(S)
    BY SubsetUnique DEF TypeOK, TableIsUnique
  <1>3. CASE Start
    <2>1. entries' \in SUBSET Entry
      BY <1>3, NextType DEF TypeOK
    <2>2. Unique(entries')
      BY <1>3 DEF Start, TableIsUnique, Unique
    <2> QED  BY <1>1, <1>3, <2>1, <2>2 DEF Start
  <1>4. CASE Crash
    BY <1>1, <1>2, <1>4 DEF Crash
  <1>5. ASSUME NEW S \in SUBSET entries, Withdraw(S) PROVE TableIsUnique' /\ CliIsUnique'
    BY <1>1, <1>2, <1>5 DEF Withdraw, WriteTable, Forget
  <1>6. ASSUME NEW S \in SUBSET Row, GivesUp(S) PROVE TableIsUnique' /\ CliIsUnique'
    <2>1. cli'.keep \cup cli'.drop = disk /\ cli'.keep \cap cli'.drop = {}
      BY <1>6 DEF GivesUp
    <2> QED  BY <1>6, <2>1 DEF GivesUp, TableIsUnique, CliIsUnique
  <1>7. CASE WithdrawOffline
    <2>1. Unique(disk')
      BY <1>7, SubsetUnique DEF WithdrawOffline, CliIsUnique
    <2> QED  BY <1>7, <2>1 DEF WithdrawOffline, TableIsUnique, CliIsUnique
  <1>8. ASSUME NEW t \in Tasks, Added(t) PROVE TableIsUnique' /\ CliIsUnique'
    <2> DEFINE row == tasks[t].of
               new(c) == [file |-> row.file, gene |-> row.gene, copy |-> c]
    <2>1. PICK c \in 1 .. Copies : entries' = (entries \ Replaced(row)) \cup {new(c)}
      BY <1>8 DEF Added
    <2>2. \A e \in entries \ Replaced(row) : e.gene # new(c).gene /\ e.file # new(c).file
      BY DEF Replaced
    <2>3. Unique(entries')
      BY <2>1, <2>2, <1>2 DEF Unique
    <2>4. entries' \in SUBSET Entry
      BY <1>8, NextType DEF TypeOK
    <2>5. disk' \in {disk, Rows(entries')} /\ UNCHANGED cli
      BY <1>8 DEF Added, Save
    <2> QED  BY <1>1, <2>3, <2>4, <2>5
  <1>9. ASSUME NEW t \in Tasks, RunDrops(t) PROVE TableIsUnique' /\ CliIsUnique'
    BY <1>1, <1>2, <1>9 DEF RunDrops, Forget, Save
  <1>10. \/ Listen \/ Poll \/ UNCHANGED vars
         \/ \E e \in Entry : TimerFires(e)
         \/ \E f \in Files : Announce(f)
         \/ \E t \in Tasks : PutRecordTo(t) \/ StartProviding(t) \/ TaskFails(t)
         \/ \E t \in Tasks : RunReschedules(t) \/ WithdrawnMeanwhile(t)
         \/ \E f \in Files, g \in Genes \cup {Gone} : Edit(f, g)
         => UNCHANGED <<entries, disk, cli>>
    BY DEF Listen, Poll, vars, TimerFires, Announce, PutRecordTo, StartProviding, TaskFails,
           RunReschedules, WithdrawnMeanwhile, Edit
  <1>11. /\ \A f \in Files : Named(entries, f) \in SUBSET entries /\ Named(Row, f) \in SUBSET Row
         /\ \A g \in Genes : Matches(entries, g) \in SUBSET entries /\ Matches(Row, g) \in SUBSET Row
    BY DEF Named, Matches
  <1> QED
    BY <1>0, <1>3, <1>4, <1>5, <1>6, <1>7, <1>8, <1>9, <1>10, <1>11 DEF Next

-----------------------------------------------------------------------------
(* No step lists a withdrawn gene or brings it back into the file.           *)
LEMMA NextWithdrawn ==
    ASSUME TypeOK, TableIsUnique, CliIsUnique, DownIsEmpty, WithdrawnStaysWithdrawn, [Next]_vars
    PROVE  DownIsEmpty' /\ WithdrawnStaysWithdrawn'
  <1> USE DEF daemon, table, served, bounds, history
  <1> DEFINE Kept == DownIsEmpty' /\ WithdrawnStaysWithdrawn'
  <1>a. ASSUME UNCHANGED <<up, listening, entries, tasks, disk, withdrawn, crossed>> PROVE Kept
    BY <1>a DEF DownIsEmpty, WithdrawnStaysWithdrawn, Listed
  <1>b. ASSUME up, UNCHANGED <<up, entries, disk, withdrawn, crossed>> PROVE Kept
    BY <1>b DEF DownIsEmpty, WithdrawnStaysWithdrawn, Listed
  <1>c. ASSUME NEW t \in Tasks, tasks[t] # None PROVE up
    BY <1>c DEF DownIsEmpty, NoTasks
  <1>d. ASSUME up, UNCHANGED <<up, crossed>>, entries' \subseteq Entry,
               crossed \/ \A g \in withdrawn', e \in entries' : e.gene # g,
               disk' = Rows(entries')
        PROVE  Kept
    <2>1. \A r \in disk' : \E e \in entries' : r.gene = e.gene
      BY <1>d DEF Rows, RowOf
    <2> QED  BY <1>d, <2>1 DEF DownIsEmpty, WithdrawnStaysWithdrawn, Listed
  <1>e. ASSUME up, UNCHANGED <<up, crossed, disk>>, withdrawn' \subseteq withdrawn,
               crossed \/ \A g \in withdrawn', e \in entries' : e.gene # g
        PROVE  Kept
    BY <1>e DEF DownIsEmpty, WithdrawnStaysWithdrawn, Listed
  <1>1. CASE Start
    BY <1>1 DEF Start, DownIsEmpty, WithdrawnStaysWithdrawn, Listed
  <1>2. CASE Listen
    BY <1>2, <1>b DEF Listen
  <1>3. CASE Poll
    BY <1>3, <1>b DEF Poll
  <1>4. CASE Crash
    BY <1>4 DEF Crash, DownIsEmpty, WithdrawnStaysWithdrawn, Listed
  <1>5. ASSUME NEW e \in Entry, TimerFires(e) PROVE Kept
    BY <1>5, <1>b DEF TimerFires
  <1>6. ASSUME NEW f \in Files, Announce(f) PROVE Kept
    BY <1>6, <1>b DEF Announce, DownIsEmpty
  <1>7. ASSUME NEW S \in SUBSET entries, Withdraw(S) PROVE Kept
    <2>1. /\ up /\ UNCHANGED <<up, crossed>>
          /\ entries' = entries \ S /\ disk' = Rows(entries')
          /\ withdrawn' = withdrawn \cup GenesOf(S)
      BY <1>7 DEF Withdraw, WriteTable, Forget, DownIsEmpty
    <2>2. \A g \in GenesOf(S), e \in entries' : e.gene # g
      BY <2>1 DEF GenesOf, TableIsUnique, Unique
    <2> QED  BY <1>d, <2>1, <2>2 DEF TypeOK, WithdrawnStaysWithdrawn, Listed
  <1>8. ASSUME NEW S \in SUBSET Row, GivesUp(S) PROVE Kept
    BY <1>8, <1>a DEF GivesUp
  <1>9. CASE WithdrawOffline
    <2>1. CASE crossed'
      BY <1>9, <2>1 DEF WithdrawOffline, DownIsEmpty, WithdrawnStaysWithdrawn
    <2>2. CASE ~crossed'
      \* No daemon, and nobody has changed the file since the CLI read it.
      <3>1. /\ ~crossed /\ ~up /\ cli # None
            /\ disk = cli.keep \cup cli.drop /\ disk' = cli.keep
            /\ withdrawn' = withdrawn \cup GenesOf(cli.drop)
            /\ UNCHANGED <<up, listening, entries, tasks>>
        BY <1>9, <2>2 DEF WithdrawOffline
      <3>2. \A g \in GenesOf(cli.drop), r \in cli.keep : r.gene # g
        BY <3>1 DEF CliIsUnique, Unique, GenesOf
      <3>3. \A g \in withdrawn, r \in cli.keep : r.gene # g
        BY <3>1 DEF WithdrawnStaysWithdrawn
      <3> QED  BY <3>1, <3>2, <3>3 DEF DownIsEmpty, WithdrawnStaysWithdrawn, Listed
    <2> QED  BY <2>1, <2>2
  <1>10. ASSUME NEW t \in Tasks, PutRecordTo(t) \/ StartProviding(t) \/ TaskFails(t) PROVE Kept
    BY <1>10, <1>b, <1>c DEF PutRecordTo, StartProviding, TaskFails
  <1>11. ASSUME NEW t \in Tasks, Added(t) PROVE Kept
    <2> DEFINE row == tasks[t].of
               new(c) == [file |-> row.file, gene |-> row.gene, copy |-> c]
    <2>1. up /\ UNCHANGED <<up, crossed>> /\ withdrawn' = withdrawn \ {row.gene}
      BY <1>11, <1>c DEF Added
    <2>2. PICK c \in 1 .. Copies : entries' = (entries \ Replaced(row)) \cup {new(c)}
      BY <1>11 DEF Added
    <2>3. crossed \/ \A g \in withdrawn', e \in entries' : e.gene # g
      BY <2>1, <2>2 DEF WithdrawnStaysWithdrawn, Listed
    <2>4. entries' \subseteq Entry /\ disk' \in {disk, Rows(entries')}
      BY <1>11, NextType DEF TypeOK, Added, Save
    <2> QED  BY <1>d, <1>e, <2>1, <2>3, <2>4
  <1>12. ASSUME NEW t \in Tasks, RunDrops(t) PROVE Kept
    <2>1. up /\ UNCHANGED <<up, crossed, withdrawn>> /\ entries' \subseteq entries
      BY <1>12, <1>c DEF RunDrops, Forget
    <2>2. disk' \in {disk, Rows(entries')}
      BY <1>12 DEF RunDrops, Save
    <2>3. crossed \/ \A g \in withdrawn', e \in entries' : e.gene # g
      BY <2>1 DEF WithdrawnStaysWithdrawn, Listed
    <2> QED  BY <1>d, <1>e, <2>1, <2>2, <2>3 DEF TypeOK
  <1>13. ASSUME NEW t \in Tasks, RunReschedules(t) \/ WithdrawnMeanwhile(t) PROVE Kept
    BY <1>13, <1>b, <1>c DEF RunReschedules, WithdrawnMeanwhile
  <1>14. ASSUME NEW f \in Files, NEW g \in Genes \cup {Gone}, Edit(f, g) PROVE Kept
    BY <1>14, <1>a DEF Edit
  <1>15. CASE UNCHANGED vars
    BY <1>15, <1>a DEF vars
  <1>16. /\ \A f \in Files : Named(entries, f) \in SUBSET entries /\ Named(Row, f) \in SUBSET Row
         /\ \A g \in Genes : Matches(entries, g) \in SUBSET entries /\ Matches(Row, g) \in SUBSET Row
    BY DEF Named, Matches
  <1> QED
    BY <1>1, <1>2, <1>3, <1>4, <1>5, <1>6, <1>7, <1>8, <1>9, <1>10, <1>11, <1>12, <1>13,
       <1>14, <1>15, <1>16 DEF Next

-----------------------------------------------------------------------------
(* No step takes a listed entry off the schedule.                            *)
LEMMA NextScheduled ==
    ASSUME TypeOK, AlwaysScheduled, [Next]_vars
    PROVE  AlwaysScheduled'
  <1> USE DEF daemon, table, served, bounds, history
  <1>a. ASSUME UNCHANGED <<orphans, restoring>>, entries' \subseteq entries,
               timers' = timers \cap entries',
               \A e \in entries' : RunsOf(e)' = RunsOf(e)
        PROVE  AlwaysScheduled'
    BY <1>a DEF AlwaysScheduled
  \* A task that is no run of `e` does not matter to `e`.
  <1>b. ASSUME NEW t \in Tasks, NEW e \in Entry, tasks[t] # None, tasks[t].op = "announce",
               tasks' = [tasks EXCEPT ![t] = None]
        PROVE  RunsOf(e)' = RunsOf(e)
    BY <1>b DEF RunsOf, InFlight, TypeOK
  <1>c. ASSUME NEW t \in Tasks, NEW e \in Entry, tasks[t] # None, tasks[t].of # e,
               tasks' = [tasks EXCEPT ![t] = None]
        PROVE  RunsOf(e)' = RunsOf(e)
    BY <1>c DEF RunsOf, InFlight, TypeOK
  <1>d. ASSUME NEW t \in Tasks, NEW e \in Entry, NEW step, tasks[t] # None,
               tasks' = [tasks EXCEPT ![t].step = step], tasks'[t] # None
        PROVE  RunsOf(e)' = RunsOf(e)
    <2>1. tasks[t] \in Task
      BY <1>d DEF TypeOK
    <2>2. tasks'[t].op = tasks[t].op /\ tasks'[t].of = tasks[t].of
      BY <1>d, <2>1 DEF TypeOK, Task
    <2>3. \A u \in Tasks \ {t} : tasks'[u] = tasks[u]
      BY <1>d DEF TypeOK
    <2> QED  BY <1>d, <2>2, <2>3 DEF RunsOf, InFlight
  <1>e. ASSUME NEW t \in Idle, NEW e \in Entry, NEW task, task # None,
               tasks' = [tasks EXCEPT ![t] = task]
        PROVE  /\ RunsOf(e) \subseteq RunsOf(e)'
               /\ task.op = "republish" /\ task.of = e => t \in RunsOf(e)'
    BY <1>e DEF RunsOf, InFlight, Idle, TypeOK
  <1>1. CASE Start
    BY <1>1 DEF Start, AlwaysScheduled
  <1>2. CASE Listen
    BY <1>2, <1>a DEF Listen, RunsOf, InFlight, TypeOK
  <1>3. CASE Poll
    <2> SUFFICES ASSUME NEW e \in entries PROVE RunsOf(e)' # {}
      BY <1>3 DEF Poll, AlwaysScheduled
    <2>1. PICK slot \in [entries -> Idle] :
            /\ \A d, f \in entries : slot[d] = slot[f] => d = f
            /\ tasks' = [t \in Tasks |-> IF \E d \in entries : slot[d] = t
                                         THEN NewRun(CHOOSE d \in entries : slot[d] = t)
                                         ELSE tasks[t]]
      BY <1>3 DEF Poll
    <2>2. slot[e] \in Tasks /\ tasks'[slot[e]] = NewRun(e)
      BY <2>1 DEF Idle
    <2>3. NewRun(e) # None /\ NewRun(e).op = "republish" /\ NewRun(e).of = e
      BY NewRunType, NoneAssumption DEF NewRun, TypeOK
    <2> QED  BY <2>2, <2>3 DEF RunsOf, InFlight
  <1>4. CASE Crash
    BY <1>4 DEF Crash, AlwaysScheduled
  <1>5. ASSUME NEW e \in Entry, TimerFires(e) PROVE AlwaysScheduled'
    <2>1. CASE e \in entries
      <3>1. PICK t \in Idle : tasks' = [tasks EXCEPT ![t] = NewRun(e)]
        BY <1>5, <2>1 DEF TimerFires, StartRun
      <3>2. NewRun(e) # None /\ NewRun(e).op = "republish" /\ NewRun(e).of = e
        BY NewRunType, NoneAssumption DEF NewRun
      <3>3. t \in RunsOf(e)' /\ \A f \in Entry : RunsOf(f) \subseteq RunsOf(f)'
        BY <3>1, <3>2, <1>e
      <3>4. /\ entries' = entries /\ timers' = timers \ {e} /\ restoring' = restoring
            /\ \A f \in Entry \ {e} : orphans'[f] = orphans[f]
        BY <1>5 DEF TimerFires, TypeOK
      <3> QED  BY <3>3, <3>4 DEF AlwaysScheduled, TypeOK
    <2>2. CASE e \notin entries
      <3>1. UNCHANGED <<tasks, entries, restoring>> /\ timers' = timers \ {e}
        BY <1>5, <2>2 DEF TimerFires, StartRun
      <3>2. \A f \in Entry \ {e} : orphans'[f] = orphans[f]
        BY <1>5 DEF TimerFires, TypeOK
      <3> QED  BY <2>2, <3>1, <3>2 DEF AlwaysScheduled, TypeOK, RunsOf, InFlight
    <2> QED  BY <2>1, <2>2
  <1>6. ASSUME NEW f \in Files, Announce(f) PROVE AlwaysScheduled'
    <2>1. PICK t \in Idle : tasks' = [tasks EXCEPT ![t] =
            [op |-> "announce", of |-> [file |-> f, gene |-> computes[f]], step |-> "put"]]
      BY <1>6 DEF Announce
    <2>2. [op |-> "announce", of |-> [file |-> f, gene |-> computes[f]], step |-> "put"] # None
      BY <1>6, NoneAssumption DEF Announce, Task, Row, TypeOK
    <2>3. \A e \in Entry : RunsOf(e) \subseteq RunsOf(e)'
      BY <2>1, <2>2, <1>e
    <2> QED  BY <1>6, <2>3 DEF Announce, AlwaysScheduled, TypeOK
  <1>7. ASSUME NEW S \in SUBSET entries, Withdraw(S) PROVE AlwaysScheduled'
    BY <1>7, <1>a DEF Withdraw, Forget, TypeOK, RunsOf, InFlight
  <1>8. ASSUME NEW S \in SUBSET Row, GivesUp(S) PROVE AlwaysScheduled'
    BY <1>8, <1>a DEF GivesUp, TypeOK, RunsOf, InFlight
  <1>9. CASE WithdrawOffline
    BY <1>9, <1>a DEF WithdrawOffline, TypeOK, RunsOf, InFlight
  <1>10. ASSUME NEW t \in Tasks, PutRecordTo(t) \/ StartProviding(t) PROVE AlwaysScheduled'
    <2>1. PICK step \in {"provide", "done"} : tasks' = [tasks EXCEPT ![t].step = step]
      BY <1>10 DEF PutRecordTo, StartProviding
    <2>2. tasks[t] \in Task /\ [tasks[t] EXCEPT !.step = step] \in Task
      BY <1>10 DEF PutRecordTo, StartProviding, TypeOK, Task
    <2>3. tasks[t] # None /\ tasks'[t] # None
      BY <2>1, <2>2, NoneAssumption DEF TypeOK
    <2>4. \A e \in Entry : RunsOf(e)' = RunsOf(e)
      BY <1>d, <2>1, <2>3
    <2> QED  BY <1>10, <1>a, <2>4 DEF PutRecordTo, StartProviding, TypeOK
  <1>11. ASSUME NEW t \in Tasks, TaskFails(t) PROVE AlwaysScheduled'
    <2>1. CASE tasks[t].op = "announce"
      BY <1>11, <2>1, <1>a, <1>b DEF TaskFails, TypeOK
    <2>2. CASE tasks[t].op # "announce"
      <3>1. tasks' = [tasks EXCEPT ![t].step = "failed"] /\ tasks[t] \in Task
        BY <1>11, <2>2 DEF TaskFails, TypeOK
      <3>2. [tasks[t] EXCEPT !.step = "failed"] \in Task
        BY <2>2, <3>1 DEF Task
      <3>3. tasks[t] # None /\ tasks'[t] # None
        BY <3>1, <3>2, NoneAssumption DEF TypeOK
      <3>4. \A e \in Entry : RunsOf(e)' = RunsOf(e)
        BY <1>d, <3>1, <3>3
      <3> QED  BY <1>11, <1>a, <3>4 DEF TaskFails, TypeOK
    <2> QED  BY <2>1, <2>2
  <1>12. ASSUME NEW t \in Tasks, Added(t) PROVE AlwaysScheduled'
    <2> DEFINE row == tasks[t].of
               new(c) == [file |-> row.file, gene |-> row.gene, copy |-> c]
    <2>1. PICK c \in 1 .. Copies : /\ entries' = (entries \ Replaced(row)) \cup {new(c)}
                                  /\ timers' = (timers \ Replaced(row)) \cup {new(c)}
      BY <1>12 DEF Added
    <2>2. \A e \in Entry : RunsOf(e)' = RunsOf(e)
      BY <1>12, <1>b DEF Added
    <2> QED  BY <1>12, <2>1, <2>2 DEF Added, AlwaysScheduled, TypeOK
  <1>13. ASSUME NEW t \in Tasks, RunReschedules(t) PROVE AlwaysScheduled'
    <2> DEFINE e == tasks[t].of
    <2>1. /\ e \in entries /\ e \in timers' /\ timers \subseteq timers'
          /\ UNCHANGED <<entries, restoring>>
          /\ \A f \in Entry \ {e} : orphans'[f] = orphans[f]
      BY <1>13 DEF RunReschedules, Schedule, TypeOK
    <2>2. \A f \in Entry \ {e} : RunsOf(f)' = RunsOf(f)
      BY <1>13, <1>c DEF RunReschedules
    <2> QED  BY <2>1, <2>2 DEF AlwaysScheduled, TypeOK
  <1>14. ASSUME NEW t \in Tasks, RunDrops(t) PROVE AlwaysScheduled'
    <2> DEFINE e == tasks[t].of
    <2>1. \A f \in Entry \ {e} : RunsOf(f)' = RunsOf(f)
      BY <1>14, <1>c DEF RunDrops
    <2> QED  BY <1>14, <1>a, <2>1 DEF RunDrops, Forget, TypeOK
  <1>15. ASSUME NEW t \in Tasks, WithdrawnMeanwhile(t) PROVE AlwaysScheduled'
    <2>1. \A f \in entries : RunsOf(f)' = RunsOf(f)
      BY <1>15, <1>c DEF WithdrawnMeanwhile, TypeOK
    <2> QED  BY <1>15, <1>a, <2>1 DEF WithdrawnMeanwhile, TypeOK
  <1>16. ASSUME NEW f \in Files, NEW g \in Genes \cup {Gone}, Edit(f, g) PROVE AlwaysScheduled'
    BY <1>16, <1>a DEF Edit, TypeOK, RunsOf, InFlight
  <1>17. CASE UNCHANGED vars
    BY <1>17, <1>a DEF vars, TypeOK, RunsOf, InFlight
  <1>18. /\ \A f \in Files : Named(entries, f) \in SUBSET entries /\ Named(Row, f) \in SUBSET Row
         /\ \A g \in Genes : Matches(entries, g) \in SUBSET entries /\ Matches(Row, g) \in SUBSET Row
    BY DEF Named, Matches
  <1> QED
    BY <1>1, <1>2, <1>3, <1>4, <1>5, <1>6, <1>7, <1>8, <1>9, <1>10, <1>11, <1>12, <1>13,
       <1>14, <1>15, <1>16, <1>17, <1>18 DEF Next

-----------------------------------------------------------------------------
(* No step leaves a gene served that is neither listed nor worked on.        *)
AtWork(g) == \E t \in InFlight : tasks[t].of.gene = g

LEMMA NextServed ==
    ASSUME TypeOK, DownIsEmpty, UnlistedIsNotServed, [Next]_vars
    PROVE  UnlistedIsNotServed'
  <1> USE DEF daemon, table, served, bounds, history
  <1> DEFINE Kept == UnlistedIsNotServed'
  <1>a. ASSUME UNCHANGED <<record, providing, leftover>>,
               \A g \in Genes : Listed(g) \/ AtWork(g) => Listed(g)' \/ AtWork(g)'
        PROVE  Kept
    BY <1>a DEF UnlistedIsNotServed, AtWork, TypeOK
  <1>b. ASSUME UNCHANGED <<entries, tasks>>
        PROVE  \A g : Listed(g)' = Listed(g) /\ AtWork(g)' = AtWork(g)
    BY <1>b DEF Listed, AtWork, InFlight
  \* Giving a task a free slot, moving one on and ending one.
  <1>c. ASSUME NEW t \in Idle, NEW task, task # None, tasks' = [tasks EXCEPT ![t] = task], NEW g
        PROVE  AtWork(g) => AtWork(g)'
    BY <1>c DEF AtWork, InFlight, Idle, TypeOK
  <1>d. ASSUME NEW t \in Tasks, NEW step, tasks[t] # None,
               tasks' = [tasks EXCEPT ![t].step = step], tasks'[t] # None, NEW g
        PROVE  AtWork(g) => AtWork(g)'
    <2>1. tasks[t] \in Task
      BY <1>d DEF TypeOK
    <2>2. tasks'[t].of = tasks[t].of
      BY <1>d, <2>1 DEF TypeOK, Task
    <2>3. \A u \in Tasks \ {t} : tasks'[u] = tasks[u]
      BY <1>d DEF TypeOK
    <2> QED  BY <1>d, <2>2, <2>3 DEF AtWork, InFlight
  <1>e. ASSUME NEW t \in Tasks, tasks' = [tasks EXCEPT ![t] = None], NEW g, g # tasks[t].of.gene
        PROVE  AtWork(g) => AtWork(g)'
    BY <1>e DEF AtWork, InFlight, TypeOK
  <1>f. \A t \in Tasks : tasks[t] # None => tasks[t] \in Task
    BY DEF TypeOK
  <1>1. CASE Start
    BY <1>1, <1>a DEF Start, DownIsEmpty, Listed, AtWork, InFlight
  <1>2. CASE Listen
    BY <1>2, <1>a, <1>b DEF Listen
  <1>3. CASE Poll
    BY <1>3, <1>a DEF Poll, Listed, AtWork, InFlight, Idle
  <1>4. CASE Crash
    BY <1>4 DEF Crash, UnlistedIsNotServed
  <1>5. ASSUME NEW e \in Entry, TimerFires(e) PROVE Kept
    <2>1. CASE e \in entries
      <3>1. PICK t \in Idle : tasks' = [tasks EXCEPT ![t] = NewRun(e)]
        BY <1>5, <2>1 DEF TimerFires, StartRun
      <3>2. NewRun(e) # None
        BY NewRunType, NoneAssumption
      <3>3. \A g \in Genes : AtWork(g) => AtWork(g)'
        BY <3>1, <3>2, <1>c
      <3> QED  BY <1>5, <1>a, <3>3 DEF TimerFires, Listed
    <2>2. CASE e \notin entries
      BY <1>5, <2>2, <1>a, <1>b DEF TimerFires, StartRun
    <2> QED  BY <2>1, <2>2
  <1>6. ASSUME NEW f \in Files, Announce(f) PROVE Kept
    <2>1. PICK t \in Idle : tasks' = [tasks EXCEPT ![t] =
            [op |-> "announce", of |-> [file |-> f, gene |-> computes[f]], step |-> "put"]]
      BY <1>6 DEF Announce
    <2>2. [op |-> "announce", of |-> [file |-> f, gene |-> computes[f]], step |-> "put"] # None
      BY <1>6, NoneAssumption DEF Announce, Task, Row, TypeOK
    <2>3. \A g \in Genes : AtWork(g) => AtWork(g)'
      BY <2>1, <2>2, <1>c
    <2> QED  BY <1>6, <1>a, <2>3 DEF Announce, Listed
  <1>7. ASSUME NEW S \in SUBSET entries, Withdraw(S) PROVE Kept
    <2>1. \A g : AtWork(g)' = AtWork(g)
      BY <1>7 DEF Withdraw, AtWork, InFlight
    <2>2. \A g \in Genes \ GenesOf(S) : Listed(g) => Listed(g)'
      BY <1>7 DEF Withdraw, Forget, Listed, GenesOf
    <2>3. (record' \cup providing') \ leftover' \subseteq ((record \cup providing) \ leftover) \ GenesOf(S)
      BY <1>7 DEF Withdraw, Unserve, UnserveFails
    <2> QED  BY <2>1, <2>2, <2>3 DEF UnlistedIsNotServed, AtWork, TypeOK
  <1>8. ASSUME NEW S \in SUBSET Row, GivesUp(S) PROVE Kept
    BY <1>8, <1>a, <1>b DEF GivesUp
  <1>9. CASE WithdrawOffline
    BY <1>9, <1>a, <1>b DEF WithdrawOffline
  <1>10. ASSUME NEW t \in Tasks, PutRecordTo(t) \/ StartProviding(t) PROVE Kept
    <2>1. PICK step \in {"provide", "done"} : tasks' = [tasks EXCEPT ![t].step = step]
      BY <1>10 DEF PutRecordTo, StartProviding
    <2>2. tasks[t] \in Task /\ [tasks[t] EXCEPT !.step = step] \in Task
      BY <1>10 DEF PutRecordTo, StartProviding, TypeOK, Task
    <2>3. tasks[t] # None /\ tasks'[t] # None
      BY <2>1, <2>2, NoneAssumption DEF TypeOK
    <2>4. \A g \in Genes : AtWork(g) => AtWork(g)'
      BY <1>d, <2>1, <2>3
    <2>5. AtWork(tasks[t].of.gene)
      BY <2>3 DEF AtWork, InFlight
    <2>6. /\ UNCHANGED <<entries, leftover>>
          /\ record' \cup providing' \subseteq record \cup providing \cup {tasks[t].of.gene}
      BY <1>10 DEF PutRecordTo, StartProviding
    <2>7. tasks[t].of.gene \in Genes
      BY <2>2 DEF Task, Row, Entry
    <2> QED  BY <2>4, <2>5, <2>6, <2>7 DEF UnlistedIsNotServed, AtWork, Listed, TypeOK
  <1>11. ASSUME NEW t \in Tasks, TaskFails(t) PROVE Kept
    <2>1. CASE tasks[t].op = "announce"
      <3>1. /\ tasks' = [tasks EXCEPT ![t] = None] /\ leftover' = leftover \cup {tasks[t].of.gene}
            /\ UNCHANGED <<entries, record, providing>>
        BY <1>11, <2>1 DEF TaskFails
      <3>2. \A g \in Genes \ {tasks[t].of.gene} : AtWork(g) => AtWork(g)'
        BY <3>1, <1>e
      <3> QED  BY <3>1, <3>2 DEF UnlistedIsNotServed, AtWork, Listed, TypeOK
    <2>2. CASE tasks[t].op # "announce"
      <3>1. tasks' = [tasks EXCEPT ![t].step = "failed"] /\ tasks[t] \in Task
        BY <1>11, <2>2 DEF TaskFails, TypeOK
      <3>2. [tasks[t] EXCEPT !.step = "failed"] \in Task
        BY <2>2, <3>1 DEF Task
      <3>3. tasks[t] # None /\ tasks'[t] # None
        BY <3>1, <3>2, NoneAssumption DEF TypeOK
      <3>4. \A g \in Genes : AtWork(g) => AtWork(g)'
        BY <1>d, <3>1, <3>3
      <3> QED  BY <1>11, <2>2, <1>a, <3>4 DEF TaskFails, Listed
    <2> QED  BY <2>1, <2>2
  <1>12. ASSUME NEW t \in Tasks, Added(t) PROVE Kept
    <2> DEFINE row == tasks[t].of
               new(c) == [file |-> row.file, gene |-> row.gene, copy |-> c]
               stale == GenesOf(Replaced(row)) \ {row.gene}
    <2>1. PICK c \in 1 .. Copies : entries' = (entries \ Replaced(row)) \cup {new(c)}
      BY <1>12 DEF Added
    <2>2. /\ tasks' = [tasks EXCEPT ![t] = None]
          /\ record' = record \ stale /\ providing' = providing \ stale
          /\ leftover' = leftover \ (stale \cup {row.gene})
      BY <1>12 DEF Added, Unserve
    <2>3. new(c) \in entries' /\ new(c).gene = row.gene
      BY <2>1
    <2>4. \A g \in Genes \ stale : Listed(g) => Listed(g)'
      BY <2>1, <2>3 DEF Listed, GenesOf
    <2>5. \A g \in Genes \ {row.gene} : AtWork(g) => AtWork(g)'
      BY <2>2, <1>e
    <2> QED  BY <2>2, <2>3, <2>4, <2>5 DEF UnlistedIsNotServed, AtWork, Listed, TypeOK
  <1>13. ASSUME NEW t \in Tasks, RunReschedules(t) PROVE Kept
    <2>1. tasks[t].of \in entries /\ tasks' = [tasks EXCEPT ![t] = None]
          /\ UNCHANGED <<entries, record, providing, leftover>>
      BY <1>13 DEF RunReschedules
    <2>2. \E e \in entries' : e.gene = tasks[t].of.gene
      BY <2>1
    <2>3. \A g \in Genes \ {tasks[t].of.gene} : AtWork(g) => AtWork(g)'
      BY <2>1, <1>e
    <2> QED  BY <2>1, <2>2, <2>3, <1>a DEF Listed
  <1>14. ASSUME NEW t \in Tasks, RunDrops(t) PROVE Kept
    <2> DEFINE e == tasks[t].of
    <2>1. entries' = entries \ {e} /\ tasks' = [tasks EXCEPT ![t] = None]
      BY <1>14 DEF RunDrops, Forget
    <2>2. (record' \cup providing') \ leftover' \subseteq ((record \cup providing) \ leftover) \ {e.gene}
      BY <1>14 DEF RunDrops, Unserve, UnserveFails
    <2>3. \A g \in Genes \ {e.gene} : (Listed(g) => Listed(g)') /\ (AtWork(g) => AtWork(g)')
      BY <2>1, <1>e DEF Listed
    <2> QED  BY <2>2, <2>3 DEF UnlistedIsNotServed, AtWork, TypeOK
  <1>15. ASSUME NEW t \in Tasks, WithdrawnMeanwhile(t) PROVE Kept
    <2> DEFINE h == tasks[t].of.gene
    <2>1. UNCHANGED entries /\ tasks' = [tasks EXCEPT ![t] = None]
      BY <1>15 DEF WithdrawnMeanwhile
    <2>2. \A g \in Genes \ {h} : AtWork(g) => AtWork(g)'
      BY <2>1, <1>e
    <2>3. CASE Listed(h) /\ UNCHANGED <<record, providing, leftover>>
      BY <2>1, <2>2, <2>3, <1>a DEF Listed
    <2>4. CASE (record' \cup providing') \ leftover' \subseteq ((record \cup providing) \ leftover) \ {h}
      BY <2>1, <2>2, <2>4 DEF UnlistedIsNotServed, AtWork, Listed, TypeOK
    <2>5. \/ Listed(h) /\ UNCHANGED <<record, providing, leftover>>
          \/ (record' \cup providing') \ leftover' \subseteq ((record \cup providing) \ leftover) \ {h}
      BY <1>15 DEF WithdrawnMeanwhile, AnnouncedAgain, Unserve, UnserveFails
    <2> QED  BY <2>3, <2>4, <2>5
  <1>16. ASSUME NEW f \in Files, NEW g \in Genes \cup {Gone}, Edit(f, g) PROVE Kept
    BY <1>16, <1>a, <1>b DEF Edit
  <1>17. CASE UNCHANGED vars
    BY <1>17, <1>a, <1>b DEF vars
  <1>18. /\ \A f \in Files : Named(entries, f) \in SUBSET entries /\ Named(Row, f) \in SUBSET Row
         /\ \A g \in Genes : Matches(entries, g) \in SUBSET entries /\ Matches(Row, g) \in SUBSET Row
    BY DEF Named, Matches
  <1> QED
    BY <1>1, <1>2, <1>3, <1>4, <1>5, <1>6, <1>7, <1>8, <1>9, <1>10, <1>11, <1>12, <1>13,
       <1>14, <1>15, <1>16, <1>17, <1>18 DEF Next

-----------------------------------------------------------------------------
(* Every step that changes the table writes the file to match, or counts a   *)
(* fault; the daemon begins with what the file says.                         *)
LEMMA NextFile ==
    ASSUME TypeOK, FileMatchesTable, [Next]_vars
    PROVE  FileMatchesTable'
  <1> USE DEF daemon, table, served, bounds, history
  <1> DEFINE Kept == FileMatchesTable'
  <1>a. ASSUME UNCHANGED <<up, entries, disk, crossed>>, faults' \in {faults, faults + 1}
        PROVE  Kept
    BY <1>a DEF FileMatchesTable, TypeOK
  <1>b. ASSUME disk' = Rows(entries') PROVE Kept
    BY <1>b DEF FileMatchesTable
  <1>c. ASSUME Fault PROVE Kept
    BY <1>c DEF Fault, FileMatchesTable, TypeOK
  <1>1. CASE Start
    <2>1. entries' = {[file |-> r.file, gene |-> r.gene, copy |-> 1] : r \in disk} /\ disk' = disk
      BY <1>1 DEF Start
    <2>2. \A r \in disk : RowOf([file |-> r.file, gene |-> r.gene, copy |-> 1]) = r
      BY DEF RowOf, Row, TypeOK
    <2>3. Rows(entries') = disk
      BY <2>1, <2>2 DEF Rows
    <2> QED  BY <1>b, <2>1, <2>3
  <1>2. CASE Crash
    BY <1>2 DEF Crash, FileMatchesTable
  <1>3. ASSUME NEW S \in SUBSET entries, Withdraw(S) PROVE Kept
    <2>1. disk' = Rows(entries')
      BY <1>3 DEF Withdraw, WriteTable, Forget
    <2> QED  BY <1>b, <2>1
  <1>4. ASSUME NEW S \in SUBSET Row, GivesUp(S) PROVE Kept
    BY <1>4, <1>a, <1>c DEF GivesUp
  <1>5. CASE WithdrawOffline
    BY <1>5 DEF WithdrawOffline, FileMatchesTable
  <1>6. ASSUME NEW t \in Tasks, Added(t) PROVE Kept
    <2>1. Save(entries')
      BY <1>6 DEF Added
    <2> QED  BY <1>b, <1>c, <2>1 DEF Save
  <1>7. ASSUME NEW t \in Tasks, RunDrops(t) PROVE Kept
    BY <1>7, <1>b, <1>c DEF RunDrops, Save
  <1>8. ASSUME NEW t \in Tasks, TaskFails(t) PROVE Kept
    BY <1>8, <1>c DEF TaskFails
  <1>9. ASSUME NEW t \in Tasks, WithdrawnMeanwhile(t) PROVE Kept
    BY <1>9, <1>a, <1>c DEF WithdrawnMeanwhile
  <1>10. \/ Listen \/ Poll \/ UNCHANGED vars
         \/ \E e \in Entry : TimerFires(e)
         \/ \E f \in Files : Announce(f)
         \/ \E t \in Tasks : PutRecordTo(t) \/ StartProviding(t) \/ RunReschedules(t)
         \/ \E f \in Files, g \in Genes \cup {Gone} : Edit(f, g)
         => UNCHANGED <<up, entries, disk, crossed, faults>>
    BY DEF Listen, Poll, vars, TimerFires, Announce, PutRecordTo, StartProviding,
           RunReschedules, Edit
  <1>11. /\ \A f \in Files : Named(entries, f) \in SUBSET entries /\ Named(Row, f) \in SUBSET Row
         /\ \A g \in Genes : Matches(entries, g) \in SUBSET entries /\ Matches(Row, g) \in SUBSET Row
    BY DEF Named, Matches
  <1> QED
    BY <1>a, <1>1, <1>2, <1>3, <1>4, <1>5, <1>6, <1>7, <1>8, <1>9, <1>10, <1>11 DEF Next

-----------------------------------------------------------------------------
LEMMA Inductive == (Init => IInv) /\ (IInv /\ [Next]_vars => IInv')
  <1>1. Init => IInv
    BY InitType DEF Init, IInv, TableIsUnique, Unique, CliIsUnique, DownIsEmpty,
       WithdrawnStaysWithdrawn, UnlistedIsNotServed, AlwaysScheduled, FileMatchesTable
  <1>2. IInv /\ [Next]_vars => IInv'
    BY NextType, NextUnique, NextWithdrawn, NextServed, NextScheduled, NextFile DEF IInv
  <1> QED  BY <1>1, <1>2

(* The table and the file list a gene once, and a place once, however        *)
(* announces, republishes, withdraws and the CLI interleave.                 *)
THEOREM TableStaysUnique == Spec => []TableIsUnique
  <1>1. IInv => TableIsUnique
    BY DEF IInv
  <1> QED  BY Inductive, <1>1, PTL DEF Spec

(* A withdrawn gene stays out of the table and the file, whatever fails and  *)
(* whenever the process dies, unless the CLI has written over a daemon.      *)
THEOREM WithdrawalHolds == Spec => []WithdrawnStaysWithdrawn
  <1>1. IInv => WithdrawnStaysWithdrawn
    BY DEF IInv
  <1> QED  BY Inductive, <1>1, PTL DEF Spec

(* What is served is listed or being worked on, unless a call has failed.    *)
THEOREM ServedIsListed == Spec => []UnlistedIsNotServed
  <1>1. IInv => UnlistedIsNotServed
    BY DEF IInv
  <1> QED  BY Inductive, <1>1, PTL DEF Spec

(* No listed entry falls out of the republish schedule.                      *)
THEOREM ScheduleHolds == Spec => []AlwaysScheduled
  <1>1. IInv => AlwaysScheduled
    BY DEF IInv
  <1> QED  BY Inductive, <1>1, PTL DEF Spec

(* While no write and no call fails and the CLI writes over no daemon's      *)
(* table, the file of a running daemon says what its table says.             *)
THEOREM FileAgrees == Spec => []FileMatchesTable
  <1>1. IInv => FileMatchesTable
    BY DEF IInv
  <1> QED  BY Inductive, <1>1, PTL DEF Spec
=============================================================================
