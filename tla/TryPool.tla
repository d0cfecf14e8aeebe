------------------------------- MODULE TryPool -------------------------------
(***************************************************************************)
(* `rotifer agent run` of a TryPool agent: the executors it builds for the *)
(* genes on disk, the domains that fail over side by side, and the fitness *)
(* file one run leaves to the next (executeTryPool and buildGeneExecutor   *)
(* in src/commands/agent-run.ts, src/runtime/domain-failover.ts).          *)
(* Fitness is counted in twentieths: 10, +1, -3, between 0 and 20. The     *)
(* counters of successes and failures decide nothing and are left out.     *)
(***************************************************************************)
EXTENDS Integers, Sequences, FiniteSets

CONSTANTS Runners,          \* processes that may run the agent at the same time
          Domains, Pools,   \* the genome: of each domain its genes, in its order
          Setups,           \* what may be on disk for a gene
          Initial, Reward, Penalty, Ceiling,   \* of the fitness
          MaxTurns, MaxEdits, MaxFaults        \* bounds of the model

GenesOf(d) == {Pools[d][i] : i \in DOMAIN Pools[d]}
Genes == UNION {GenesOf(d) : d \in Domains}

Setup == [wasm : BOOLEAN, external : BOOLEAN, l0 : {"pass", "violation", "unavailable"},
          source : {"none", "express", "other", "throws"}]

\* registerGene opens a domain with its first gene; a genome that names a gene twice
\* is left out.
ASSUME PoolAssumption ==
  /\ Setups \subseteq Setup
  /\ \A d, e \in Domains : d # e => GenesOf(d) \cap GenesOf(e) = {}
  /\ Pools \in [Domains -> Seq(Genes) \ {<<>>}]
  /\ \A d \in Domains : \A i, j \in DOMAIN Pools[d] : i # j => Pools[d][i] # Pools[d][j]
  /\ Reward \in Nat /\ Penalty \in Nat /\ Ceiling \in Nat /\ Initial \in 0..Ceiling

VARIABLES
  setup,      \* the genes on disk
  works,      \* the genes whose express() succeeds
  file,       \* the fitness file: blank, garbled, or what a run saved
  stage,      \* of each process: idle, running, or saving
  engine,     \* of each process: what running each gene does (executor), its
              \* DomainFailoverEngine (fitness, pool, active), and of each domain
              \* the candidates left, the genes tried, in order, and its status
  loaded,     \* of each process: whether its fitness is one it found saved
  turns, edits, faults

world == <<setup, works, turns, edits>>
tryVars == <<setup, works, file, stage, engine, loaded, turns, edits, faults>>

-----------------------------------------------------------------------------
\* What buildGeneExecutor returns for a gene: a sandboxed run, a run on Node, a
\* failure without a run, or (its import throws) nothing.
Blocked(s, trust) ==
  \/ s.external /\ ~trust
  \/ s.l0 = "violation"
  \/ s.l0 = "unavailable" /\ s.external

Executor(s, sandbox, trust) ==
  IF s.wasm /\ sandbox THEN "wasm"
  ELSE IF Blocked(s, trust) \/ s.source \in {"none", "other"} THEN "refuses"
  ELSE IF s.source = "throws" THEN "throws"
  ELSE "node"

\* Mutant: the worst comes first.
BugFitter(fit, genes, i, j) ==
  fit[genes[i]] < fit[genes[j]] \/ (fit[genes[i]] = fit[genes[j]] /\ i < j)

\* The comparison of getByDomain; its sort is stable.
Fitter(fit, genes, i, j) ==
  fit[genes[i]] > fit[genes[j]] \/ (fit[genes[i]] = fit[genes[j]] /\ i < j)

\* The places ahead of a place of the pool, and the place that comes n-th.
AheadOf(genes, fit, i) == {j \in DOMAIN genes : Fitter(fit, genes, j, i)}
From(genes, fit, n) ==
  CHOOSE i \in DOMAIN genes : Cardinality(AheadOf(genes, fit, i)) = n - 1

\* getByDomain sorts the pool in place.
Ranked(genes, fit) == [n \in DOMAIN genes |-> genes[From(genes, fit, n)]]

Rewarded(f) == IF f + Reward > Ceiling THEN Ceiling ELSE f + Reward

Penalized(f) == IF f < Penalty THEN 0 ELSE f - Penalty

Fresh == [g \in Genes |-> Initial]

\* The file as a reader finds it: absent or cut to nothing, a text JSON.parse throws
\* on, or a whole one.
Blank == [is |-> "blank"]
Garbled == [is |-> "garbled"]
Saved(fit) == [is |-> "saved", fitness |-> fit]

-----------------------------------------------------------------------------
\* What a process knows while it runs nothing.
Nothing ==
  [executor |-> [g \in Genes |-> "refuses"], fitness |-> Fresh, pool |-> Pools,
   active |-> [d \in Domains |-> Pools[d][1]], left |-> [d \in Domains |-> <<>>],
   tried |-> [d \in Domains |-> <<>>], status |-> [d \in Domains |-> "none"]]

TryInit ==
  /\ setup \in [Genes -> {s \in Setups : s.source = "express" /\ ~s.external /\ s.l0 = "pass"}]
  /\ works \in SUBSET Genes
  /\ file = Blank
  /\ stage = [p \in Runners |-> "idle"]
  /\ engine = [p \in Runners |-> Nothing]
  /\ loaded = [p \in Runners |-> FALSE]
  /\ turns = 0 /\ edits = 0 /\ faults = 0

\* Mutant: a saved fitness does not change who is active.
BugActiveOf(ranked) == [d \in Domains |-> Pools[d][1]]

\* loadFitnessState, or initialize when no file can be read.
ActiveOf(ranked) == [d \in Domains |-> ranked[d][1]]

\* The run starts: every gene's executor is built, and the file is read. An import
\* that throws ends the run with no gene run.
Start(p) ==
  /\ stage[p] = "idle"
  /\ \E sandbox, trust \in BOOLEAN :
       LET built == [g \in Genes |-> Executor(setup[g], sandbox, trust)]
           found == file.is = "saved"
           fit == IF found THEN file.fitness ELSE Fresh
           ranked == IF found THEN [d \in Domains |-> Ranked(Pools[d], fit)] ELSE Pools
       IN  IF \E g \in Genes : built[g] = "throws"
             THEN UNCHANGED <<stage, engine, loaded>>
             ELSE /\ stage' = [stage EXCEPT ![p] = "running"]
                  /\ loaded' = [loaded EXCEPT ![p] = found]
                  /\ engine' = [engine EXCEPT ![p] =
                       [Nothing EXCEPT !.executor = built, !.fitness = fit, !.pool = ranked,
                          !.active = ActiveOf(ranked), !.status = [d \in Domains |-> "running"]]]
  /\ UNCHANGED <<world, file, faults>>

Succeeds(p, g) == engine[p].executor[g] \in {"wasm", "node"} /\ g \in works

\* Mutant: the active gene is tried again.
BugCandidates(ranked, failed) == ranked

\* The candidates of a failure: the pool as ranked now, without the active gene.
Candidates(ranked, failed) ==
  LET at == CHOOSE i \in DOMAIN ranked : ranked[i] = failed
  IN  [i \in 1 .. (Len(ranked) - 1) |-> ranked[IF i < at THEN i ELSE i + 1]]

\* executeDomain: one gene's answer, whichever domain's comes first.
Answer(p, d) ==
  /\ stage[p] = "running" /\ engine[p].status[d] = "running"
  /\ LET e == engine[p]
         first == e.tried[d] = <<>>
         g == IF first THEN e.active[d] ELSE e.left[d][1]
         ok == Succeeds(p, g)
         fit == [e.fitness EXCEPT ![g] = IF ok THEN Rewarded(@) ELSE Penalized(@)]
         ranked == IF first /\ ~ok THEN Ranked(e.pool[d], fit) ELSE e.pool[d]
         rest == IF first THEN Candidates(ranked, g) ELSE Tail(e.left[d])
     IN  engine' = [engine EXCEPT ![p] =
           [e EXCEPT !.fitness = fit, !.pool[d] = ranked, !.tried[d] = Append(@, g),
              !.active[d] = IF ok THEN g ELSE @, !.left[d] = IF ok THEN <<>> ELSE rest,
              !.status[d] = IF ok THEN "success" ELSE IF rest = <<>> THEN "all_failed" ELSE @]]
  /\ UNCHANGED <<world, file, stage, loaded, faults>>

AllAnswered(p) == \A d \in Domains : engine[p].status[d] # "running"

Ends(p) ==
  /\ stage' = [stage EXCEPT ![p] = "idle"]
  /\ engine' = [engine EXCEPT ![p] = Nothing]
  /\ loaded' = [loaded EXCEPT ![p] = FALSE]
  /\ UNCHANGED world

\* Promise.all is through: writeFileSync opens the file, which cuts it to nothing. A
\* write that fails, here or later, is not fatal.
Truncate(p) ==
  /\ stage[p] = "running" /\ AllAnswered(p)
  /\ \/ /\ file' = Blank
        /\ stage' = [stage EXCEPT ![p] = "saving"]
        /\ UNCHANGED <<world, engine, loaded, faults>>
     \/ /\ faults < MaxFaults /\ faults' = faults + 1
        /\ UNCHANGED file
        /\ Ends(p)

\* The text is written. Over that of a process which wrote since, it leaves a tail
\* when it is the shorter one.
Save(p) ==
  /\ stage[p] = "saving"
  /\ \/ file' = Saved(engine[p].fitness) /\ UNCHANGED faults
     \/ file.is # "blank" /\ file' = Garbled /\ UNCHANGED faults
     \/ faults < MaxFaults /\ faults' = faults + 1 /\ file' \in {file, Garbled}
  /\ Ends(p)

\* The process dies, perhaps with its text half written.
Kill(p) ==
  /\ stage[p] # "idle" /\ faults < MaxFaults
  /\ file' \in IF stage[p] = "saving" THEN {file, Garbled} ELSE {file}
  /\ faults' = faults + 1
  /\ Ends(p)

\* A gene breaks or recovers; the user edits, compiles or installs one.
Turn ==
  /\ turns < MaxTurns
  /\ \E g \in Genes : works' = (works \ {g}) \cup ({g} \ works)
  /\ turns' = turns + 1
  /\ UNCHANGED <<setup, file, stage, engine, loaded, edits, faults>>

Edit ==
  /\ edits < MaxEdits
  /\ \E g \in Genes, s \in Setups : setup' = [setup EXCEPT ![g] = s]
  /\ edits' = edits + 1
  /\ UNCHANGED <<works, file, stage, engine, loaded, turns, faults>>

TryNext ==
  \/ \E p \in Runners :
       Start(p) \/ (\E d \in Domains : Answer(p, d)) \/ Truncate(p) \/ Save(p) \/ Kill(p)
  \/ Turn
  \/ Edit

TrySpec == TryInit /\ [][TryNext]_tryVars

\* A run that has started goes on, unless it dies: executors answer or fail.
Fairness ==
  \A p \in Runners : /\ WF_tryVars(Truncate(p)) /\ WF_tryVars(Save(p))
                      /\ \A d \in Domains : WF_tryVars(Answer(p, d))

FairSpec == TrySpec /\ Fairness

-----------------------------------------------------------------------------
Run(genes) == {genes[i] : i \in DOMAIN genes}
\* A domain fails only when every gene of its pool has been run, each once; it
\* succeeds with the last one run (executeDomain in domain-failover.ts).
FailsOnlyWhenAllFailed ==
  \A p \in Runners, d \in Domains :
    LET ran == engine[p].tried[d]
    IN  /\ \A i, j \in DOMAIN ran : i # j => ran[i] # ran[j]
        /\ engine[p].status[d] = "all_failed" => Run(ran) = GenesOf(d)
        /\ engine[p].status[d] = "success" => engine[p].active[d] = ran[Len(ran)]

\* The genes of a domain are tried in the order of the fitness their run loaded,
\* whatever the other domains and runs do meanwhile ("try the next-best gene in
\* the same domain, ranked by running fitness score", domain-failover.ts).
BestFirst ==
  [][\A p \in Runners, d \in Domains :
       LET ran == engine'[p].tried[d]
       IN  ran # engine[p].tried[d] /\ ran # <<>> =>
             \A h \in GenesOf(d) \ Run(ran) :
               engine[p].fitness[h] <= engine[p].fitness[ran[Len(ran)]]]_tryVars

\* When one gene of a domain works for good and the others have failed for good,
\* the runs learn it: from some run on it is the first that every run tries which
\* finds a fitness saved, whatever was saved before. A run that reads the file while
\* another writes it, or after two wrote it at once, starts afresh; what it saves
\* does not unlearn it, and neither do saves that failed, deaths and runs that save
\* what they loaded long ago (loadFitnessState, exportFitnessState).
Usable(g) == setup[g].source = "express" /\ ~setup[g].external /\ setup[g].l0 # "violation"
OnlyWorks(d, g) ==
  /\ works \cap GenesOf(d) = {g}
  /\ Usable(g) /\ \A h \in Genes : setup[h].source # "throws"

RunsLearn ==
  \A d \in Domains : \A g \in GenesOf(d) :
    <>[]OnlyWorks(d, g) =>
      <>[](\A p \in Runners :
             loaded[p] /\ engine[p].tried[d] # <<>> => engine[p].tried[d][1] = g)
=============================================================================
