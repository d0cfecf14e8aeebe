# Formal models of the Rotifer playground

TLA+ modules for the parts of this repository whose correctness depends on
order, failure or limits, the TLC runs that check them on small instances, and
machine-checked proofs of what matters most. The code is the reference: each
definition that stands for code is mapped to its lines in `PROJECT.json`.

## The system

A *gene* is a small program with a phenotype. The TypeScript CLI (`src/src`)
creates, compiles, tests, runs, scores and publishes genes; a Rust core
(`src/crates/rotifer-core`) holds the sandbox, the compiler's IR, the arena, the
agent memory and the P2P node; `rotifer-napi` joins the two. Cloud functions are
in `src/supabase`.

`rotifer network start` runs a daemon: a Node process with an HTTP control
socket, the native node (a thread with the libp2p event loop) and a republish
table in a file. Genes are announced to a Kademlia DHT whose nodes keep each
other's records under budgets; who counts as one publisher depends on proofs of
registration that travel in heartbeats. The proofs are issued by an edge
function over two database functions.

`rotifer agent run` runs the genes of an agent, gives them the agent's memory,
and, for a TryPool agent, fails over between the genes of a domain.
`rotifer install`, `uninstall` and `rollback` move genes in and out of a project.

| Component | State | Operations | Interacts with | What is hard | What makes it correct | Status |
|---|---|---|---|---|---|---|
| DHT gene store (`p2p/gene_store.rs`) | records, providers, their holders and expiry | admit, put, remove, add/remove provider, sweep | Kademlia behaviour and event loop; holder from the desk | replays, echoes, full budgets, holders that change | budgets hold, eviction is fair, versions only advance, own entries are exempt | modelled |
| Gene record (`p2p/gene_record.rs`) | none | sign, validate, supersede, expiry | store, node | clock window, ties | a replay never prolongs a life | partly |
| Republish table (`utils/announce-table.ts`), daemon (`utils/p2p-daemon.ts`), CLI withdraw (`commands/network.ts`) | table, timers, restore wait, file | announced, withdrawn, run, restore, stop | native tasks, node, file, control socket | awaits, crash between steps, failed calls, two processes and one file | listed genes stay scheduled and served; unlisted and withdrawn ones do not come back | modelled |
| Node event loop (`p2p/node.rs`), napi | pending commands and queries | announce, republish, withdraw, search, peers | everything in `p2p/` | commands of several threads, deadlines | each task's commands in order; every request answered | partly |
| Heartbeat desk (`p2p/por.rs`, `heartbeat.rs`) | attestations, forgeries, blocks, verified signatures | on_heartbeat, record_forgery, scores, registration | node, key store, gossip, DHT puts | full books, renewals in any order, blocked peers that are not connected | penalties are counted exactly and held longest; a block needs a forgery that counts; the quota keeps its order | partly |
| Node attestation issuer (`supabase/functions/node-attestation`, its migration) | challenges, issuances, nodes, revocations | challenge, issue, revoke, list for the JWKS | caller's account, operators, the desk's verifiers | concurrent redemptions under two locks, three clock windows, retries | quota, one account per PeerId, one certificate per challenge, a revocation is published while it matters | modelled |
| Agent memory (`src/memory/*`, `memory/store.rs`) | entries, quota, retention, audit log | write, read, query, delete, purge, create | genes of a run, DataPolicy, deployer | eviction under a quota, purge before refusal, saves that fail, two-step creation | quota holds; evictions are ordered and minimal; the audit adds up; policies are the creator's | partly |
| Gene snapshots (`utils/gene-snapshots.ts`), install, uninstall, rollback | gene directory, snapshot, sidecar | install, uninstall, rollback | file system, download | death between system calls, failed downloads, two processes | the copy a command found survives it; copies are not mixed | modelled |
| TryPool runs (`runtime/domain-failover.ts`, `commands/agent-run.ts`) | pools, fitness, active gene; the fitness file | build executors, execute, save | genes on disk, L0 gate, sandbox | awaits between ranking and trying, runs side by side that cut, write and read one file | best first, each once; fails only when all failed; what works is learnt | modelled |
| Bootstrap keeper (`p2p/outbound.rs`, `node.rs`) | dials, connections, learnt PeerIds, backoff | due, established, dial_failed, closed | the Swarm's events, two timers | dials, connections of other origin, closes and failures in any order | it waits only for a dial that is still under way; a node that hangs up on a bootstrap dial is not dialled in a loop; it reconnects | partly |
| Issuer key store, gene search, rate limits (`p2p/por.rs`, `discover.rs`, `security.rs`) | keys, waiters, buckets | fetch, search, allow | event loop, HTTP, DHT queries | durations and the Swarm's events | | not modelled |
| Algebra executor (`algebra/executor.rs`), network gateway (`runtime/network-gateway.ts`) | a trace; a window of timestamps | run; fetch | sandbox; HTTP | | | not modelled |
| Compiler and IR, gene IDs, bindings, L0 gate, arena, fitness, reputation, scanner, test suite | values in memory or plain lists | pure functions, single inserts | CLI | byte formats, floating point | | not modelled |
| Sandbox | the engine's | run | wasmtime | the engine's own limits | | not modelled |
| SQLite storage, agent registry, cloud client, publishing, chat and memory functions, telemetry, other CLI commands, editor extension, badge worker | a service's or a file's | one request or statement each | services outside the repository | | | not modelled |

`PROJECT.json` has the complete list with files, and the hazards with lines.

## Modules

    DhtHolders ---- GeneRecords ------- GeneRecordsProofs
        |               |  \
        |               |   INSTANCE RecordRegisters (abstract)
        |           MCGeneRecords
        +---------- GeneProviders ----- GeneProvidersProofs
                        |
                    MCGeneProviders
    Republisher --- RepublisherProofs       HeartbeatDesk --- HeartbeatDeskProofs
        |                                       |
    MCRepublisher                           MCHeartbeatDesk

    NodeAttestation --- NodeAttestationProofs    AgentMemory --- AgentMemoryProofs
        |   \                                        |
        |    INSTANCE CertificateLog (abstract)  MCAgentMemory
    MCNodeAttestation

    GeneSnapshots ----- CommandsProofs ----- TryPool
        |                                      |
    MCGeneSnapshots                        MCTryPool

    BootstrapKeeper --- BootstrapKeeperProofs
        |
    MCBootstrapKeeper

* **DhtHolders**: whom an entry is counted against (a pseudonym, a PeerId or
  this node) and which class makes room for a newcomer. Both halves of the store
  use it; the Rust code writes the rule out twice.
* **GeneRecords**: `GeneStore.records`. `AdmitRecord`/`RefuseRecord` are
  `admit_record` with its sweep, time window, order of versions, budgets and
  random victim; `Put` and `Withdraw` are Kademlia's own path; `SweepTick`,
  `Restart`, `ProofChanges` and `Tick` the surroundings. What peers send is
  `Offered`: anything within reach of a signature, replays and echoes included.
* **RecordRegisters**: what the store promises a reader: under each key, values
  that are lost or replaced by newer ones, never by older ones. GeneRecords
  implements it under the mapping `Visible` (`VersionsOnlyAdvance`).
* **GeneProviders**: `GeneStore.providers`, ordered lists, since the code takes
  the *first* matching entry and `swap_remove`s the victim.
* **Republisher**: the table with its file, timers and restore wait; the native
  tasks command by command; what the node's store and provider list hold of its
  own genes; the CLI's withdraw without a daemon. JavaScript callbacks are
  atomic up to an `await`; each native command is a step of its own; a task's
  end and its callback are two steps.

* **HeartbeatDesk**: what a node holds for and against the sources of
  heartbeats. `peers` is the code's map of `PeerAttestation`; `OnHeartbeat` is
  `on_heartbeat` with the check of its token, `RecordForgery` the forgery it may
  hold against the source, `WithEntry` the bookkeeping that may forget another
  source for it, and `RefreshScores` the scores and blocks the event loop
  derives after each decision. `ForgedRecord` is the DHT handler's way to the
  same forgery, `ScoreTimer` the refresh by timer. Three variables are history:
  when scores were last refreshed, when each source forged, and who was forgotten
  with a forgery that counted.

* **NodeAttestation**: the edge function and the database functions it calls. A
  redemption is the row of `req`: signed (`Redeem`), then waiting for the PeerId's
  lock, then for the account's, then decided, then committed. `Verdict` is the
  code's sequence of refusals. Revocations, closures of accounts and the clock take
  no lock and come in between. So does `Delete`, an account that goes with its
  challenges and its rows in `nodes` (`ON DELETE CASCADE`) while its certificates
  stay. `nodes` is the table of that name.
* **CertificateLog**: what the issuer promises, without transactions, locks or
  challenges: a log to which certificates are added one at a time, each at an instant
  at which its PeerId is free, its account has room, its challenge is unused and its
  `iat` is not of the future. NodeAttestation implements it (`IssuesAtomically`) with
  `issuances` for the log and `revocations` for what is voided.
* **AgentMemory**: one agent's memory. Every call is one action that begins with
  the purge (`Purge`, `Live`), as `loadLive` does; `Plan` is the two eviction loops of
  `write()`, of which `Taken` is one turn, over the `Candidates` in their order;
  `audited` is the sum of the size deltas in the audit log. `run` is how
  far each run of the agent has come in opening the memory: creating it and setting
  its retention are two calls. `Write(w, viaNode)` tells the Node path, which asks
  the DataPolicy first, from the WASM path, which does not. It is mapped to the
  TypeScript backend, which the repository calls a complete test double of the
  native store (`memory/store.rs`); the native store states the same rules in SQL.
* **GeneSnapshots**: one gene's directory, its snapshot and its sidecar, in
  system calls: `Check`, `Clear`, `MoveAside`, `WriteSidecar` are `snapshotGene`;
  `Mkdir`, `WritePhenotype`, `Download`, `WriteManifest` the install after it;
  `Discard`, `Restore`, `ForgetSidecar` are `restoreGene`. `old` is history: the
  copy the last command found.
* **TryPool**: `Start` builds every gene's executor (`Executor` is
  `buildGeneExecutor` with its gates) and reads the fitness file, `Answer` is one
  gene's answer in `executeDomain` with the reward, the ranking and the next
  candidate, `Truncate` and `Save` the write at the end: `writeFileSync` cuts the
  file when it opens it, and writes after. Domains and processes interleave;
  `loaded` is history: whether a run found a fitness saved.
* **BootstrapKeeper**: the keeper's dials. `conn` is `Outbound.pending` and
  `up_since` with the connections the Swarm has: `Established`, `DialFails` and
  `Closed` are the three events, each with all the code does on it, up to the
  redial (`KeepBootstrap`) that follows a close at once. `Check` is either timer.
  Nodes come, go and change identity (`Switch`, `Rekey`), and connections come up
  that no bootstrap dial made (`OtherConnects`). `due` is history: the failures
  in a row and the wait they call for, counted apart from the keeper; `AfterClose`
  says what the end of a connection makes of them. Only the
  connections of bootstrap dials have an age, as in the code (`up_since`, `Short`).

GeneRecords and GeneProviders take the desk's answer (`registration`) as free to
change at any time, which is weaker than HeartbeatDesk. HeartbeatDesk takes any
token of its source as possible, which is weaker than NodeAttestation.

### How the code's steps became actions

| Code | Action |
|---|---|
| `restore` up to its wait; its poll | `Start`; `Poll` |
| `schedule`'s timer, and `run` up to `await republish` | `TimerFires` |
| `run` after the await | `RunReschedules`, `RunDrops`, `WithdrawnMeanwhile` |
| `POST /announce` up to the promise; `added` | `Announce`; `Added` |
| `PutRecordTo`, `StartProviding` commands of a task; a failing one | actions of those names; `TaskFails` |
| `POST /withdraw` with `withdraw()` | `Withdraw` |
| CLI withdraw: null answer and read of the file; write | `GivesUp`; `WithdrawOffline` |
| shutdown, `/stop`, kill, unhandled rejection | `Crash` |
| `issue()` up to the database call; the two advisory locks; the checks; the commit | `Redeem`; `LockPeer`, `Decide`; `Decide`; `Commit` |
| `ensureAgentMemory`: memoryGet, memoryCreate, memorySetDataPolicyRetention | `OpenMemory`, `CreateMemory`, `SetRetention` |
| `install --force`, `uninstall`, `rollback` | `Install`, `Uninstall`, `Rollback` and the system calls after them |
| `executeDomain` up to each `await executor(input)` | `Answer` |
| `writeFileSync` of the fitness: the open that cuts the file; the write | `Truncate`; `Save` |

`timers` is the code's Map; `orphans` counts armed timers the Map no longer
holds, which the code produces (`run` deletes without clearing). Entries are
compared by object identity in the code, so an entry has a `copy` number.

## Abstractions

* One clock stands for the wall clock and the monotonic clock. It does not step
  back, and this node's announcements of one gene reach its store in the order
  they were signed; `OwnIsNewest` depends on both.
* The store is memory only, as in the code; a restart empties it.
* A record's bytes are left out; every check that fails refuses it. Of the
  checks of `validate_record` only the time window is spelled out.
* The write limiter and the accounting of forgeries only refuse more; the
  modules let every message through.
* Kademlia's own removal of an expired record met on a read is not an action: to
  every property it looks like a sweep.
* `registration(peer)` of the desk may change at any time, for any peer but this
  node.
* Timers fire at any time after they are armed; the 12 hours are not modelled.
* A task reads the gene's files in the step that starts it. The CLI's null answer
  and its read of the file are one step. One daemon runs at a time.
* A node command whose caller timed out is taken at once or never.

* HeartbeatDesk trusts one issuer. What the keys, as this node has them, make of
  a token is part of the token and may differ each time it is sent: the key
  unknown, a forgery, or this source's own token, revoked or not. An unreadable
  token changes nothing, as an undecidable one does. The rate limit per source
  only ignores heartbeats, and the cache of verified signatures answers what the
  verifier would: both are left out. Wall clock and monotonic clock are one. The
  desk is memory only, so a restart is `Init` again.
* NodeAttestation has one issuer key and one audience. Time is one clock, the
  database's; the signer's is any of `Offsets` from it, and the code's check refuses
  what is off by more than the tolerance. An operator's `not_after` is any of `Cutoffs`
  from now. A commit
  is one step with the release of the locks; a transaction whose connection fails
  leaves no trace and is a redemption that never began. A deletion either waits for
  a redemption of the account that holds both locks or undoes it (each needs a row
  the other has locked, and the database breaks the tie); it comes after `Commit` or
  takes the redemption with it. A deleted account does not come back.
* AgentMemory measures values in units of size and days on one clock; entries are
  ordered by number for their IDs. Only agents with a memory of their own; calls
  are atomic, as a transaction or a synchronous function is. Share policies other
  than PRIVATE and callers without a gene ID are refused before any state is read.
* GeneSnapshots models one gene: genes share no file. File contents are the version
  they belong to; a removal of a directory may stop anywhere.
* TryPool's genomes name each gene once. It counts fitness in whole steps of a
  twentieth. `works` says which genes' `express()` succeeds; it changes at most
  `MaxTurns` times. The fitness file is blank (absent, or cut to nothing), garbled
  (JSON.parse throws) or whole; a prefix of the text that a reader meets while it is
  being written is a blank one: the code starts afresh from all three. A process that
  writes over the text of another leaves its own, or, when its own is shorter, its own
  with a tail.
* BootstrapKeeper counts time in ticks until a deadline; a deadline that is past and
  none are the same to the keeper, which dials either way. Failures are counted up to
  `MaxFailures`, beyond which the wait no longer grows. The `/p2p/` part a dial demands
  is fixed when it starts. One slot stays free for the keeper's dial when a connection
  of other origin comes up. A dial to a node that is there fails at most `MaxFaults`
  times (limits of the node's own, another dial to the same peer under way).
* A tie for the oldest source falls to any of them: the code takes the first in
  the order of a hash map.

## Runs

| Run | Checks | Shows |
|---|---|---|
| `gene_records` | TypeOK, TotalBudget, OwnRecordsAreExempt, EvictionIsFair, ReplaysDoNotRefresh, VersionsOnlyAdvance | three publishers over two genes, total 3, share 1, two per publisher: every budget fills, eviction from a publisher's own records and from both classes, classes go over their share, records expire and are replayed |
| `gene_providers` | ProviderBudgets, EvictionIsFair | three foreign providers, two of a key, three in all, one key: each limit is met, and eviction from both classes |
| `republisher` | TypeOK, FileMatchesTable, UnlistedIsNotServed, ListedEventuallyServed | one place, two genes, two tasks in flight, one edit, one failing call: overlapping announces, runs and withdraws; no restart |
| `republisher_places` | TableIsUnique, WithdrawnStaysWithdrawn, AlwaysScheduled | two places of one name: replacement across places, withdraw by name, one death with the restore after it, and one fault |
| `heartbeat_desk` | TrackedIsBounded, PenaltyIsRemembered, BlocksAreEarned, ForgersAreForgottenLast, QueueOrderHolds | three sources for two places in the books, two pseudonyms, two forgeries: the books overflow, also with forgers alone, penalties fill and run out, tokens lapse and are renewed |
| `node_attestation` | QuotaHolds, OneAccountPerPeer, NonceYieldsOne, NodesNamesLiveOwner, JwksListCovers, SomeoneAdvances, IssuesAtomically | two accounts, PeerIds and redemptions, quota one, a revocation, closed and deleted accounts: every pair of transactions interleaves at every lock, and the log grows as CertificateLog's does |
| `agent_memory` | QuotaHolds, EvictionIsMinimal, AuditAddsUp, PoliciesAreTheCreators | two genes of two domains, three keys, quota two: eviction of one and of two entries, expiry, refused and failed writes |
| `gene_snapshots` | OldCopySurvives, NothingIsMixed, SidecarNamesTheCopy | two processes whose commands do not overlap (`Serial`), four commands and two deaths: every retry after a failed or killed command, by the same process or the other |
| `try_pool` | FailsOnlyWhenAllFailed, BestFirst | one process after another, domains of three genes and of one |
| `try_pools` | RunsLearn | two processes side by side, one domain of two genes, fair: each reads the file at any point of the other's write, and both may write at once |
| `bootstrap_keeper` | DialIsTracked, DialsAreSpaced, Reconnects | two addresses, one given with its PeerId, three dials or connections, one identity more: waits of one, two and four ticks with their jitter, dials that fail, hang up or hold, a learnt identity that is gone |
| `kept_within_policy` | KeptNoLongerThanPolicy (violated) | data-policy.ts against the WASM path, and against a death between two calls |

The bounds: two tasks in flight are enough for each pair of operations the
hazards name (a run and an announce, two announces, a run and a withdraw); two
copies of an entry tell an entry from its successor with the same fields; one
fault and one death put one failure at every step of every behaviour. Two ticks
let a record expire and be replayed at each edge of its window (`MaxAge` and
`StoreTtl` of one tick; `MaxFuture` zero, which the proofs leave free). Genes and
peers other than this node are interchangeable and declared symmetric where no
liveness is checked. In `heartbeat_desk` one forgery per source is remembered
(`Counted`), so a second meets the cut; a window of one tick lets it run out; a
token of time 0 lapses at the second tick, one of time 1 does not; one peer is
connected at a time, as blocks are decided peer by peer; every heartbeat bears
the time it arrives (no skew), which leaves two stamps and so newer and older
ones. In `node_attestation` a lifetime, a tolerance and a challenge of one tick and
a clock that ends at three let a certificate expire for its holder, then for its verifiers;
the signer's clock is behind by the tolerance, ahead by it, or ahead by one more (refused),
and an operator revokes as of now or one tick before; either account may be closed, opened
or deleted at any step. In
`agent_memory` a retention of two days and a clock of two meet both edges of an
expiry; quota two lets one write evict two entries. `gene_snapshots` has four
commands: an install, a forced one that fails, its retry, and a rollback. In
`try_pool` a penalty of 3 and a reward of 1 keep the code's proportion with a ceiling
of 7, so that both ends of the scale and every order of three genes occur; in
`try_pools` the steps are of one, in a range of four around an initial two, so that one
run alone does not change the order of two genes: it takes two, and what they learn
must pass from the one to the other through the file. In `bootstrap_keeper` the backoff
doubles twice before its cap, as far as the jitter shows (a quarter of four ticks), and
a connection of one tick is a lasting one; one that closes within the tick is short. The
proofs leave all of these free. `CHECK_DEADLOCK` is on in `heartbeat_desk` and
`bootstrap_keeper`: a node can always refresh its scores, and time passes. For the
others deadlock is not checked: at its bounds (the last tick, no edits left, no daemon)
each of those systems may stop, and the code may be idle.

What the violation says, where the code does something the quoted line rules
out. `kept_within_policy`: only the Node path of a gene asks `dataPolicyViolation`;
a WASM gene's write reaches the native store with a retention of its own. With the
DataPolicy at two days the run ends in an entry that is never purged. The model
also has the second way there, a death between creating the memory and setting its
retention, after which the next run finds the memory and sets nothing.

### Where the code differs from its comments

Counterexamples met while modelling, which are part of the models and which no run
repeats:

* `gene_store.rs:38`, "Value records per publisher: per pseudonym, or per anonymous
  PeerId": a replacement (171-177) moves a record to its publisher's holder of today
  without looking at that budget. A publisher whose proof appears after its first
  records passes it; the total budget holds.
* `gene_store.rs:192`, "The same provider, or the same pseudonym, replaces its own
  entry": the first entry that matches either is taken over; a provider's older
  anonymous entry may stay, and it is listed twice.
* `gene_store.rs:44`, "Provider keys held, all of them (not only this node's)": the
  limit is checked when a peer's entry opens a key. An entry of this node opens one
  without a check (`add_provider`), so with the limit reached there are more keys than
  it, and peers join them. `ProviderBudgets` is about the limits on entries.
* `por.rs:864-865`, "never one whose forgery still counts": when all the tracked
  sources have one, the next newcomer makes the desk forget one of them.
  `ForgersAreForgottenLast` is what holds.
* `announce-table.ts:226-229`, "unless the same ID was announced again in between":
  the table is asked, which an announce joins only when its callback runs. The gene
  is listed and not served until its next republish.
* `announce-table.ts:5-6`, "on its own schedule": the restore poll also runs an entry
  added during the wait, whose timer then stays armed; it is republished twice.
* `announce-table.ts:147`, "The same gene files now compute another ID": of two
  announces in flight for one place the older may settle last, and the current gene
  gives way.
* `network.ts:637`, "No daemon: nothing is being served": a daemon may start between
  the CLI's request and its write.
* Migration `node_attestation.sql:325-326`, "not_after defaults to now: every
  certificate issued so far": a certificate whose `iat` the signer's clock put up
  to 60 s ahead is not voided.
* `agent-run.ts:707`: the module of a gene is imported outside any `try`; one that
  throws ends the run, where the gates around it are made a failure of that gene so
  that failover goes on (668-669).
* `audit.ts` gives an audit line's total as the memory's "after the event"; the line
  of a write refused for the quota leaves the replaced entry out (`backend.ts:303`).
* `agent-run.ts:507-513`, 544: nothing holds two runs of one agent apart. One that starts
  while another writes the fitness, finds the file cut and starts afresh without a fault
  of anything ("fresh start"); `RunsLearn` is about the runs that find one saved.
* `install.ts:106-108`, "Move the old copy aside before writing over it": while
  `install --force` downloads, a `rollback` in another process moves the old copy back;
  the install then writes its files into it, and there is no snapshot left. Without the
  constraint `Serial` the model reaches it in three commands (`NothingIsMixed`).
* `outbound.rs:31`, "A bootstrap connection counts as a success only if it stayed up this
  long", and `:512`, "only a connection that lasted [`KEEPER_STABLE`] resets": `Keeper::lost`
  takes every last connection whose age it does not know for a success, and the age is
  known for bootstrap dials only (`up_since`; 195-198 say "`None` if this node did not dial
  it"). A bootstrap dial is accepted and closed at once, and the keeper backs off; another
  connection with that node (the dial of a remembered peer, Kademlia's, or one the node
  opened) comes up and closes at once; the failures are forgotten and the keeper dials
  without a wait. `DialsAreSpaced` therefore ends a row of failures at such a close, too.
* `outbound.rs:131`: an identity once learnt for an address is demanded by every later
  dial to it. A bootstrap node configured without `/p2p/` that comes back under a new
  identity is not reached there again before a restart; `Reachable` leaves it out.
* `gene-snapshots.ts`: a death within the recursive removal of an old snapshot leaves
  half of it, which `rollback` restores; a retry of a failed `install --force`
  replaces the good snapshot by the partial copy (documented: one step is kept); two
  processes that both clear the snapshot can lose both copies.

## Fairness

`FairSpec` has weak fairness of the restore poll (the code bounds its wait to
60 s), of each armed timer, and of each task's next step or callback: worker
threads run, the event loop answers each command or its caller times out, and
Node runs a settled promise's callback. Nothing makes a user announce, withdraw
or restart the daemon, and faults are bounded, as a node that fails for ever
serves nothing. Under it a listed gene is served in the end, or leaves the table.

TryPool's `FairSpec` has weak fairness of each answer and of the two steps of the save: an
executor returns or throws, `Promise.all` then lets the run write, and `writeFileSync`
returns. Nobody has to start a run, and a process may die. `RunsLearn` therefore says
what the runs that do happen, and find a fitness saved, come to try first. A run that
finds the file cut or garbled tries the genes in the order of the genome, and then saves
what it knows; that this does not undo what others learnt is part of what is checked.

BootstrapKeeper's `FairSpec` has weak fairness of the timers (the interval fires every
five seconds), of time, and of each dial's end: the Swarm reports an established
connection or an error for every dial, which libp2p's timeouts bound. Nothing makes a
node come back, accept or keep a connection. `Reconnects` asks for a node that is there
for ever from some time on, since the keeper promises attempts and not successes.

## Proofs

The proofs hold for all values of the constants that meet the named
assumptions, any number of peers, genes, places and tasks.

**GeneRecordsProofs.** `IInv == TypeOK /\ OwnIsNewest /\ TotalBudget`.
`TypeCorrect` and `BudgetHolds` follow the store's argument: a new record is
admitted when fewer than `MAX_RECORDS` foreign ones are held, or when a stored
foreign one is dropped; a replacement keeps the set of keys; own puts only
shrink the foreign set. That a replacement never turns an own key into a foreign
one is `OwnIsNewest` (the record under a key of this node is its own and the
newest it signed), which needs what peers can offer, and is why the budget alone
is not inductive. `Peers` and `Genes` are assumed finite for cardinalities.
`OwnRecordsStay` rests on the same invariant: what a peer can send is never newer
than an own record, and a victim is always foreign. `EvictionStaysFair` needs no
more than the types: that a victim of the newcomer's own holder goes only at its budget, one
of another only when the store is full and by the shares, and that the holder ends within
its budget or no further above it, `ReplaysAreIdle` that no record is kept beyond its age
(LivesAreShort). `StoreRefinesRegisters` proves, step by
step, that GeneRecords implements RecordRegisters under `Visible`: an admitted
version is newer than the one it replaces, everything else loses values or stutters.

**GeneProvidersProofs.** `Typed`, `ForeignEntriesStayBudgeted` (both budgets) and
`ProviderEvictionStaysFair`. The code thins ordered lists by `retain` and
`swap_remove`; the proof says of either that the places of the new list embed in
those of the old one, entry for entry. The budgets are cardinalities of places
(`ForeignAt`, `ForeignSlots`), so an embedding cannot raise them, and an insertion
raises them by one, behind the checks or after a victim has gone. `retain` is a
recursive function over the length; that it exists is shown by an induction
over a *set* of naturals (`NatSetInduction`, from the well-foundedness of `<`),
which needs no operator parameter. `Genes` is assumed finite.

**RepublisherProofs.** `IInv` is TypeOK with TableIsUnique, CliIsUnique (what
the CLI will write back is unique too), DownIsEmpty (no daemon: no table, timers
or tasks), WithdrawnStaysWithdrawn, UnlistedIsNotServed, AlwaysScheduled and
FileMatchesTable.
Uniqueness of the table is what makes a withdraw of a gene remove its only
entry; DownIsEmpty lets a start begin from the file alone. One step per action,
and lemmas for the three shapes of step (a task gets a slot, moves on, ends).
The theorems are `TypeCorrect`, `TableStaysUnique`, `WithdrawalHolds`,
`ServedIsListed`, `ScheduleHolds` and `FileAgrees`.

**HeartbeatDeskProofs.** Every step leaves the desk alone or makes one source an
entry and writes to that entry only (`OneEntryPerStep`); `EntryMade` and
`EntryIsBounded` say what making it does to the others. From these follow
`BookkeepingIsBounded`, `ForgersAreHeldLongest` and `QuotaKeepsItsOrder`.
`OnlyForgersAreBlocked` needs `HeldIsCertain` (each forgery the desk counts is
one its source committed): what a refresh reads is the desk, and BlocksAreEarned
speaks of the source. `PenaltiesAreRemembered` (every forgery of the window counts
against a source that was not forgotten, up to the cut) needs more: what the desk
holds of a source is the *newest* part of what that source forged, in order (HoldsNewest,
InOrder, NewestAreHeld), since a full list drops its oldest item, and only then do
the two counts agree up to the cut. `Sources` is assumed finite for cardinalities.

**NodeAttestationProofs.** `IInv` adds to TypeOK and the checked invariants what
each needs: LocksExclusive (a PeerId's or an account's lock has one holder), Granted
(the verdict of a decided redemption is still true when it commits, since only
holders of the same locks add certificates, and time and revocations only make
fewer live), NowPast (no transaction's time is ahead of the clock, and its `iat` at most
by the tolerance), NoncesFresh and Sound. The quota and the rebinding rule need
both locks: the lemmas say what the account's certificates and the PeerId's can
become between the decision and the commit. `ListCoversRevoked` needs LatestStands
(a revoked PeerId's revocations have a latest one, which the list keeps one of): the list
keeps one entry for each PeerId, and that it voids all the others void is what is
to be shown. `IssuanceIsAtomic` proves, step by step, that NodeAttestation implements
CertificateLog: a commit of a granted redemption is a grant, whose conditions are
Granted, NowPast and NoncesFresh at that instant; a revocation voids, a tick ticks, and all
other steps stutter. It leaves out what no lock protects: the account may be closed, or the
PeerId revoked, between the checks and the commit. A deletion takes the account's challenges
and decided redemptions with it, so what is Granted to others stands; `NodesTableCurrent`
excepts the accounts that are gone. `LocksNeverDeadlock` follows from the
order of the two locks: whoever holds both waits for nobody.

**AgentMemoryProofs.** Types, with a lemma for what `Written` builds; then
`CreatorsKeepPolicies`, action by action: a purge keeps entries whole, a read only
changes the last reader, a write of a stored key either is its creator's or passes
the stored policies. `QuotaIsKept`, `AuditIsComplete` and `EvictionTakesTheLeast` are about the
eviction loop. A total is the number of units the entries take (`Units`), so it splits
over disjoint sets of entries (`TotalSplits`). The loop is a recursive function of
the turn; `TurnsExist` gives it its equations by the induction over a set of naturals.
Its invariant InOrder says that what a turn has taken comes before everything
it has left, in the code's order; from it, the last entry taken was still needed
when it was taken. The loop may run out of candidates: then the write is refused and
nothing is taken.

**CommandsProofs** is about the commands that work on a project's genes. It extends
GeneSnapshots and TryPool, which share nothing.

*Snapshots.* For any number of processes, versions, commands and deaths. `SnapshotTypes`
has no hypothesis. The others have `[]Serial`, that commands do not overlap: the code takes
no lock, and if they do, copies get mixed (see the divergences). `IInv` is TypeOK with Uniform
(gene and snapshot each hold files of one version), Found (where the copy the
command found is, step by step), Ready (what a step may rely on, such as the
directory it writes to) and Succeeded (once a command runs, nothing is owed to the earlier
ones of other processes). `NoCopyIsLost` and `NoCopyIsMixed` follow. `SidecarsAreRight`
adds Noted: until a command dies, the sidecar names the snapshot's version except between
the two changes a command makes to them, and there the second one still knows the version.

*TryPool.* For every genome that `PoolAssumption` allows (each gene is of one domain), any number of
processes, edits, failures and deaths. That the sort gives each gene one place is not
by construction, as `Ranked` picks by the number of genes ahead: the numbers differ
(`AheadCounts`, as the comparison is a strict total order), there are as many of
them as places, so each place has its gene (`RanksAreGiven`, by an injection between finite
sets), and the ranking descends (`RankedIsSorted`). `PoolInv` says where a domain stands
(Sound): before the first try the active gene is one of the fittest; after it the genes left
are those not tried, in the order of what the process knows of them. It holds for
the other domains because domains share no gene and a failure only costs the gene
that failed. `DomainsFailLast` and `BestComesFirst` follow.

**BootstrapKeeperProofs.** `IInv` is TypeOK with Sound: the dial in flight is one the
Swarm still has to answer, the keeper's failures are those of the history, and it waits
at least as long as they call for *or* a bootstrap connection is up. The second half is
needed: the keeper clears its wait when a dial connects, whatever happened to other
connections meanwhile, and only the close of a connection settles what is owed (`AfterClose`).
`KeepSound` and `FailureSound` are about an arbitrary keeper and its connections, as the
code changes both before it redials. The assumption on the constants says that powers of
two are numbers, which no prover here knows of a variable exponent.

Only model-checked: liveness (`ListedEventuallyServed`, `RunsLearn`, `Reconnects`), which
is out of the prover's reach. Every other property the passing runs check is the statement
of a theorem. The types are a theorem for every component but TryPool, where they are part of
`PoolInv`; the runs check those of GeneRecords and Republisher. `KeptNoLongerThanPolicy` does not
hold, and has none.

## Not modelled

* **Issuer keys, gene search, rate limits**: their decisions depend
  on durations and on events of the libp2p Swarm, which is not in the repository. The
  modules around them let through whatever they could.
* **A composition of Republisher with the store's modules**: `record` and `providing`
  stand for this node's own entries, which `OwnRecordsAreExempt` says the store keeps
  apart. The 12 hours against the store's 24 are a comparison of two constants.
* **Algebra executor, network gateway, compiler, IR, arena, fitness, scanner, test
  suite**: functions of their inputs on one thread; examples and fixtures test them.
* **Same-IP counters** (`Colocation`): statistics by which nothing is decided.
* **Restarts of the daemon under fairness**: `republisher`, which checks the liveness, has
  no death; with one it takes more than five minutes. Deaths and the restore are in
  `republisher_places` and in the proofs, for the safety properties.
* **Sandbox**: its limits are wasmtime's.
* **Cloud client, publishing, telemetry, chat and memory functions**: single requests
  to services whose behaviour is not in the repository.
* **The sequential path of `agent run`, genome files, wrap, hello and the other
  commands**: one process that reads, calls and prints.
* **Agent memory**: import and export, a changed quota, the audit file's rotation.
