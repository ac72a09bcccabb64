# Punk Records: a TLA+ verification project

Punk Records (`src/`) is a coordination server for AI agents and the command
`punk` that ties their clients to it. The server keeps an event-sourced **task
ledger** that a dispatcher and an **agent runtime** turn into investigations; a
**region** of agents that claim work and exchange durable **messages**, pushed to
them over event streams and MCP; and a **fact memory** with entities, links,
summaries, archives and skills. The client side writes the configuration of agent
clients (`connect`), captures their sessions through hooks, and carries mail into
them: by hooks, by a detached **wake listener** or by a plugin **bridge**. The
server runs on SQLite (one process, usually) or Postgres (any number of them).

This directory models the parts whose correctness depends on order: several
goroutines, processes and hooks, transactions of several statements, leases that
run out, crashes between two writes, answers that are lost, files that two
writers share.

## 1. Inventory

| Component | State | Operations | What is hard | What must hold |
|---|---|---|---|---|
| Task ledger (`internal/task`) | `tasks` rows, `task_events` log | Submit, SetStatus, Claim, ExtendLease, AssignAgent, Append, SpendTokens/SpendToolCalls, Requeue, ReapExpired | reaper that selects and updates in two steps; several reapers; one open task per reference | statuses follow the lifecycle; one open task per reference; the log explains the row |
| Investigation loop (`internal/agent`, `cmd/punk`, `internal/route`, `internal/replay`) | dispatcher queue, stack of runs, snapshots, active registry snapshot | intake, route, dispatch, RunTask, subagents, cancel, requeue, reap, replay | two runs of one task, slow runs, crashes, stale lists, reloads | findings have evidence; completion has a finding; budgets hold over all runs; routed tasks settle |
| Work claims (`internal/region/claim.go`) | `work_claims` rows | ClaimWork, ReleaseWork, ListClaims | check-and-insert under two isolation models, clock read early | one live holder; only the holder ends a live claim |
| Agent inbox (`internal/region/messages.go`) | `agent_messages`, `region_members` | SendMessage, ReadMessages (leased or not), AckMessages, ReleaseMessageLeases, SweepMessageRetention | admission at the cap, retries with a key, late ACKs, crashed readers | the cap; retries return the original; one owner at a time; everything is delivered |
| Message streams (`internal/api`, `internal/mcpserver`, `internal/bus`, `internal/region`) | slots, subscriptions, presence, members | open, hint, keepalive, reconcile, await, close; expire members | lossy bus, revocation in mid-stream, every exit path, sweep against connect | slots exact; at most one late frame; revoked readers end; hints arrive; steady listeners survive |
| Hook inbox (`internal/hookcli/inbox*.go`) | state file, leases, continuations | fetch pages, sort, render, print, remember, ACK, release, reserve, refund | two hooks of one session, a kill or a lost ACK between print and ACK | what is acknowledged was shown; duplicates only after faults; the continuation cap |
| Plugin bridge (`inbox_renderjs.go`, `pi_extension.go`, `opencode_plugin.go`) | session objects, passes, pending re-acks, wakes | lookup, fetch, hand over, ACK, retry, retire | namespaces that move beneath an awaited read, overlapping passes, lost ACKs | handed over once, in its binding; acknowledged only when handed over; delivered in the end |
| Native wake (`internal/nativewake`, `hookcli/wake.go`) | listener record, generations, markers, attempts on disk | ensure, stop, rollback; scan, reserve, wake, refund | racing ensures, superseded workers, crashes around the handoff | one generation wakes; nudges stay under their cap; mail is nudged about |
| Wake transport (`nativewake/codex.go`, `claude.go`) | proxies, the connection, the call | Probe, Wake, Close | unknown outcomes, dead proxies, retries | a nudge arrives at most once; answers are honest; no process is left |
| Client configuration (`hookcli/connect*.go`, `cmd/punk/main.go`) | files of two scopes, saved credentials | connect, login, logout, verify, doctor | a kill between two files, users who edit, two scopes | users' entries stay; what is enabled is wired once, to this server; verify and doctor tell the truth |
| Session capture (`hookcli/hookcli.go`, `api/agent_handlers.go`) | injected ids and turns of a session | hook, post, inject | duplicate hooks, lost bookkeeping, hooks that block a client | blocking hooks answer; a fact is injected once while its books work and have room; fresh turns are served |
| Fact memory (`internal/memory`) | revisions, outbox, pipeline runs, mentions, links, vectors, index | write, forget, drain, claim, derive, finish, recover, search | crashes between publish and mark, reclaimed runs, stale heads | delivered events have their work; mentions are counted; vectors and links are of live revisions |
| Entity merges, summaries, archives (`entity_resolve.go`, `summary_tree.go`, `consolidate_ns.go`, `mcpserver/consolidate.go`) | lineage records, summary nodes, archive keys and markers | merge, revert; build, prune; apply, restore, compact | opposite merges, edits while building, calls that stop half-way | lineage ends and is on both sides; fresh means true; what was consolidated can be restored |
| Skills and proposals (`memory/skills.go`, `skillmine`, `policy/proposals.go`) | heads, bodies, identities, drafts, proposals, runs | publish, pin, propose, decide, apply, record | drafts exchanged after approval, half-done publications | a published version is immutable; what is published was approved |
| Retrieval scores, embedders, parsers, transports, UI, authorization, rate limits, A2A, benchmarks | none that matters here | | numeric, textual or stateless | not modelled, section 5 |

Interaction: the API submits to the ledger and routes; the dispatcher of each
server lists routed tasks and runs them; the runtime writes back through the
ledger; the reaper gives tasks of dead runs back. `SendMessage` writes the inbox
and its caller then publishes a hint on the process's bus; streams and awaits
take the hint, or their timer, as a reason to read the inbox. Hooks, the wake
listener and the bridge are clients of the inbox: they lease, hand over and
acknowledge. Streams keep an agent present; the hourly sweep removes members
that are neither seen nor present. A write of a fact leaves an outbox event, the
tailer turns it into pipeline runs, and the enrichers of all servers claim them.
`PROJECT.json` lists every component and, under `hazards`, each place where one
of these interactions can go wrong.

## 2. Modules

| Module | Models | Composition |
|---|---|---|
| `TaskLifecycle` | the promise: statuses, allowed moves, one open task per reference | abstract specification |
| `TaskLedger` | every transaction of `Ledger` | refines `TaskLifecycle` (`LifecycleSpec`) |
| `Investigation` | handlers, router outcome, dispatcher, runtime, reaper, replay, crashes | its statuses refine `TaskLifecycle` |
| `WorkClaims` | the rows of one claimed key, statement by statement | |
| `Inbox` | the inbox of one agent, sends statement by statement | |
| `MessageStreams` | the long-lived readers of one server | takes from `Inbox` whether there is an unread message |
| `HookInbox` | the hooks of one session and the leases they take | the server's side is what `Inbox` promises of leases |
| `InboxBridge` | the plugin's session objects, lookups and passes | the same, and the binding of a session |
| `NativeWake` | ensure, stop and the listener of one session | takes the outcome of a nudge from `WakeTransport` |
| `WakeTransport` | Codex proxy and Claude socket | |
| `ClientConfig`, `CodexScopes` | what `connect` writes; what `verify` and `doctor` say | |
| `SessionCapture` | hook, post and inject | |
| `FactPipeline`, `VectorLinks` | facts to derived facts, by two servers; vectors, links, search | the claim and fence of a run are the same in both |
| `EntityMerge`, `SummaryTree`, `NamespaceArchive`, `SkillStore` | the larger operations on facts | a fact is its live revision |
| `MCDelivery`, `MCClient`, `MCMemory`, `MCProgress` | benches: several components in one run | a behaviour exercises the component `part` names |
| `MCTaskLedger`, `MCInvestigation`, `MCWorkClaims`, `MCInbox` | instances of one component | |
| `TaskLedgerProofs`, `InvestigationProofs`, `WorkClaimsProofs`, `InboxProofs` | theorems about the component of that name | extend it and `TLAPS` |
| `ClientProofs` | theorems about `MessageStreams`, `CodexScopes` and `SessionCapture` | extends the three and `TLAPS` |
| `WakeProofs` | theorems about `WakeTransport` and `NativeWake` | extends both and `TLAPS` |
| `DeliveryProofs` | theorems about `HookInbox` | extends it and `TLAPS` |
| `MemoryProofs` | theorems about `EntityMerge`, `FactPipeline`, `SkillStore`, `NamespaceArchive` and `VectorLinks` | extends the five and `TLAPS` |

**Benches.** The components of a bench share no state while they run, so their
product would only multiply states. A bench has a variable `part`; the component
it names moves, the others stay where they start, and each invariant is the
component's own definition, checked in every state.

**TaskLedger.** One row per task (status, agent, lease, spending, reference) and
a log per task. A transaction is one action: all of `Ledger`'s transactions read
and write under the row's lock, or under SQLite's single connection.
`ReapExpired` is not one transaction: `ReapSelect` reads the ids, `ReapTask`
updates one of them, appends the `status_change` whether or not the row was
still working, and `ReapAbort` is the error return that forgets the rest. Leases
are `none`, `live` or `lapsed`; a status a client may ask for is an input, the
guard is `CheckTransition`.

**Investigation.** A process is a stack of `RunTask` frames, since
`spawnSubagent` calls `RunTask` on the child. Each transaction and each external
call is a step. What the model or a tool answers is a choice: no call, up to
`MaxCalls` calls, a subagent, a finding with any citations (which
`ValidFinding` then accepts or not). Of the log it keeps `tool_call` and
`finding`. `HasRunner` tells a lease that lapses because nobody runs the task
from one that lapses under a slow run (`LapseSlow`, bounded). A transaction may
fail (`StatementFails`): nothing of it is written, and the run returns its error,
or records it as the subagent's result where `spawnSubagent` failed; failures count as crashes against the bound. The dispatcher's queue is
a set: what it says depends on which tasks were listed and not on their order.

**WorkClaims.** `ClaimWork` reads the clock, then runs SELECT, UPDATE, INSERT.
On SQLite a transaction whose snapshot is stale cannot write (`fresh`). On
Postgres the SELECT takes a snapshot, waits for the lock of the newest row in
it, looks at the row again, and passes to the next one when it was released; a
SELECT that finds no row locks nothing.

**Inbox.** `SendMessage` is `LockMessageInbox`, `FindIdempotent`,
`CheckMembers`, `CountUnread`, `Insert`, and `FindAgain` after a failed
transaction. Leases are running, run out or absent; `asof` is the moment an ACK
or a release read the clock. A delivery invocation owns its leases under a name
of its own, as the documentation requires of clients. Validation and the content
policy return before anything is read and are left out.

**MessageStreams.** One record per reader with the position in its handler,
its subscription and its channel. The deferred calls are steps (`Detach`,
`Cancel`, `ReleaseIP`, `Release`), in the order they run. An acknowledgement
event is the address `All`: only the namespace stream reports it. Pings are left
out. `told`, `late` and `sweep.on` are history.

**HookInbox.** A hook reads pages under a lease until its limit, sorts the rows
by what it remembers and who may interrupt, reserves a continuation, prints,
remembers, acknowledges and releases. Any hook may be killed at any step. It
reads the clock before it waits for the lock of the state file, for `LockWait` at
most, and judges the window by that reading (`Render`, `Reserve`). The
rendering is its budget: what does not fit is given back. The entries of the
continuation window are stamps in the file, and a refund drops one that equals
its own; here an entry has a number besides (`SlotNumbers`, never used up in the
runs), so that a refund drops its own, which leaves the same stamps.

**NativeWake, WakeTransport.** Ensure, stop and the rollback of a failed start
are steps of the calling hook; the worker polls its marker, scans pages of
unread mail, reserves an attempt on disk, wakes, and books the outcome. The
transport is a single caller over proxies that may exit, hang or be killed while
a request is on the wire; the daemon may serve what a dead proxy wrote.

**InboxBridge.** A session object per binding; every `await` of the plugin is a
point where another pass, a lookup or a timer may run. Retired objects finish
what they had fetched.

**ClientConfig, CodexScopes, SessionCapture.** A command is the sequence of
files it writes, in the order of the code; a kill is possible between two of
them, and so is an edit of the user. Entries of hooks are recognised by their
subcommand. Codex merges its layers key by key (`Merged`). A later command finds
any server in `PUNK_URL`, the user's own or the one in `~/.punk/env`. API keys and
the shell's environment file are left out: nothing here is said of them. An
explicit `PUNK_API_KEY` wins over the saved key (`credentials.go:273`), and login
and connect export the saved one by default (`main.go:4999`), so `connect --url`
for another server takes it along.

A hook event may be fired by two processes at once, and a prompt may come again.
Every read of the books of a session may fail, which the server takes for an
empty book, and every write may be lost. The books are capped (`InjectedCap` and
`TurnsCap`, 500 and 200 in the code) and forget their oldest entries. A payload
may be broken, too long, or without the name of its event.

**FactPipeline, VectorLinks.** A key has revisions; a write appends one and an
outbox event in one transaction. Draining publishes and marks in two. A pipeline
run is claimed by attempt number, and every derived write is fenced by that
attempt and by the live revision. An entity that is planned with the content it
already has is a duplicate before any pin is looked at (`SameContent`), which
names-only extraction (`Typed`) makes likely. Distances are a fixed table. A
vector is the text it was made of and its form: with the key before the body, as
writes, backfill and re-embedding make it, or bare, as the enricher does. That
the two forms of one text lie apart is not in the distances.

**EntityMerge, SummaryTree, NamespaceArchive, SkillStore.** A merge checks the
heads it was proposed for in the transaction that writes; that lineage ends
(`LineageEnds`) is stated as the absence of a set of entities each of which is
merged into another of the set; the tree is built node
by node from the leaves; an archive is the calls of `consolidateApply` and of
the restore, with writers between them; a publication writes body, identity and
head in that order.

The `Mutant:` definitions are deliberate faults. Nothing uses them: each replaces
the definition after it to show that the property named with it in
`PROJECT.json` notices.

## 3. Runs

Every passing run explores its whole state space. The bounds are the smallest in
which the interesting case occurs twice or against a second actor.

| Run | Instance | Shows |
|---|---|---|
| `ledger` | 2 tasks, 1 reference, 2 reapers, budget of 1 and up to 2 spent, 6 rows of `task_events` in all | types, `OneOpenPerRef`, `LogRebuildsTable`, refinement of the lifecycle |
| `runners` | 1 task, 2 servers, 1 slow run, 1 requeue | `FindingsAreSound` and the lifecycle with two runs of one task |
| `processes` | 1 server and `punk replay` on one ledger, 2 tasks, 1 subagent, 1 crash, 1 reload | `ToolBudgetIsHard` over parent, child and shadow task |
| `settles` | 1 server, 2 tasks on a page of 2, 1 slow run, 1 crash; no requeue, no reload | `RoutedTasksSettle`, across the crash and the slow run only |
| `claims` | 2 calls, 2 holders, leases of 1 and 2, clock to 2, 3 rows: overlapping on SQLite, one after another on Postgres | types, `ClaimExclusive`, `LiveClaimIsKept` |
| `claims_postgres` | the same, overlapping on Postgres | violation of `ClaimExclusive`: two first claims of a key both win |
| `inbox_sqlite` | 2 sends at a cap of 1, 1 key, 2 bodies, membership changes | types, `UnreadCap`, `AcceptedIsStored` |
| `inbox_delivery` | 2 fair invocations, 2 messages, 1 fault | `DeliveredToOne`, `OwnersAreRespected`, `EveryMessageIsAcked` |
| `delivery` | 2 hooks, 1 fault, pages of 2: 3 letters with every event in one window, 4 letters with stop hooks, the clock to 3 over a window of 3 and a wait of 1 for the lock; 1 caller with 2 endpoints and 2 generations; 2 parcels, 2 session objects; 1 nudge, 2 proxies, 2 faults | `HookSafety`, `WakeSafety`, `TransportSafety`, `BridgeSafety` |
| `client` | 4 clients, 2 servers, 2 commands, 1 kill or edit; 4 hosts, 2 copies of a hook, 2 events, 3 facts for a book of 2, a book of 1 turn, 1 failed call; 2 edits of Codex's scopes; 3 streams at limits of 2, the sweep | `ConfigSafety`, `UsersAreKept`, `CaptureSafety`, `ScopeSafety`, `StreamSafety`, `SteadyListenersSurvive` |
| `memory` | 2 sources, 2 revisions, 2 enrichers, extraction with types and with names only; 2 entities, 2 mergers; 2 authored and 2 drafted bodies; 1 archive; 4 observations in 2 topics, fan-out 2; 2 keys, 2 workers; 1 fault each | `PipeSafety`, `MergeSafety`, `SkillSafety`, `ArchiveSafety`, `TreeSafety`, `VectorSafety` |
| `progress` | 2 mails, the first refused; 2 parcels, the first banned; 1 reader, a channel of 1; 1 source, 2 revisions, 1 crash | `MailIsNudged`, `BridgeDelivers`, `ReadersAreServed`, `LiveFactsAreDerived` |

Constants split state spaces: in `MessageStreams`, `Traffic` turns events on the
hub on and off and `Churn` the ageing, expiry and re-registration of agents (also
in `Inbox`); in `MCMemory`, `Alone` lets one worker run where only the search
matters. Larger instances hold too and are not kept as runs: `AcceptedIsStored`
on Postgres (862,820 states), both stream kinds at once (765,869), three entities
and two mergers (1.28 million), three syncs in `SkillStore` (307,003), and
`MailIsNudged` with a fault (52,096).

Deadlock is not checked where the system may stop: when a bounded log, rows,
clock, edits or faults are used up, or everything has been dealt with.

### Departures seen while modelling

`claims_postgres` is kept as a run: `PROJECT.json` quotes the lines it refutes.
The others are counterexamples of properties that the modules define and no run
checks, of properties that fail on another instance, or of a checked property
without one of its conditions. Each reappears when it is checked on the instance
named here.

| Property (module) | Instance | What happens |
|---|---|---|
| `NoDrift` (`TaskLedger`) | 1 task, 2 reapers, log of 8 | a late reap logs a move that the row did not make |
| `LiveInvestigationNeverReaped` (`TaskLedger`) | the same | a lease extended after the reaper's SELECT is reaped |
| `RoutedTasksSettle` (`Investigation`) | `settles` with `Page = 1` | tasks the dispatcher always skips fill its page and hide a routed task |
| `RoutedTasksSettle` | `settles` with a reload | a routed task whose agent left the registry is retried for ever |
| `RoutedTasksSettle` | `settles` with a requeue | a crash in the middle of `Requeue` strands the task |
| `RequeueReachesDispatcher` | 1 task, 1 requeue | a requeued task without an agent is never dispatched |
| `SubagentsAreCapped` | 2 tasks, budget 2, 1 subagent, 1 crash | half of one remaining call is 0, which means no cap |
| `SubagentBudgetIsHard` | 2 servers, 3 tasks, 1 subagent | two runs of one task both spawn the last subagent |
| `ReplayStaysFrozen` | a server and a replayer | the server runs the shadow task of a replay with live tools |
| `UnreadCap` (`Inbox`) | `inbox_sqlite` with `Driver = "postgres"` | a recipient registering between two sends lets both in at the cap |
| `ListeningNeverExpired` (`MessageStreams`) | 1 stream, 1 agent, `Churn` | a stream that opens between check and removal is expired while it listens |
| `RememberedStaysSilent` (`HookInbox`) | `delivery` | of two overlapping hooks the one with the older state prints again |
| `ContinuationCap` for the whole `Window` (`HookInbox`) | `delivery` | a hook reads the clock (`inbox.go:1422`) and waits for the lock; another prunes by a later clock and reserves; the first then fits one stamp too many into the window. The cap holds for windows shorter by the wait |
| `StopSparesOthers` (`NativeWake`) | `delivery`, part `endpoints`, with 2 callers and 3 generations | a SessionEnd reads the record, a newer listener replaces it, and the teardown stops that one |
| `BridgeDelivers` (`InboxBridge`) | 2 objects, no prompts | after the binding moved, nothing looks the new namespace up |
| `LiveRunIsKept` (`FactPipeline`) | 1 source, 2 texts, overlapping writes of 2 clients, no fault | the run of the live revision is retired by the supersession of a slower writer |
| `ReadsFollowHead` (`FactPipeline`) | 2 texts, one of them `Fleeting` | readers and the fence of a run disagree on the head while an expired row is the newest |
| `DeliveredHasWork` (`FactPipeline`) | 2 texts, one `Fleeting`, overlapping writes of 2 clients, 2 faults | two writes commit in the reverse of their order, the newer row expires and is swept, and the older one is live again without a stage run |
| `MentionsAreCounted` without `entity.typed` (`FactPipeline`) | `memory` with `Typed = {FALSE}` | two servers plan the same content of an entity; the second is a duplicate (`memory.go:403-412`, before the pins at 444 and 457), its link is added and the count is not raised |
| `OneCountPerSource`, `MergeGivesEdges` (`EntityMerge`) | `memory` | a key that is derived again counts again; an edge of the alias that was closed before is not given |
| `AdvertisedIsLoadable` (`SkillStore`) | `memory` | a publication that stops leaves an advertised version without its body |
| `ConsolidatedIsRestorable` (`NamespaceArchive`) | `memory` with 2 appliers that overlap, 1 compaction, 1 restore | a restore empties and unmarks the archive of an apply that has not recorded yet, a compaction frees its name, a second apply moves rows into it, and the first records the status: the namespace reads as consolidated into an archive without a marker |
| `StatusStaysLive` (`NamespaceArchive`) | `memory` with 2 appliers | the second applier's move takes the status of the first |
| `VectorsAreReachable` (`VectorLinks`) | `Legacy = TRUE`, 2 edits, 2 passes | vectors stored without their index identity are missed by a search that uses it |
| every vector `keyed` (`VectorLinks`) | `memory` | the enricher's vector is of the bare body (`enrich.go:94`, against `embed.go:30`), also where it replaces one stored meanwhile |
| `WiredIsApproved` (`ClientConfig`) | `client` | the commands wired into `config.yaml` and the ones approved are not the same after an earlier command |
| `AlignmentIsTrue` (`CodexScopes`) | `MixedGroups = TRUE` | a group that holds a user's command beside punk's is not seen, and what it captures lands elsewhere |
| `BlockingHooksAnswer` (`SessionCapture`) | `BadCredentials = {"cursor"}` | a hook that cannot read its credentials ends without the reply its client waits for |
| `BlockingHooksAnswer` without `~Nameless` | `client` | a broken payload on `cursor` gets no reply (`hookcli.go:399-405`, `511-521`) |
| `DeliveredOnce` without `slips.lost = 0` (`SessionCapture`) | `client` | a book that cannot be read counts as empty, one that cannot be written stays as it was, as for a read-only subject; facts and turns are printed again (`agent_handlers.go:348-356`, `439-446`, `481-488`) |
| `DeliveredOnce` without `FactsFit`, `TurnsFit` | `client` | what a full book has forgotten is printed again (`agent_handlers.go:331-336`, `385-387`, `398-404`, `516-518`) |
| `FreshTurnsAreServed` (`SessionCapture`) | host `hermes`, 3 events | a distinct turn with the same text counts as one that was delivered |

Smaller observations, without a property: a bridge parcel whose
re-acknowledgement failed in two passes is handed over again; a thread listed
after the last page of `thread/loaded/list` ends the listener as unavailable; a
rerun after a crash may add up to `topN` links more; two unpinned writes on
Postgres leave two heads of a key; `restore` and reconciliation check and then
forget, and may forget a newer revision; a re-run of `connect` writes files that
it would leave unchanged; `BuildSummaryTree` has no caller outside its tests.

### Fairness

Liveness is checked under fairness of what the code schedules by itself.
`Investigation`: goroutines go on, the tickers of the dispatcher and the reaper
fire, the model and the tools answer, leases that nobody extends lapse. The code
sets no deadline on a model or tool call, so that they answer is an assumption;
one that hangs stops the dispatcher. Intake, operators, reloads, crashes and slow
runs owe nothing, and the last three are finitely many. `Inbox`: calls go on,
waiters for a database lock get it in the end (strong fairness), readers poll
and, when not interrupted, acknowledge. `MessageStreams`: handlers go on; timers
are strongly fair because Go's `select` picks among ready cases at random, so
events that keep coming do not shut a timer out.
`NativeWake`, `InboxBridge`, `FactPipeline`: timers, awaited calls and tickers of
live processes go on; other agents, users, kills and faults owe nothing, and
faults are finitely many. A wake in its cooldown and a run that is retried come
up again and again rather than staying enabled, so those steps are strongly fair.

## 4. Proofs

TLAPS proves the following for all values of the constants. Nothing is assumed
but the named assumptions of the modules (`LedgerAssumption`, `ClaimAssumption`,
`InboxAssumption`, `StreamsAssumption`, `ScopeConstants`, `CaptureConstants`,
`TransportConstants`, `WakeConstants`, `InvestigationAssumption`,
`MergeConstants`, `PipeConstants`, `SkillConstants`, `ArchConstants`,
`VecConstants`, `HookConstants`), which TLC evaluates on every run, and the hypotheses given
below, each of which is a limit of the code listed in section 3. Every proof has the same shape: an inductive invariant, one lemma for the initial state, one for each
action with one step for each conjunct the action can disturb, and a last
temporal step.

### Ledger and investigations

- `TaskLedgerProofs`: `TypeCorrect`; `ImplementsLifecycle` (every step of the
  ledger is a step of the lifecycle or a stutter); `OneOpenTask`, from the
  guard of the partial unique index and from the fact that a reap and a move to
  another open status leave the set of open tasks alone. `LogIsTheTable`: the
  replay of a log is a function on its prefixes, and the replay of a longer log
  agrees on the shorter one, by induction (the least prefix on which they differ,
  which well-foundedness of the numbers gives). A step then either leaves a log
  alone or appends one event to it, and a late `requeue` event is the one that
  replay passes over. `MovesAreLogged` is the same step by step.
- `InvestigationProofs`: `InvestigationTypeCorrect`, with `FramesOK` (what a
  frame of a run holds at each of its positions) and `AbsentOK` (a task that was
  not submitted has no log and no spending, and no dispatcher has listed it).
  `EvidenceOrItDidNotHappen`: findings are sound. `FindingsAreSound` alone is not
  inductive, because the runtime validates a finding in one transaction and
  appends it in another; the invariant adds that a frame about to append holds
  a finding that was valid, and that the calls it cites stay recorded.
  `RunsFollowLifecycle`: the statuses of all servers, runs, subagents, reapers
  and replays refine `TaskLifecycle`. `BudgetsAreHard` from `BudgetInv`: the
  calls recorded for a task and the calls that were paid for and are not yet
  recorded, over all frames of all processes, are at most what its row says
  was spent, and at most its cap. A crash or a failed transaction loses a
  call that was paid for, never one that was not.

### Claims, messages and streams

- `WorkClaimsProofs`: `ClaimsTypeCorrect` on either database;
  `SqliteClaimsExclude` and `SqliteClaimsAreKept` on SQLite. `ClaimExclusive`
  is not inductive: a writer that has read nothing may hold a stale view.
  `SqliteInv` adds that there is at most one open row, and that a writer whose
  snapshot is still fresh has seen that very row and may replace it.
- `InboxProofs`: `InboxTypeCorrect`; `OneDelivery` and `OwnersRespected` from
  `HeldIsLeased` (what an invocation holds is leased to it or acknowledged);
  `CapHolds`, for SQLite and for Postgres while membership does not change
  (hypothesis `Serial`), from `AdmissionInv`: one send is inside its
  transaction, and a send about to insert still has room. `AcceptedStays`, on
  either database: the rows of messages keep sender, key and content for
  ever, so what an insert or the lookup of a key returned is there as it was
  returned.
- `ClientProofs`, on the streams: `StreamsTypeCorrect`; `NoSlotLeaks`, the slot counters
  of an agent's inbox and of an address are the number of the streams that are
  between taking and returning the slot, on every path out of a handler;
  `ReadersAreSafe`, which adds that presence is counted the same way and that a
  stream whose credential is gone writes one further frame at most: `LateInv`
  says at which positions of the handler the check is behind it. `ListenersSurvive`
  from `SweepInv`: the members that have listened since the sweep began do so
  still, and the sweep has chosen none of them.
- `WakeProofs`, on the transports: `TransportTypeCorrect`; `WakeIsHonest`, from `WireInv`
  (which proxies may still carry a request) and `NudgeInv`: a nudge is on one
  wire, or with the host, or nowhere, never in two places, so that a retry is
  never made while an earlier copy may still arrive.
- `WakeProofs`, on the listener: `WakeTypeCorrect`; `WakeKeepsItsPromises`, for
  any number of hooks, generations, letters, crashes and failed saves. `LockInv`:
  one hook at most is between taking and returning the lifecycle lock, and what
  it mints, starts or restores finds no marker. `HolderInv`: the budget's lock is
  held by the one listener past its start. `SilenceInv`: who has its marker, or
  is past its look at it, has not been pardoned. `BudgetInv` is the storm cap in
  inductive form: nudges are told in time and not by number (`Within`: for every
  age, as many attempts on disk as nudges are at most that old), so an attempt
  that was reserved and not used is harmless, one that was nudged and not saved
  cannot occur, and pruning old attempts on disk prunes no nudge of the window.
  `Accounted` says the same of the budget that the active listener has in memory,
  with the nudge that is under way.

### Hooks of a session (`DeliveryProofs`)

- `HookTypeCorrect`, `HooksAreSafe`, for any number of hooks, letters and faults.
  `HookInv` has a part for each clause of `HookSafety`. `ShownFits`: what a hook
  remembers, or is about to acknowledge, was shown, although the state file is
  read long before it is used. `CountsFit`: the times a letter was shown and the
  hooks that may yet show it are together one more than the faults at most, and
  the last one is there only while the letter is acknowledged or leased to a
  hook that shows or acknowledges it; so a lease that another hook gets has been
  paid for, by a fault or by giving up the letter. `ClockFits`: the clock
  that a hook has read is no older than the wait for the lock. `SlotsFit`: a
  continuation that was shown, or that a hook may yet show, is in the file while
  its age is below `Span`, the window less that wait, whoever pruned the file by
  whichever clock; so the test under the lock suffices for every window of that
  length, and not for one of the full length (section 3). `LeasesFit`: without a fault each
  lease has a hook that will acknowledge or release it, and what a scan has seen
  does not come back to it. `DiagFits`: a stop event that goes on wants a
  continuation, and later has a slot or was told that there is none.

### Clients (`ClientProofs`)

- `ScopeTypeCorrect`, `VerdictsAreTrue`. Where no group of hooks mixes commands
  (`GroupsAreClean`, kept by every edit), what the verifier lists is what Codex
  fires. `FieldsAreHeld` (a layer that sets a field of punk's entry has its table)
  gives the same for servers, and `VerdictStands` says that the files are still
  the ones a verdict is about.
- `CaptureTypeCorrect`; `OncePerDelivery` and `CaptureIsSafe`, for any number of
  copies, events, facts and faults and any caps of the books. What is promised of
  a delivery holds while no call of the bookkeeping has failed and the books have
  room, and those are conditions in the property, not hypotheses of the theorem.
  The history of what was printed grows with every turn, so `HistoryInv` holds it
  against the books: under the conditions the facts of every block that was
  printed are booked as injected and its turn as delivered (`BooksAreFull`), what
  is about to be printed is not booked (`Unseen`), every turn in the books was
  printed (`TurnsWerePrinted`), and the marker is the last session block or the
  one under way (`MarkerIsLast`). The copies of a hook are told apart by the
  delivery lock: past it one request is alone (`Placed`), and what it read of the
  books, if the read did not fail (`ReadWell`), still stands there (`Current`).

### Fact memory (`MemoryProofs`)

- `MergeTypeCorrect`, `MergesAreSafe`. A merge and an undo plan with what they
  read and write in another transaction. `JobsArePinned` is the heart: as long
  as the revisions of both entities are the ones the plan read, what was read
  still holds. `GoneIsBlank` and `RecordsSplit` tell what the records of a merge
  contain, `PlanIsAimed` what the enricher may touch. A ring cannot close
  because a merge that commits finds both entities without a canonical.
- `PipeTypeCorrect`. `MentionsCounted`, from `CountsArePinned` (a plan whose
  pinned version is still the entity's has counted what is linked now): the count
  of an entity is never more than its links, and exact where the extraction gives
  types; a duplicate of names only is the one way a link stays uncounted. `NothingOwedIsLost`, from `WorkIsOwed` (the live revision of a key
  has its stage run, or an event of the key waits, or the tailer is about to
  record the run), under the hypothesis that writes do not overlap or that no
  text expires. The hypothesis is needed: the counterexample with both is in the
  table of section 3. `FactsInv` says that a revision is in the future, in one
  client's hands or written, and that writes which do not overlap leave only
  the newest row of a key open; `WorkIsAimed`, `RunsKeyed` and `DrainHasEvent`
  carry the argument over the transactions in which the tailer publishes,
  records and marks.
- `SkillTypeCorrect`, `SkillsAreSafe`. Body, digest and identity of a version
  are three writes, and a process may stop between any two, so `SkillInv` says
  what each of them leaves behind: `RowsFit`, the rows of a version are those of
  the content it was first advertised with, and a base version without an
  identity is complete; `CallsFit`, whoever publishes has found no other content
  advertised, a version is taken down only when its identity is pinned, and an
  operator writes back what was advertised; `RunsFit`, a recorder that pins an
  outcome found it in the ledger.
- `ArchiveTypeCorrect`; `DigestMissesNothing`, for every page size.
  `ArchivesAreRestorable` and `AppliesInTurnAreSafe`: an archive is several calls,
  between which others apply, restore and compact. `Restorable` is the core, for
  every row of a status and not only the live one: it is older than a summary, or
  its archive has a live marker or nothing but markers. `SummaryFirst` and
  `RestoreHolds` say what an applier and a restore have behind them. That is
  inductive with one of two reasons why nothing is moved into an archive that a
  status names or is about to name. Without compactions the name of a marked
  archive is never free again (`FreshInv`, with `NamesStay`), so applies and
  restores may overlap. With compactions it may be, and then the applier that
  takes it must have written a summary that is newer than every status
  (`SerialInv`, with `StatusesAreOld`), which is so when no apply begins before
  the one before it has ended; since its plan has then seen the status, it does
  not move it either (`StatusIsNotMoved`). Two overlapping applies beside a
  restore and a compaction do break the promise (section 3).
- `VecTypeCorrect`; `VectorsAreSafe`. Enrichers, passes, tools and searches all
  use what they read several calls ago. Two facts carry that: a revision never
  changes its text, and its number only grows (`ReadOf`, `FactsGrow`), so what was
  read of a revision still stands; and a vector is of the text of its revision,
  keyed, or bare if a run of that revision was claimed (`VecFactsInv`, `FormsInv`). A budget is spent on new links because an enricher or a pass
  that nobody disturbs knows every link there is (`CountsOf`, `PassInv`). The fence
  of a run holds because each claim has an attempt of its own (`ClaimsInv`), and a
  search is right because an entry of the index is of the revision it names
  (`IndexInv`, `SearchInv`). The hypothesis `~Legacy` says that the vectors at
  start are this embedder's; without it `VectorsAreReachable` is a limit of
  section 3.

### Only model-checked

- Liveness (`RoutedTasksSettle`, `EveryMessageIsAcked`, `MailIsNudged`,
  `BridgeDelivers`, `ReadersAreServed`, `LiveFactsAreDerived`): fairness and
  ENABLED are out of the prover's reach.
- Types of the benches as wholes (`DeliveryTypeOK`, `ClientTypeOK`,
  `MemoryTypeOK`): the parts that have safety theorems have their types proved;
  the other parts (`InboxBridge`, `ClientConfig`, `SummaryTree`) have them checked.
- `BridgeSafety`, `ConfigSafety`, `UsersAreKept`,
  `TreeSafety`: they speak about lists that are sorted and filtered, and the
  prover knows nothing of `SelectSeq` and `SortSeq` but their names.
- Claims on Postgres, one after another; overlapping they are refuted.

`DeletedWasReceived` (`Inbox`) is stated for the reader; no run checks it and no
theorem states it.

## 5. Not modelled, and the plan

The map names about 20,700 of the repository's 66,900 lines of Go that are not
tests. Out of scope: numeric ranking and the arithmetic of routing scores,
parsers and file templates of the connectors, the UI, benchmarks, transports,
DDL. Stateful and not modelled: authorization (keys, grants, bootstrap), rate
limits, the A2A gateway with its push notifications, the task board, the spec
registry's loader, cost accounting. `PROJECT.json` gives the reason for each.

Next, in this order:

1. The plugin bridge and the configuration with sets or functions in the place of
   sorted lists, so that `BridgeSafety` and `ConfigSafety` can be proved.
2. `DeletedWasReceived`, with a run.
3. `Authorization` and `TaskBoard` as modules of their own.
