# Sophia orchestrator: TLA+ verification

TLA+ models of the orchestrator in `src/`, TLC configurations that check them
on small instances, and TLAPS proofs for every value of the constants.

## 1. The system

The orchestrator drives a *change* through the phases init, explore, proposal,
spec, design, tasks, apply, verify, archive. An HTTP request starts, resumes,
approves or rejects a phase; a goroutine asks governance, checks the Iron Laws,
dispatches an agent, records its envelope and advances the change. State is in
Postgres; a boot scan repairs what a crash left behind.

| Part | State | Operations | What is hard about it |
|---|---|---|---|
| Phase, Change (`internal/domain`) | status, attempts, envelope; status, pointer | Start, Complete, MarkInterrupted, Restart; AdvancePhase, MarkCompleted, Abort | attempts are both budget and upsert key |
| Phase service (`application/phase`) | rows of `phases`, `changes`, `audit_log` | Run, Resume, Approve, Reject, runAsync, failPhase, advanceChange | reads without a lock, snapshots used after an agent ran, dropped errors |
| Change service, recovery, discipline | `changes`, `phases` | Abort; MarkStuckInterrupted; Iron Laws, validator | races with a running goroutine |
| Apply run (`application/apply`) | board, groups, tasks, worktrees | Execute, team leads, DAG wait, quota breaker, build loop | parallel groups, partial failure, resume |
| Spawn governor (`application/discipline`) | stored slot counter | Acquire, Release | shared by processes, slots leak |
| Outbox relay (`application/outbox`) | `webhook_outbox` | Tick: claim, post, mark, reschedule; shutdown | several relays, lost answers |
| Event stream (`application/eventstream`, SSE handler) | `phase_events`, subscribers | Publish, Subscribe, Stream | replay against live, full channels |
| Skills (`application/skill`, reeval tool) | `skills`, `reeval_run` | PatchStatus, PatchMetrics, seed, Apply, Revert | several writes without a transaction |
| HTTP client base, clients, dispatchers | circuit breakers, attempts | do, executeWithRetry; Dispatch | retries, late answers, half-open breaker |
| Init (`application/init`) | file cache, record in memory-engine | Run, Detect, Persist | cache keys against a tree that is edited |
| Documentation bootstrap (`application/bootstrap`) | rate guard, imported skills | Run, runDriftCheck, Import | races for quota and rows |
| Skill matching, prompt layers | none | SkillsForContext, sortSkills, enforceBudget | order and limits |

The parts meet in the database. The phase service calls the apply run for the
apply phase and the init service for the init phase. It publishes to the event
stream, completes a change together with an outbox row, and reaches agents
through the dispatchers. Each model takes what another part does to it as a
choice of outcome; the apply run is composed with the governor.

The `components` list of `PROJECT.json` gives files and status for each part and
the `hazards` list gives the line where each risk bites.

## 2. Modules

| Module | Models |
|---|---|
| `PhaseAggregate` | domain rules of phases and changes, Iron Laws, validator, as pure operators |
| `PhaseService` | phase service, Abort, the tables, crashes and the boot scan, for one change |
| `ChangeLifecycle` | abstract: what the service promises about the change row |
| `ApplyAggregate` | rules of board, group and task, as pure operators |
| `ApplyRun` | Execute, group and task goroutines, DAG coordinator, quota breaker, build loop, governor, tables |
| `SlotPool` | abstract: what the governor promises its clients |
| `TaskLedger` | abstract: what the board promises about a stored task |
| `OutboxRelay` | outbox table, relays, webhook, shutdown of their processes |
| `EventStream` | publishers, event store, subscriptions, SSE connections |
| `SkillLifecycle` | rules of a skill, the gate and the path search, as pure operators |
| `SkillRegistry` | skills table with API, seeder and reeval tool |
| `OutboundCalls` | retry loop, breakers, clients, agent dispatchers |
| `StructuralDetector` | versions, manifest parsers, layout heuristics, cache key, as pure operators |
| `SkillMatcher` | filters and order of skills, layers of a prompt, as pure operators |
| `ProjectInit` | init phases of several changes, cache, bootstrap goroutines, operators, edits of the repository |
| `MC...` | TLC instances |
| `...Proofs` | theorems about the module of that name; those about `ApplyRun` are in `ApplyRunProofs` (slots) and `ApplyBoardProofs` (dependencies, rows) |

### PhaseService

A *thread* is one request together with the goroutine it schedules: its
location `pc`, the in-memory phase `p` and the snapshot `c` of the change it read
first. `phases`, `change`, `outbox` and `audit` are the tables; `up` says whether
the process is serving. Each database write is a step, and so is each group of
reads before it, so two threads interleave wherever the code allows. `versions`
(the values the change row has had), `verified` and `reverted` (a save moved the row
back) are history for the properties.

- `LockByChange` runs a transaction-scoped advisory lock as a statement of its
  own. It is released before the next statement and therefore has no state.
- `PhaseRepo.Save` is an upsert on (change, type, attempts) with a primary key on
  the id. `SaveOk` and `SaveFails` are its outcomes; a conflicting row keeps its
  own id, and a new key under a stored id is refused.
- A transient database error is a choice bounded by `MaxFaults`, taken where the
  code drops the error or turns it into another outcome: saves, audit appends,
  the prior-attempt lookup in Run, the change lookup in failPhase, the boot scan.
  An error that only makes a handler return early without having written
  anything is a stutter.
- Governance, dispatch, the critic and the apply run are choices of outcome. A
  phase whose id is not stored cannot get a session or a board (foreign keys).
- Lifecycle events are emitted in the step of the write they report, because
  nothing reads them back. The approval events are steps of their own, because
  Approve and Reject read them. The `phase.archived` event to SSE subscribers,
  metrics, skill usage and artifact files are left out.
- The outbox enqueuer and the apply executor are wired, as in `wire.go`.
- `Crash` loses all threads; `Boot` is the recovery scan followed by serving. The
  reeval command wires the whole application as well, so its scan runs in a
  second process beside the server: `ScanList` reads the running rows and `ScanSave`
  marks them one by one, at most `MaxScans` times.
- `NewID` is an id that was not used before: ULIDs are taken to be unique.

`ChangeLifecycle` is what the row promises under any overlap: each new value is a legal
successor of a value that the row *has had*, not always of the last one, because a
request saves the change it read when it began.

Confidences are `none`, `low` (below the threshold of the type) and `high`. Laws
that the service cannot trip are left out (law 4 is always passed a decision).
For StartPhase other than init, Init is a change that finished every earlier
phase at its first attempt.

### ApplyRun

An *executor* is one call of Execute for one phase id. `epc` is its main
goroutine, `gpc` and `tpc` its group and task goroutines; `board`, `group` and
`task` are its in-memory copies, `boardRow`, `groupRow` and `taskRow` the tables.
Every statement on the database is a step.

- `chan[e][d]` is the one-place channel of a dependency. `ReceiveDep` takes the
  signal out and `Republish` puts it back, two steps, as in `DAGCoordinator.Wait`.
- `active` is `spawn_governor_state.active_count`. Team leads and implement
  agents take slots; the fallback and build-repair dispatches take none.
- The only cancellation is the quota breaker: `tripped[e]` also makes every later
  statement of `e` fail, its Releases included.
- Waiting is a choice of outcome: a wait may time out, a full governor may
  exhaust the saturation retries.
- `Others` are the governor's clients outside the apply phase, phase dispatches and
  the critic; a Release that fails loses the slot. `Crash` ends all
  executors and keeps the tables and the counter.
- `succeeded`, `tries` and `finished` (agents that succeeded, attempts of agents, groups
  that a team lead ended well) are history for `OutcomesEarned`.
- The tasks list is a constant `Plans`: dependency lists, and groups that the
  domain rejects. `RowSeq` is the order in which `buildBoard` saves the rows: each
  group before its tasks.

### OutboxRelay

A row is its status, attempts and whether it is due; `received` counts the POSTs
the receiver has processed. Claim, POST, mark or reschedule are separate steps of
each relay and the claim holds no lock afterwards, because the code runs it as a
single statement outside a transaction. `Shutdown`, `RelayStops` and `Close` are
the ordered teardown of `App.Run`; `misuse` records a statement on a closed pool.

### EventStream

`Append1` takes an id from the sequence (`nextId`) and `Commit` makes the row visible,
so ids may appear out of order. A commit may lose its answer: the row is there, and the
event is broadcast without its `Sequence`. `seen` is the history a connection read,
`hist` is what the history query returned and the
replay has not written yet, taken in order of id. `Snapshot` copies the subscribers under the lock and
`Send` goes through the copy without it; a send on a channel that was closed
meanwhile sets `panicked` and ends the process. A connection checks the phase,
subscribes, reads the history, replays it and follows; each is a step.

### SkillRegistry

PATCH requests, a server boot and the command line tool write one table. A status
write is a read step and an update step; a metrics write takes the row lock,
then commits. The tool plans from the recorded apply attempts, takes the skills of its
report one after the other (`ApplySkip` where there is nothing to do), walks transitions
hop by hop, records its run and reverts earlier runs; every command of the tool
seeds first, as `Wire` does. `added` and the field `read` of an audit item are history for the
properties.

### OutboundCalls

A caller makes one call after another. A call is admitted by the breaker of its
target, then runs the attempts of the retry loop; each attempt is answered well or
badly, loses its answer after being processed, times out or is cancelled. `stale`
marks calls admitted before the breaker last changed state, whose result no
longer counts (gobreaker's generations). `failed` is history: the failures of a target
in a row. The adapters turn a receipt into an
envelope or an error; the MCP bridge has its own two steps without breaker.

### ProjectInit

A change's init computes its key from the tree, looks the cache up, detects,
ingests, writes the cache and completes, one step each, while the tree may be
edited. The git commands behind the key may fail (`GitOutcomes`), which leaves a key
without a head or without the list of changed paths. The key is one step although
`KeyBuilder.Build` runs two commands and reads the manifests: an edit in between is not
modelled.

A bootstrap goroutine passes the rate guard, checks for drift, resolves
the library, fetches and imports, while operators change skills. The guard reads the
clock (`ReadClock`) before it takes its lock (`Allow`), so times may be admitted out of
order. `calls` holds the admissions the guard remembers, `admitted` all of them; both
are lost when the process restarts. The matcher and the parsers are evaluated on the
states this reaches and, for `ListedOnce`, on the sample trees of `MCProjectInit`.

## 3. Runs

| Run | Instance | Shows |
|---|---|---|
| `phase_concurrent` | 2 threads, from verify, budget 2, 3 requests, 1 crash, 1 fault, 1 scan, 2 new ids | attempts are numbered 1..n within budget; envelopes exactly for settled rows; a goroutine finds its row; a completed change has its webhook; history is kept |
| `phase_overlap` | 2 threads, from apply, budget 2, 3 requests, 1 fault, 1 scan, 3 new ids | the change row implements `ChangeLifecycle`; a finished phase is forgotten only where the row was moved back; a change completes only after a confident verify |
| `phase_liveness` | 1 thread, from init, budget 3, 4 requests, 1 crash, no fault | a running phase settles, is interrupted by the boot scan or waits for an approval |
| `apply_dag` | 1 executor, 3 groups with a task each, fan-in, fan-out, cyclic and partly invalid plans, 2 slots, breaker threshold 2 | no signal is lost; a group runs only after its dependencies, or after one that failed; Execute returns |
| `apply_resume` | 1 executor, 2 groups with 2 and 1 tasks, fallback on, 3 calls of Execute, 1 crash | a completed group and a DONE envelope mean that the tasks are done; the stored tasks implement `TaskLedger` |
| `apply_shared` | 2 executors, 1 group, 1 task, another client, 2 slots, 1 crash, 1 fault, threshold 1 | what is stored, reported and delivered was earned by agents and team leads; the governor and its clients implement `SlotPool` |
| `outbox` | 2 events, 2 relays, batch 1, 2 failures, 1 stop | delivered rows were received; no row is dropped or reopened; no use of a closed pool; every completed change is delivered |
| `events` | 2 events, 2 publishers, 1 client, channel of 1, 2 connections, 1 fault | a stored event is missed only on a full channel or when a higher id was visible first; nothing is written twice under one id; subscriptions are given back |
| `skills` | 2 skills (1 seed), 2 requests, 2 commands, 2 events, 1 fault | only validated skills are active; counters add up; reverts are idempotent and counted |
| `calls` | 2 callers, memory and runtime, all adapters, 2 attempts, threshold 2 | a dispatch runs one agent; breakers open on consecutive failures only, probe alone and recover; envelopes are genuine |
| `init` | 2 changes, a dirty tree, 1 edit, 1 restart, 1 admission per window, 2 clock values, git succeeds | the cache serves what its key stands for, and only recorded contexts; at most `Limit` admissions are of the last day; imports respect operators; prompts fit the stack and have one order |
| `vio_resume` | 1 thread, from verify, budget 2, 1 crash | Resume of an interrupted phase cannot be saved |

**Why these bounds.** Two actors are the smallest number that interleaves, and a
third request or call lets one meet what two overlapping ones left. `phase_overlap`
starts at apply, so that a request can save over two later values of the row. One scan
can fall anywhere among the steps of the server. Three groups give a waiter with two dependencies
and a dependency with two waiters. Two attempts and a threshold of two are the
smallest values for which "not yet" differs from "now"; a channel of one place fills. One crash
and one fault can each fall at any step. Two outbox failures let both relays fail
on one event. With a limit of 1 two goroutines compete for the last admission; the
theorem is for every limit. Failing git commands multiply the states of `init`: the
same properties were checked once with `GitOutcomes = {{"head", "status"}, {"head"}}`
and a clean tree as well (2,269,460 states), and the theorem is for all of them.
Symmetry is used in `phase_concurrent`, `phase_overlap` and `init`, which check no
liveness.

**Restrictions some properties need.** `CompletedIsVerified` says that verify *has been*
DONE with confidence: the law is checked before the agent is dispatched, and a verify
row may be overwritten from then on. `FinishedIsAdvanced` excludes crashes, faults, an
abort and a row that another request's save moved back, after each of which the code does
lose an advance. `NothingSlipsThrough` names the two ways in which an event is
missed. `RateLimited` counts back from now; about windows that are over see
`EveryWindowLimited` below. `OpenIsEarned` counts failures that come in a row.
`CompletedIsDone`, `DoneIsComplete` and `TasksKept` hold for one executor at a
time and without failing saves, which the code only logs (overlapping calls are not
excluded by Execute itself); `OutcomesEarned` needs neither. `ServedIsCurrent` exempts
entries made while the tree was edited. Seeds are exempt in `ActiveWasValidated`,
and in `FirstRevertCounted`, because every boot resets them.

**Fairness.** Weak fairness everywhere.
- `PhaseService`: a handler or goroutine that can step does (timeouts on external
  calls), and a crashed process is restarted. Requests get none.
- `ApplyRun`: goroutines step; dispatches, builds and waits have timeouts.
- `OutboxRelay`: the ticker fires again, backoffs elapse, processes are restarted.
  Failures are bounded, so a POST is accepted in the end.
- `EventStream`: publishers and handlers step while the process lives. A client need
  not read or leave.
- `OutboundCalls`: a request in flight is answered, fails or times out; open durations
  elapse. `BreakerRecovers` states its own premise: calls keep coming and, from some
  time on, do not fail.

Deadlock is checked in `calls`. The other systems may be idle, or reach the bounds
on requests, calls and events.

**Further properties.** Some modules also state `TypeOK` (PhaseService, OutboxRelay,
SkillRegistry, OutboundCalls, ProjectInit); `OneRunning` and
`PhaseIdsStored` (PhaseService), which hold in `phase_liveness`;
`SlotsCovered` (ApplyRun); `CompletedIffEnqueued`
(OutboxRelay); `AuditPriorIsTrue`,
`PathIsShortest`, `CommandReturns` (SkillRegistry, the last under `FairSpec`);
`RefusedWasNotSent`, `ErrorUsedEveryAttempt`, `CallReturns` (OutboundCalls);
`ImportedNeedsApproval`, `ListedOnce` (ProjectInit). They hold on the same instances
when added to the configuration, and those of section 4 are proved.

### Where the code departs from its documents

`vio_resume` is a run; `findings` quotes the line. The following can be reproduced by
adding the property to the named configuration (`PhaseConcurrent` etc.).

| Property | Configuration | Document | What happens |
|---|---|---|---|
| `OneRunning` | PhaseConcurrent | `phase_repo.go:195`: "so only one phase can be running per Change at a time across orchestrator instances" | two overlapping Runs both start a phase |
| `ScanFindsNoOwner` | PhaseConcurrent | `wire.go:503`: "a phantom \"running\" row no goroutine owns" | the scan of the reeval command marks a phase that a server is working on |
| `AbortIsFinal` | PhaseConcurrent, PhaseOverlap | `change/status.go:22`: "a terminal state (no further transitions)" | an aborted change becomes active again |
| `PhaseIdsStored` | PhaseConcurrent | `service.go:330`: a retry "MUST land on a new (change_id, phase_type, attempts) tuple" | after a lookup error Run overwrites attempt 1 |
| `LowConfidenceDoesNotAdvance` | PhaseOverlap | `validator.go:36`: "so the orchestrator does NOT auto-transition CurrentPhase" | a low-confidence phase advances the change |
| `FailedIsBlocked` | PhaseOverlap | `service.go:1120`: "persists a synthetic BLOCKED envelope and emits phase.failed" | phase.failed is emitted for a row that is not blocked |
| `ConcernsAreNotBlockers` | PhaseOverlap | `phase/status.go:40`: "not policy blockers" | verify with concerns advances, and archive is refused |
| `TerminalIsFinal` | PhaseOverlap | `phase/status.go:28`: "a terminal state (no further transitions allowed)" | a superseded attempt overwrites a DONE row |
| `ApplyNeedsTasks` | VioResume with StartPhase "design", PhaseIds {6, 7, 8} | `docs/domain-invariants.md:22`: "apply requires tasks Phase `DONE` with confidence ≥ 0.8 AND approved bit" | apply leaves before the Iron Laws are checked |
| `DroppedIsReplayable` | Events | `stream.go:113`: "Those clients still recover the event on next reconnect via Last-Event-ID + Replay." | a later event moves Last-Event-ID past the dropped one |
| `PublishedDuringReplayWritten` | Events | `sse.go:138`: "any event published during the replay is captured in the channel buffer rather than dropped on the floor" | the buffer is full, or the event has a lower id than one that was replayed and is skipped |
| `TimeoutsCountedApart` | Calls | `http_base/client.go:4`: "separate consecutive-failure threshold (3) and consecutive-timeout threshold (5)" | timeouts count as failures; the second threshold is never read |
| `RestoredIsCounted` | Skills | `reeval.go:409`: under-counting is "a worse, false-negative outcome" | a walk fails half-way, the revert is recorded, and the revert that completes it skips the metrics |
| `DryRunWritesNothing` | Skills | `main.go:87`: "An explicit --dry-run always wins and forces no mutation." | the command seeds the table first |
| `InitIsDurable` | ProjectInit | `init/service.go:66`: "artifact durable before phase state change" | a failing Persist is a warning and INIT completes |
| `EveryWindowLimited` | ProjectInit with Changes {c1, c2, c3, c4}, Limit 2, no edits, restarts, decisions or libraries | `rateguard.go:47`: "maximum allowed calls per project within the window period" | a goroutine that read the clock yesterday is admitted after one of today made the guard forget yesterday's calls |

Met while modelling, and kept in the models as the code has them:

- Apply: when the quota breaker trips, Releases run on the cancelled context and the
  slots stay taken. A failed or running group cannot Start again, although
  `run.go:898` says "only the failed groups attempt again". A resumed apply reuses a
  board whose building failed half-way, and an empty one yields DONE. A quota outcome
  releases a copy that is still pending (`teamlead.go:360`). A board that is not
  `building` keeps its status (`run.go:364`). Fallback and repair dispatches hold no
  slot. Two executors may dispatch one task. A task somebody else has
  claimed counts as a failure (`teamlead.go:267` says success).
- Outbox: `outbox_repo.go:88` says "so concurrent relays never double-claim"; the lock
  ends with the statement.
- Event stream: `cancel` may close a channel Publish is about to send on. An event whose
  append lost its answer may be written twice, once without an id.
- Skills: every boot resets status and metrics of the seeds. An apply that fails
  half-way leaves no run to revert.
- Init: a cache hit returns the context of the change that detected it. A tree edited
  between key and detection is cached under the old key. `Detect` and `KeyBuilder.Build`
  never fail. Drift looks at the preceding major only, and quota is spent before the
  documentation is known to exist.
- Prompts: `prior_context.go:119` says "TokenBudget caps total bytes emitted", but
  `enforceBudget` does not count its truncation markers, and no caller sets a budget
  (`phase/service.go:534`, `run.go:835`, `teamlead.go:457`). Team leads ask for skills by
  phase only.

## 4. Proofs

All theorems are for any values of the constants that satisfy the named
assumptions of the modules: any number of actors, overlapping in any way, and any
bounds. Every safety invariant, action property and refinement that a passing run
checks has a theorem, except `CompletedIsDone`, `DoneIsComplete` and `TasksKept`.

A leaf is first-order (`USE Zenon` at the top of a module) unless it names `SMT`, which
arithmetic, records and sequences need.

**PhaseServiceProofs** (`RetryBudgetAssumption`, `ServiceAssumption`), in two parts.
- *The phases*: `TypeCorrect`, `AttemptHistoryCorrect`, `EnvelopeIffSettledCorrect`,
  `CompletionFindsRowCorrect`, `CompletedHasOutboxCorrect`, `HistoryKeptCorrect`.
  None of the invariants is inductive alone. `IInv` adds to the table's order
  (`TableOK`) what each thread knows (`ThreadOK`): a thread about to save a new
  attempt or a rejection holds a phase that is *appendable* (its predecessor
  attempt is stored and it is within budget) and carries an envelope exactly when
  settled; a goroutine's phase already has a row. A thread's snapshot of a
  completed change implies an outbox row. `Appendable` and `SameKey` survive other
  threads' steps because no save drops or renumbers a row (`Keeps`), which is why
  `NextInv` proves the invariant and `Keeps` together, and `HistoryKept` follows. The
  table lemmas (`UpsertKeeps`, `UpsertHas`, `UpsertFrom`, `UpsertOK`) carry the weight;
  the action cases reduce to them through `FrameStep`. `ScanOK` says that a row a scan has
  listed still has its key in the table, so that the late save adds none.
- *The change*: `FinishedIsAdvancedCorrect`, `CompletedIsVerifiedCorrect` and the refinement
  `ImplementsLifecycleCorrect` of `ChangeLifecycle`. A request works on the change it read
  first, which others have overwritten since, so nothing can be said of the row from
  the last value alone. `CInv` says what holds of `versions` instead (`ChangeOK`): a
  completed value is at archive and came after a confident verify, and unless a save
  moved the row back its last value is the furthest. A request holds one of these values
  and a phase that may run on it, and archive is dispatched only once verify has passed
  (`Local`). Every save is then a successor of a value in `versions`.

**ApplyRunProofs** (`RunAssumption`, `MaxAttemptsAssumption`): `SlotsCoveredCorrect` and
the refinement `SlotsImplementedCorrect` of `SlotPool`. `SlotInv` says that the holders
are finitely many and at most `active`, which is within the limit. Each action moves
one client, so it takes a slot, gives one back, loses one or leaves the pool alone
(`TakeStep`, `GiveStep`, `LoseStep`); these are the steps of `SlotPool`.

**ApplyBoardProofs** (the same assumptions), in two parts.
- *Dependencies*, for any number of executors, crashes and faults: `SignalKeptCorrect`,
  `StartsAfterDepsCorrect`. `DagInv` says for each executor that no goroutine exists
  before the board starts, that a channel holds the outcome of a finished group, that the
  signal of such a group is in its channel or with a waiter about to put it back, and that
  a waiter has received the dependencies before its position. The lemmas follow the
  life of a signal: `SignalStep`, `ReceiveStep`, `RepublishStep`, `DepsReceivedStep`.
- *Outcomes*, for any number of executors, crashes and faults: `OutcomesEarnedCorrect`. Copies
  and rows disagree as soon as two calls overlap or a save fails, so `EarnedInv` says of
  each copy and of each row by itself that agents have earned it: a task is `Credible`
  (done only if an agent succeeded, blocked only after the attempts it counts, which are
  not more than were made), an answer that is not recorded yet is one more than
  the attempts in memory (`TaskEarned`), a group that is about to finish well has its
  tasks worked (`GroupEarned`), a call that returns DONE had all its groups finished
  (`CallEarned`), and the tables say no more than that (`RowsEarned`). After a trip of the
  breaker a copy may say more, and nothing of it is stored, reported or delivered. The
  three histories only grow (`Grows`), which keeps the facts of all other goroutines.

**OutboxRelayProofs** (no assumption): `TypeCorrect`, `DeliveredWasReceivedCorrect`,
`CompletedIffEnqueuedCorrect`, `NoUseAfterCloseCorrect`, `NeverDroppedCorrect`. The
invariant adds that a relay holding a positive answer has been received (`Answered`),
that claimed rows are stored (`BatchStored`) and that a closed process has no relay
(`ClosedIsOff`).

**EventStreamProofs** (no assumption): `NothingSlipsThroughCorrect`,
`WrittenOnceCorrect`. `IInv` says that ids are given out once (`StoreInv`), that each
event has one publisher (`PubInv`), what a connection has written and may yet write
(`ConnOK`, `SentOK`), what it read from the history (`SeenOK`) and what a publisher has yet
to send to it (`DueOK`). The last part is the heart of `WrittenOnce`: an event still to be
sent is not in the channel, and if it was written already then by the replay, so that
`maxReplayedSeq` covers it and the live loop drops it, unless it was broadcast without an
id. `NothingSlipsThrough` rests on `SeenOK`: `maxReplayedSeq` is the id of a row that was read,
so an event it covers that was not read has been overtaken.

**SkillRegistryProofs** (`RegistryAssumption`, `TrailAssumption`, `PriorAssumption`):
`ActiveWasValidatedCorrect`, `MetricsAdditiveCorrect`, `RevertIsIdempotentCorrect`,
`FirstRevertCountedCorrect`, `AuditPriorIsTrueCorrect`. The check of a status write and the write are two steps, so
`IInv` carries what was checked: a pending write is *justified* by a validation that no
step withdraws, although the status may have changed, and a pending count was
read under the lock its writer still holds. `RevertIsIdempotent` rests on a second
invariant, `TrailInv`: the report of a revert consists of items of the recorded run, and
as long as `restored` names a run its skills are at their prior statuses, so that each
item is skipped and no walk of that run is under way.

`FirstRevertCounted` needs a third one, `CountInv`. An item *owes* a rollback when the
reverted run has its skill with the prior status the walk ended in, the skill is no seed
and its counter is zero. While the first revert of a run goes on, no item it is done with
owes anything (`CountedOK`); a skill comes once in a run (`TrailAssumption`: the table is
listed once per row), so the next walk disturbs none of them. A walk that stopped
half-way owes nothing either, as it has not been at the recorded status: this is
`PathIsWay`, that the path the breadth-first search finds is not empty and has its goal at no
place before the last. The search goes over six statuses, so its loops are unrolled
(`SixSteps`). `AuditPriorIsTrue` rests on `PriorInv`: the gate proposes two transitions
only, and `active` is allowed from `validated` alone, `deprecated` from `active` alone
(`GateKnowsPrior`), so a row of the plan that is stale when it is written is refused.
`PriorAssumption` says the same of the runs recorded before.

**OutboundCallsProofs** (`CallsAssumption`): `TypeCorrect`, `AgentRunsOnceCorrect`,
`OpenIsEarnedCorrect`, `ProbeIsAloneCorrect`, `RefusedWasNotSentCorrect`,
`ErrorUsedEveryAttemptCorrect`, `EnvelopeIsGenuineCorrect`. `IInv` bounds each
call's attempts and effects (`CallsOK`), ties a breaker's counter to the failures its
target has had in a row (`Earned`), counts the calls of its current generation (`Probing`) and says
what a returned result stands for (`LastOK`).

**ProjectInitProofs**, in two parts.

*INIT, bootstrap and skills table* (`InitAssumption`, `RowsAssumption`): `ServedIsCurrentCorrect`,
`IngestedBeforeCachedCorrect`, `RateLimitedCorrect`, `ImportFollowsActiveCorrect`,
`ImportKeepsRowCorrect`. `IInv` has three parts. `DetectInv`: a cache entry made without a
race has the frameworks of every repository with its key (`KeyDetermines`: whatever git
answers, the key contains the manifests, and the frameworks are read off them), and its
change has a record. `GuardInv`: the guard remembers at most `Limit` admissions, one that
it has forgotten is older than a day (`Window`), and the time a goroutine has read is not
in the future. Times need not be in order. `SkillInv`: an import under way already has the
validated row of the preceding major that it follows. `RowsAssumption` says of the
rows at the start that a status past candidate has its validation date, as the
repository's transitions leave it. A restart begins a new window, in the model as
in the code, where the guard lives in memory.

*Prompts and detection* (`TableAssumption`):
- `InjectedFitsStackCorrect` and `ImportedNeedsApprovalCorrect`: what the matcher returns
  for any list are the rows that pass its filters (`Selected`, `ContextMatches`), and a
  minimum version that is compared can be parsed. `TableInv` says so of every row, whoever
  wrote it, and that the ids number the rows one-to-one.
- `AnyOrderSamePrompt`: any two lists of the table, in whatever order the database
  returns the rows, give the same prompt. `PromptOrderIsFixedCorrect` is the case of the
  two orders the run compares. The comparison of `sortSkills` is a strict total order on
  rows with different ids (`LessOrders`); the place of a row after sorting is the number of
  rows below it, which the order of the input does not change (`SortPlaces`, `SortSame`).
- `BudgetForAnyLayers`: for any layers and any positive budget, `Render` keeps the first
  layers in their order, none longer than it was, and together within the budget, apart
  from the truncation markers it does not count. The loop's invariant is that every
  byte of the budget is spent or left (`Spent`).
- `ListedOnceCorrect`: in any working tree, whatever its manifests mention, a framework or
  a language is listed once. The parser of `package.json` lists no name twice
  (`NodeUnique`), and the others go through `appendFwUniq` (`AllUnique`).

These are about loops over lists of any length. Induction over data is done with a set
in the place of a predicate: `Least` (a set of numbers has a least one), from it
`Induction`, and from that `Steps`: a loop whose turns stay within given sets of states
has a run, which is the function the recursive definition chooses. The definitions
are recursive functions for this reason (`Select` does what `SelectSeq` would).

**Model-checked only**, and why:
- liveness (`RunningSettles`, `ExecuteReturns`, `AtLeastOnce`, `SubscriberReleased`,
  `BreakerRecovers`), which is outside the prover's reach; so are
  `CommandReturns` and `CallReturns`;
- `CompletedIsDone`, `DoneIsComplete` and `TasksKept`: they need one executor and no failing
  save, and TLC finds each violated in `ApplyResume` with a second executor or with one
  fault. What is left of them without these restrictions is `OutcomesEarned`;
- `PathIsShortest`: the graph of transitions is fixed, so TLC settles it for every pair of
  statuses that occurs.

## 5. Not modelled

- Prompt building, configuration, routing, authentication, metrics, logging: text and
  lookups without state whose order matters.
- Change creation and the list queries: single statements, guarded by constraints.
- The text of envelopes, documentation and manifests beyond the words that decide
  something; the command lines of agents and build tools; the files in worktrees.
- The critic client and the dispatchers' health checks: one request without
  state. `AwaitApproval`, `Skill.Update`, `Task.Claim` and `Task.MarkRunning` have no
  caller.
- The recording of skill usage, which nothing modelled reads except as the sums the
  re-evaluation starts from.
- Durations: timeouts and backoffs are choices of outcome, or the passing of a
  bounded clock in `ProjectInit`.
