# Conflux-Weave: a verification project

TLA+ models of the parts of Conflux-Weave whose correctness depends on the order
in which several actors act: the durable SQLite runtime first, then what is built
on it. Every module is translated from the Python sources (`src/conflux_weave/`);
`PROJECT.json` names, for every definition, the lines it stands for.

## The system

Conflux-Weave is a single-machine research workbench. A FastAPI server
(`server.py`) accepts tasks, stores everything in one SQLite database in WAL mode,
and a background loop (or the command line, in another process) executes the steps
of a run: searches, paid calls of a language model, synthesis, publication.

| Component | State it keeps | Operations | Talks to | What makes it correct |
|---|---|---|---|---|
| **Durable run ledger** (`runtime/sqlite_*.py`, `core/state_machine.py`) | tables `runs`, `steps`, `attempts`, `leases`, `attempt_effects`, `budget_*`, `deliveries` | submit, claim, heartbeat, complete, fail, skip, requeue, cancel, resume, authorize / complete an external call, publish | every method is one `BEGIN IMMEDIATE` transaction | the tables agree on what is in flight; paid calls are not repeated; steps in order; terminal is final; deliveries are complete; the budget holds |
| **Durable workers** (`durable_research.py`, `durable_paper_runtime.py`, `worker.py`) | a claim, in memory | `work_once`: claim, execute a step as a sequence of ledger transactions, settle cancellation | the ledger, the artifact store, providers | every run reaches an end or a question to the user, whatever crashes |
| **API server run control** (`server.py`) | the worker loop's task | cancel, resume, direct execution of survey and reading runs, compute tool | ledger | a decision of the user is honoured whenever it arrives |
| **Step checkpoints** (`sqlite_step_checkpoints.py`) | checkpoint rows, recovery actions | record, get, evaluate recovery | artifact store, workers | a paid result is reused after a crash, and only when it is whole |
| **Tool budget** (`sqlite_tool_budget.py`, `compute_tools.py`) | reservations of tool calls | reserve, settle, release, stop | run budget | the sum of reservations and usage stays within the limit |
| **DAG scheduler** (`orchestrator/dag_scheduler.py`) | node states, pending approvals, active executions | execute, approve, pause, append nodes, cancel | event bus, skills | dependencies first; every node ends; a plan ends exactly when all its nodes have |
| **Agent event bus** (`orchestrator/event_bus.py`) | recent events, subscriber queues, SQLite rows | publish, subscribe, replay | scheduler, server's SSE | a client that resumes misses nothing and sees events in order |
| **Agent messages** (`sqlite_agent_messages.py`) | append-only messages | append, list | workers | one row per message id |
| **Memory store** (`memory_store.py`, `memory_agent.py`) | memories with status and supersession | propose, accept, reject, supersede, delete | agents | one active version; deleted stays deleted |
| **Document lifecycle** (`sqlite_lifecycle.py`) | document states, references | archive, restore, purge | documents | nothing referenced is purged |
| **Provider pool** (`provider_pool.py`) | endpoint health, cooldown | call with failover | providers | a failed endpoint is avoided, never for ever |
| **Skills governance** (`skills/`) | skill versions and states | register, enable, roll back | scheduler | one enabled version |
| **MCP manager** (`mcp/`) | server processes and sessions | start, stop, call, reconnect | scheduler | no call to a stopped server |
| **Harness orchestration** (`harness/orchestration.py`) | round-robin position | `work_once` over several runtimes | workers | no runtime starves |
| **Paper search access** (`paper_discovery.py`) | the governor's lock and last request, a cache | search | arXiv, the server's threads | requests at least the interval apart, retries included |
| **Library and index** (`server.py`, `hybrid_retrieval.py`, `indexing.py`) | registry rows, dense table, pipeline in memory | import, fetch, reindex, remove, restore | retrieval | the row, the table and the pipeline tell the same of a document |
| **Coding patches** (`project_agents.py`, `projects.py`) | proposals, the file, a temporary file | propose, apply, revert | the user's editor | a patch replaces what was reviewed, a revert brings it back |
| **Document notes** (`document_notes.py`, `document_agent.py`, `server.py`) | immutable notes in the artifact store, a cache, a registry file | analyze, patch, note from a chat, show | artifact store, library | the revisions of a document form one line |
| **Image index** (`multimodal_indexing.py`) | three LanceDB tables | publish, roll back | the server's import | a failed publication leaves what was published |
| **Backup and restore** (`backup_restore.py`) | a backup directory, a restored tree | create, verify, restore | ledger, artifact store, index | every artifact the database names is there |
| **Conversations** (`chat.py`, `server.py`) | messages with turns and sequence numbers, the count of a conversation | ask, record a research message | submissions, chat threads | a turn is one question and its answer; a retry completes it |
| **Deep research report** (`deep_research.py`, `merge.py`, `report_writer.py`) | the claims, the plan and the documents of one call | draft, verify, repair, merge, distil, write, audit, fall back | a language model, its engine | the report has every accepted claim once, and no other |
| **Evaluation runner** (`multimodal_concurrent_runner.py`) | a checkpoint file | run a batch with retries | a provider | a case is paid for once |

Ranking and embedding, document parsing, the command line and the web frontend are
sequential and local to one step or one request; they are listed in `PROJECT.json` with
the reason they are not modelled.

### How they interact

A request is submitted by `submit_task` and queued by a second transaction. A worker
polls `claim_next_step`, which in one transaction first closes one *abandoned
cancellation* (a cancelling run whose lease expired), then picks the first claimable
step and inserts an attempt with a new fencing token and a lease; or, when the step
was running under an expired lease, fences the old attempt, or hands the step to the
user when the old attempt was a paid call whose outcome nobody knows. While a step
runs, the worker opens further transactions with its claim (`authorize_external_call`,
`complete_external_attempt`, `complete_attempt`, `publish_delivery`, ...), each of
which checks the claim against the tables again (`_require_active_attempt`). Users
cancel and resume through the server at any time; the compute endpoint may stop the
budget of a run and fail it.

### What is hard

* **Interleaving**: a worker whose lease expired is still running and still calls the
  repository; the user cancels between any two of a worker's transactions.
* **Stale reads**: the clock is read before the transaction waits for the write lock.
* **Crashes**: a worker may die between any two transactions of a step.
* **Several writers of `runs.status`**: only some of them go through
  `require_transition`.
* **Money**: a paid call must not be repeated because of a timeout, and the reservations
  of dead attempts must neither block the budget nor be forgotten.

`PROJECT.json` lists each of these under `hazards`, at the line where it bites.

## Plan

1. `RunLedger`: every transaction of the ledger, called by anybody at any time who
   holds what the method asks for (**written, checked, proved**).
2. `ResearchWorker` (extends `RunLedger`): the order in which a worker runs those
   transactions, checkpoints, crashes between two of them, restart, the user's cancel
   and resume; liveness under weak fairness of the worker loop (**written, checked, proved**
   but for liveness). The five steps of the paper runtime are a variant to add.
3. `StepLife`: the abstract specification of the steps of all runs, which `RunLedger`
   implements (`RunLedgerLife`) (**written, checked, proved**).
4. `DAGScheduler`: the loop of a plan with approvals, pause, cancel, dynamic nodes and
   join policies (**written, checked, proved** but for liveness).
5. The services around the two, each with its own state, composed in `MCServices`:
   `ToolBudget`, `EventBus` with `Timestamps`, `ProviderPool`, `SourceAccess`, `CodingPatch`,
   `Library`, `MemoryStore`, `SkillRegistry` (**written, checked, proved**).
6. The records kept beside the ledger, composed in `MCServices` too: `NoteRevisions`,
   `ImageIndex`, `BackupRestore`, `CaseRunner` (**written, checked, proved**).
7. `VerifiedResearch`: what happens inside the batch that `ResearchWorker` pays for, with the
   checkpoints of its phases (**written, checked, proved**).
8. `DeepReport`, the deep research from its material to its report, and `Conversations`, the
   transcripts of chats, composed in `MCServices` (**written, checked, proved**).
9. Left: the paper runtime as a variant of `ResearchWorker`, the document lifecycle, the MCP
   manager, agent messages.

Theorems, in the order of their worth: type correctness, the three invariants of a step,
the run-level invariants and action properties of the ledger, the live lease, the budget
bound, the refinement of `StepLife`; the fencing of workers and the bound on paid batches; approval
gates, dependency order and completion in the scheduler; the bound on tool calls
under unlocked reads; spacing of requests and cool-down of endpoints; the order of textual
timestamps and what a subscriber of events gets; complete backups, paid cases and the rollback of a
failed publication; what a research delivers; the index, the memories, the notes, the patches and the
transcripts (all **proved**). Liveness stays with TLC.

## RunLedger

One action per repository method, each a whole transaction. The variables are the
columns the properties tell apart:

| Variable | Column |
|---|---|
| `now` | the clock all callers read |
| `runStatus`, `createdAt` | `runs.status` (`absent` = no row), `runs.created_at` |
| `stepStatus`, `stepAttempt` | `steps.status`, `steps.attempt` |
| `attempt`, `token`, `lastToken` | `attempts.status`, `attempts.fencing_token`, its maximum |
| `lease`, `heartbeat`, `expires` | `leases`: `released_at`, `heartbeat_at`, `expires_at` |
| `effect` | `attempt_effects.effect_state` |
| `reservation`, `limitState`, `spent` | `budget_reservations.status`, `budget_limits.state`, the sum of the actual `budget_entries` |
| `delivered` | a row in `deliveries` |
| `retried` | the `recovery_decided` events with decision `retry` |

Correspondence and abstractions:

* **A claim is the pair (step, attempt number).** Every `ClaimAction` may be taken by
  anyone for any pair: a worker that lost its lease keeps its claim object, and the only
  thing between it and the tables is `Active`, the translation of
  `_require_active_attempt`. Crash and restart of workers need no action of their own
  here: a worker that stops calling is a worker whose actions are not taken.
* **The clock.** `ReadClock` is the set of times a caller may have read: `now`, or up to
  `MaxDelay` ticks earlier, because every method normalises its time argument before
  `BEGIN IMMEDIATE` waits for the write lock.
* **`claim_next_step`** is `ClaimNextStep`: which rows change is decided there
  (`reap`, `fence`, `block`, `grant`), and `ClaimTables` writes them all. `LiveLease`
  is the query for any unexpired lease in the whole database, whatever its workflow.
* **`requeue_failed_step`** is guarded by `Requeueable`, the condition of its only
  caller (`durable_research.py:497`): a replayable read with fewer than three attempts.
  The model lets it happen at any time after the failure, not only right after it.
* **`TransitionRun`** is taken for the targets its callers ask for: `queued` after
  submission, `running` for runs the server executes itself (`Direct`), `failed`
  anywhere.
* **Budget.** One dimension, one limit, one worst-case reservation. `wall_clock_seconds`
  is a limit on the time since `created_at`.
* Left out: artifact registration, run events other than `recovery_decided`, the
  contents of results and errors, idempotency keys of tasks (one task per run), and the
  tables of other components.

`RunStatus`, `StepStatus` and `Allowed` are the enumerations and the transition table of
`core/`. Several methods write `runs.status` without that table, and so do the actions:
`request_cancel` and `resume_run`, for example, make moves the table does not have.

### Runs

The runs of this module use `MCRunLedger`, which gives the step policies of the two
workflows. `MCRunAndBatch` puts `VerifiedResearch` beside it: in a behaviour of `run_and_batch` either
the ledger moves or a batch does, and each property is about one of them.

| Run | Instance | What it shows |
|---|---|---|
| `ledger_single` | one research run (paid batch, publication), 3 attempts per step, clock up to 2, leases of one tick, clock values up to one tick old | the tables agree, paid calls are not replayed, a waiting run can be resumed, terminal is final, cancelled means quiet, deliveries are complete |
| `ledger_pair` | two runs of two workflows, three worker filters, one run also executed directly by the server | one live lease in the database, and its holder is the newest claim |
| `run_and_batch` | a paper run (replayable search, paid synthesis, publication), limit 2, usage up to 2; or the batch of `VerifiedResearch` | requeues of a replayable step; spent plus reserved within the limit; every behaviour is one of `StepLife` |

*Why the bounds are enough.* `MaxAttempts` = 3 lets an attempt be abandoned, handed to
the user, retried and abandoned again; with `MaxTime` = 2 and `LeaseTime` = 1 two leases
expire in one behaviour. Usage up to 2 against a limit of 1 or 2 and reservations of 1 make
a call be granted, denied, stopped after the fact (overage), and denied because of a
reservation. `WallClock` below `MaxTime` makes the wall-clock limit bite. `MaxAttempts`, `MaxTime` and
`MaxUsage` are bounds of the model; the code has none. `CHECK_DEADLOCK FALSE`: when every
run has ended and the clock is at its bound nothing is left to do, which is where the
system really rests.

The properties, by the hazard they are for:

* `InFlightAgreement`: `attempts`, `steps` and `leases`, written by twelve methods,
  agree on what is in flight. Everything `_require_active_attempt` protects rests on it.
* `LiveLeaseHoldsNewestToken`: the purpose of the fencing token. It holds when the clock
  is current (`MaxDelay` = 0) and is checked there.
* `PaidCallNotReplayed`: a new attempt of a paid step exists only if the user decided to
  retry the one before.
* `WaitingRunIsResumable`: the question to the user can always be answered.
* `DeliveredIsComplete`, `QuietWhenOver`, `TerminalIsFinal`, `NoCallAfterCancel`: status
  of a run against its deliveries, its attempts and its later history.
* `BudgetHeld`: until the budget is stopped, what is spent and what the call in flight
  reserved stay within the limit. After an overage (`complete_external_attempt` with more
  usage than was left) the limit is `stopped` and the statement ends there: the provider
  has already charged.

`TypeOK` and `StepsInOrder` (no retry, requeue, cancel or budget stop reopens a step that a later
one has built on) are not run on their own: they are theorems, on which the others rest.

No fairness is assumed and no liveness is stated here: the ledger promises nothing about
progress without a worker, which is the next module.

## StepLife

`StepLife` says what the ledger promises about steps without tables, statuses, leases or
clocks. Its state is which runs are `closed` to further work, which steps are `done`, the
grants made (`granted`), the grant at work on each step (`holder`), and the grants with a
call nobody heard back from (`open`). A step is granted in order, in a run that is not
closed, under a number above all earlier ones; a paid step only when it has no call open.
The holder calls once and ends; its call counts as answered only when the step is done. The
user decides about an open call of a step without holder. Closed runs stay closed. A claim
transaction may close one run and grant a step of another, so in one step of `StepLife`
every step of every run moves or rests.

`RunLedgerLife` gives the refinement mapping: `closed` are the runs that are cancelling or
terminal, `done` the succeeded and skipped steps, `granted` the rows of `attempts`, `holder`
the current attempt of a running step, `open` the effects that stayed `request_started`
without a recorded decision to retry. `StepLifeHolds` is checked in `run_and_batch`
and proved for every instance.

## ResearchWorker

`ResearchWorker` extends `RunLedger` with processes: each `Worker` runs
`DurableResearchRuntime.work_once` over and over, a client submits, a user cancels and
resumes. A worker's `pc` is the point between two of its transactions; every transaction
of the ledger is taken with the worker's own `claim`, at the moment it commits, so that
expiry, takeover, cancellation and crashes fall between any two.

| `pc` | Code (`durable_research.py`) |
|---|---|
| `idle` | `claim_next` (459), which may also close or block an expired attempt |
| `claimed` | first `is_cancel_requested` and the dispatch (467-471) |
| `lookup`, `reuse`, `record_again` | `reuse_step_checkpoint` and `_reuse_checkpoint_execution` (554-557, 828-856) |
| `authorize` | `authorize_external_call` (591) |
| `call`, `call_again` | the executor (605-626) and its second call after a `TypeError` (627-640) |
| `record`, `complete` | `record_step_checkpoint` (679), `complete_external_attempt` (690) |
| `publish` | `_execute_publish_delivery` (702) |
| `settle`, `finalize` | last `is_cancel_requested`, `finalize_cancellation` (533-535) |
| `error`, `cancel`, `mark`, `block`, `fail`, `fail_run` | the exception handler (472-532) |

Correspondence and abstractions:

* `Commit` is a transaction with a claim: it goes through when its guard holds and raises
  otherwise. Inside the `try` a raise leads to `error`; inside the handler it leaves
  `work_once`, and the worker loop of the server catches it.
* `claim` names the step and the attempt number, which identify a `LeaseClaim`.
* `checkpoints` holds the rows of phase `retrieve` that the worker itself records. The
  batch records rows of its inner phases with other digests; they matter only because
  `mark_step_checkpoints_unknown_outcome` marks the newest row of the run, whatever its
  phase, so `Mark` may or may not hit a row of the model.
* `Registered`: `get_artifact_registrations` finds the response of an attempt only when
  that attempt completed, because `complete_external_attempt` is what registers it, and a
  completed step is not executed again. So the branch of `Reuse` that takes the artifact
  is there, and no behaviour reaches it.
* `record_error` writes only to `errors` and artifacts and does not check the claim, so it
  has no action. The `deliver` checkpoint row after a publication is never read.
* `Publish` may raise: the report or the manifest may be missing on disk.
* The adapter around the workflow has a `TypeError` handler of its own, so one call of the
  executor is one or two batches.
* Not here: the compute endpoint's stop and direct executions (they are in `RunLedger`),
  and heartbeats, which no worker of this runtime sends.

**Fairness.** `WF(WorkOnce(w))`: `WorkerLoop._run` calls `work_once` again and again and
survives its exceptions; inside `work_once` nothing waits but the provider calls, which have
timeouts. `WF(Clock)`: time passes. `WF(Queue(r))`: a client that has not died sends its
second transaction. Nothing is assumed of the user, and crashes are never forced.

| Run | Instance | What it shows |
|---|---|---|
| `worker_pair` | two workers, one run, one crash, one retry, 4 attempts | `FencedWorkerHarmless`, `WorkersInOrder`, `BatchesDecided` |
| `worker_lives` | one worker, one crash at any point, one retry | `AttemptEnds`, `RunLeavesUnlessCrash`, `CancellationEndsOrAsks` |
| `worker_cancel_race`, `worker_checkpoint`, `worker_batch` | the smallest instances that show it | one *finding* each |

*Bounds.* `MaxAttempts` is one more than retries plus clock ticks, so no takeover lacks a
row; a crash leaves the clock room for the lease to expire, or recovery would be impossible
only because the model's time ends. One retry is what the second visit to a step needs, one
crash is what every crash finding needs. The properties under liveness are checked without
symmetry. `CHECK_DEADLOCK FALSE` as above.

* `FencedWorkerHarmless`: the fencing as the worker sees it. Wherever in `work_once` a worker
  was when it lost its lease, its remaining transactions are all refused.
* `BatchesDecided`: what a run costs follows from what the user decided, not from how many
  workers expired or died.
* `WorkersInOrder`: the types of the workers' variables, with `PublishedResponseExists`: `next(...)`
  over the step's artifacts (line 711) finds one.
* `AttemptEnds`: expiry and takeover work for every interrupted worker.
* `RunLeavesUnlessCrash`, `CancellationEndsOrAsks`: without crashes the sequence of
  transactions leads to an end, or to a question. Each excludes exactly what a finding
  shows: crashes for the first, the race of `block_unknown_external_outcome` for the second.

### Findings

Each is a run whose single property is what a document or test of the repository says.

| Run | The code |
|---|---|
| `worker_checkpoint` | the checkpoint of a paid batch is recorded before its artifact is registered; the retry after a crash in between finds it, raises `RecordNotFound` and fails the run |
| `worker_cancel_race` | a cancel request between `is_cancel_requested` and `block_unknown_external_outcome` leaves a cancelling run with nothing in flight, until somebody cancels it again |
| `worker_batch` | a `TypeError` from inside a paid batch runs the batch again |

Three more observations have no run of their own, because no document says otherwise or the
cases above show the same. A crash between `complete_external_attempt` and
`finalize_cancellation` leaves a cancelling run like `worker_cancel_race`. A crash between
`fail_attempt` and the transition to `failed` leaves a running run with a failed step that no
worker picks up; `RunLeavesUnlessCrash` excludes it. A client that dies between its two
transactions leaves an accepted run that nothing queues.

## DAGScheduler

`DAGScheduler` is one plan of `DAGTaskScheduler`. Every call of `execute_plan` (the submission,
then each resume) is an execution with its own dictionaries; the scheduler keeps, by plan id,
the execution that decisions and appended nodes go to (`active`), the stored plan, the pause
token and the wake event.

| `phase` | Code (`dag_scheduler.py`) |
|---|---|
| `top` | the checks at the head of the loop: all settled, cancelled, paused, candidates |
| `schedule` | the loop over `compute_ready_nodes`: `SkipNode`, `AskApproval`, `StartNode` |
| `settle` | what to wait for: tasks, the user, or nobody (`GiveUp`) |
| `wait_task`, `wait_user` | `asyncio.wait`, and the wait of 0.1 s for the wake event |
| `collect` | the loop over finished tasks: `Succeeded`, `Failed`, `TaskCancelled` |
| `end`, `ended` | the epilogue, and the return to the caller |

* **Interleaving.** The server has one event loop, so a pass between two awaits excludes every
  other action: the guards say `~Busy`. Within a pass the order of the candidates and of the
  finished tasks is free.
* **The five id sets** (`completed`, `failed`, ...) are variables of their own next to the node
  states, as in the code, because the loop ends when their sizes add up.
* `NodeState.bare` says that a node was rebuilt without its condition and join policy, which is
  what cancelling and giving up do.
* Left out: progress events (`EventBus`), the skill a node runs (an executor returns `yes` or
  `no`, where a condition asks for it, or fails, or is cancelled), timeouts of a node (a
  failure).

`scheduler` runs three plans of three nodes (`GatedPlan` with an approval and an appended node,
`BranchPlan` with a condition and a join of any, `SpawnPlan` whose first node spawns one that
depends on nothing the plan has), two executions and three calls of clients at any time: that is
enough for approve-pause-resume, for a decision that arrives when nothing is registered, and for a
late decision on a node that was given up. A client resumes a plan only when its executions have
returned (`Impatient = FALSE`); one that does not wait gets the nodes in flight a second time.
**Fairness**: the event loop runs whoever can go on, and every executor returns.

* `RunsOnUpstreamResults`: `compute_ready_nodes` together with every write of the sets, across
  pauses, fan-out, appended nodes and decisions.
* `GateHolds`: no start without an approval, although decisions overwrite a node whatever its
  state and resumes start from copies.
* `StartsExplained`: what a plan did before its pause is not done again after it.
* `CompletedIsSettled`, `NothingLeftBehind`: a plan that ends as completed is done, and nothing
  it started is still at work. Both exclude a decision that meets a node that was not waiting for
  one (`offGate`): `submit_approval` overwrites such a node, and then it may run twice or be
  settled twice, so the sizes add up too early. The first also excludes cancelled tasks, whose node
  keeps the status `running`.
* `ExecutionEnds`: an execution always returns to waiting for the user or ends.

A pause has one more effect the model shows: the entry of the plan stays in the registry after the
call has returned, so a decision or an appended node that arrives then goes to the dead
execution's dictionaries, and the resume, which starts from the stored plan, does not see it.

## The services

The services share no state with each other, so `MCServices` runs one of them per behaviour and
checks all their properties in one run, `services`, together with those of the records, of `DeepReport`
and `Conversations` (the sections below). Its instance, by service:

### ToolBudget

`sqlite_tool_budget.py` and the endpoint of the compute tool. `reserve_tool_budget` reads the limit,
the usage and the reservations without a transaction around them, so each read is a step and callers
in several processes interleave. `ToolCallsBounded`: the calls charged and reserved pass the limit by
less than the number of callers. `orphans` counts reservations whose request died: nothing releases
them. Three callers and a limit of two let two of them pass the check together.

### Timestamps and EventBus

`Timestamps` is the text the tables store and compare: `isoformat` leaves the fraction out when it is
zero, and `.` sorts before `Z`. `EventBus` publishes rows and broadcasts to bounded queues; the insert
may raise, the process may restart. `InvertedOnlyOnTheSecond` says how far the order of a listing may
disagree with the order of publication; `SubscribersAgreeWithListing` that a subscriber gets what the
table has since it subscribed, in order, but for what its full queue dropped. Two events, two seconds
with and without a fraction, queues of one.

### ProviderPool

Circuit breakers, rate windows and the failover of `complete_chat` by two concurrent callers over two
endpoints. `CoolsDown`: an endpoint that failed `Threshold` times in a row is left alone for `Recovery`,
whatever late answers of other calls arrive; `streak` and `lastHard` are the history the property needs.
The retry without the thinking toggle is sent without an entry in the rate window; the toggle is
cleared by it, so that a window has at most one request more than its limit.

### SourceAccess

The governor of arXiv: one lock for all searches of the process, which a search keeps through its
retries, and the cache. `RequestsSpaced`: first attempts and retries of all threads are an interval
apart. Two searches, two attempts each, four ticks.

### CodingPatch

Propose, apply and revert of one file that an editor changes too; the endpoints look proposals up in the
event loop and work in threads, which share the proposal object and the temporary file.
`PatchesAreReversible`: an apply replaces the text that was reviewed and a revert brings it back
(`UndisturbedApply`, `RevertUndoesApply`), when nothing changed between a thread's check and its rename
(`disturbed` is that history). A request may also name another file and so move its proposal there
(`server.py:6174`); that is left out, there is one file. The run `coding_patch` shows a *finding*: a proposal for a
file that did not exist has an empty hash, and `apply_patch` then compares nothing, so a file created
during the review is overwritten.

### Library

The registry, a JSON file of rows, against the retrieval index: the dense table and the pipeline in
memory, changed together under one lock in threads. The endpoints save, after their await, the row they
read before it. `RowsMatchIndex` says what survives: the table and the pipeline agree whenever the lock
is free, and the status of a document tells the truth unless two calls overlapped on it, a version was
restored, or a new row lost its segments (`stale`), or a restart met a call under way (`torn`).
A registry cut short by a crash is read as an empty one (`RestartLibrary`), and everything in it is lost:
the registry is written in place.

What `stale` excuses is a divergence: a removal that ends between the indexing of a document and the save
of its row, or a restored version of a removed document, leaves `knowledge_ready` on a document no search
finds, where the plan of v0.3-UX2.1 (line 237) says that the status means searchable.

### MemoryStore

The memories of one scope and category, candidates with their conflict check, and the vectors of the
recall service; endpoints in the event loop, chats in threads. The tables are tied by a foreign key that
is enforced (`memory_store.py:146,194`): the deletion of a memory takes its name from every candidate that
names it (`Cleared`), and a candidate is not created when the memory it was to name has been deleted since
the check (`Referable`, `RefuseCandidate`). `MemoriesFollowDecisions` has three parts.

* `ClashesUnseen`: what the check of an approved candidate reported in conflict is active no more, and two
  active memories clash only when that check could not see the other one (it came later, or was beyond the
  limit of the listing) or had stopped at a first one. `noticed` and `reported` are the history of the check;
  the column of the candidate would not do, because a deletion clears it.
* `ConflictsStand`: a candidate names the memory its check reported exactly as long as that one has a row.
* `VectorsFollowDeletion`: a deleted memory keeps a vector only when a recall under way had listed it or
  the vector could not be deleted.

`approve_candidate` archives the older memory and marks the candidate in one transaction and creates the new
memory in another (`ApproveCandidate`, `CreateApproved`); a failure in between loses both, and nothing says
otherwise. `services` takes three memories, one candidate and a listing of two rows: a check may find two
memories in conflict and stop at one, either may be deleted before the candidate is created or approved,
and with three active memories one is beyond the limit. Several candidates that wait at once are left to
the theorem.

### SkillRegistry

`skills` and `skill_versions` under registration, schema and budget updates, rollback, disabling, and
the reinstallation of built-in skills at every start. `SkillFollowsHistory`: what a skill is, is what
its version has on record, but for a built-in one after a start.

## The records

What the program keeps in files and tables beside the ledger. `MCServices` runs them too, in the run
`services`. Its cfg says `CHECK_DEADLOCK FALSE`: the numbers of notes, publications, crashes and batches
are bounded, and at the bounds a behaviour ends.

### NoteRevisions

The notes of one document. `analyze_document` makes the first, `revise_note` the next version of the
note a request names, a chat a note of one section. A note is immutable and its artifact stays; the id
of an analysis or a patch is made of the document and the version, so two notes may have one id, which
`_NOTE_CACHE`, the search through the store after a restart (`Loads`) and the registry file (`Listed`)
each resolve in their own way. Requests check in the event loop (`PatchNote`), work in a thread
(`ThreadSaves`, `ThreadFails`) and register in the event loop again (`Register`). Two requests, three
notes, one restart: a fork of a revision, its overwriting and its reload after a restart all fit.

`RevisionsFormOneLine`: while requests do not overlap, none breaks off and no document with notes is
analyzed again (`muddled`), the registry is the history, each version made from the one before, and an
id loads the registered note across restarts. Each part of the excuse is a case in which the code does
otherwise:

* Two patches of the latest revision overlap: the check (server.py:5308) is before the `await` (5361), so
  both make the same version under one id, and the later one replaces the other without a conflict,
  which is what the comment above the check (5292-5295) says it rejects.
* A second analysis replaces version 1 under the later versions, which were made from the first one.
* A request that dies between the artifact and the registry leaves a note that a later lookup by id
  may find in place of the registered one.

Section ids are numbered by position when a section is appended or inserted, and never renumbered:
after an insertion or a removal before the last one two sections may have one id (`moved`).

### ImageIndex

`LanceDBImageIndex.publish`, one step per call of the database, any of which may raise; drops swallow
what they raise. Two threads, three publications, one restart. `FailedPublishRollsBack`, the promise of
its docstring: a publication that fails leaves the table that was published before it, or keeps it in
the backup when the rollback fails too. `hindered` excuses two cases the code does not handle: imports
run in threads without a lock and share the three table names, and a backup an earlier call could not
drop is what a later failure before its own copy brings back. Publishing replaces the whole table
(line 819): after an import the image search finds only the figures of that document.

### BackupRestore

`create_backup` and `restore_backup`, file by file, beside a server that stores and registers artifacts.
`TreesHaveTheirArtifacts`: a backup is consistent because the database is copied before the artifacts,
each artifact is written before its row, and none is deleted; a restored tree is complete although
the medium may have lost a file, because the count is compared. Two artifacts, one crash or loss: the
server can store and register one at each point of a backup. A vector table copied while it is
written may be torn; it is recorded with the count -1, the backup succeeds, and no restore of it does
(`RestoreVectors`). The output directory is checked at the beginning (135) and removed with whatever it
has by then at the end (227). What the model assumes: one backup and one restore at a time, and the
backup stays while it is restored.

### CaseRunner

The batch of `BoundedConcurrentRunner` with its checkpoint file. `CasesPaidOnce`: a case is called again
after a result only if the record of that result is lost. It is lost when a crash tears it, when it
follows a torn one (which has no line end, so both are one line that does not parse), when writing it
raises inside the `try` (206), which counts as a failed call, and when another task gives up: `gather`
(290) raises and the calls under way end in their threads for nothing. Two cases, one retry, two
batches: a torn record, and the batch whose record is glued to it. The docstring says the
runner clamps concurrency or halts above ten percent of rate limits; the code sets a flag
(`_kill_switch_triggered`) that only the statistics show.

## VerifiedResearch

What `_execute_execute_research` pays for: the batch of a verified or a managed research
(`research_agents.py`, `managed_research.py`), with the rows of `step_checkpoints` its phases leave.
One action per phase (`Manage`, `PlanQueries`, `Retrieve`, `Draft`, `Verify`, `Synthesize`, `Write`,
`Return`): it takes the data of the newest row of its digest, or makes new data, and then `RecordRow`
writes the row, so a crash may come in between.

* **Digests.** `key` has what the code hashes: the question, the queries, and of claims and evidence
  only their ids, which every question numbers from one; so the key of `Verify` is two numbers.
* **Failures.** `Fail` is the exception handler of `work_once`, which marks the row written last
  (`mark_step_checkpoints_unknown_outcome`) and keeps the others; `Crash` marks nothing; `FallBack` is
  the second call of the adapter after a `TypeError` of the draft, the verdict or the audit, without a repository, which neither reads nor
  writes rows. `Start` may find an earlier attempt still at work, whose lease expired.
* **Nondeterminism.** A search returns any passages each time it is asked, a draft any claims, a
  Verifier any verdict with at least one evidence id per claim (the parser refuses others). `verified`
  remembers, for the properties only, which claims were accepted for which passages.

In `run_and_batch`: two questions, two passages, two texts, one passage and one claim per question, two
attempts and one mishap. That is enough for a verdict to be taken over by another question, for a row
to be lost between two phases and for the search to answer otherwise on the retry. A managed research
does not overlap there (the theorem covers it).

* `OnlyAcceptedClaimsDelivered`: whatever is taken over, the text of every claim delivered was accepted
  in this run, because a verify row carries the claims with the verdict (mutant: only the verdict).
* `SoleAttemptCitesItsEvidence`: a single research whose attempts do not overlap cites for a claim
  what its Verifier saw, although the keys have numbers only. It rests on the order of the rows: while
  a later row is live, so are the earlier ones of the same attempt, as only the newest is ever marked.
* Neither holds in more generality. `research_checkpoints` shows that a managed research takes a
  verdict over from another subquestion and cites its own passages for it
  (`SubquestionsVerifiedIndependently`); overlapping attempts of one question do the same.

## DeepReport

One call of the deep research, from the material of its engine to what it delivers. Texts, sources and
digits are left out: a claim is a claim, a paragraph the claims it cites, and every answer of a model a
choice, what its parser refuses included.

| `stage` | Code |
|---|---|
| `gather`, `draft`, `verify`, `repair` | the engine and the retrievers, `_draft_with_retry`, the Verifier and the one repair (`deep_research.py`) |
| `prepare` | `plan_merge` (`merge.py`) and `distill_evidence_cards` (`report_writer.py`), in two threads |
| `fused`, `fused audit` | `compose_fused_report_document`: batches of sections, the assembly, its audit |
| `flat`, `flat audit` | `compose_report_document` |
| `over`, `raised` | delivered; or an exception left `execute` |

`ReportAccountsForClaims`: a delivered report has every claim the Verifier accepted and no other: in a
paragraph, the supplement, the open questions or the list of what the plan left out, and in one of them
only when a model wrote it. Three claims let a plan name one twice and forget another, two sections in
batches of one let a batch leave out what the first one had, three attempts are what the code makes.
What the model shows and no property asks for:

* The second answer of the draft that breaks the contract raises, where the docstring of `_draft_with_retry`
  (deep_research.py:1123-1128) says that the report is then delivered as not verified.
* `_fused_fallback_outcome` requires its own document to be whole (report_writer.py:1566) and may raise, where
  `compose_fused_report_document` says that failures degrade and never interrupt (1265).
* After that fallback the thesis of the plan is still printed, and its claims left out are listed as not in
  the text although the document made of the cards has all of them.
* An audit that finds a fused document unsupported is asked again about the same document, up to three
  times in all, so one that was found unsupported may be delivered; a flat one is written again.
* A merge is never `skipped` when the engine left sections, so the shape of a recovered engine report is not
  reached. Pages with less than 200 characters become evidence without the cap, and
  `provider_call_count` has none; both are outside the model.

## Conversations

The transcripts. A chat runs in a thread and the endpoints of research in the event loop; each of their
reads and commits is a step: `Look` (the message of a run by its role), `LookPrior` (the turn of the run),
`NextTurn` (a new turn, `MAX(sequence) + 1`), `AppendMessage` (the message and the count of its
conversation, in one transaction); `BreakOff` is a failure or a stop anywhere between two of them. A
deep question is submitted without its conversation (server.py:714), so the same question asked in
another conversation is the same run, whose messages stay in the first.

`TranscriptsHold` has two parts. `TurnsHoldTogether`: the messages of a turn are of one conversation, one
run and one sequence number, an answer of a chat follows its question, and without overlaps a number is
one turn's. `RetriesCompleteTheTurn`: without overlaps, a run has one message of a role however often a
request that broke off is repeated, and a deep question that went well has both in one turn, unless
another conversation asked the same. `crowded` is the history that excuses overlapping requests: nothing
locks between the lookup and the insertion. Two conversations, two requests at a time, three in all, one
deep question: a break-off, its repetition and another question in between fit.

## Proofs

Every property of the passing runs but the liveness properties is a theorem, for every value of the
constants that the `ASSUME` of its module admits. One proof module has the theorems of one or several
components; what follows is, per module, the assumption used and the inductive invariants, because
hardly any of the properties is inductive as it stands.

**`RunLedgerProofs`** (`RunLedgerAssumption`), for every set of runs, number of steps, policy, limit,
lease time and clock delay:

* `TypeCorrect`: `Spec => []TypeOK`.
* `InFlightCorrect`, `OrderCorrect`, `NoReplay`: `InFlightAgreement`, `StepsInOrder` and
  `PaidCallNotReplayed` are invariants.

None of the three is inductive. `StepInv` adds two facts: `AttemptRows` (rows are numbered up to
the current attempt, a call belongs to a row, a committed response to a succeeded step) and
`PendingPaidDecided` (a paid step is pending again only when the user decided about every
earlier call). The step proof goes through *shapes*: `StepShapes` shows that, for every
step `p` of every run, each transaction leaves its attempts alone (`Kept`), ends the current
one (`Ended`) or grants a new one (`Granted`); `StepInvariant` then needs three cases per
invariant instead of twenty-five. The claim transaction is the delicate case
(`ClaimElsewhere`, `ClaimShapes`): it may cancel one run while it grants a step of
another, and `OneInFlight` (two running steps of one run would contradict their order) is
what keeps the two apart.

Of the two limits it proves:

* `LeaseCorrect`: with `MaxDelay` = 0, `LiveLeaseHoldsNewestToken` is an invariant, with
  type correctness as its only strengthening. The hypothesis is needed: a transaction that
  waited for the write lock may prolong, with its old clock value, a lease that another
  claim saw expired.
* `BudgetCorrect`: `BudgetHeld` is an invariant. `BudgetInv` adds that a reservation belongs
  to an attempt (`ReservationRows`), so that a new attempt starts without one, and says the
  bound without counting (`WithinLimit`): `OneCall`, from the step invariants, shows that a
  run has at most one call in flight. Every transaction is `Frugal` but the three that
  charge or reserve (`Charging`), and those have the run to themselves.

**`RunLedgerRunProofs`** proves, from the same assumption, what concerns whole runs:

* `QuietCorrect`, `ResumeCorrect`, `DeliveryCorrect`: `QuietWhenOver`,
  `WaitingRunIsResumable` and `DeliveredIsComplete` are invariants.
* `TerminalCorrect`, `CancelCorrect`: the action properties `TerminalIsFinal` and
  `NoCallAfterCancel`.
* `StepLifeCorrect`: `RunLedger` implements `StepLife`.

`RunInv` is the inductive invariant. To `StepInv` and `DeliveredIsComplete` it adds that a
run that is over or waits has no running step (`QuietRuns`), that a run that waits has a
step that waits (`AskedRuns`), that such a step's latest call is of unknown outcome
(`WaitingSteps`), and that nothing expires a run (`NeverExpired`: the status exists and has
no caller). The first is needed because a run in flight could otherwise be waiting and be
ended under its worker; the next two because `resume_run` looks for the step and the
attempt separately. As `StepShapes` does for a step, `RunStep` says what one
transaction can do to a run, and `ClaimMoves`, `HolderMoves`, `CallerMoves` and
`DecisionMoves` show it for the four kinds of caller. In the refinement the step shapes become the
actions of `StepLife` (`KeptLife`, `EndedLife`, `GrantedLife`), and `ClosedLife` comes from
`RunStep`. One more invariant is needed, `DecidedCalls`: a decision is about a call that
was made; without it a call that starts might count as decided before it was made.

**`ResearchWorkerProofs`** (`ResearchWorkerAssumption`, which says that the two steps of a research run
are what `durable_research.py` declares) proves, for any number of workers, crashes and retries:

* `WorkersFollowLedger`: `WorkerSpec` implies the `Spec` of the ledger, so that every theorem of the two
  modules above holds of the workers; `WorkersKeepTheLedger` says which, and `WorkersHoldNewestLease` adds the
  lease, with `MaxDelay` = 0.
* `FencedWorkersHarmless`: a worker that is past its lease is refused by every transaction. What is needed
  is that an attempt once ended stays ended and its number is not given again (`EndedByOwner`).
* `ResponsesExist` (`WorkersInOrder`): `ResponseInv` says that no token is above the last one given
  (`TokensKnown`), that a worker at a place of `work_once` has the step that place is for
  (`WorkersAtTheirStep`), and that a batch step that is done has its response registered
  (`ResponsesRegistered`); the order of the steps does the rest.
* `BatchesBounded` (`BatchesDecided`): in `BatchesPaid` an authorization pays for four batches (a call of the
  executor is one or two, and so is its second call after a `TypeError`): the batches executed, and those
  that workers between their authorization and the end of the call may still execute.

**`DAGSchedulerProofs`** (`SchedulerAssumption`) is about any plans, executions and calls of clients:

* `SchedulerTypeCorrect`; `GatesHold`. `GateHolds` is not inductive: a resumed execution starts from the
  stored plan, so `GateInv` adds that a gated node whose gate is open, in an execution, among its candidates
  or in the stored plan, was approved.
* `NodesRunOnResults`: `UpstreamInv` says of an execution, and of the plan it stored, that the sets of ids
  agree with the results, and that a candidate of the pass under way is still ready (`ReadyNow`).
* `StartsAreExplained`, for clients that resume only what has returned (`~Impatient`): by `StartsInv` at most
  one execution is under way, it is the registered one, and a node that it may still start, or that a resume
  would find startable in the stored plan, has an approval to spare.
* `NothingStaysBehind`, `CompletedPlansAreSettled`: `SettledInv` has, as long as decisions meet nodes that
  wait for one, `Tracked` (the id sets, the task and the turn of a node agree with its status), `Waited`
  (executors at work are those of the tasks the loop waits for) and `AskedInOrder` (an approval is asked of
  a node whose turn it is). The sets are then disjoint, and when their sizes add up every node is in one.

**`ServiceProofs`** proves of the services:

* `ToolCallsAreBounded`, and that fewer calls than callers start after a stop (`FewStartLate`). `BoundInv`
  counts the callers between their read and their insert (`Window`) against what is left; the cardinality
  lemmas before it are what the library has for finite sets, restated for sets of callers.
* `TextOrderIsNearlyTime` (texts in order are less than a second out of order in time),
  `ListingsNearlyInOrder` from it (`ClockInv`: rows are stamped in the order of publication),
  `SubscribersAgree` (`AgreeInv` is the property with the types of the queues).
* `RequestsAreSpaced` (`TurnInv`: only the holder of the lock waits for a turn, and the turn was computed from
  the last request of anybody) and `EndpointsCoolDown` (`CircuitInv`: a closed circuit's count is the streak,
  and a half-open one has waited).
* The types: `EventBusTypeCorrect`, `SourceTypeCorrect`, `ToolBudgetTypeCorrect`, `CodingPatchTypeCorrect`,
  and `ProviderPoolTypeCorrect`, where a window that forgets its oldest requests (`StillInWindow`) has to stay
  a list of requests (`PoolRest`).
* `PatchesCanBeUndone` (`CodingPatchAssumption`). `PatchInv` says what each thread knows at its place
  (`ThreadKnows`: what it checked is what it replaces, unless `disturbed`) and what a proposal tells of the file
  it was made from (`ProposalTells`).

**`RecordProofs`** proves of what is recorded beside the ledger:

* `CasesArePaidOnce`: `PaidInv` adds that a case in a task is not completed, and sharpens the bound:
  one more payment than lost records only for a case that is completed or about to be recorded.
* `RunnerTypeCorrect` (`RunnerAssumption`): `CallsInv` counts, with `CallsLeft`, the calls that the batches so far
  and the task of a case may still make of it; so `paid` stays below what all batches with all retries come to.
* `BackupsAreConsistent` and `BackupTypeCorrect`: `BackupInv` follows the tree through its building (`BuildInv`: the rows of the
  snapshot are among the artifacts found, which are among the files), the output directory and what a
  medium loses of it (`OutputInv`) and the restore (`RestoreInv`: the files of the output are a subset of
  those the manifest counted, so equal numbers mean equal sets).
* `ImageTypeCorrect`; `FailedPublishesRollBack`: `PublishInv` says for each undisturbed publication what the table and the
  backup hold at each point of `publish`.
* `AcceptedClaimsDelivered`: `AcceptedInv` follows accepted claims
  from the Verifier into rows, pending rows, the execution and its results. It says nothing of what the
  other rows hold, so a sequence in it is one of anything (`IsSequence`).
* `ResearchTypeCorrect` (`VerifiedResearchAssumption`): `ResearchTypes` types the data of a row by the
  phase in its key. The point is a verdict taken over from another question: it cites evidence by
  number, and only the count in its digest keeps it from citing what the execution does not hold.
* `SoleAttemptsCite` (`VerifiedResearchAssumption`): `SoleInv` says that the live rows are one chain,
  plan, search, claims, verdict and report, in which a row rests on live ones and none rests on the newest, which is the only one a failure
  may mark. The attempt at work knows the data of live rows, or of the row it is about to record. The
  proof is the argument of the property in full: an attempt that takes over a verdict finds with it the
  claims and the passages the verdict was given for.
* `TranscriptsAlwaysHold` (`ConversationAssumption`): `TalkInv` has, besides the shapes, one place per
  turn among the messages and the requests about to append one (`MarksAgree`), what the messages
  say of each other (`MessagesHold`), that while nothing overlaps nobody has said what a request is
  about to say (`RequestsHold`), and what the requests that went well left (`ServedHold`).
* `TalkTypeCorrect`: a request draws one turn at most and leaves two messages at most. `TalkCounts` counts, against the
  requests begun, those under way (`InTalk`), those without a turn yet (`ToDraw`) and those with a question to
  record (`ToAsk`); an action moves one member in or out of each (`CountsMove`).

**`KnowledgeProofs`** proves of what the server knows:

* `SkillsFollowHistory`: inductive with its types (`SkillInv`).
* `ReportsAccountForClaims` (`DeepAssumption`): `DeepInv` adds `ClaimsInHand`, what the documents under way
  hold at each stage: the sections written so far cite the claims the plan placed there.
* `MemoriesAreDecided`: `MemoryInv` adds that ids are given in order (`PlacesFilled`), against what a candidate
  has been compared and what was reported (`CandidatesCompared`), who is between the two transactions of an
  approval (`ApprovalsDecided`) and what a recall in a thread has listed (`RecallsInHand`). An approval archives
  what the candidate names, and by `ConflictsStand` that is what was reported, or that one is gone.
* `RowsTellTheIndex` (`LibraryAssumption`): `LibraryInv` has the holder of the lock (`LockHeld`), and for each
  document what the dense table has (`DenseOf`), what a call alone on it read before its await (`AloneOf`) and
  what its row may say (`RowOf`), each with the excuse of the property.
* `RevisionsAreOneLine`: `NoteInv` says that while nothing is `muddled` there is a registered revision `r` such
  that the store, the cache, the registry and the calls under way are one line up to it (`InLine(r)`).
* `NoteTypeCorrect` (`NoteAssumption`) needs no such excuse. `NoteTypeInv` bounds by its place what a note may
  be (`FitsAt`: version and parent at most its place, one section more per note at most), and requests,
  cache and registry name only notes that are stored (`CallAmong`). The version of the tip is a maximum, and its
  entry the first of them; that these exist is `GreatestNumber` and `LeastNumber`, which follow from the
  well-foundedness of the natural numbers.
* The types of the other four are parts of their invariants (`SkillTypeCorrect`, `DeepTypeCorrect`,
  `MemoryTypeCorrect`, `LibraryTypeCorrect`).

**`MCServicesProofs`** proves of the services together, the specification that the run `services` checks:

* `PartsRun`: it implements the specification of each of the fourteen services, because a step of one leaves
  the variables of the others alone.
* `ServicesTypeCorrect` (`ServicesTypeOK`) and `ServicesKeepTheirPromises` follow: every theorem of the three
  modules above about a service holds of it in the composition.

Only model-checked: liveness (`AttemptEnds`, `RunLeavesUnlessCrash`, `CancellationEndsOrAsks`,
`ExecutionEnds`: the prover has no rule for fairness), and the findings, which are counterexamples.

## Not modelled

* Sequential work inside one step or one request: report texts, planning, document
  parsing, ranking, evidence checks, the routing of chats and their prompts. What the ledger sees of it is one paid call
  with an outcome; the correctness of their text is not a matter of states.
* Migrations run once, before anything else opens the database.
* Agent messages (one idempotent insert), the document lifecycle, the MCP manager, the harness
  orchestration have no module; nor have the recovery actions of step checkpoints
  and the steps of the paper runtime.
* Telemetry, the command line, the sandbox's process handling and the frontend have no state other
  components rely on.
* `PROJECT.json` has the reason for every component.
