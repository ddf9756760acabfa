# A TLA+ verification of the Argent development team core

Argent drives software-development tasks through a workflow of agent roles. A
background service steps durable *jobs*: it claims a job under a lease, decides
one safe action from persisted facts, performs it (create a dispatch, launch an
agent, apply a patch set, run tests, close ...), and gives the lease back or
renews it. Owners answer approvals through a chat; external actions, merges and CI
waits have protocols of their own. Everything is kept in one SQLite database; every
process may die between any two writes. This directory models that machinery in
TLA+, checks it with TLC on small instances, and proves with TLAPS, for all
instances: the store's invariants, that the scheduler implements the store and
launches an agent once per dispatch, that one service process is active at a time,
that approvals implement what a gate promises, and the safety of the outbox, the
external actions, the merge queue, the waits, the admission of jobs and the routing of
dispatches to models. Every safety property the passing runs check is proved.

Source references are to `src/argent_core/`.

## 1. Inventory

| Component | State | Operations | Correct when |
|---|---|---|---|
| Job queue and leases (`store.py`, `job_state.py`) | `supervisor_jobs`: `primary_state`, `status`, `terminal`, owner, `lease_epoch`, expiry, `facts_version`, eligibility, worktree binding, dependency | create, claim, claim-next, renew, release, clear, quarantine, takeover, enqueue (3 paths), recovery commit, bind, metadata | one holder at a time, epochs fence, terminal states stick, the three state columns agree, one writer per worktree |
| External waits (`store.py`, `external_wait.py`, `ci_external_wait.py`) | `external_waits` | enter, poll, back off, complete | a wait row exists exactly while its job waits; one wake per event |
| Supervisor (`supervisor.py`) | `supervisor_actions` (journal), fence tokens | reconcile/commit, perform, 16 handlers, error and backoff writes | an action runs at most once, under the lease it was decided under |
| Scheduler (`scheduler.py`) | none of its own between passes | `run_pass`, continuation scan, takeover, `reconcile_after_restart`, `classify_and_recover` | no second agent, no takeover from the living, no lost job revived |
| Process registry (`process_registry.py`) | `process_registry` | register, classify, mark terminal | death is never inferred without evidence |
| Background runtime (`background_runtime.py`, `argent_service.py`) | `supervisor_instances` | acquire, heartbeat, release, loop | one live service process |
| Task core (`core.py`, `state_machine.py`, `roles.py`, `workflow.py`, `gates.py`, `recovery.py`) | tasks, role runs, approvals, dispatches, handoffs, findings | start/finish role, dispatch life cycle, approve/reject/expire, recover | legal transitions, approvals bound to what they approved, one active dispatch |
| Notification outbox (`notifications.py`) | `notification_outbox` | enqueue, claim, send, complete, fail, discard | one row per event, SENT only what was accepted, bounded retries |
| Inbound approvals (`approval_core.py`, `approval_processor.py`, `telegram_approval_adapter.py`) | challenges, update log, cursor | process callback | a challenge decides once; duplicates and late answers do nothing |
| Action locks, merge queue (`merge_queue.py`, `integration_candidate.py`, `store.py`) | `action_locks`, `integration_candidates` | acquire/release, enqueue, evaluate, integrate, reconcile | one integrator per target, no merge on a stale base |
| External action broker (`external_action_broker.py`, provider adapters) | `external_action_requests` | create, authorize, execute, settle, reconcile | an external mutation happens at most once; unknown outcomes are reconciled |
| Patch application (`workspace_broker.py`, `worktree.py`, `sandbox_runner.py`) | write intents, worktree | begin, apply, reconcile existing | an interrupted apply is finished or refused, never repeated blindly |
| Resource admission (`resource_*.py`, `host_snapshot.py`, `scope_enforcer.py`, `execution_scope.py`) | recovery markers | preflight, enforce, classify failure, decide recovery | bounded retries; every failure class has a safe decision |
| Concurrency policy (`concurrency_policy.py`) | none | decide | writers that conflict never run together while their rows count for them |
| Routing (`model_registry.py`, `model_router.py`, `routing.py`) | registry, policy, the ledger of attempts | route with levels, triggers and fallback | the reviewer is independent of the writer; outages do not escalate; a fallback is not weaker |
| Context, handoff, checkpoint, retrieval | checkpoints, handoffs | build, persist, restore | chains verify |
| Test planning, execution, evidence | evidence registry | plan, run, reuse | evidence is reused only for the same inputs |
| Trust, events, outputs, visualizer, runtime paths, systemd units, smoke scripts | logs and files | validation, views | outside this model |

How they interact: the service loop (`background_runtime`) owns the instance row,
calls `Scheduler.run_pass` and polls the external waits; the scheduler claims
through the store, asks concurrency policy and resource governor, then calls
`Supervisor.reconcile` and `perform_next_safe_action_if_required`; the handlers
call the task core, the launcher, the broker and the sandbox, journal what they do
in `supervisor_actions`, and enqueue notifications in the same transaction. Owners
answer through the inbound approvals, which change the task core. All of it meets
in the database; transactions are `BEGIN IMMEDIATE`, and what lies between two
transactions (launching a process, reading the clock, reading `/proc`, sending a
message) is where things interleave, fail or are lost.

What is hard to test is listed line by line in `PROJECT.json` under `hazards`.

## 2. Modules

| Module | Models | Uses |
|---|---|---|
| `JobRow` | one row of `supervisor_jobs`: types, projection, guards and one operator per row update | - |
| `JobStore` | the tables `supervisor_jobs` and `external_waits` and every operation that writes them; unconstrained callers | `JobRow` |
| `Scheduler` | service processes running passes on the store: scan, takeover, restart, gates, reconcile, perform, spawn, crash | `JobStore` |
| `QueueProofs` | theorems about `JobStore` and `Scheduler` for all constants, among them that the second implements the first | `Scheduler`, `TLAPS` |
| `SupervisorInstance` | the single active supervisor: lock file, instance row, acquisition from process evidence, background loop, exit codes | - |
| `SupervisorInstanceProofs` | theorems about `SupervisorInstance` for all constants | `SupervisorInstance`, `TLAPS` |
| `TaskCore` | one task: state machine, role runs and handoffs, dispatch ledger and frontier, results, recovery, owner gate | - |
| `OwnerGate` | what a gate promises: the abstract specification | - |
| `ApprovalInbound` | challenges, chat updates, update log and cursor; implements `OwnerGate` | `TaskCore`, `OwnerGate` |
| `ApprovalInboundProofs` | theorems about the core and its approvals, among them that they implement `OwnerGate` | `ApprovalInbound` |
| `NotificationOutbox` | the outbox table and its delivery workers | - |
| `NotificationOutboxProofs` | theorems about `NotificationOutbox` | `NotificationOutbox` |
| `ActionLocks` | named locks that are worth as much as their holder's lease | - |
| `ExternalActionBroker` | one external action from request to settlement | `ActionLocks` |
| `MergeQueue` | the integration candidates of one target | `ActionLocks` |
| `Actions` | broker and merge queue over the same leases and locks | `ExternalActionBroker`, `MergeQueue` |
| `ActionsProofs` | theorems about `Actions` | `Actions` |
| `ExternalWaits` | the two wait checkers, CI aggregation, deadlines | - |
| `ExternalWaitsProofs` | theorems about `ExternalWaits` | `ExternalWaits` |
| `Admission` | concurrency policy, resource governor, recovery from resource failures, in the passes that apply them | - |
| `AdmissionProofs` | theorems about `Admission` | `Admission` |
| `Routing` | the model router fed from the ledger it fills | - |
| `RoutingProofs` | theorems about `Routing` | `Routing` |
| `MC*` | bounds, views and symmetry for TLC | |

Some MC modules have a variable `scope`, set once by the initial state: it chooses
between slices of the state space (which part moves, how far a counter goes), so
that one run and one set of properties covers slices that would be too large
together.

### JobRow and JobStore

`JobStore` is the abstract specification of the queue: *whoever* calls, in whatever
order, with whatever token, these are the writes the store permits. `jobs[j]` is a
row with the columns that some guard, compare-and-set or property reads; `waits`
are the open `external_waits`; `inflight` the jobs with an unfinished
APPLY_PATCH_SET journal row, which `recover_takeover_job` looks at; `waitOf` is an
auxiliary variable that remembers which wait a job entered with.

* Each operation is one action because it is one transaction. A refused call writes
  nothing and is no step.
* Operations that read the clock before `BEGIN IMMEDIATE` take an instant `t` that
  may be up to `ClockLag` old (`Read(t)`); those that read it inside use `now`.
* `Put` refuses what the schema refuses: the CHECK on terminal rows and the partial
  unique index on bound worktrees. An IntegrityError is thus a disabled action.
* There are two families of row writes, as in the code. `_transition_job` writes
  `primary_state` and `status` together (`Transitioned`); the supervisor's
  `_update_supervisor_job` writes a status and derives the primary state
  (`Projected`). That they always agree is `ProjectionConsistent`.
* `SupervisorCommit` is the write of `_commit`; which of its plans is possible for
  which row is `Decides`. Which plan the workflow asks for is nondeterministic.
* Each job has its own task, so the unique index on active tasks never bites;
  `priority` is 0 for all jobs, as everywhere in the tree, so the queue order is
  that of the rowids.

### Scheduler

`pass[i]` is the program counter and the locals of instance `i`'s pass: the rows it
listed, the job and epoch it holds, and its `ReconcileDecision` (leased or not,
facts_version, action, dispatch). `work[j]` is the part of the task a launch
depends on: the dispatches with their SPAWN_RUN journal row and the agents launched
for each, whether the last is active, which agents are alive, the newest process
registration, and the resource evidence of the frontier.

Program counters correspond to the code so: `idle` `_resolve_target`; `scan`,
`scanlost`, `takeover` the continuation scan; `restart`, `quarantine`
`reconcile_after_restart`; `gate`, `spawngate` the two admission points; `recover`,
`testrecover` `classify_and_recover`; `reconcile`, `perform`, `act` the supervisor
step; `admit`, `spawn`, `register`, `spawned` the four stages of
`_perform_spawn_run`; `apply`, `test` the two long handlers; `after` the error or
backoff write that follows a failed handler with the action fence disarmed;
`requeue`, `lost`, `block` the scheduler's reaction to a refusal; `finish` renew or
clear. `Crash` stops an instance anywhere; a restarted service has a new id, as
`argent_service` draws a fresh uuid, so an instance goes `off -> ... -> dead`.

Nondeterministic, because they depend on data outside the module: gate verdicts,
git verdicts on a bound worktree, what the runtime observes of an agent (which
bounds what `_decide` may plan only by the journal and the dispatches, see
`Plannable`), whether a process identity is readable, whether a retry budget is
spent. Simplifications: the row read at the end of a pass and the renew or clear
that follows are one step; the restart's three classification attempts are not
counted; handlers that only change the task core (START_ROLE, BIND_RUN,
RECORD_TEST_RESULT, CORE_RECOVER, PRESENT_OWNER_GATE) are the one action `ActStep`.

The variable `exclusive`, which no step changes, says whether service processes
exclude each other, which is the business of `background_runtime.acquire`;
`SupervisorInstance` shows that it does. The lease layer is written as if it had to
hold without that, so both questions are asked of one specification: properties
named `Alone...` are claimed where one process lives at a time.

### SupervisorInstance

`row` is the one row of `supervisor_instances`; `boot`, `now` and `proc` are the
hosts: the number of the current boot, the next start ticks, and what `/proc` shows;
`flock` is who holds `supervisor.lock`. `pc[p]` is where `main()` of process `p` is:

* `lock` `_acquire_lock`; `begin`, `read`, `alive`, `ticks`, `cas` the stages of
  `acquire()`: its own identity, the row, the two looks at `/proc`, the
  compare-and-swap. Each is a step of its own because the row and the processes can
  change between any two of them.
* `reconcile` the startup reconciliation, `enter` and `loop` `run_loop`.
* `pass`, `fence`, `waits`, `ci`, `beat`, `recheck` the stages of
  `_run_one_iteration`; `finalize` the release; `closing` the choice of exit code.

The signal handler runs between any two of the steps after `reconcile`. A process
is named by its instance id, a fresh uuid, so a restart is a new element of
`Procs`. A store error outside the code's own handlers is a `Crash`, because it
leaves `main()`. The instance row's lease expiry is written and never read, and is
left out. Boot ids are unique; machine ids are unique to hosts; a pid is not used
twice within a clock tick.

`EvidenceSound` says whether `/proc` shows every process of its host. It is FALSE
for supervisors in different PID namespaces of one kernel, which share the boot id
and do not see each other. `Locked` are the processes whose lock file is the common
one: the lock is best effort (no `fcntl`, another `state_dir` over the same
database, or another host), and nothing but the refusal in `TakeLock` depends on
it.

### TaskCore, OwnerGate, ApprovalInbound

An action of `TaskCore` is a command of `core.py`, which is one transaction. `task`
is state and resume state, `active` the started role run, `handoff` the latest
handoff, `ledger` what `workflow.py` replays from dispatches and lead decisions
(position and cycle of the frontier, what is done, which roles the cycle has),
`disp` the latest dispatch, `approvals` all owner approvals in order. The frontier is an
operator over `ledger`, as in the code, and never a variable. Older dispatches are closed
and no guard reads them again. Older approvals are read again: `reject` asks for the
expiry before the status, so that an overdue approval leads to `_expire_and_release` even
when it is closed, and that releases the task whichever gate parked it. It is an action
of its own, because the code runs it in a transaction of its own after the first was
rolled back, and the approval may have been closed in between. `late` remembers that a
closed approval released a parked task. `manual` marks behaviours in which a command was
used that the supervisor never issues; `LedgerAgrees` and `ResultConsumable` speak of the
others.

`ApprovalInbound` adds what the chat side keeps: a button press makes an update,
the host delivers any update at any time and any number of times, and handling one
is one transaction that checks log, cursor, sender, age, challenge and gate in the
code's order, decides the gate, closes the challenge and logs the outcome. The
owner's direct commands, expiry and recovery of `TaskCore` interleave with it.

`OwnerGate` says what the gates promise: each is decided at most once and before it
expires, an approval is used at most once and in time, and a parked task does nothing and
keeps the place it returns to until the owner's word on a gate. It does not promise that
this is the gate that parked the task, nor that one gate is open at a time: the code keeps
neither (see section 5). `Gate == INSTANCE OwnerGate WITH ...` maps the clock, the
approvals with expiry and phase, whether the task is parked, and the place it will return
to; `GateRefines` is the whole abstract specification.

### NotificationOutbox

A worker's pass is `Start` (clock), `Claim` (one transaction), `ReadBack` (outside
it), `Refuse`/`Send`, `Finalize` (compare-and-swap on the claim token). Workers stall
and die anywhere; a locked database ends a pass; receipts are lost. Times are kept
as ages, so the clock needs no bound. Nothing makes a pass begin: see the hazard at
`notifications.py:884`.

The number of the attempt stands for the claim token, a fresh uuid. `worker[w].claim`
is the token the pass made and `worker[w].token` the one it read back and goes on
with. `adopted` is auxiliary: the rows of which a pass decided a claim it had not
made. Where that happened `OneSenderPerLease` claims nothing; see section 5.

### ActionLocks, ExternalActionBroker, MergeQueue

A lock row counts only while its holder's lease is current. What `JobStore` says of
leases is reduced to what a lock can tell: current, expired (renewable), gone.

The broker's operations (authorize, execute, redrive, reconcile, expire, deny) read
the request, decide, and go through separate transactions and provider calls; each is
a step. The provider may apply the action and fail to answer. `req.by` is the
authority a request was dispatched under, `ownerOk` the approval bound to it.

The queue's passes go candidate by candidate through lock, classification, worktree,
merge, tests and record, each a step; git and tests answer nondeterministically. A
head is the set of candidates merged into it. `reconcile_target` is two steps, the
probe and the reset, since it uses two transactions. `evaluate_candidate` is one
step, although its read and write are two: what it reads (review, dependencies) only
makes it more cautious.

### ExternalWaits

Open rows that are due stand in a line by `next_check_at`; a pass takes the first
`MaxItems` for each of the two checkers, before filtering by kind, as the SQL does.
`list_due_external_waits` is the set of listings the SQL may return, since the order of
rows with the same `next_check_at` is open. The general checker passes over the rows
of kind ci that its listing contains (`PassOver`). A CI check reads pull request, check runs and commit statuses in three steps, between
which the provider may change; `aggregate_ci_state` computes the outcome and the
write is fenced by the instance row. A replaced process finishes the check it began.

### Admission

Portfolios of jobs with declared footprints, worktrees, action scopes, dependencies
and resource classes. `decide` (structural policy) and the governor's decision are
operators translated from the code over the set of active jobs and the host snapshot;
the pass applies them at the claim, before the action and within it. Agents end in
every way; the sandbox leaves terminal evidence, which `classify_and_recover` and
`decide_recovery` turn into retry, deferral or quarantine with the code's limits.

`held` are the jobs this service has a current lease of. A lease may lapse
(`LeaseLapses`) and the service crash, after which nothing is held, because the new
process has another owner id: such a job does not go on but is taken over by evidence
(`_try_recover_takeover`), which leaves it alone, ends it LOST or BLOCKED, or gates it
again as a claimed one. `agent[j]` is `"live"` while an agent's row has been RUNNING,
and was not taken over, since its start, and `"stray"` for an agent that lives on
although its row left the active set or was taken over: `_adapter_backoff` and the other
backoffs of `_decide` requeue the row without asking the agent, a refused gate does, a
scope that cannot be proven gone is LOST with whatever runs in it, and a sandbox can
outlive a crash. What is astray counts again while its row is RUNNING, and not
otherwise, as in `list_active_job_facts`. A strayed agent that is observed to have ended
has ended, and no host reboots: evidence of an earlier boot is historical in the code
(`_bound_terminal_evidence`) and not modelled. Owner gates are left out. The ceilings
already promised are summed by class (`Reserved`). What may be declared, what a snapshot
may show and the files of the repositories are typed by assumptions that TLC evaluates;
that validating a declared root yields a path or a refusal is one of them, because it is
a fold over the root and the prover cannot do induction over data.

### Routing

`route` is translated over the shipped registry and policy (the JSON files under `registry/`):
profiles, levels, floors, triggers, independence, fallback order and the owner level.
It is composed with the ledger it is fed from: attempts, outages and their expiry,
tests, verdicts, findings, and the binding of the writer, which only the first
dispatch that applies a patch gets. `NullAssumption` says that no writer's binding and
no model is the NULL that stands for none.

## 3. Runs

| Run | Question | Result |
|---|---|---|
| `JobStore` | projection, terminal stickiness, epochs, handover, grants (1 job, 2 instances, lagging clocks); one live writer per path (2 jobs, 1 worktree) | holds |
| `Scheduler` | one process with crashes and restarts anywhere: one launch per dispatch, under a live lease, no unleased RUNNING job, no LOST job revived, waits match. Two at once: never two at the launcher with one dispatch, and every step is a `JobStore` step | holds |
| `Scheduler_takeover` | one process: no takeover from a living agent? | no |
| `Instance` | never two active supervisors, no living owner replaced, the working process owns the row | holds |
| `Instance_evicted` | misleading evidence: a replaced process begins at most one more pass and exits as failed | holds |
| `Outbox` | sends within the budget, SENT means accepted, one sender per lease | holds |
| `Core` | the core with callbacks implements `OwnerGate`; a parked task waits for its latest gate, which is open, and, until a command comes back to a closed gate, exactly while it is; a token decides its own gate, once; frontier, handoff and result agree, also after recovery | holds |
| `Actions` | a success was applied, calls within the retry budget and with authority, one call under way; integrations alone and dependencies first | holds |
| `Queue_base` | does every integrated head contain the ones before it? | no |
| `Waits` | one open row per waiting job, GREEN seen of every required check, every wait with a deadline wakes its job | holds |
| `Admission` | of the agents whose rows count for them conflicting ones never work together and the host's capacity is kept; nothing in conflict starts beside an agent whose row is RUNNING; evidence is settled before the job goes on; recovery decisions are accepted | holds |
| `Routing` | the reviewer is independent of all writers, outages alone never escalate, a fallback is never weaker, the job is closed in the end | holds |

Invariants named `...Inv` are conjunctions: the module's type invariant and the state
invariants that belong with it; each part has a mutant of its own in `PROJECT.json`.

The two violations are disagreements between comments and the code; `PROJECT.json`
quotes each. `Scheduler_takeover` is reachable by a single service: an agent
registered with unreadable identity is taken for dead as soon as its identity can be
read. `Queue_base`: the base of an integration is the integrated candidate of the
highest queue position and not the last one integrated, so that a head may lack an
earlier integration once candidates became ready out of order.

### Bounds

* *Time.* `JobStore`: TTL 2, lag 1, instants up to 3, so that a lease is granted, runs, is
  renewed from an old read, expires and is taken over. The scheduler needs no bound on
  time: its view keeps instants as distances from `now`. With TTL 1 and lag 0 one tick
  expires a lease at any point of a pass. Outbox and waits count ages and remaining
  minutes. `Core` has an approval lifetime of 2 and a challenge lifetime of 1, so that
  a challenge can expire before, and a gate after, a late callback.
* *facts_version* and revisions are unbounded; they are only compared for equality and
  only grow, so the views keep whether a remembered one still matches.
* *Handovers.* Three epochs in `JobStore` and `Scheduler_takeover`: a holder, a second
  one, and one more. In `Scheduler` two for one process at a time (scopes `alone` and
  `first`: a holder and its successor is what a crash and restart can give) and
  for two rivals from the start; four in scope `later`, where rivals hand a job back
  and forth so that a stale pass meets a row that was handed over and returned.
* *Dispatches.* Two per job: one that is settled while another is active. One in `first`,
  where every action is in play: applying a patch set and closing as FAILED or BLOCKED
  are left out of `alone`, since they launch nothing. `LaterInit`
  starts after the first is settled, a state every job that lives long enough passes.
* *Jobs.* One in the scheduler runs: passes on different jobs meet only in the claim
  order, the dependency and the worktree index (`JobStore`, two jobs) and in the
  gates (`Admission`, three jobs: two that conflict and one that must not be starved).
* *Instances.* Two, interchangeable. An instance that died stays dead, so two are one
  crash and restart, or two rivals.
* *Supervisor processes.* `hosts`: three starts (an owner and two candidates) on two
  hosts with one pid each, so that every restart reuses it, and a reboot. `loops`: three
  on one host with two pids and one pass, so that heartbeats and a release change the
  revision between a rival's read and its swap. `evicted`: two, three passes and a
  heartbeat every second, so that the fences must work in a pass without a heartbeat.
  Two swap attempts instead of five: one lost and one more.
* *Outbox.* Two workers on one row, or one on two (an older row in the way); three
  attempts and a lease of 3, so that a pass that outlived its lease meets the pass that
  came after it and a third one; backoff 1..2 and a Retry-After of 0 and of more than
  the largest backoff.
* *Core.* `workflow`: two cycles (an original and a rework), two task runs, one gate, two
  attempts per step; after a command outside the protocol one cycle, for only the gate
  is claimed to match then. Time starts with the first gate. `inbound`: two gates, two challenges and two updates, so that a
  token outlives its gate and updates come in the wrong order; nobody comes back to a
  closed gate. `gates`: three gates, one challenge and one update, with late commands, so
  that a closed gate releases a newer one's task and a third is opened.
* *Actions.* Two holders. Three faults for the broker (a crash, an expired lease and its
  return), two for the queue (the lease and its return, or a crash and a lost lease). One
  retry. Two candidates of which the first in line depends on the second;
  `Queue_base` has three without dependencies, the fewest that lose an integration.
* *Waits.* A job that waits twice, a CI wait beside one of another job, a CI wait alone
  with two provider changes, or one and a fault; two processes and one fault elsewhere; ladder of two steps, a deadline of
  2 and a rate-limit reset (3) beyond it; one row per pass, so that the limit bites.
* *Admission.* Eleven portfolios, each for one way two jobs can meet (nested paths,
  paths that normalise apart, a shared worktree, global and repository-wide actions,
  classes that do and do not fit, dependencies known and unknown), six host states, one
  retry and one deferral. One fault: a crash, a lapsed lease, a spawn that fails or a change of the host; the backoffs, which are
  no faults, are not bounded.
* *Routing.* LOW and HIGH risk, three attempts per step, one rework cycle, two failures,
  two facts of the owner's side.
* Deadlock is checked in `Outbox` only: elsewhere a system whose jobs are all terminal,
  whose instances have crashed, or whose bounds are used up, really stops.

### Fairness

Only what the code's own loops guarantee; never an answer of the outside world. Outbox and
admission claim no progress: nothing polls the outbox for ever, and a job whose takeover is
refused for ever stays RUNNING and in the way of others.

* `Waits`: each running process goes on with its pass, the clock ticks, and the service
  manager restarts a stopped service (`Restart=on-failure`). The provider may fail or
  answer pending for ever: the deadline alone must wake the job.
* `Routing`: the supervisor's next step is taken as long as there is one; failures and
  facts are bounded in number and not fair.

## 4. Proofs

Eight modules hold theorems. Each is proved for every value of the module's constants
under the assumptions named there (sets of jobs, processes, holders, waits, updates of
any size; any TTL, lease, backoff, number of attempts). The pattern is the same: an
inductive invariant `IInv` of named parts, one lemma per action or per shape of
action, the properties from `IInv`. Every `IInv` was checked by TLC on the module's
run before it was proved.

| Theorem | Property | Module |
|---|---|---|
| `TypeCorrect`, `ProjectionCorrect`, `OneWriterCorrect`, `EpochFencesCorrect`, `LeaseHandoverCorrect`, `LeaseGrantedFromQueueCorrect`, `TerminalStickyCorrect` | each property of the run `JobStore` | `QueueProofs` |
| `SchedulerStepsStore`, `SchedulerImplementsStore` | `StepsAreStoreSteps`; `SchedSpec => Spec` of `JobStore` | `QueueProofs` |
| `SchedulerKeepsQueue` | the store's properties, of the scheduler | `QueueProofs` |
| `LaunchersApart`, `SchedulerSafe`, `OneLaunch`, `HolderLaunches`, `LostStaysLost` | `OneLauncherPerDispatch`, `SchedInv`, `AloneOneLaunchPerDispatch`, `AloneHolderLaunches`, `AloneLostStaysLost` | `QueueProofs` |
| `InstanceTypeCorrect`, `SingleActiveCorrect`, `HolderOwnsRowCorrect`, `NoLiveOwnerEvictedCorrect` | the properties of the run `Instance` | `SupervisorInstanceProofs` |
| `StaleStops`, `EvictedFails` | `StaleRunsAtMostOnePass`, `EvictedExitsFailed` | `SupervisorInstanceProofs` |
| `InboundSafe`, `CallbacksDecide`, `LedgerSafe`, `ResultNeverLost`, `GateImplemented` | `CoreInv`, `CallbackDecidesItsGate`, `LedgerAgrees`, `ResultConsumable`, `GateRefines` (the abstract specification `OwnerGate`) | `ApprovalInboundProofs` |
| `OutboxSafe`, `LeaseExcludes` | `OutboxInv`, `OneSenderPerLease` | `NotificationOutboxProofs` |
| `ActionsSafe`, `OneDispatch`, `QueueAlone`, `QueueOrdered` | `ActionsInv`, `OneDispatchInFlight`, `IntegratedAlone`, `DependencyFirst` | `ActionsProofs` |
| `WaitsSafe`, `GreenSeen` | `WaitsInv`, `GreenWasSeen` | `ExternalWaitsProofs` |
| `ConflictsExclude`, `NothingStartsBeside`, `AdmissionSafe`, `EvidenceSettled` | `ConflictsExcluded`, `StartsApart`, `AdmissionInv`, `EvidenceSettledFirst` | `AdmissionProofs` |
| `RoutingSafe`, `FallbackSafe` | `RoutingInv`, `FallbackNeverWeaker` | `RoutingProofs` |
| `OneAuthor` | no two models have patches in the workspace | `RoutingProofs` |

### JobStore

Every action changes at most one row by a `RowStep`, of which there are five kinds: a
grant (claim, takeover), a holder's column update, leaving a nonterminal state, the
owner's reopen, and a supervisor's write; `claim_next_job` besides blocks the rows
with a missing prerequisite (`NextTableStep`, `NextRowStep`). What each kind does to
each column is stated once (`UpdateColumns`, `HolderColumns`, `ReopenColumns`,
`SupervisorColumns`); the properties follow per kind. The inductive invariant is
`Inv == TypeOK /\ ProjectionConsistent`. The projection is needed even for the action
properties: that blocking a claimable row closes nothing twice, and that a grant never
meets a terminal row, hold because a QUEUED row is not terminal (`QueuedIsOpen`), which
the guard of a claim does not test. `OneWriterPerWorktree` is inductive together with
`TypeOK`.

### Scheduler

The refinement comes first. The store's variables are variables of the scheduler, so
the mapping is the identity: each action of a pass either leaves the tables alone or is
one of the store's actions with a token and an instant that the store permits. The one
thing to prove beyond matching is that the arguments are of the right kind, that a pass
at work has a job and that the columns of a remembered row are those of a row, which is
`PassFits` and the types. With `SchedulerImplementsStore` the store's theorems hold of
the scheduler, rivals and crashes included.

The invariant for any number of service processes is `Inv /\ PassesOK /\ WorkOK`. Its
heart is `Apart`: two passes between the journal and the end of a launch are there with
different dispatches. A pass enters only by turning the journal row from ABSENT to
RUNNING, and while some pass is there the row is RUNNING, so no second one enters
(`LaunchersApart`).

Where one process lives at a time, `AloneInv` adds what makes the locals of its pass
true: `RowsHold`, a row that was RUNNING when the scan listed it still is what it was,
since nobody else moves it; `HoldsJob`, the job of a pass is RUNNING and leased until
its decision, leased until the recheck of a launch, and neither LOST nor waiting;
`HoldsDispatch`, the dispatch to be spawned has no journal row until it is acted on and
no agent until it is launched; `RunsSettled`, a dispatch without a journal row has no
agent and none has two. These hold each other up: that the launch meets a dispatch
without agents needs `RunsSettled` of the time of the journal, and that the requeue,
quarantine and finish of a pass never revive a LOST job needs `HoldsJob`.
That `Restart` waits until the others are gone is used for `OneAtATime` only, and
`SingleActiveCorrect` is what justifies it for the real service.

### SupervisorInstance

The inductive invariant has five parts. `IdentInv`: what a host shows of a living
service process is its identity. `RowInv`: as long as the process that wrote the row
lives, the row tells its identity, and it is ACTIVE only while that process has not
released it. `Seen`: the row a candidate remembers is the current one if the revisions
agree, and once it has judged the owner dead that process is gone, for good, since ids
are never used again. `LoopInv`: the counters. `HolderOwnsRow` itself. `DeadIsGone` is
the heart: each of the three ways to a "dead" verdict contradicts `IdentInv` if the
owner lived. At the swap equal revisions make the remembered row the current one, its
owner is gone or has released, so nobody works. These theorems assume `EvidenceSound`;
the types do not.

`StaleStops` and `EvictedFails` hold whatever the evidence. `Fenced(p)` says of a
process that began a pass without owning the row that it never owns it again (only a
swap gives the row away, and it made its own before the loop), that it never comes to
the waits, and that from its fence on it is stopped and, unless signalled, FAILED.

### ApprovalInbound and OwnerGate

`GateInv`, which every command keeps, is types, `PauseInv` (a paused task remembers a
place it may resume at) and `GateMatchesApproval`: a parked task waits for its latest
approval, which is open, and before any `late` release that one is the only open one and
open exactly while the task waits. Every command of the owner and every callback is one of
two shapes, `GateEnds` (an open gate gets its last status, and the task what goes with it)
or `LateWord` (a closed overdue one releases the task).
`ProtocolAndStage` is kept by the commands the supervisor issues (`~manual`):
`ProtocolInv` ties open dispatch, started role, handoff and frontier to one role, and
`StageInv` says that the first `p` positions of the cycle are consumed and the task is in
the state `p` consumed results lead to; `ResultConsumable` cannot be had without the
second, because whether a consumption is legal depends on the task's state, which the
ledger does not record. `TokensInv` ties challenges, updates and verdicts: a gate still
pending has no verdict. `GateImplemented` maps each command to a step of `OwnerGate` or
a stutter, by the same shapes throughout (a gate ends, a late word, the gates untouched).

### NotificationOutbox

`BudgetInv` counts what is owed: requests made plus passes that may still make theirs
are within the row's count (cardinality of `Owing`). `ClaimInv`: the claims of the
passes at work on a row are distinct earlier attempts, and, until a pass decided a
claim that was not its own, one within its lease still holds the row with the claim's age. Without the
distinctness two passes could hold one claim; without the age an expired claim could not
be told from a current one.

### Actions

`BrokerInv`: a call's copy of the request is the request as long as the revisions agree
(`RowInv`); while a call is between dispatch and settlement the request is EXECUTING or
terminal, so no second call drives it (`FlightInv`); success is reported only of what was applied
(`AnswerInv`); provider calls are counted by the attempts except the one in the air
(`RetryInv`); a call that writes an authority has it (`AuthorityInv`). `QueueInv`: a pass
that is not alone has lost the lock (`LockInv`), from the clean classification on the
prerequisite is integrated (`StageInv`), and INTEGRATED rows are in the history. Neither
half needs the other, so the composition keeps both.

### ExternalWaits

`LineInv`: the line of due rows holds each open row that is due once. `OneOpen`: open rows
and waiting jobs correspond one to one. `SeenInv` carries what was shown through the
three reads of a CI check: what a pass has read as SUCCESS, and an outcome SUCCESS it has
concluded, was shown while the row of that pass was open; a row entered after the pass
was listed is another row, so nothing read for the old one counts for it.

### Admission

`PassInv` and `LiveInv` tie the point of a pass, the row of its job and the agents: an
agent that lives and is not astray has a RUNNING job in the phase that spawned it, so it
is in the active set of every other job's gate. `ClearInv` and `RoomInv` carry the two
verdicts from the gate to the spawn: `ClearInv` says of all RUNNING jobs that what the
structural gate let pass conflicts with none, and it stays true because only the pass's
own job can become RUNNING meanwhile and the declarations never change.
`NothingStartsBeside` is `ClearInv` at the spawn, whatever the agents of those rows are.
`PairInv` says it of the agents that live; it needs that a conflict is one from either
side (`ConflictSymmetric`), because the gate of the later job is the only one that sees
both. A step that takes a row out of the active set sends its agent astray (`Astray`),
and so does a takeover; nothing brings an agent back. Disjoint declared footprints mean
disjoint files since two prefixes of one path are comparable (`PrefixesComparable`,
`DisjointWrites`). What the governor adds is bounded with the jobs that are RUNNING and
the invariant only with those that live: two writers may be RUNNING after a crash
between claim and gate, so `AdmittedFits` is about the living among the active.
`EvidenceInv` says evidence stays with a job at its tests, whoever holds it and also
while it is QUEUED, until a pass recovers from it, and that such a pass is at no gate of
an action. The reserve is proved for hosts whose total memory does not change and is at
least what is free (`HostAssumption`).

### Routing

`ReviewerIsIndependent` is not inductive: the router asks only that the reviewer is not
the bound writer, so what it chose is independent of *all* authors because there is one.
`WriterInv` says that: the workspace holds the patches of the bound writer's model or of
none. It is kept because a second patch never meets its guard, and that is `BoundBefore`:
in an open job the writer was bound at an earlier cycle or position than the present one,
since a job whose patch or tests failed is open no more and a consumed result moves the
frontier (`ConsumeKeeps`, `BoundKept`). `ReviewInv` carries the router's verdict from the
choice to the end of the review: writers are bound by write roles only, and no frontier
moves while a dispatch is out. `BlameInv` says what the ledger holds as long as nothing
spoke against the code; with it the triggers can only be SECURITY_COMPLEXITY and
PROVIDER_FAILURE, and `BlamelessLevel` computes that the role is then routed at the level
it starts at. It needs `OutageNeverEscalates` of the level before, because
SECURITY_COMPLEXITY is itself triggered by a level of 2: an analyst raised once without
cause would stay raised. For `FallbackSafe` one decision is enough (`RoutedAnswer`,
`LowestIsLowest`): the candidates are the same set with and without outages, and the
answer is the lowest tier among those that are not out.

### Only model-checked

Out of the prover's reach are the two liveness properties (of waits and routing), which
need fairness.

## 5. Observations

Behaviours met while modelling that no run states as a violation, either because no
text of the repository says otherwise or because they follow from one guard.

* *Store and scheduler.* `renew_lease` reads its clock before the write lock and may
  extend an expired lease; `LeaseHandover` holds regardless. A row without an owner is
  not fenced (`_enforce_lease_fence`), so with two live processes a stale pass may
  launch or turn LOST into RUNNING; the instance singleton is what excludes it. Gate
  quarantines carry no token. A crash in the middle of APPLY_PATCH_SET leaves a journal
  row that makes takeover refuse the job for ever. A FAILED SPAWN_RUN is never planned
  again. Dependents of a FAILED job wait for ever. `enter_waiting_external`,
  `set_job_metadata` and `release_lease` have no production caller.
* *Service.* Health DEGRADED never returns to READY. A wait check that fails right after
  the pass that reached the error limit overwrites FAILED with DEGRADED and the service
  exits with 0 (`background_runtime.py:610`).
* *Outbox.* The claimed row is read back after the commit (`notifications.py:928`), so a
  stalled pass may carry another pass's token or repeat a SENT notification: delivery is
  at least once. Such a pass also decides the newer claim with its own receipt, while
  the pass that made that claim is still sending, and the row can be claimed a third
  time within the second one's lease. docs/SPEC_V3A.md:603-604 says otherwise: a stale
  worker cannot overwrite a new claim. The attempt to prove `OneSenderPerLease` for
  every lease showed it; a lease of one tick, the bound of the run until then, hid it.
  Delivery is one bounded pass per kick (`notifications.py:646`), the supervisor's loop ends
  with its job and a last kick, and `NotificationDelivery` is constructed only in smoke
  scripts and tests: a row in backoff or left SENDING may wait for ever.
* *Approvals and core.* `reject` asks for the expiry of an approval before its status
  (`core.py:1181`), and `_expire_and_release` releases the task whatever that approval
  was (`core.py:1264-1288`): a late reject of a gate long closed releases the task from
  the newer gate that parks it. The role run is still started. If it asks again, two
  gates are open, and the supervisor ends the job with `multiple_active_gates`; if it
  goes on, the gate that is pending makes it `gate_task_inconsistent`. docs/SPEC.md:209
  excludes a double gate ("kein Doppel-Gate"). A challenge never outlives its approval,
  so a callback cannot reach EXPIRED_APPROVAL. An overdue challenge that is still ISSUED
  blocks a new one. Genuine callbacks below the cursor are STALE. A final lead that
  requests a gate leaves an exhausted frontier behind. `resolve_finding` during a rework
  may flip the frontier and end in `ledger_conflict`; it is one of the commands `manual`
  marks.
* *Broker.* A request left EXECUTING by a crash, of which the provider knows nothing,
  stays there until it expires into BLOCKED. A crash between `_consume_approval` and the
  transition loses the approval. `authorize_autonomous` denies, for good, a request that
  needs an owner.
* *Queue.* `integrate_candidate` releases in its `finally` the lock its caller still
  works under, so the lock is free between two candidates. A holder that lost its lease
  goes on with git in the shared worktree until its next transaction.
  `reconcile_target` resets when lease *or* lock is lost, its docstring says *and*.
* *Waits.* The general checker's writes are not fenced. The SQL limit comes before the
  filter by kind. Waits without deadline may never end.
* *Admission.* The active set are the RUNNING rows, so an agent that outlives its row is
  not protected from others, and its slot and ceiling are granted again: after every
  backoff of `_decide` with the agent not asked (`_adapter_backoff` and the others),
  after ERROR when the retries are spent, after LOST (a scope that cannot be proven
  gone, an unreadable identity), after a gate that refused a taken-over job. No fault or
  crash is needed: one UNKNOWN observation of a living writer, and one that conflicts
  with it passes both gates and starts beside it, against docs/PHASE_I1_NOTES.md:209-210
  ("Two writers concurrent only if distinct canonical worktrees ∧ disjoint trusted
  footprints ..."). `ConflictsExcluded` and `AdmissionInv` are therefore claimed of the
  agents that never went astray, and `StartsApart` of the rows that are RUNNING. A lease
  is renewed at the end of its job's own pass only, so that of a job waiting behind
  others may lapse. An unfinished APPLY_PATCH_SET refuses the takeover for ever, and the
  job stays in the active set, in the way of all in conflict with it. A spawn refused at
  the last admission is not planned again. An EXCLUSIVE job on a host that is too small
  is deferred for ever.
* *Routing.* The writer is bound once, to one dispatch and epoch; a later dispatch with a
  patch, of a rework or after a takeover, is refused and the job ends in
  PERSISTENT_ERROR. `ReviewerIsIndependent` holds because of that: the router compares
  with the bound writer only. A job without an applied patch has no eligible reviewer.
  CREATE_DISPATCH is planned with retry_count 0, so the provider backoff never
  exhausts its budget. One rejection raises the level at every later decision.

## 6. Not modelled, and the plan

* Patch write intents (`workspace_broker.py`): begin, apply and reconcile by before
  and after hashes. What an interrupted apply does to the job is modelled, whether
  the files changed is not; the liveness of such a job is open.
* Context packs, handoff and checkpoint texts, retrieval, test plans and evidence
  records: canonical documents, budgets and hashes; what they do to the job is an outcome of a gate
  or of the sandbox here.
* The parser of agent trajectories and provider answers, schema validation, redaction,
  rendering, hashing, subprocess and git plumbing, `/proc` parsing.
* Trust, events and outputs (validation and an append-only log), the visualizer's
  read-only snapshot, deployment units and smoke scripts.

Next: the write intents of the workspace broker as a module of its own, which would
also say what becomes of a job whose apply was interrupted.
