------------------------------ MODULE Scheduler ------------------------------
(***************************************************************************)
(* Scheduler instances stepping jobs: Scheduler.run_pass and     *)
(* reconcile_after_restart (scheduler.py) with the supervisor's reconcile, *)
(* action execution and agent spawn (supervisor.py), on top of JobStore.   *)
(*                                                                         *)
(* Each instance is sequential; pass[i] is where its pass stands between   *)
(* two transactions, reads or external effects.  Everything that another   *)
(* instance, the clock, an agent process or a crash can change in between  *)
(* is changed there.  Verdicts that depend on data outside this model      *)
(* (concurrency policy, resource governor, git facts, the runtime's        *)
(* observations, the task workflow) are chosen by \E.                      *)
(***************************************************************************)
EXTENDS JobStore, Sequences

VARIABLES
    pass,       \* per instance: the pass in progress
    work,       \* per job: dispatches, spawn journal, agent processes, registry
    exclusive   \* never changes: whether service processes exclude each other
                \* (background_runtime.acquire), so that a new one starts only when
                \* the others are gone.  The lease layer is written not to need it.

schedVars == <<now, created, jobs, waits, nwaits, waitOf, inflight, pass, work, exclusive>>

Acts == {"WAIT", "NONE", "STEP", "ERROR", "CREATE", "SPAWN", "CONSUME", "TEST",
         "APPLY", "CLOSE_DONE", "CLOSE_FAILED", "CLOSE_BLOCKED"}

PCs == {"off", "dead", "idle", "scan", "takeover", "scanlost", "restart", "quarantine",
        "gate", "recover", "reconcile", "spawngate", "perform", "act", "apply", "test",
        "testrecover", "after", "admit", "spawn", "register", "spawned", "requeue",
        "lost", "block", "finish"}

\* rows is the list a scan still has to visit, at the instant it was read, to the
\* quarantine a restart decided.  leased, fv, act and disp are the
\* ReconcileDecision; pid is the agent the pass has launched.
NoRows == [j \in {} |-> NewRow]

Idle == [pc |-> "idle", job |-> 0, epoch |-> 0, rows |-> NoRows, at |-> 0, to |-> "LOST",
         leased |-> FALSE, fv |-> 0, act |-> "NONE", disp |-> 0, pid |-> 0]

TurnedTo(p, pc) == [p EXCEPT !.pc = pc]

\* A dispatch has its SPAWN_RUN journal row and the agents launched for it; the
\* last one is the active one, if any is.  last is the newest process registration
\* of the job (pid 0: a sandbox test, which has ended); evid what the registry
\* proves about the tests of the last dispatch.
NewDispatch == [spawn |-> "ABSENT", runs |-> {}]

NoWork == [dispatches |-> <<>>, active |-> FALSE, nproc |-> 0, alive |-> {},
           last |-> [pid |-> 0, status |-> "NONE"], evid |-> "none"]

SchedInit ==
    /\ Init
    /\ pass = [i \in Instances |-> TurnedTo(Idle, "off")]
    /\ work = [j \in Jobs |-> NoWork]
    /\ exclusive \in BOOLEAN

-----------------------------------------------------------------------------
(* Helpers *)

At(i, pc) == pass[i].pc = pc

GoOn(i, p) == pass' = [pass EXCEPT ![i] = p]

Goto(i, pc) == GoOn(i, TurnedTo(pass[i], pc))

EndPass(i) == GoOn(i, Idle)

SameStore == UNCHANGED storeVars

JobOf(i) == jobs[pass[i].job]

WorkOf(i) == work[pass[i].job]

SetWork(i, w) == work' = [work EXCEPT ![pass[i].job] = w]

\* The SPAWN_RUN row of the dispatch the decision names.
SpawnRow(i) == WorkOf(i).dispatches[pass[i].disp].spawn

\* The work with the journal row of dispatch d at status.
Journalled(w, d, status) ==
    [w EXCEPT !.dispatches = [w.dispatches EXCEPT ![d] = [w.dispatches[d] EXCEPT !.spawn = status]]]

Journal(i, w, status) == SetWork(i, Journalled(w, pass[i].disp, status))

\* run_pass holds job j under epoch e and continues at pc.
Holding(j, e, pc) == [Idle EXCEPT !.pc = pc, !.job = j, !.epoch = e]

Hold(i, j, e, pc) == GoOn(i, Holding(j, e, pc))

\* A scan starts on a list of rows, goes on with what is left of it, stops at a job.
Listing(pc, rows) == [Idle EXCEPT !.pc = pc, !.at = now, !.rows = rows]

Relisted(p, pc, rows) == [p EXCEPT !.pc = pc, !.rows = rows]

StoppedAt(p, pc, j) == [p EXCEPT !.pc = pc, !.job = j]

Condemning(p, j, to) == [p EXCEPT !.pc = "quarantine", !.job = j, !.to = to]

\* Store._fence_action, armed while a handler runs: a leased decision must still
\* be the holder's and facts_version unchanged; an unleased one is not checked.
ActionFence(i) ==
    pass[i].leased =>
        /\ HoldsLease(JobOf(i), i, pass[i].epoch, now)
        /\ JobOf(i).fv = pass[i].fv

\* A LeaseFencedError ends the pass and writes nothing.
Fenced(i) == EndPass(i) /\ SameStore /\ UNCHANGED work

-----------------------------------------------------------------------------
(* _resolve_target *)

\* claim_next_job found work.
StartClaim(i) ==
    /\ At(i, "idle")
    /\ \E j \in Jobs, t \in 0 .. now :
        /\ ClaimNextJob(i, j, t)
        /\ Hold(i, j, jobs[j].epoch + 1, "gate")
    /\ UNCHANGED work

\* It found none: _resolve_loop_continuation lists the nonterminal rows.
StartScan(i) ==
    /\ At(i, "idle")
    /\ \E t \in 0 .. now : ClaimNothing(t)
    /\ GoOn(i, Listing("scan", [j \in {k \in created : jobs'[k].terminal = NULL} |-> jobs'[j]]))
    /\ UNCHANGED work

\* The instance still holds the lease the listed row shows (lease_is_current).
Mine(i, j) ==
    LET r == pass[i].rows[j] IN r.owner = i /\ HoldsLease(jobs[j], i, r.epoch, now)

Continuable(i, j) ==
    LET r == pass[i].rows[j] IN r.ps = "RUNNING" /\ Mine(i, j) /\ r.eligible =< pass[i].at

ExpiredRow(i, j) ==
    LET r == pass[i].rows[j]
    IN r.ps = "RUNNING" /\ ~Mine(i, j) /\ r.expires # NULL /\ r.expires =< pass[i].at

\* The scan acts on the first listed row that is either; the rest are skipped.
NextRow(i, j) ==
    /\ j \in DOMAIN pass[i].rows
    /\ Continuable(i, j) \/ ExpiredRow(i, j)
    /\ \A k \in DOMAIN pass[i].rows : k < j => ~(Continuable(i, k) \/ ExpiredRow(i, k))

RowsAfter(i, j) ==
    [k \in {k \in DOMAIN pass[i].rows : k > j} |-> pass[i].rows[k]]

ScanContinue(i) ==
    /\ At(i, "scan")
    /\ \E j \in Jobs :
        /\ NextRow(i, j) /\ Continuable(i, j)
        /\ Hold(i, j, pass[i].rows[j].epoch, "recover")
    /\ SameStore /\ UNCHANGED work

\* _process_identity_verdict on the newest registration of the job: no row is
\* unknown; TERMINAL is terminal.  Otherwise the live identity of the pid decides:
\* an agent that is alive matches its registered tuple if it can be read, but not
\* the NULL tuple of an UNKNOWN registration, which classify_identity takes for
\* another boot; the pid of a dead one is unreadable, or another process's.
ProcessVerdicts(w) ==
    IF w.last.status = "NONE" THEN {"unknown"}
    ELSE IF w.last.status = "TERMINAL" THEN {"terminal"}
    ELSE IF w.last.status = "RUNNING" /\ w.last.pid \in w.alive THEN {"alive", "unknown"}
    ELSE {"unknown", "terminal"}

\* _try_recover_takeover reads the process evidence of an expired row.
ScanVerdict(i) ==
    /\ At(i, "scan")
    /\ \E j \in Jobs :
        /\ NextRow(i, j) /\ ~Continuable(i, j)
        /\ \E v \in ProcessVerdicts(work[j]) :
            GoOn(i, IF v = "alive" THEN Relisted(pass[i], "scan", RowsAfter(i, j))
                    ELSE StoppedAt(pass[i], IF v = "unknown" THEN "scanlost" ELSE "takeover", j))
    /\ SameStore /\ UNCHANGED work

SnapshotHolds(i) == SnapshotOf(JobOf(i)) = SnapshotOf(pass[i].rows[pass[i].job])

ScanOn(i) == GoOn(i, Relisted(pass[i], "scan", RowsAfter(i, pass[i].job)))

\* Unreadable identity: LOST, unless the row changed since it was listed.
ScanLost(i) ==
    /\ At(i, "scanlost")
    /\ IF SnapshotHolds(i) THEN QuarantineLost(pass[i].job) ELSE SameStore
    /\ ScanOn(i)
    /\ UNCHANGED work

\* The worktree verdict only exists for a bound job.
WorktreeVerdicts(r) == IF r.bound THEN Verdicts ELSE {"clean"}

\* recover_takeover_job; a refusal (LeaseError) moves on to the next row.
TakeOver(i) ==
    /\ At(i, "takeover")
    /\ \E t \in 0 .. now, v \in WorktreeVerdicts(JobOf(i)) :
        /\ Read(t)
        /\ LET j == pass[i].job
               allowed == SnapshotHolds(i) /\ JobOf(i).expires =< t /\ j \notin inflight
           IN /\ IF allowed THEN RecoverTakeoverJob(i, j, t, v) ELSE SameStore
              /\ IF allowed /\ v = "clean"
                 THEN Hold(i, j, JobOf(i).epoch + 1, "gate")
                 ELSE ScanOn(i)
    /\ UNCHANGED work

\* No listed row is left to act on: OUTCOME_NO_WORK.
ScanEnd(i) ==
    /\ At(i, "scan")
    /\ \A j \in Jobs : ~NextRow(i, j)
    /\ EndPass(i) /\ SameStore /\ UNCHANGED work

-----------------------------------------------------------------------------
(* reconcile_after_restart *)

\* A service process starts under a fresh owner_instance_id, lists all rows and
\* classifies the RUNNING ones before its first pass.
Restart(i) ==
    /\ At(i, "off")
    /\ exclusive => \A k \in Instances \ {i} : pass[k].pc \in {"off", "dead"}
    /\ GoOn(i, Listing("restart", [j \in {k \in created : jobs[k].ps = "RUNNING"} |-> jobs[j]]))
    /\ SameStore /\ UNCHANGED work

\* _classify_running on the first listed row.  An incomplete lease tuple is LOST;
\* a valid lease is left alone; an expired one is decided by process and worktree.
RestartVerdict(i, j, to) ==
    LET r == pass[i].rows[j]
        complete == r.owner # NULL /\ r.epoch >= 1 /\ r.expires # NULL
    IN IF ~complete THEN to = "LOST"
       ELSE IF r.expires > pass[i].at THEN to = "keep"
       ELSE \/ to = "LOST" /\ "unknown" \in ProcessVerdicts(work[j])
            \/ to = "keep" /\ "alive" \in ProcessVerdicts(work[j])
            \/ /\ "terminal" \in ProcessVerdicts(work[j])
               /\ \E v \in WorktreeVerdicts(r) :
                    to = CASE v = "clean" -> "keep" [] v = "diverged" -> "BLOCKED" [] OTHER -> "LOST"

RestartRow(i) ==
    /\ At(i, "restart")
    /\ \E j \in DOMAIN pass[i].rows, to \in {"LOST", "BLOCKED", "keep"} :
        /\ \A k \in DOMAIN pass[i].rows : j =< k
        /\ RestartVerdict(i, j, to)
        /\ GoOn(i, IF to = "keep" THEN Relisted(pass[i], "restart", RowsAfter(i, j))
                   ELSE Condemning(pass[i], j, to))
    /\ SameStore /\ UNCHANGED work

\* The CAS-fenced quarantine; when it is lost the row is read and classified again.
RestartQuarantine(i) ==
    /\ At(i, "quarantine")
    /\ LET j == pass[i].job
           again == ~SnapshotHolds(i) /\ jobs[j].terminal = NULL /\ jobs[j].ps = "RUNNING"
       IN /\ IF ~SnapshotHolds(i) THEN SameStore
             ELSE IF pass[i].to = "LOST" THEN QuarantineLost(j) ELSE QuarantineBlocked(j)
          /\ GoOn(i, Relisted(pass[i], "restart",
                IF again THEN [pass[i].rows EXCEPT ![j] = jobs[j]] ELSE RowsAfter(i, j)))
    /\ UNCHANGED work

RestartEnd(i) ==
    /\ At(i, "restart")
    /\ DOMAIN pass[i].rows = {}
    /\ EndPass(i) /\ SameStore /\ UNCHANGED work

-----------------------------------------------------------------------------
(* run_pass: gates, recovery, reconcile *)

\* _concurrency_gate then _resource_gate, after a claim and again before a spawn.
GateAllow(i) ==
    /\ pass[i].pc \in {"gate", "spawngate"}
    /\ Goto(i, IF At(i, "gate") THEN "recover" ELSE "perform")
    /\ SameStore /\ UNCHANGED work

\* SERIALIZE / DEFER / DENY_LOCAL: the holder requeues.
GateDefer(i) ==
    /\ pass[i].pc \in {"gate", "spawngate"}
    /\ Goto(i, "requeue")
    /\ SameStore /\ UNCHANGED work

\* A structural BLOCK quarantines with expected=None.
GateBlock(i) ==
    /\ pass[i].pc \in {"gate", "spawngate"}
    /\ Goto(i, "block")
    /\ SameStore /\ UNCHANGED work

\* A stop request aborts the pass before the spawn; the lease stays.
StopRequested(i) ==
    /\ At(i, "spawngate")
    /\ EndPass(i) /\ SameStore /\ UNCHANGED work

\* enqueue_job as the holder; a LeaseError leaves the row to whoever holds it.
Requeue(i) ==
    /\ At(i, "requeue")
    /\ \E t \in 0 .. now, s \in RequeueStatuses :
        /\ Read(t)
        /\ IF Transitionable(JobOf(i)) /\ HoldsLease(JobOf(i), i, pass[i].epoch, t)
           THEN EnqueueHolder(i, pass[i].job, pass[i].epoch, t, s, t + Backoff)
           ELSE SameStore
    /\ EndPass(i)
    /\ UNCHANGED work

\* _enforcement_lost_job; a terminal or BLOCKED row refuses.
Lose(i) ==
    /\ At(i, "lost")
    /\ IF Transitionable(JobOf(i)) THEN QuarantineLost(pass[i].job) ELSE SameStore
    /\ EndPass(i)
    /\ UNCHANGED work

\* _concurrency_block_job and _context_blocked_job.
Block(i) ==
    /\ At(i, "block")
    /\ IF Transitionable(JobOf(i)) THEN QuarantineBlocked(pass[i].job) ELSE SameStore
    /\ EndPass(i)
    /\ UNCHANGED work

\* classify_and_recover: resource evidence of the frontier not yet consumed is
\* recovered under the holder's lease, the marker written with it.
Recoverable(i) ==
    /\ JobOf(i).ps = "RUNNING" /\ JobOf(i).terminal = NULL
    /\ WorkOf(i).evid = "resource"

Recover(i) ==
    /\ pass[i].pc \in {"recover", "testrecover"}
    /\ Recoverable(i)
    /\ \E t \in 0 .. now, d \in RecoveryDecisions :
        CommitRecoveryDecision(i, pass[i].job, pass[i].epoch, t, d, t + Backoff)
    /\ SetWork(i, [WorkOf(i) EXCEPT !.evid = "consumed"])
    /\ EndPass(i)

\* Nothing to recover, or the commit was fenced: on to reconcile, or, after a
\* sandbox test, the end of the pass.
RecoverNothing(i) ==
    /\ pass[i].pc \in {"recover", "testrecover"}
    /\ \/ ~Recoverable(i)
       \/ \E t \in 0 .. now : Read(t) /\ ~HoldsLease(JobOf(i), i, pass[i].epoch, t)
    /\ IF At(i, "recover") THEN Goto(i, "reconcile") ELSE EndPass(i)
    /\ SameStore /\ UNCHANGED work

\* What _decide may plan on the workflow's facts: a spawn only without a journal
\* row, a result only of an agent that was launched.
Plannable(w, act) ==
    LET d == w.dispatches[Len(w.dispatches)]
    IN /\ act = "CREATE" => ~w.active
       /\ act \in {"SPAWN", "CONSUME", "TEST", "APPLY"} => w.active
       /\ act = "SPAWN" => d.spawn = "ABSENT"
       /\ act \in {"CONSUME", "TEST", "APPLY"} => d.runs # {}

\* The statuses _decide writes with an action.
PlansFor(act) ==
    CASE act = "WAIT"  -> {"WAIT", "BACKOFF", "GATE"}
      [] act = "NONE"  -> {"NONE"}
      [] act = "ERROR" -> {"ERROR"}
      [] act = "STEP"  -> {"ACT", "GATE"}
      [] OTHER         -> {"ACT"}

\* Where run_pass goes with a decision.
Stage(act) ==
    IF act \in {"WAIT", "NONE"} THEN "finish"
    ELSE IF act \in {"SPAWN", "TEST"} THEN "spawngate" ELSE "perform"

Decided(p, act, leased, fv, d) ==
    [p EXCEPT !.act = act, !.leased = leased, !.fv = fv, !.disp = d, !.pc = Stage(act)]

Decide(i, act, leased, fv) ==
    GoOn(i, Decided(pass[i], act, leased, fv, Len(WorkOf(i).dispatches)))

Reconcile(i) ==
    /\ At(i, "reconcile")
    /\ \E act \in Acts : \E plan \in PlansFor(act) :
        /\ Plannable(WorkOf(i), act)
        /\ SupervisorCommit(i, pass[i].job, pass[i].epoch, plan, now + Backoff)
        /\ Decide(i, act, JobOf(i).owner # NULL, JobOf(i).fv + 1)
    /\ UNCHANGED work

\* Snapshot contention: _backoff_decision requeues with backoff.
ReconcileContention(i) ==
    /\ At(i, "reconcile")
    /\ BackoffDecision(i, pass[i].job, pass[i].epoch, now + Backoff)
    /\ Decide(i, "WAIT", FALSE, JobOf(i).fv + 1)
    /\ UNCHANGED work

ReconcileFenced(i) ==
    /\ At(i, "reconcile")
    /\ ~LeaseFence(JobOf(i), i, pass[i].epoch, now)
    /\ Fenced(i)

-----------------------------------------------------------------------------
(* perform_next_safe_action_if_required *)

\* assert_lease_current for a leased decision, then the facts_version guard.
Perform(i) ==
    /\ At(i, "perform")
    /\ IF pass[i].leased /\ ~HoldsLease(JobOf(i), i, pass[i].epoch, now)
       THEN EndPass(i)
       ELSE Goto(i, IF JobOf(i).fv = pass[i].fv THEN "act" ELSE "finish")
    /\ SameStore /\ UNCHANGED work

\* Any handler transaction of a stale holder.
ActFenced(i) ==
    /\ pass[i].pc \in {"act", "apply", "admit", "spawned"}
    /\ ~ActionFence(i)
    /\ Fenced(i)

\* A handler whose effect is outside this model, or one that ran out of retries or
\* met an adapter failure.
ActStep(i) ==
    /\ At(i, "act") /\ pass[i].act = "STEP"
    /\ ActionFence(i)
    /\ Goto(i, "finish") \/ Goto(i, "after")
    /\ SameStore /\ UNCHANGED work

\* Then _persist_error, or adapter_exception_decision and its like, follow with the
\* action fence disarmed.
After(i) ==
    /\ At(i, "after")
    /\ \/ JobOf(i).terminal = NULL /\ PersistError(i, pass[i].job, pass[i].epoch)
       \/ AdapterBackoff(i, pass[i].job, pass[i].epoch, now + Backoff)
    /\ Goto(i, "finish")
    /\ UNCHANGED work

\* A terminal row is left alone (or its CHECK refuses), a foreign lease fences.
AfterRefused(i) ==
    /\ At(i, "after")
    /\ JobOf(i).terminal # NULL \/ ~LeaseFence(JobOf(i), i, pass[i].epoch, now)
    /\ Fenced(i)

ActError(i) ==
    /\ At(i, "act") /\ pass[i].act = "ERROR"
    /\ ActionFence(i)
    /\ PerformPersistentError(pass[i].job)
    /\ Goto(i, "finish")
    /\ UNCHANGED work

\* The CHECK of the schema refuses the status of a row that turned terminal.
ActErrorRefused(i) ==
    /\ At(i, "act") /\ pass[i].act = "ERROR"
    /\ ActionFence(i) /\ JobOf(i).terminal # NULL
    /\ Fenced(i)

TerminalOf(act) ==
    CASE act = "CLOSE_DONE" -> "DONE" [] act = "CLOSE_FAILED" -> "FAILED" [] OTHER -> "BLOCKED"

ActClose(i) ==
    /\ At(i, "act") /\ pass[i].act \in {"CLOSE_DONE", "CLOSE_FAILED", "CLOSE_BLOCKED"}
    /\ ActionFence(i)
    /\ IF JobOf(i).terminal = NULL
       THEN CloseJob(pass[i].job, TerminalOf(pass[i].act)) ELSE SameStore
    /\ Goto(i, "finish")
    /\ UNCHANGED work

WithNewDispatch(w) ==
    [w EXCEPT !.dispatches = Append(@, NewDispatch), !.active = TRUE, !.evid = "none"]

\* CREATE_DISPATCH: the next dispatch of the frontier becomes active.
ActCreate(i) ==
    /\ At(i, "act") /\ pass[i].act = "CREATE"
    /\ ActionFence(i)
    /\ IF WorkOf(i).active THEN UNCHANGED work
       ELSE SetWork(i, WithNewDispatch(WorkOf(i)))
    /\ Goto(i, "finish")
    /\ SameStore

\* Routing finds no provider and backs off, with its retry budget spent makes the
\* job an ERROR, or closes it BLOCKED.
ActUnroutable(i) ==
    /\ At(i, "act") /\ pass[i].act = "CREATE"
    /\ ActionFence(i)
    /\ JobOf(i).terminal = NULL
    /\ \/ BackoffDecision(i, pass[i].job, pass[i].epoch, now + Backoff)
       \/ PersistError(i, pass[i].job, pass[i].epoch)
       \/ CloseJob(pass[i].job, "BLOCKED")
    /\ Goto(i, "finish")
    /\ UNCHANGED work

\* CONSUME_RESULT / MARK_RUN_FAILED settle the dispatch they name.
ActConsume(i) ==
    /\ At(i, "act") /\ pass[i].act = "CONSUME"
    /\ ActionFence(i)
    /\ IF pass[i].disp = Len(WorkOf(i).dispatches)
       THEN SetWork(i, [WorkOf(i) EXCEPT !.active = FALSE]) ELSE UNCHANGED work
    /\ Goto(i, "finish")
    /\ SameStore

\* RUN_SANDBOX_TESTS: the journal row, then the sandbox; a refused admission
\* requeues.
ActTest(i) ==
    /\ At(i, "act") /\ pass[i].act = "TEST"
    /\ ActionFence(i)
    /\ Goto(i, "test") \/ Goto(i, "requeue")
    /\ SameStore /\ UNCHANGED work

Tested(w, evid) == [w EXCEPT !.last = [pid |-> 0, status |-> "TERMINAL"], !.evid = evid]

\* Once it has ended its process is registered and marked TERMINAL, outside any
\* fence; resource evidence is recovered in the same pass.
TestEnds(i) ==
    /\ At(i, "test")
    /\ \E resource \in BOOLEAN :
        /\ SetWork(i, Tested(WorkOf(i),
                IF resource /\ pass[i].disp = Len(WorkOf(i).dispatches)
                THEN "resource" ELSE WorkOf(i).evid))
        /\ IF ActionFence(i) THEN Goto(i, IF resource THEN "testrecover" ELSE "finish")
           ELSE EndPass(i)
    /\ SameStore

\* APPLY_PATCH_SET: the journal row opens, the worktree is bound, the broker
\* writes, the row is finalised.
ActApply(i) ==
    /\ At(i, "act") /\ pass[i].act = "APPLY"
    /\ ActionFence(i)
    /\ BeginApply(pass[i].job)
    /\ Goto(i, "apply")
    /\ UNCHANGED work

ApplyBind(i) ==
    /\ At(i, "apply")
    /\ ActionFence(i) /\ ~JobOf(i).bound
    /\ \E t \in 0 .. now, w \in Worktrees :
        BindWriterWorktree(i, pass[i].job, pass[i].epoch, t, w)
    /\ UNCHANGED <<pass, work>>

ApplyFinish(i) ==
    /\ At(i, "apply")
    /\ ActionFence(i)
    /\ FinishApply(pass[i].job)
    /\ Goto(i, "finish")
    /\ UNCHANGED work

-----------------------------------------------------------------------------
(* _perform_spawn_run *)

\* Mutant of ActSpawn: a row that is RUNNING is begun again.
ActSpawnAnyRow(i) ==
    /\ At(i, "act") /\ pass[i].act = "SPAWN"
    /\ ActionFence(i)
    /\ Journal(i, WorkOf(i), "RUNNING")
    /\ Goto(i, "admit")
    /\ SameStore

\* _begin_action on the dispatch's spawn key: a new row and a FAILED one within its
\* retry budget go on to launch.
ActSpawn(i) ==
    /\ At(i, "act") /\ pass[i].act = "SPAWN"
    /\ ActionFence(i)
    /\ SpawnRow(i) \in {"ABSENT", "FAILED"}
    /\ Journal(i, WorkOf(i), "RUNNING")
    /\ Goto(i, "admit")
    /\ SameStore

\* already_running, already_succeeded; exhausted persists an ERROR.
ActSpawnRefused(i) ==
    /\ At(i, "act") /\ pass[i].act = "SPAWN"
    /\ ActionFence(i)
    /\ \/ SpawnRow(i) \in {"RUNNING", "SUCCEEDED"} /\ Goto(i, "finish")
       \/ SpawnRow(i) = "FAILED" /\ Goto(i, "after")
    /\ SameStore /\ UNCHANGED work

\* Admission, enforcer or context pack refuse before anything is launched; any other
\* exception only fails the journal row.
SpawnRefused(i) ==
    /\ At(i, "admit")
    /\ ActionFence(i)
    /\ Journal(i, WorkOf(i), "FAILED")
    /\ Goto(i, "requeue") \/ Goto(i, "block") \/ Goto(i, "finish")
    /\ SameStore

\* _recheck_lease_fence, the last test before the launcher.
SpawnRecheck(i) ==
    /\ At(i, "admit")
    /\ LeaseFence(JobOf(i), i, pass[i].epoch, now)
    /\ Goto(i, "spawn")
    /\ SameStore /\ UNCHANGED work

\* An unleased decision that lost the recheck only fails its journal row.
SpawnRecheckFails(i) ==
    /\ At(i, "admit")
    /\ ~LeaseFence(JobOf(i), i, pass[i].epoch, now) /\ ActionFence(i)
    /\ Journal(i, WorkOf(i), "FAILED")
    /\ Goto(i, "finish")
    /\ SameStore

\* The dispatches with process p launched for dispatch d.
WithRun(ds, d, p) == [ds EXCEPT ![d] = [ds[d] EXCEPT !.runs = @ \cup {p}]]

\* Mutant of Launched: the process is not counted.
LaunchedUncounted(w, d) ==
    [w EXCEPT !.alive = @ \cup {w.nproc + 1}, !.dispatches = WithRun(@, d, w.nproc + 1)]

Launched(w, d) ==
    [w EXCEPT !.nproc = w.nproc + 1, !.alive = @ \cup {w.nproc + 1},
              !.dispatches = WithRun(@, d, w.nproc + 1)]

\* enforce_and_spawn starts the agent: no fence can cover this step.
Spawn(i) ==
    /\ At(i, "spawn")
    /\ SetWork(i, Launched(WorkOf(i), pass[i].disp))
    /\ GoOn(i, [TurnedTo(pass[i], "register") EXCEPT !.pid = WorkOf(i).nproc + 1])
    /\ SameStore

\* Mutant of SpawnFails: every failure is taken for one before the start.
SpawnFailsClean(i) ==
    /\ At(i, "spawn")
    /\ \E started \in BOOLEAN :
        LET w == IF started THEN Launched(WorkOf(i), pass[i].disp) ELSE WorkOf(i)
        IN IF ActionFence(i)
           THEN Journal(i, w, "ABSENT") /\ Goto(i, "requeue")
           ELSE SetWork(i, w) /\ EndPass(i)
    /\ SameStore

\* It fails instead: nothing was started, or its cleanup is unproven and the
\* process may live on.  After an exception the pass ends as after any action.
SpawnFails(i) ==
    /\ At(i, "spawn")
    /\ \E started \in BOOLEAN :
        LET w == IF started THEN Launched(WorkOf(i), pass[i].disp) ELSE WorkOf(i)
        IN IF ActionFence(i)
           THEN /\ Journal(i, w, "FAILED")
                /\ Goto(i, IF started THEN "lost" ELSE "requeue") \/ Goto(i, "finish")
           ELSE SetWork(i, w) /\ EndPass(i)
    /\ SameStore

\* _register_process_evidence: identity readable, unreadable, or no row at all.
Register(i) ==
    /\ At(i, "register")
    /\ \E s \in {"RUNNING", "UNKNOWN", "NONE"} :
        SetWork(i, IF s = "NONE" THEN WorkOf(i)
                   ELSE [WorkOf(i) EXCEPT !.last = [pid |-> pass[i].pid, status |-> s]])
    /\ Goto(i, "spawned")
    /\ SameStore

\* _finish_action(SUCCEEDED).
Spawned(i) ==
    /\ At(i, "spawned")
    /\ ActionFence(i)
    /\ Journal(i, WorkOf(i), "SUCCEEDED")
    /\ Goto(i, "finish")
    /\ SameStore

-----------------------------------------------------------------------------
(* The end of a pass *)

\* Mutant of Finish: renews whatever lease the row has.
FinishBlind(i) ==
    /\ At(i, "finish")
    /\ IF JobOf(i).ps = "RUNNING"
       THEN Put(pass[i].job, [JobOf(i) EXCEPT !.owner = i, !.expires = now + TTL]) /\ OnlyJobs
       ELSE SameStore
    /\ EndPass(i)
    /\ UNCHANGED work

\* Terminal: nothing.  Still RUNNING under our lease: renew.  Otherwise clear a
\* lease of ours that lingers; the store may refuse both.
Finish(i) ==
    /\ At(i, "finish")
    /\ LET r == JobOf(i)
           j == pass[i].job
       IN \E t \in 0 .. now :
            /\ Read(t)
            /\ IF r.terminal # NULL \/ ~HoldsLease(r, i, r.epoch, t) THEN SameStore
               ELSE IF r.ps = "RUNNING"
                    THEN RenewLease(i, j, r.epoch, t)
                    ELSE ClearLease(i, j, r.epoch, t)
    /\ EndPass(i)
    /\ UNCHANGED work

\* The process dies: its instance id is never used again.
Crash(i) ==
    /\ pass[i].pc \notin {"off", "dead"}
    /\ GoOn(i, TurnedTo(Idle, "dead"))
    /\ SameStore /\ UNCHANGED work

PassStep(i) ==
    \/ StartClaim(i) \/ StartScan(i) \/ ScanContinue(i) \/ ScanVerdict(i) \/ ScanLost(i)
    \/ TakeOver(i) \/ ScanEnd(i)
    \/ Restart(i) \/ RestartRow(i) \/ RestartQuarantine(i) \/ RestartEnd(i)
    \/ GateAllow(i) \/ GateDefer(i) \/ GateBlock(i) \/ StopRequested(i)
    \/ Requeue(i) \/ Lose(i) \/ Block(i) \/ Recover(i) \/ RecoverNothing(i)
    \/ Reconcile(i) \/ ReconcileContention(i) \/ ReconcileFenced(i)
    \/ Perform(i) \/ ActFenced(i) \/ ActStep(i) \/ After(i) \/ AfterRefused(i)
    \/ ActError(i) \/ ActErrorRefused(i)
    \/ ActClose(i) \/ ActCreate(i) \/ ActUnroutable(i) \/ ActConsume(i) \/ ActTest(i) \/ TestEnds(i)
    \/ ActApply(i) \/ ApplyBind(i) \/ ApplyFinish(i)
    \/ ActSpawn(i) \/ ActSpawnRefused(i) \/ SpawnRefused(i) \/ SpawnRecheck(i) \/ SpawnRecheckFails(i)
    \/ Spawn(i) \/ SpawnFails(i) \/ Register(i) \/ Spawned(i)
    \/ Finish(i)

-----------------------------------------------------------------------------
(* Everyone else *)

\* The owner creates jobs and reopens BLOCKED ones.
Owner ==
    /\ \E j \in Jobs : CreateJob(j) \/ EnqueueAuthorized(j, "WAITING_RUN", 0)
    /\ UNCHANGED <<pass, work>>

\* The driver of an idle instance parks its job on an external event.
EnterWait(i) ==
    /\ At(i, "idle")
    /\ \E j \in Jobs, t \in 0 .. now :
        TransitionToWaitingExternal(i, j, jobs[j].epoch, t, t + Backoff)
    /\ UNCHANGED <<pass, work>>

\* The external-wait poller observes a terminal event.
CompleteWait ==
    /\ \E w \in waits : CompleteWaitAndRequeue(w)
    /\ UNCHANGED <<pass, work>>

AgentExit ==
    /\ \E j \in Jobs : \E p \in work[j].alive :
        work' = [work EXCEPT ![j].alive = @ \ {p}]
    /\ SameStore /\ UNCHANGED pass

Clock == Tick /\ UNCHANGED <<pass, work>>

SchedNext ==
    /\ \/ \E i \in Instances : PassStep(i) \/ Crash(i) \/ EnterWait(i)
       \/ Owner \/ CompleteWait \/ AgentExit \/ Clock
    /\ UNCHANGED exclusive

SchedSpec == SchedInit /\ [][SchedNext]_schedVars

-----------------------------------------------------------------------------
(* Properties *)

Dispatch == [spawn : {"ABSENT", "RUNNING", "FAILED", "SUCCEEDED"}, runs : SUBSET Nat]

Work == [dispatches : Seq(Dispatch),
         active     : BOOLEAN,
         nproc      : Nat,
         alive      : SUBSET Nat,
         last       : [pid : Nat, status : {"NONE", "RUNNING", "UNKNOWN", "TERMINAL"}],
         evid       : {"none", "resource", "consumed"}]

\* A pass with the rows of the jobs in listed before it.
Pass(listed) ==
    [pc     : PCs,
     job    : Jobs \cup {0},
     epoch  : Nat,
     rows   : [listed -> Row],
     at     : Nat,
     to     : {"LOST", "BLOCKED"},
     leased : BOOLEAN,
     fv     : Nat,
     act    : Acts,
     disp   : Nat,
     pid    : Nat]

SchedTypeOK ==
    /\ TypeOK
    /\ DOMAIN pass = Instances
    /\ \A i \in Instances : \E listed \in SUBSET Jobs : pass[i] \in Pass(listed)
    /\ work \in [Jobs -> Work]
    /\ exclusive \in BOOLEAN

\* Every process of a job was launched for one of its dispatches and is counted.
AgentsCounted ==
    \A j \in Jobs :
        /\ work[j].alive \subseteq 1 .. work[j].nproc
        /\ \A d \in DOMAIN work[j].dispatches :
            work[j].dispatches[d].runs \subseteq 1 .. work[j].nproc

\* The launcher runs at most once per dispatch, over takeovers, requeues, reopens,
\* crashes and restarts, where one service process lives at a time: it is the one
\* effect no transaction covers, and the SPAWN_RUN journal row is all that guards
\* it (_perform_spawn_run).
AloneOneLaunchPerDispatch ==
    exclusive => \A j \in Jobs : \A d \in DOMAIN work[j].dispatches :
        Cardinality(work[j].dispatches[d].runs) =< 1

\* Two instances are never between the journal and the launcher with the same
\* dispatch, however stale one of them is.
OneLauncherPerDispatch ==
    \A i, k \in Instances :
        /\ i # k
        /\ {pass[i].pc, pass[k].pc} \subseteq {"admit", "spawn", "register", "spawned"}
        => <<pass[i].job, pass[i].disp>> # <<pass[k].job, pass[k].disp>>

\* There are no unleased RUNNING jobs: such a row could be neither claimed (not
\* QUEUED) nor taken over (no expiry), so nothing would ever continue it.
RunningIsLeased ==
    \A j \in Jobs :
        jobs[j].ps = "RUNNING" => jobs[j].owner # NULL /\ jobs[j].expires # NULL

\* A job waits for an external event exactly as long as the wait row it entered
\* with is open: no wait without its waiting job, no waiting job without its wait.
WaitsMatch ==
    \A j \in Jobs :
        {w.id : w \in {x \in waits : x.job = j}} =
            IF jobs[j].ps = "WAITING_EXTERNAL" THEN {waitOf[j]} ELSE {}

\* Types hold throughout, and no agent is uncounted. With one service process at a
\* time no row is RUNNING without a lease, which nothing could claim or take over
\* (claim_next_job, _resolve_loop_continuation), and a job waits exactly as long as
\* its wait row is open (transition_to_waiting_external, complete_wait_and_requeue).
SchedInv == SchedTypeOK /\ AgentsCounted /\ (exclusive => RunningIsLeased /\ WaitsMatch)

\* With one service process at a time whoever passes the recheck in front of the
\* launcher holds the job's unexpired lease (_recheck_lease_fence).
AloneHolderLaunches ==
    [][\A i \in Instances :
        exclusive /\ pass[i].pc = "admit" /\ pass'[i].pc = "spawn" =>
            HoldsLease(jobs[pass[i].job], i, pass[i].epoch, now)]_schedVars

\* With one service process at a time a LOST job never returns to the queue or to
\* a pass by itself (quarantine_lost).
AloneLostStaysLost ==
    [][\A j \in Jobs : exclusive /\ jobs[j].ps = "LOST" =>
        jobs'[j].ps \notin {"QUEUED", "RUNNING"}]_schedVars

\* Whatever service processes do, rivals included, each of their steps is a step of
\* JobStore or leaves its tables alone: what is proved of the store holds of them.
StepsAreStoreSteps == [][Next]_storeVars

\* A lease is taken over only from a job none of whose agents is still alive: "no
\* takeover without proof" (_classify_running, _try_recover_takeover).
NoTakeoverUnderLiveAgent ==
    [][\A j \in Jobs :
        jobs[j].ps = "RUNNING" /\ jobs'[j].epoch # jobs[j].epoch => work[j].alive = {}]_schedVars

=============================================================================
