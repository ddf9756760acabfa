------------------------------ MODULE JobStore ------------------------------
(***************************************************************************)
(* The durable job queue: the tables supervisor_jobs and external_waits    *)
(* (store.py) under every operation that writes them, each one atomic as   *)
(* its BEGIN IMMEDIATE transaction is.  Callers are unconstrained: any     *)
(* instance calls any operation at any time with a token that may be       *)
(* stale.  Scheduler says which calls a scheduler pass really makes.       *)
(*                                                                         *)
(* An operation that reads its clock before it has the write lock takes a  *)
(* parameter t, an instant at most ClockLag old; one that reads it inside  *)
(* the transaction uses now.  A refused call writes nothing and is no step.*)
(***************************************************************************)
EXTENDS JobRow, FiniteSets

VARIABLES
    now,        \* the wall clock all instances share
    created,    \* the rowids inserted so far
    jobs,       \* supervisor_jobs
    waits,      \* external_waits rows with terminal_observed_at IS NULL
    nwaits,     \* external_waits rows ever inserted: the source of wait_id
    waitOf,     \* auxiliary: the wait each job last entered WAITING_EXTERNAL for
    inflight    \* jobs with an APPLY_PATCH_SET journal row RUNNING/UNCERTAIN

storeVars == <<now, created, jobs, waits, nwaits, waitOf, inflight>>

Wait == [id : Nat, job : Jobs]

TypeOK ==
    /\ now \in Nat
    /\ created \in SUBSET Jobs
    /\ jobs \in [Jobs -> Row]
    /\ waits \in SUBSET Wait
    /\ nwaits \in Nat
    /\ waitOf \in [Jobs -> Nat]
    /\ inflight \in SUBSET Jobs

Init ==
    /\ now = ClockLag
    /\ created = {}
    /\ jobs = [j \in Jobs |-> NewRow]
    /\ waits = {}
    /\ nwaits = 0
    /\ waitOf = [j \in Jobs |-> 0]
    /\ inflight = {}

-----------------------------------------------------------------------------
(* The table *)

\* A clock read before the write lock was granted.
Read(t) == t =< now /\ now - t =< ClockLag

\* Two rows the partial unique index idx_supervisor_jobs_writer_worktree keys
\* alike: nonterminal, BOUND, same path.
Collide(r, s) ==
    /\ r.terminal = NULL /\ s.terminal = NULL
    /\ r.bound /\ s.bound
    /\ r.path # NULL /\ r.path = s.path

\* Mutant of SchemaAccepts: no unique index.
SchemaAcceptsCheckOnly(j, r) == r.terminal # NULL => r.status = "TERMINAL"

\* What the schema refuses: the CHECK on terminal rows and the unique index.
SchemaAccepts(j, r) ==
    /\ r.terminal # NULL => r.status = "TERMINAL"
    /\ \A k \in Jobs \ {j} : ~Collide(r, jobs[k])

\* UPDATE supervisor_jobs ... WHERE id = j, in a transaction of its own.
Put(j, r) ==
    /\ j \in created
    /\ SchemaAccepts(j, r)
    /\ jobs' = [jobs EXCEPT ![j] = r]

OnlyJobs == UNCHANGED <<now, created, waits, nwaits, waitOf, inflight>>

-----------------------------------------------------------------------------
(* Queue and lease primitives *)

\* Supervisor.create_job: rowids grow with creation.
CreateJob(j) ==
    /\ j \notin created
    /\ \A k \in Jobs : k < j => k \in created
    /\ created' = created \cup {j}
    /\ UNCHANGED <<now, jobs, waits, nwaits, waitOf, inflight>>

ClaimJob(i, j, t) ==
    /\ Read(t)
    /\ Claimable(jobs[j], t)
    /\ Put(j, Leased(jobs[j], i, t))
    /\ OnlyJobs

\* claim_next_job walks the claimable rows in rowid order (priority is 0 for
\* every job in the tree): a missing prerequisite blocks the row, an unfinished
\* one skips it, the first remaining row is claimed.
MissingDependency(j, t) ==
    j \in created /\ Claimable(jobs[j], t)
        /\ jobs[j].dep # NULL /\ jobs[j].dep \notin created

Ready(j, t) ==
    /\ j \in created
    /\ Claimable(jobs[j], t)
    /\ jobs[j].dep # NULL =>
        jobs[j].dep \in created /\ jobs[jobs[j].dep].terminal = "DONE"

\* The rows visited before the claim whose prerequisite does not exist.
BlockMissing(visited, t) ==
    [k \in Jobs |-> IF k \in visited /\ MissingDependency(k, t)
                    THEN QuarantinedBlocked(jobs[k]) ELSE jobs[k]]

ClaimNextJob(i, j, t) ==
    /\ Read(t)
    /\ Ready(j, t)
    /\ \A k \in Jobs : k < j => ~Ready(k, t)
    /\ SchemaAccepts(j, Leased(jobs[j], i, t))
    /\ jobs' = [BlockMissing({k \in Jobs : k < j}, t)
                    EXCEPT ![j] = Leased(jobs[j], i, t)]
    /\ OnlyJobs

\* claim_next_job finds nothing to claim; it still blocks.
ClaimNothing(t) ==
    /\ Read(t)
    /\ \A k \in Jobs : ~Ready(k, t)
    /\ jobs' = BlockMissing(Jobs, t)
    /\ OnlyJobs

RenewLease(i, j, e, t) ==
    /\ Read(t)
    /\ HoldsLease(jobs[j], i, e, t)
    /\ Put(j, [jobs[j] EXCEPT !.expires = t + TTL])
    /\ OnlyJobs

ReleaseLease(i, j, e, t) ==
    /\ Read(t)
    /\ Transitionable(jobs[j])
    /\ HoldsLease(jobs[j], i, e, t)
    /\ Put(j, RecoveryRequeued(jobs[j], "WAITING_RUN", jobs[j].eligible))
    /\ OnlyJobs

ClearLease(i, j, e, t) ==
    /\ Read(t)
    /\ HoldsLease(jobs[j], i, e, t)
    /\ Put(j, Released(Bumped(jobs[j])))
    /\ OnlyJobs

\* With expected=None these ask for nothing but a nonterminal row.
QuarantineLost(j) ==
    /\ Transitionable(jobs[j])
    /\ Put(j, QuarantinedLost(jobs[j]))
    /\ OnlyJobs

QuarantineBlocked(j) ==
    /\ Transitionable(jobs[j])
    /\ Put(j, QuarantinedBlocked(jobs[j]))
    /\ OnlyJobs

\* Mutant of RecoverTakeoverJob: the expiry is not asked for.
RecoverTakeoverAnyJob(i, j, t, verdict) ==
    /\ Read(t)
    /\ jobs[j].ps = "RUNNING" /\ jobs[j].terminal = NULL
    /\ j \notin inflight
    /\ Put(j, IF verdict = "clean" THEN Leased(jobs[j], i, t) ELSE QuarantinedLost(jobs[j]))
    /\ OnlyJobs

\* recover_takeover_job: a RUNNING row whose concrete lease has expired; the
\* worktree verdict decides between takeover, BLOCKED and LOST.
RecoverTakeoverJob(i, j, t, verdict) ==
    /\ Read(t)
    /\ jobs[j].ps = "RUNNING" /\ jobs[j].terminal = NULL
    /\ jobs[j].expires # NULL /\ jobs[j].expires =< t
    /\ j \notin inflight
    /\ Put(j, CASE verdict = "clean"    -> Leased(jobs[j], i, t)
                [] verdict = "diverged" -> QuarantinedBlocked(jobs[j])
                [] OTHER                -> QuarantinedLost(jobs[j]))
    /\ OnlyJobs

-----------------------------------------------------------------------------
(* Requeue *)

RequeueStatuses == {"WAITING_RUN", "BACKOFF"}

\* enqueue_job, path (a): an unleased QUEUED row.
EnqueueInitial(j, status, eligible) ==
    /\ Transitionable(jobs[j])
    /\ jobs[j].owner = NULL /\ jobs[j].ps = "QUEUED"
    /\ Put(j, Requeued(jobs[j], status, eligible))
    /\ OnlyJobs

\* enqueue_job, path (b): the holder.
EnqueueHolder(i, j, e, t, status, eligible) ==
    /\ Read(t)
    /\ Transitionable(jobs[j])
    /\ HoldsLease(jobs[j], i, e, t)
    /\ Put(j, Requeued(jobs[j], status, eligible))
    /\ OnlyJobs

\* enqueue_job, path (c): owner_authorized, on an exact, unleased BLOCKED row.
EnqueueAuthorized(j, status, eligible) ==
    /\ jobs[j].ps = "BLOCKED" /\ jobs[j].terminal = "BLOCKED"
    /\ jobs[j].owner = NULL /\ jobs[j].expires = NULL
    /\ Put(j, [Requeued(jobs[j], status, eligible) EXCEPT !.terminal = NULL])
    /\ OnlyJobs

\* commit_recovery_decision under the holder's lease (resource_recovery_markers
\* belong to Scheduler).
RecoveryDecisions == {"RETRY_BOUNDED", "DEFER_RESOURCE", "BLOCK_RESOURCE", "QUARANTINE_LOST"}

CommitRecoveryDecision(i, j, e, t, decision, eligible) ==
    /\ Read(t)
    /\ jobs[j].terminal = NULL /\ jobs[j].ps = "RUNNING"
    /\ HoldsLease(jobs[j], i, e, t)
    /\ Put(j, CASE decision = "RETRY_BOUNDED"  -> RecoveryRequeued(jobs[j], "BACKOFF", eligible)
                [] decision = "DEFER_RESOURCE" -> RecoveryRequeued(jobs[j], "WAITING_RUN", eligible)
                [] decision = "BLOCK_RESOURCE" -> QuarantinedBlocked(jobs[j])
                [] OTHER                       -> QuarantinedLost(jobs[j]))
    /\ OnlyJobs

-----------------------------------------------------------------------------
(* Writer worktree and job metadata *)

BindWriterWorktree(i, j, e, t, w) ==
    /\ Read(t)
    /\ HoldsLease(jobs[j], i, e, t)
    /\ \A k \in created \ {j} :
        ~(jobs[k].path = w /\ jobs[k].bound /\ jobs[k].terminal = NULL)
    /\ Put(j, [jobs[j] EXCEPT !.path = w, !.bound = TRUE])
    /\ OnlyJobs

\* set_job_metadata, the columns that matter here: depends_on and the
\* pre-declared canonical_worktree_path.
SetJobMetadata(i, j, e, dep, path) ==
    /\ HoldsLease(jobs[j], i, e, now)
    /\ Put(j, [Bumped(jobs[j]) EXCEPT !.dep = dep, !.path = path])
    /\ OnlyJobs

-----------------------------------------------------------------------------
(* External waits *)

TransitionToWaitingExternal(i, j, e, t, eligible) ==
    /\ Read(t)
    /\ jobs[j].ps = "RUNNING"
    /\ Transitionable(jobs[j])
    /\ HoldsLease(jobs[j], i, e, t)
    /\ nwaits' = nwaits + 1
    /\ waits' = waits \cup {[id |-> nwaits + 1, job |-> j]}
    /\ waitOf' = [waitOf EXCEPT ![j] = nwaits + 1]
    /\ Put(j, Parked(jobs[j], eligible))
    /\ UNCHANGED <<now, created, inflight>>

\* Mutant of CompleteWaitAndRequeue: the wait row stays open.
CompleteWaitLeavesRow(w) ==
    /\ w \in waits
    /\ jobs[w.job].ps = "WAITING_EXTERNAL"
    /\ Put(w.job, Requeued(jobs[w.job], "WAITING_RUN", now))
    /\ OnlyJobs

\* complete_wait_and_requeue: the wait is open and its job is still waiting.
CompleteWaitAndRequeue(w) ==
    /\ w \in waits
    /\ jobs[w.job].ps = "WAITING_EXTERNAL"
    /\ Transitionable(jobs[w.job])
    /\ waits' = waits \ {w}
    /\ Put(w.job, Requeued(jobs[w.job], "WAITING_RUN", now))
    /\ UNCHANGED <<now, created, nwaits, waitOf, inflight>>

-----------------------------------------------------------------------------
(* Writes of the supervisor *)

\* The row a plan of _decide leaves behind.  WAIT, GATE, ERROR and BACKOFF set a
\* status; every plan with a handler (ACT) and NONE leave status alone.
Plans == {"WAIT", "BACKOFF", "GATE", "ERROR", "ACT", "NONE"}

PlannedRow(r, plan, eligible) ==
    CASE plan = "WAIT"    -> Projected(Bumped(r), "ACTIVE")
      [] plan = "BACKOFF" -> BackedOff(r, eligible)
      [] plan = "GATE"    -> Projected(Bumped(r), "WAITING_GATE")
      [] plan = "ERROR"   -> Projected(Bumped(r), "ERROR")
      [] OTHER            -> Projected(Bumped(r), r.status)

\* _decide returns NONE for a terminal or ERROR row and only for those.
Decides(r, plan) == (plan = "NONE") <=> (r.terminal # NULL \/ r.status = "ERROR")

\* Supervisor._commit: fence, decide on the fresh facts, write.
SupervisorCommit(i, j, e, plan, eligible) ==
    /\ LeaseFence(jobs[j], i, e, now)
    /\ Decides(jobs[j], plan)
    /\ Put(j, PlannedRow(jobs[j], plan, eligible))
    /\ OnlyJobs

\* Supervisor._backoff_decision after MAX_SNAPSHOT_RETRIES: through _transition_job.
BackoffDecision(i, j, e, eligible) ==
    /\ LeaseFence(jobs[j], i, e, now)
    /\ Transitionable(jobs[j])
    /\ Put(j, RecoveryRequeued(jobs[j], "BACKOFF", eligible))
    /\ OnlyJobs

\* adapter_exception_decision and _apply_job_backoff, within the retry budget.
AdapterBackoff(i, j, e, eligible) ==
    /\ LeaseFence(jobs[j], i, e, now)
    /\ Put(j, BackedOff(jobs[j], eligible))
    /\ OnlyJobs

\* _persist_error, and the two above once the budget is spent.
PersistError(i, j, e) ==
    /\ LeaseFence(jobs[j], i, e, now)
    /\ Put(j, Projected(Bumped(jobs[j]), "ERROR"))
    /\ OnlyJobs

\* _perform_persistent_error repeats the status write, without facts_version.
PerformPersistentError(j) ==
    /\ Put(j, Projected(jobs[j], "ERROR"))
    /\ OnlyJobs

\* Mutant of CloseJob: a terminal row is closed again.
CloseJobAgain(j, terminal) == Put(j, Closed(jobs[j], terminal)) /\ OnlyJobs

\* _close_job; a row with another terminal value refuses.
CloseJob(j, terminal) ==
    /\ jobs[j].terminal = NULL
    /\ Put(j, Closed(jobs[j], terminal))
    /\ OnlyJobs

\* The journal row of an APPLY_PATCH_SET action opens and is finalised.
BeginApply(j) ==
    /\ j \in created
    /\ inflight' = inflight \cup {j}
    /\ UNCHANGED <<now, created, jobs, waits, nwaits, waitOf>>

FinishApply(j) ==
    /\ inflight' = inflight \ {j}
    /\ UNCHANGED <<now, created, jobs, waits, nwaits, waitOf>>

Tick ==
    /\ now' = now + 1
    /\ UNCHANGED <<created, jobs, waits, nwaits, waitOf, inflight>>

-----------------------------------------------------------------------------
(* Specification *)

\* The operations an instance calls on a job with its current token, at t.
HolderOp(i, j, e, t) ==
    \/ RenewLease(i, j, e, t)
    \/ ReleaseLease(i, j, e, t)
    \/ ClearLease(i, j, e, t)
    \/ \E s \in RequeueStatuses : EnqueueHolder(i, j, e, t, s, t + Backoff)
    \/ \E d \in RecoveryDecisions : CommitRecoveryDecision(i, j, e, t, d, t + Backoff)
    \/ \E w \in Worktrees : BindWriterWorktree(i, j, e, t, w)
    \/ \E d \in Jobs \cup {0, NULL}, p \in Worktrees \cup {NULL} :
        /\ d = NULL => d = jobs[j].dep
        /\ p = NULL => p = jobs[j].path
        /\ SetJobMetadata(i, j, e, d, p)
    \/ TransitionToWaitingExternal(i, j, e, t, t + Backoff)

SupervisorOp(i, j, e) ==
    \/ \E p \in Plans : SupervisorCommit(i, j, e, p, now + Backoff)
    \/ BackoffDecision(i, j, e, now + Backoff)
    \/ AdapterBackoff(i, j, e, now + Backoff)
    \/ PersistError(i, j, e)

UnfencedOp(j) ==
    \/ QuarantineLost(j)
    \/ QuarantineBlocked(j)
    \/ \E s \in RequeueStatuses, d \in {0, now + Backoff} :
        EnqueueInitial(j, s, d) \/ EnqueueAuthorized(j, s, d)
    \/ \E x \in Terminals : CloseJob(j, x)
    \/ PerformPersistentError(j)
    \/ BeginApply(j)
    \/ FinishApply(j)

Verdicts == {"clean", "diverged", "ambiguous"}

Acquire(i, j, t) ==
    \/ ClaimJob(i, j, t)
    \/ ClaimNextJob(i, j, t)
    \/ \E v \in Verdicts : RecoverTakeoverJob(i, j, t, v)

Next ==
    \/ Tick
    \/ \E w \in waits : CompleteWaitAndRequeue(w)
    \/ \E t \in 0 .. now : ClaimNothing(t)
    \/ \E j \in Jobs :
        \/ CreateJob(j)
        \/ UnfencedOp(j)
        \/ \E i \in Instances :
            \/ SupervisorOp(i, j, jobs[j].epoch)
            \/ \E t \in 0 .. now :
                Acquire(i, j, t) \/ HolderOp(i, j, jobs[j].epoch, t)

Spec == Init /\ [][Next]_storeVars

-----------------------------------------------------------------------------
(* Properties *)

\* primary_state, status and terminal tell one story in every row, whichever of
\* the two writers (_transition_job or the deriving _update_supervisor_job) wrote
\* last: terminal and TERMINAL go together, and the status is one that
\* _PRIMARY_STATE_STATUSES allows (ERROR being BLOCKED's second spelling).
ProjectionConsistent ==
    \A j \in Jobs :
        /\ (jobs[j].terminal # NULL) <=> (jobs[j].status = "TERMINAL")
        /\ jobs[j].terminal # NULL => jobs[j].ps = jobs[j].terminal
        /\ jobs[j].status \in PrimaryStateStatuses(jobs[j].ps)
            \/ (jobs[j].ps = "BLOCKED" /\ jobs[j].status = "ERROR")

\* One worktree has one authoritative writer: no two nonterminal jobs are BOUND
\* to the same canonical path, through bind, pre-declared metadata, close and
\* owner-authorized reopen alike (F3 of bind_writer_worktree).
OneWriterPerWorktree ==
    \A j, k \in Jobs : j # k => ~Collide(jobs[j], jobs[k])

\* DONE and FAILED are immutable, and a BLOCKED job changes only by the exact
\* owner-authorized reopen, which leaves it QUEUED without a lease.
TerminalSticky ==
    [][\A j \in Jobs :
        /\ jobs[j].terminal \in {"DONE", "FAILED"} =>
            jobs'[j].terminal = jobs[j].terminal /\ jobs'[j].ps = jobs[j].ps
        /\ jobs[j].terminal = "BLOCKED" =>
            \/ jobs'[j].terminal = "BLOCKED" /\ jobs'[j].ps = "BLOCKED"
            \/ /\ jobs'[j].terminal = NULL /\ jobs'[j].ps = "QUEUED"
               /\ jobs[j].owner = NULL /\ jobs'[j].owner = NULL]_storeVars

\* lease_epoch is a fencing token: it never decreases, and no owner ever gains a
\* job under an epoch another owner, or the same one, already held.
EpochFences ==
    [][\A j \in Jobs :
        /\ jobs'[j].epoch >= jobs[j].epoch
        /\ jobs'[j].owner \notin {NULL, jobs[j].owner} =>
            jobs'[j].epoch > jobs[j].epoch]_storeVars

\* A lease changes hands only when it is gone: whoever becomes the owner of a
\* job finds it unowned or with an expiry that has passed.
LeaseHandover ==
    [][\A j \in Jobs :
        jobs'[j].owner \notin {NULL, jobs[j].owner} =>
            jobs[j].owner = NULL \/ ~Unexpired(jobs[j], now)]_storeVars

\* Only a claim of a QUEUED row or a takeover of an expired RUNNING one grants a
\* lease, and the row is RUNNING when it does: BLOCKED, LOST, OWNER_GATE and
\* WAITING_EXTERNAL are never leased directly.
LeaseGrantedFromQueue ==
    [][\A j \in Jobs :
        jobs'[j].epoch # jobs[j].epoch =>
            /\ jobs[j].ps \in {"QUEUED", "RUNNING"}
            /\ jobs'[j].ps = "RUNNING" /\ jobs'[j].owner # NULL]_storeVars

=============================================================================
