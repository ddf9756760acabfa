------------------------------- MODULE JobRow -------------------------------
(***************************************************************************)
(* One row of the table supervisor_jobs and what the code does to it: the  *)
(* derivation of primary_state (job_state.py), the predicates every        *)
(* operation guards itself with, and one operator per row update of        *)
(* store.py and supervisor.py.  No state: JobStore and Scheduler apply     *)
(* these operators to their tables.                                        *)
(*                                                                         *)
(* A column that no guard, CAS or property reads (audit fields, projection *)
(* copies, error codes, next_action, next_wake_at) is left out.            *)
(***************************************************************************)
EXTENDS Integers

CONSTANTS
    Jobs,        \* the rowids of supervisor_jobs: a job's place in the FIFO
    Instances,   \* scheduler instances: the values of owner_instance_id
    Worktrees,   \* the values of canonical_worktree_path
    NULL,        \* SQL NULL
    TTL,         \* lease_ttl_seconds: what a claim, takeover or renew grants
    Backoff,     \* how far a delayed requeue moves next_eligible_at
    ClockLag     \* how old a clock read before BEGIN IMMEDIATE may be

ASSUME JobsAssumption == Jobs \subseteq Nat \ {0}
ASSUME NullAssumption ==
    /\ NULL \notin Instances
    /\ NULL \notin Worktrees
    /\ NULL \notin Nat
    /\ NULL \notin {"DONE", "FAILED", "BLOCKED"}
ASSUME TimeAssumption == TTL \in Nat \ {0} /\ Backoff \in Nat /\ ClockLag \in Nat

PrimaryStates ==
    {"QUEUED", "RUNNING", "WAITING_EXTERNAL", "OWNER_GATE",
     "LOST", "BLOCKED", "FAILED", "DONE"}

Terminals == {"DONE", "FAILED", "BLOCKED"}

Statuses ==
    {"WAITING_RUN", "BACKOFF", "ACTIVE", "WAITING_GATE",
     "RECOVERING", "ERROR", "TERMINAL"}

\* fv is facts_version; eligible is next_eligible_at with 0 for NULL; wait says
\* that wait_kind is not NONE; path and bound are canonical_worktree_path and
\* writer_binding_mode = 'BOUND'; dep is depends_on, 0 being an id without a row.
Row == [ps       : PrimaryStates,
        status   : Statuses,
        terminal : Terminals \cup {NULL},
        owner    : Instances \cup {NULL},
        epoch    : Nat,
        expires  : Nat \cup {NULL},
        fv       : Nat,
        eligible : Nat,
        wait     : BOOLEAN,
        path     : Worktrees \cup {NULL},
        bound    : BOOLEAN,
        dep      : Jobs \cup {0, NULL}]

\* Supervisor.create_job: a new row is QUEUED and unleased.
NewRow ==
    [ps |-> "QUEUED", status |-> "WAITING_RUN", terminal |-> NULL,
     owner |-> NULL, epoch |-> 0, expires |-> NULL, fv |-> 0, eligible |-> 0,
     wait |-> FALSE, path |-> NULL, bound |-> FALSE, dep |-> NULL]

-----------------------------------------------------------------------------
(* The V2C projection *)

\* job_state.derive_primary_state: terminal decides first, then status, refined
\* by wait_kind; what is not recognised fails closed to BLOCKED.
DerivePrimaryState(status, terminal, wait) ==
    CASE terminal # NULL          -> terminal
      [] status = "WAITING_RUN"   -> IF wait THEN "WAITING_EXTERNAL" ELSE "QUEUED"
      [] status = "BACKOFF"       -> "QUEUED"
      [] status = "ACTIVE"        -> "RUNNING"
      [] status = "WAITING_GATE"  -> "OWNER_GATE"
      [] status = "RECOVERING"    -> "LOST"
      [] OTHER                    -> "BLOCKED"

\* Store._PRIMARY_STATE_STATUSES: the statuses _transition_job accepts with a
\* primary state.
PrimaryStateStatuses(ps) ==
    CASE ps = "QUEUED"           -> {"WAITING_RUN", "BACKOFF"}
      [] ps = "RUNNING"          -> {"ACTIVE"}
      [] ps = "WAITING_EXTERNAL" -> {"WAITING_RUN"}
      [] ps = "OWNER_GATE"       -> {"WAITING_GATE"}
      [] ps = "LOST"             -> {"RECOVERING"}
      [] OTHER                   -> {"TERMINAL"}

-----------------------------------------------------------------------------
(* Guards *)

\* An expiry is a concrete instant later than the clock t of the caller.
Unexpired(r, t) == r.expires # NULL /\ r.expires > t

\* The (owner, epoch, unexpired) compare of every holder operation.
HoldsLease(r, i, e, t) == r.owner = i /\ r.epoch = e /\ Unexpired(r, t)

\* Mutant of Claimable: a quarantined job is admitted again.
ClaimableWhenLost(r, t) == r.ps \in {"QUEUED", "LOST"} /\ r.eligible =< t

\* Store._job_is_claimable: only QUEUED, eligible, no valid foreign lease.
Claimable(r, t) ==
    /\ r.ps = "QUEUED"
    /\ r.eligible =< t
    /\ ~(r.owner # NULL /\ Unexpired(r, t))

\* The stickiness test of Store._transition_job without owner_authorized: a
\* terminal row, and a BLOCKED one (status ERROR too), refuses.
Transitionable(r) == r.terminal = NULL /\ r.ps # "BLOCKED"

\* Mutant of LeaseFence: the expiry is forgotten.
LeaseFenceForever(r, i, e, t) == r.owner = NULL \/ (r.owner = i /\ r.epoch = e)

\* Supervisor._enforce_lease_fence: no test at all when nobody owns the row.
LeaseFence(r, i, e, t) == r.owner = NULL \/ HoldsLease(r, i, e, t)

\* The columns a stale-scan snapshot fences (quarantine_*, recover_takeover_job).
SnapshotOf(r) == <<r.ps, r.owner, r.epoch, r.expires, r.fv>>

-----------------------------------------------------------------------------
(* Row updates *)

Released(r) == [r EXCEPT !.owner = NULL, !.expires = NULL]

Bumped(r) == [r EXCEPT !.fv = r.fv + 1]

\* _transition_job: primary_state and status written together, fv bumped.
Transitioned(r, ps, status) == [Bumped(r) EXCEPT !.ps = ps, !.status = status]

\* Mutant of Leased: the new holder keeps the old epoch.
LeasedSameEpoch(r, i, t) ==
    [Transitioned(r, "RUNNING", "ACTIVE") EXCEPT !.owner = i, !.expires = t + TTL]

\* _do_claim_locked and the takeover branch of recover_takeover_job.
Leased(r, i, t) ==
    [Transitioned(r, "RUNNING", "ACTIVE")
        EXCEPT !.owner = i, !.epoch = r.epoch + 1, !.expires = t + TTL]

\* enqueue_job: QUEUED, unleased, wait_kind back to NONE.
Requeued(r, status, eligible) ==
    [Released(Transitioned(r, "QUEUED", status))
        EXCEPT !.eligible = eligible, !.wait = FALSE]

\* commit_recovery_decision requeues without touching wait_kind.
RecoveryRequeued(r, status, eligible) ==
    [Released(Transitioned(r, "QUEUED", status)) EXCEPT !.eligible = eligible]

\* transition_to_waiting_external: unleased, with a wait_kind.
Parked(r, eligible) ==
    [Released(Transitioned(r, "WAITING_EXTERNAL", "WAITING_RUN"))
        EXCEPT !.wait = TRUE, !.eligible = eligible]

\* quarantine_lost, and every other transition to LOST.
QuarantinedLost(r) == Released(Transitioned(r, "LOST", "RECOVERING"))

\* quarantine_blocked, and every other transition to BLOCKED.
QuarantinedBlocked(r) ==
    [Released(Transitioned(r, "BLOCKED", "TERMINAL")) EXCEPT !.terminal = "BLOCKED"]

\* Mutant of Projected: primary_state keeps its old value.
ProjectedStatusOnly(r, status) == [r EXCEPT !.status = status]

\* _update_supervisor_job with a status: primary_state is derived again.
Projected(r, status) ==
    [r EXCEPT !.status = status,
              !.ps = DerivePrimaryState(status, r.terminal, r.wait)]

\* Mutant of BackedOff: the lease goes, the job stays RUNNING.
BackedOffInPlace(r, eligible) ==
    [Released(Bumped(r)) EXCEPT !.status = "BACKOFF", !.eligible = eligible]

\* A BACKOFF written by the supervisor: an admission-delayed, unleased requeue.
BackedOff(r, eligible) ==
    [Released(Projected(Bumped(r), "BACKOFF")) EXCEPT !.eligible = eligible]

\* Mutant of Closed: the status name lands in the terminal column.
ClosedWithStatus(r, terminal) ==
    [Bumped(r) EXCEPT !.terminal = "TERMINAL", !.status = "TERMINAL", !.ps = terminal]

\* _close_job: terminal and status; owner and expiry stay as they are.
Closed(r, terminal) ==
    [Bumped(r) EXCEPT !.terminal = terminal, !.status = "TERMINAL", !.ps = terminal]

=============================================================================
