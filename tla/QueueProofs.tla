----------------------------- MODULE QueueProofs -----------------------------
(***************************************************************************)
(* What the durable queue guarantees for every set of jobs, instances and  *)
(* worktrees and every TTL, backoff and clock lag: first JobStore, under   *)
(* any callers, then Scheduler, with any number of service processes at    *)
(* once or one at a time.                                                  *)
(*                                                                         *)
(* The store: RowStep is everything one transaction may do to one row.     *)
(* Lemma NextRowStep shows once, action by action, that Next changes every *)
(* row by a RowStep; the theorems then argue about a single row.           *)
(*                                                                         *)
(* The scheduler: every step of a pass is a step of JobStore or leaves its *)
(* tables alone, so that the store's theorems hold of the scheduler.  Then *)
(* types and the launcher, for rivals too.  Last: what holds where one     *)
(* service process lives at a time.                                        *)
(***************************************************************************)
EXTENDS Scheduler, FiniteSetTheorems, TLAPS

-----------------------------------------------------------------------------
(* The store: what may happen to a row *)

\* A claim, or the takeover of a lease that has expired.
GrantStep(r, s) ==
    \E i \in Instances, t \in Nat :
        /\ t =< now
        /\ \/ Claimable(r, t)
           \/ r.ps = "RUNNING" /\ r.terminal = NULL /\ r.expires # NULL /\ r.expires =< t
        /\ s = Leased(r, i, t)

\* The holder's columns only: renew, clear, bind, metadata.
HolderStep(r, s) ==
    \/ \E t \in Nat : r.owner # NULL /\ s = [r EXCEPT !.expires = t + TTL]
    \/ s = Released(Bumped(r))
    \/ \E w \in Worktrees : s = [r EXCEPT !.path = w, !.bound = TRUE]
    \/ \E d \in Jobs \cup {0, NULL}, w \in Worktrees \cup {NULL} :
        s = [Bumped(r) EXCEPT !.dep = d, !.path = w]

\* A nonterminal row leaves its state: requeue, quarantine, external wait, close.
LeaveStep(r, s) ==
    /\ r.terminal = NULL
    /\ \/ \E x \in RequeueStatuses, d \in Nat :
            s = Requeued(r, x, d) \/ s = RecoveryRequeued(r, x, d)
       \/ s = QuarantinedLost(r)
       \/ s = QuarantinedBlocked(r)
       \/ \E d \in Nat : s = Parked(r, d)
       \/ \E x \in Terminals : s = Closed(r, x)

\* The owner-authorized reopen.
ReopenStep(r, s) ==
    /\ r.ps = "BLOCKED" /\ r.terminal = "BLOCKED" /\ r.owner = NULL
    /\ \E x \in RequeueStatuses, d \in Nat : s = [Requeued(r, x, d) EXCEPT !.terminal = NULL]

\* A status written by the supervisor, as far as the CHECK lets it pass.
SupervisorStep(r, s) ==
    /\ s.terminal # NULL => s.status = "TERMINAL"
    /\ \/ \E p \in Plans, d \in Nat : s = PlannedRow(r, p, d)
       \/ \E d \in Nat : s = BackedOff(r, d)
       \/ s = Projected(Bumped(r), "ERROR")
       \/ s = Projected(r, "ERROR")

RowStep(r, s) ==
    \/ s = r
    \/ GrantStep(r, s)
    \/ HolderStep(r, s)
    \/ LeaveStep(r, s)
    \/ ReopenStep(r, s)
    \/ SupervisorStep(r, s)

-----------------------------------------------------------------------------
(* The store: rows keep their type *)

\* Every update of JobRow maps a row to a row.
LEMMA UpdatesKeepRow ==
    ASSUME NEW r \in Row
    PROVE  /\ Released(r) \in Row
           /\ Bumped(r) \in Row
           /\ \A p \in PrimaryStates, x \in Statuses : Transitioned(r, p, x) \in Row
           /\ \A x \in Statuses : Projected(r, x) \in Row
           /\ \A x \in Terminals : Closed(r, x) \in Row
<1>1. Released(r) \in Row
  BY DEF Released, Row
<1>2. Bumped(r) \in Row
  BY DEF Bumped, Row
<1>3. \A p \in PrimaryStates, x \in Statuses : Transitioned(r, p, x) \in Row
  <2> TAKE p \in PrimaryStates, x \in Statuses
  <2> DEFINE b == Bumped(r)
  <2> HIDE DEF b
  <2>1. b \in Row
    BY <1>2 DEF b
  <2>2. [b EXCEPT !.ps = p, !.status = x] \in Row
    BY <2>1 DEF Row
  <2>3. QED
    BY <2>2 DEF b, Transitioned
<1>4. \A x \in Statuses : DerivePrimaryState(x, r.terminal, r.wait) \in PrimaryStates
  BY DEF DerivePrimaryState, Row, PrimaryStates, Terminals
<1>5. \A x \in Statuses : Projected(r, x) \in Row
  BY <1>4 DEF Projected, Row
<1>6. \A x \in Terminals : Closed(r, x) \in Row
  <2> TAKE x \in Terminals
  <2> DEFINE b == Bumped(r)
  <2> HIDE DEF b
  <2>1. b \in Row
    BY <1>2 DEF b
  <2>2. x \in PrimaryStates /\ "TERMINAL" \in Statuses
    BY DEF Terminals, PrimaryStates, Statuses
  <2>3. [b EXCEPT !.terminal = x, !.status = "TERMINAL", !.ps = x] \in Row
    BY <2>1, <2>2 DEF Row
  <2>4. QED
    BY <2>3 DEF b, Closed
<1>7. QED
  BY <1>1, <1>2, <1>3, <1>5, <1>6

\* A row step leads from a row to a row.
LEMMA RowStepKeepsRow ==
    ASSUME now \in Nat, NEW r \in Row, NEW s, RowStep(r, s)
    PROVE  s \in Row
<1> USE TimeAssumption
<1>0. /\ Released(r) \in Row /\ Bumped(r) \in Row /\ Released(Bumped(r)) \in Row
      /\ \A p \in PrimaryStates, x \in Statuses :
            /\ Transitioned(r, p, x) \in Row
            /\ Released(Transitioned(r, p, x)) \in Row
      /\ \A x \in Statuses :
            /\ Projected(r, x) \in Row
            /\ Projected(Bumped(r), x) \in Row
            /\ Released(Projected(Bumped(r), x)) \in Row
      /\ \A x \in Terminals : Closed(r, x) \in Row
  BY UpdatesKeepRow
<1>1. \A u \in Row, d \in Nat : [u EXCEPT !.eligible = d] \in Row
  BY DEF Row
<1>2. \A u \in Row, d \in Nat : [u EXCEPT !.eligible = d, !.wait = FALSE] \in Row
  BY DEF Row
<1>3. \A x \in RequeueStatuses, d \in Nat :
        Requeued(r, x, d) \in Row /\ RecoveryRequeued(r, x, d) \in Row
  BY <1>0, <1>1, <1>2 DEF Requeued, RecoveryRequeued, RequeueStatuses, PrimaryStates, Statuses
<1>4. \A d \in Nat : BackedOff(r, d) \in Row
  BY <1>0, <1>1 DEF BackedOff, Statuses
<1>5. CASE GrantStep(r, s)
  <2>1. PICK i \in Instances, t \in Nat : s = Leased(r, i, t)
    BY <1>5 DEF GrantStep
  <2>2. Transitioned(r, "RUNNING", "ACTIVE") \in Row
    BY <1>0 DEF PrimaryStates, Statuses
  <2>3. \A u \in Row, e \in Nat, x \in Nat :
            [u EXCEPT !.owner = i, !.epoch = e, !.expires = x] \in Row
    BY DEF Row
  <2>4. r.epoch + 1 \in Nat /\ t + TTL \in Nat
    BY DEF Row
  <2>5. QED
    BY <2>1, <2>2, <2>3, <2>4 DEF Leased
<1>6. CASE HolderStep(r, s)
  <2>1. \A t \in Nat : [r EXCEPT !.expires = t + TTL] \in Row
    BY DEF Row
  <2>2. \A w \in Worktrees : [r EXCEPT !.path = w, !.bound = TRUE] \in Row
    BY DEF Row
  <2>3. \A u \in Row, d \in Jobs \cup {0, NULL}, w \in Worktrees \cup {NULL} :
            [u EXCEPT !.dep = d, !.path = w] \in Row
    BY DEF Row
  <2>4. \A d \in Jobs \cup {0, NULL}, w \in Worktrees \cup {NULL} :
            [Bumped(r) EXCEPT !.dep = d, !.path = w] \in Row
    BY <1>0, <2>3, Zenon
  <2>5. QED
    BY <1>0, <1>6, <2>1, <2>2, <2>4, Zenon DEF HolderStep
<1>7. CASE LeaveStep(r, s)
  <2>1. QuarantinedLost(r) \in Row
    BY <1>0 DEF QuarantinedLost, PrimaryStates, Statuses
  <2>2. \A u \in Row : [u EXCEPT !.terminal = "BLOCKED"] \in Row
    BY DEF Row, Terminals
  <2>3. QuarantinedBlocked(r) \in Row
    BY <1>0, <2>2 DEF QuarantinedBlocked, PrimaryStates, Statuses
  <2>4. \A u \in Row, d \in Nat : [u EXCEPT !.wait = TRUE, !.eligible = d] \in Row
    BY DEF Row
  <2>5. Released(Transitioned(r, "WAITING_EXTERNAL", "WAITING_RUN")) \in Row
    BY <1>0 DEF PrimaryStates, Statuses
  <2>6. \A d \in Nat : Parked(r, d) \in Row
    BY <2>4, <2>5, Zenon DEF Parked
  <2>7. QED
    BY <1>0, <1>3, <1>7, <2>1, <2>3, <2>6, Zenon DEF LeaveStep
<1>8. CASE ReopenStep(r, s)
  <2>1. \A u \in Row : [u EXCEPT !.terminal = NULL] \in Row
    BY DEF Row
  <2>2. QED
    BY <1>3, <1>8, <2>1 DEF ReopenStep
<1>9. CASE SupervisorStep(r, s)
  <2>1. \A p \in Plans, d \in Nat : PlannedRow(r, p, d) \in Row
    <3>1. r.status \in Statuses /\ {"ACTIVE", "WAITING_GATE", "ERROR"} \subseteq Statuses
      BY DEF Row, Statuses
    <3>2. QED
      BY <1>0, <1>4, <3>1 DEF PlannedRow
  <2>2. QED
    BY <1>0, <1>4, <1>9, <2>1 DEF SupervisorStep, Statuses
<1>10. QED
  BY <1>5, <1>6, <1>7, <1>8, <1>9 DEF RowStep

-----------------------------------------------------------------------------
(* The store: every step of Next changes rows by row steps *)

\* One row put by a row step, or the walk of claim_next_job, or nothing.
TableStep ==
    \/ jobs' = jobs
    \/ \E j \in Jobs : \E r : RowStep(jobs[j], r) /\ Put(j, r)
    \/ \E i \in Instances, j \in Jobs, t \in 0 .. now : ClaimNextJob(i, j, t)
    \/ \E t \in 0 .. now : ClaimNothing(t)

\* The holder's operations put a row step.
LEMMA HolderOpSteps ==
    ASSUME TypeOK, NEW i \in Instances, NEW j \in Jobs, NEW e, NEW t \in 0 .. now,
           HolderOp(i, j, e, t)
    PROVE  TableStep
<1> USE TimeAssumption
<1>0. /\ now \in Nat /\ t \in Nat /\ t + Backoff \in Nat /\ jobs[j] \in Row
      /\ jobs[j].eligible \in Nat
  BY DEF TypeOK, Row
<1>1. CASE RenewLease(i, j, e, t)
  <2>1. jobs[j].owner # NULL
    BY <1>1, NullAssumption DEF RenewLease, HoldsLease
  <2>2. RowStep(jobs[j], [jobs[j] EXCEPT !.expires = t + TTL])
    BY <1>0, <2>1, Zenon DEF RowStep, HolderStep
  <2>3. QED
    BY <1>1, <2>2, Zenon DEF RenewLease, TableStep
<1>2. CASE ReleaseLease(i, j, e, t)
  <2>1. RowStep(jobs[j], RecoveryRequeued(jobs[j], "WAITING_RUN", jobs[j].eligible))
    BY <1>0, <1>2 DEF ReleaseLease, Transitionable, RowStep, LeaveStep, RequeueStatuses
  <2>2. QED
    BY <1>2, <2>1, Zenon DEF ReleaseLease, TableStep
<1>3. CASE ClearLease(i, j, e, t)
  <2>1. RowStep(jobs[j], Released(Bumped(jobs[j])))
    BY Zenon DEF RowStep, HolderStep
  <2>2. QED
    BY <1>3, <2>1, Zenon DEF ClearLease, TableStep
<1>4. CASE \E x \in RequeueStatuses : EnqueueHolder(i, j, e, t, x, t + Backoff)
  <2>1. PICK x \in RequeueStatuses : EnqueueHolder(i, j, e, t, x, t + Backoff)
    BY <1>4
  <2>2. RowStep(jobs[j], Requeued(jobs[j], x, t + Backoff))
    BY <1>0, <2>1 DEF EnqueueHolder, Transitionable, RowStep, LeaveStep
  <2>3. QED
    BY <2>1, <2>2, Zenon DEF EnqueueHolder, TableStep
<1>5. CASE \E d \in RecoveryDecisions : CommitRecoveryDecision(i, j, e, t, d, t + Backoff)
  <2>1. PICK d \in RecoveryDecisions : CommitRecoveryDecision(i, j, e, t, d, t + Backoff)
    BY <1>5
  <2> DEFINE r == CASE d = "RETRY_BOUNDED"  -> RecoveryRequeued(jobs[j], "BACKOFF", t + Backoff)
                    [] d = "DEFER_RESOURCE" -> RecoveryRequeued(jobs[j], "WAITING_RUN", t + Backoff)
                    [] d = "BLOCK_RESOURCE" -> QuarantinedBlocked(jobs[j])
                    [] OTHER                -> QuarantinedLost(jobs[j])
  <2>2. \/ r = RecoveryRequeued(jobs[j], "BACKOFF", t + Backoff)
        \/ r = RecoveryRequeued(jobs[j], "WAITING_RUN", t + Backoff)
        \/ r = QuarantinedBlocked(jobs[j])
        \/ r = QuarantinedLost(jobs[j])
    OBVIOUS
  <2>3. jobs[j].terminal = NULL /\ Put(j, r)
    BY <2>1, Zenon DEF CommitRecoveryDecision
  <2> HIDE DEF r
  <2>4. RowStep(jobs[j], r)
    BY <1>0, <2>2, <2>3 DEF RowStep, LeaveStep, RequeueStatuses
  <2>5. QED
    BY <2>3, <2>4, Zenon DEF TableStep
<1>6. CASE \E w \in Worktrees : BindWriterWorktree(i, j, e, t, w)
  <2>1. PICK w \in Worktrees : BindWriterWorktree(i, j, e, t, w)
    BY <1>6
  <2>2. RowStep(jobs[j], [jobs[j] EXCEPT !.path = w, !.bound = TRUE])
    BY Zenon DEF RowStep, HolderStep
  <2>3. QED
    BY <2>1, <2>2, Zenon DEF BindWriterWorktree, TableStep
<1>7. CASE \E d \in Jobs \cup {0, NULL}, w \in Worktrees \cup {NULL} : SetJobMetadata(i, j, e, d, w)
  <2>1. PICK d \in Jobs \cup {0, NULL}, w \in Worktrees \cup {NULL} : SetJobMetadata(i, j, e, d, w)
    BY <1>7
  <2>2. RowStep(jobs[j], [Bumped(jobs[j]) EXCEPT !.dep = d, !.path = w])
    BY Zenon DEF RowStep, HolderStep
  <2>3. QED
    BY <2>1, <2>2, Zenon DEF SetJobMetadata, TableStep
<1>8. CASE TransitionToWaitingExternal(i, j, e, t, t + Backoff)
  <2>1. RowStep(jobs[j], Parked(jobs[j], t + Backoff))
    BY <1>0, <1>8, Zenon DEF TransitionToWaitingExternal, Transitionable, RowStep, LeaveStep
  <2>2. QED
    BY <1>8, <2>1, Zenon DEF TransitionToWaitingExternal, TableStep
<1>9. QED
  BY <1>1, <1>2, <1>3, <1>4, <1>5, <1>6, <1>7, <1>8, Zenon DEF HolderOp

\* A put row satisfies the CHECK of the schema.
LEMMA PutChecks ==
    ASSUME NEW j, NEW r, Put(j, r)
    PROVE  r.terminal # NULL => r.status = "TERMINAL"
BY DEF Put, SchemaAccepts

\* So do the supervisor's.
LEMMA SupervisorOpSteps ==
    ASSUME TypeOK, NEW i \in Instances, NEW j \in Jobs, NEW e, SupervisorOp(i, j, e)
    PROVE  TableStep
<1> USE TimeAssumption
<1>0. now + Backoff \in Nat
  BY DEF TypeOK
<1>1. CASE \E p \in Plans : SupervisorCommit(i, j, e, p, now + Backoff)
  <2>1. PICK p \in Plans : SupervisorCommit(i, j, e, p, now + Backoff)
    BY <1>1
  <2>2. Put(j, PlannedRow(jobs[j], p, now + Backoff))
    BY <2>1, Zenon DEF SupervisorCommit
  <2>3. RowStep(jobs[j], PlannedRow(jobs[j], p, now + Backoff))
    BY <1>0, <2>2, PutChecks, Zenon DEF RowStep, SupervisorStep
  <2>4. QED
    BY <2>2, <2>3, Zenon DEF TableStep
<1>2. CASE BackoffDecision(i, j, e, now + Backoff)
  <2>1. RowStep(jobs[j], RecoveryRequeued(jobs[j], "BACKOFF", now + Backoff))
    BY <1>0, <1>2 DEF BackoffDecision, Transitionable, RowStep, LeaveStep, RequeueStatuses
  <2>2. QED
    BY <1>2, <2>1, Zenon DEF BackoffDecision, TableStep
<1>3. CASE AdapterBackoff(i, j, e, now + Backoff)
  <2>1. Put(j, BackedOff(jobs[j], now + Backoff))
    BY <1>3, Zenon DEF AdapterBackoff
  <2>2. RowStep(jobs[j], BackedOff(jobs[j], now + Backoff))
    BY <1>0, <2>1, PutChecks, Zenon DEF RowStep, SupervisorStep
  <2>3. QED
    BY <2>1, <2>2, Zenon DEF TableStep
<1>4. CASE PersistError(i, j, e)
  <2>1. Put(j, Projected(Bumped(jobs[j]), "ERROR"))
    BY <1>4, Zenon DEF PersistError
  <2>2. RowStep(jobs[j], Projected(Bumped(jobs[j]), "ERROR"))
    BY <2>1, PutChecks, Zenon DEF RowStep, SupervisorStep
  <2>3. QED
    BY <2>1, <2>2, Zenon DEF TableStep
<1>5. QED
  BY <1>1, <1>2, <1>3, <1>4, Zenon DEF SupervisorOp

\* And the operations no lease guards.
LEMMA UnfencedOpSteps ==
    ASSUME TypeOK, NEW j \in Jobs, UnfencedOp(j)
    PROVE  TableStep
<1> USE TimeAssumption
<1>0. {0, now + Backoff} \subseteq Nat
  BY DEF TypeOK
<1>1. CASE QuarantineLost(j)
  <2>1. RowStep(jobs[j], QuarantinedLost(jobs[j]))
    BY <1>1, Zenon DEF QuarantineLost, Transitionable, RowStep, LeaveStep
  <2>2. QED
    BY <1>1, <2>1, Zenon DEF QuarantineLost, TableStep
<1>2. CASE QuarantineBlocked(j)
  <2>1. RowStep(jobs[j], QuarantinedBlocked(jobs[j]))
    BY <1>2, Zenon DEF QuarantineBlocked, Transitionable, RowStep, LeaveStep
  <2>2. QED
    BY <1>2, <2>1, Zenon DEF QuarantineBlocked, TableStep
<1>3. CASE \E x \in RequeueStatuses, d \in {0, now + Backoff} : EnqueueInitial(j, x, d)
  <2>1. PICK x \in RequeueStatuses, d \in Nat : EnqueueInitial(j, x, d)
    BY <1>0, <1>3
  <2>2. RowStep(jobs[j], Requeued(jobs[j], x, d))
    BY <2>1, Zenon DEF EnqueueInitial, Transitionable, RowStep, LeaveStep
  <2>3. QED
    BY <2>1, <2>2, Zenon DEF EnqueueInitial, TableStep
<1>4. CASE \E x \in RequeueStatuses, d \in {0, now + Backoff} : EnqueueAuthorized(j, x, d)
  <2>1. PICK x \in RequeueStatuses, d \in Nat : EnqueueAuthorized(j, x, d)
    BY <1>0, <1>4
  <2>2. RowStep(jobs[j], [Requeued(jobs[j], x, d) EXCEPT !.terminal = NULL])
    BY <2>1, Zenon DEF EnqueueAuthorized, RowStep, ReopenStep
  <2>3. QED
    BY <2>1, <2>2, Zenon DEF EnqueueAuthorized, TableStep
<1>5. CASE \E x \in Terminals : CloseJob(j, x)
  <2>1. PICK x \in Terminals : CloseJob(j, x)
    BY <1>5
  <2>2. RowStep(jobs[j], Closed(jobs[j], x))
    BY <2>1, Zenon DEF CloseJob, RowStep, LeaveStep
  <2>3. QED
    BY <2>1, <2>2, Zenon DEF CloseJob, TableStep
<1>6. CASE PerformPersistentError(j)
  <2>1. Put(j, Projected(jobs[j], "ERROR"))
    BY <1>6, Zenon DEF PerformPersistentError
  <2>2. RowStep(jobs[j], Projected(jobs[j], "ERROR"))
    BY <2>1, PutChecks, Zenon DEF RowStep, SupervisorStep
  <2>3. QED
    BY <2>1, <2>2, Zenon DEF TableStep
<1>7. CASE BeginApply(j) \/ FinishApply(j)
  BY <1>7 DEF BeginApply, FinishApply, TableStep
<1>8. QED
  BY <1>1, <1>2, <1>3, <1>4, <1>5, <1>6, <1>7, Zenon DEF UnfencedOp

\* And those that grant leases.
LEMMA AcquireSteps ==
    ASSUME TypeOK, NEW i \in Instances, NEW j \in Jobs, NEW t \in 0 .. now, Acquire(i, j, t)
    PROVE  TableStep
<1>0. t \in Nat /\ t =< now
  BY DEF TypeOK
<1>1. CASE ClaimJob(i, j, t)
  <2>1. RowStep(jobs[j], Leased(jobs[j], i, t))
    BY <1>0, <1>1, Zenon DEF ClaimJob, RowStep, GrantStep
  <2>2. QED
    BY <1>1, <2>1, Zenon DEF ClaimJob, TableStep
<1>2. CASE ClaimNextJob(i, j, t)
  BY <1>2, Zenon DEF TableStep
<1>3. CASE \E v \in Verdicts : RecoverTakeoverJob(i, j, t, v)
  <2>1. PICK v \in Verdicts : RecoverTakeoverJob(i, j, t, v)
    BY <1>3
  <2> DEFINE r == CASE v = "clean"    -> Leased(jobs[j], i, t)
                    [] v = "diverged" -> QuarantinedBlocked(jobs[j])
                    [] OTHER          -> QuarantinedLost(jobs[j])
  <2>2. \/ r = Leased(jobs[j], i, t)
        \/ r = QuarantinedBlocked(jobs[j])
        \/ r = QuarantinedLost(jobs[j])
    OBVIOUS
  <2>3. /\ jobs[j].ps = "RUNNING" /\ jobs[j].terminal = NULL
        /\ jobs[j].expires # NULL /\ jobs[j].expires =< t
        /\ Put(j, r)
    BY <2>1, Zenon DEF RecoverTakeoverJob
  <2> HIDE DEF r
  <2>4. RowStep(jobs[j], r)
    BY <1>0, <2>2, <2>3, Zenon DEF RowStep, LeaveStep, GrantStep
  <2>5. QED
    BY <2>3, <2>4, Zenon DEF TableStep
<1>4. QED
  BY <1>1, <1>2, <1>3, Zenon DEF Acquire

\* Next is a table step.
LEMMA NextTableStep == ASSUME TypeOK, Next PROVE TableStep
<1>1. CASE Tick \/ \E j \in Jobs : CreateJob(j)
  BY <1>1 DEF Tick, CreateJob, TableStep
<1>2. CASE \E w \in waits : CompleteWaitAndRequeue(w)
  <2>1. PICK w \in waits : CompleteWaitAndRequeue(w)
    BY <1>2
  <2>2. w.job \in Jobs /\ now \in Nat
    BY DEF TypeOK, Wait
  <2>3. RowStep(jobs[w.job], Requeued(jobs[w.job], "WAITING_RUN", now))
    BY <2>1, <2>2 DEF CompleteWaitAndRequeue, Transitionable, RowStep, LeaveStep, RequeueStatuses
  <2>4. QED
    BY <2>1, <2>2, <2>3, Zenon DEF CompleteWaitAndRequeue, TableStep
<1>3. CASE \E t \in 0 .. now : ClaimNothing(t)
  BY <1>3, Zenon DEF TableStep
<1>4. QED
  BY <1>1, <1>2, <1>3, HolderOpSteps, SupervisorOpSteps, UnfencedOpSteps, AcquireSteps, Zenon DEF Next

-----------------------------------------------------------------------------
(* The store: the inductive invariant *)

\* ProjectionConsistent of one row.
Consistent(r) ==
    /\ (r.terminal # NULL) <=> (r.status = "TERMINAL")
    /\ r.terminal # NULL => r.ps = r.terminal
    /\ r.status \in PrimaryStateStatuses(r.ps) \/ (r.ps = "BLOCKED" /\ r.status = "ERROR")

\* Type and projection go together: that a claimable row is not terminal, so that
\* blocking it closes nothing twice, follows from its projection.
Inv == TypeOK /\ ProjectionConsistent

\* The invariant, row by row.
LEMMA InvRows ==
    ASSUME Inv
    PROVE  \A j \in Jobs : jobs[j] \in Row /\ Consistent(jobs[j])
BY Zenon DEF Inv, TypeOK, ProjectionConsistent, Consistent

\* A QUEUED row is not terminal.
LEMMA QueuedIsOpen ==
    ASSUME NEW r \in Row, Consistent(r), r.ps = "QUEUED"
    PROVE  r.terminal = NULL
BY DEF Consistent, Row, Terminals

\* Under the invariant every row changes by a row step, and stays a row.
LEMMA NextRowStep ==
    ASSUME Inv, Next
    PROVE  /\ jobs' \in [Jobs -> Row]
           /\ \A k \in Jobs : RowStep(jobs[k], jobs'[k])
<1>0. now \in Nat /\ jobs \in [Jobs -> Row]
  BY DEF Inv, TypeOK
<1>1. TableStep
  BY NextTableStep DEF Inv
<1>2. \A k \in Jobs : RowStep(jobs[k], jobs[k])
  BY Zenon DEF RowStep
<1>3. \A t \in 0 .. now, k \in Jobs :
        MissingDependency(k, t) => RowStep(jobs[k], QuarantinedBlocked(jobs[k]))
  <2> TAKE t \in 0 .. now, k \in Jobs
  <2> HAVE MissingDependency(k, t)
  <2>1. jobs[k].terminal = NULL
    BY InvRows, QueuedIsOpen DEF MissingDependency, Claimable
  <2>2. QED
    BY <2>1, Zenon DEF RowStep, LeaveStep
<1>4. \A t \in 0 .. now, S \in SUBSET Jobs :
        /\ DOMAIN BlockMissing(S, t) = Jobs
        /\ \A k \in Jobs : RowStep(jobs[k], BlockMissing(S, t)[k])
  BY <1>2, <1>3, Zenon DEF BlockMissing
<1>5. DOMAIN jobs' = Jobs /\ jobs' = [k \in Jobs |-> jobs'[k]]
        /\ \A k \in Jobs : RowStep(jobs[k], jobs'[k])
  <2>1. CASE jobs' = jobs
    BY <1>0, <1>2, <2>1
  <2>2. CASE \E j \in Jobs : \E r : RowStep(jobs[j], r) /\ Put(j, r)
    <3>0. PICK j \in Jobs : \E r : RowStep(jobs[j], r) /\ Put(j, r)
      BY <2>2
    <3>1. PICK r : RowStep(jobs[j], r) /\ Put(j, r)
      BY <3>0
    <3>2. jobs' = [jobs EXCEPT ![j] = r]
      BY <3>1, Zenon DEF Put
    <3>3. \A k \in Jobs : jobs'[k] = IF k = j THEN r ELSE jobs[k]
      BY <1>0, <3>2
    <3>4. DOMAIN jobs' = Jobs /\ jobs' = [k \in Jobs |-> jobs'[k]]
      BY <1>0, <3>2
    <3>5. QED
      BY <1>2, <3>1, <3>3, <3>4, Zenon
  <2>3. CASE \E i \in Instances, j \in Jobs, t \in 0 .. now : ClaimNextJob(i, j, t)
    <3>1. PICK i \in Instances, j \in Jobs, t \in 0 .. now : ClaimNextJob(i, j, t)
      BY <2>3
    <3> DEFINE b == BlockMissing({k \in Jobs : k < j}, t)
    <3>2. jobs' = [b EXCEPT ![j] = Leased(jobs[j], i, t)]
      BY <3>1, Zenon DEF ClaimNextJob
    <3>3. DOMAIN b = Jobs /\ b = [k \in Jobs |-> b[k]] /\ \A k \in Jobs : RowStep(jobs[k], b[k])
      <4>1. {k \in Jobs : k < j} \in SUBSET Jobs
        OBVIOUS
      <4>2. b = [k \in Jobs |-> b[k]]
        BY DEF BlockMissing
      <4>3. QED
        BY <1>4, <4>1, <4>2, Zenon
    <3> HIDE DEF b
    <3>4. \A k \in Jobs : jobs'[k] = IF k = j THEN Leased(jobs[j], i, t) ELSE b[k]
      BY <3>2, <3>3
    <3>5. DOMAIN jobs' = Jobs /\ jobs' = [k \in Jobs |-> jobs'[k]]
      BY <3>2, <3>3
    <3>6. RowStep(jobs[j], Leased(jobs[j], i, t))
      <4>1. t \in Nat /\ t =< now /\ Claimable(jobs[j], t)
        BY <1>0, <3>1 DEF ClaimNextJob, Ready
      <4>2. QED
        BY <4>1, Zenon DEF RowStep, GrantStep
    <3>7. QED
      BY <3>3, <3>4, <3>5, <3>6, Zenon
  <2>4. CASE \E t \in 0 .. now : ClaimNothing(t)
    <3>1. PICK t \in 0 .. now : ClaimNothing(t)
      BY <2>4
    <3>2. jobs' = BlockMissing(Jobs, t)
      BY <3>1, Zenon DEF ClaimNothing
    <3>3. jobs' = [k \in Jobs |-> jobs'[k]]
      BY <3>2 DEF BlockMissing
    <3>4. QED
      BY <1>4, <3>2, <3>3, Zenon
  <2>5. QED
    BY <1>1, <2>1, <2>2, <2>3, <2>4, Zenon DEF TableStep
<1>6. \A k \in Jobs : jobs'[k] \in Row
  BY <1>0, <1>5, RowStepKeepsRow
<1>7. QED
  BY <1>5, <1>6

\* What the updates do to the three projected columns and to the lease.
LEMMA UpdateColumns ==
    ASSUME NEW r \in Row
    PROVE  /\ \A i, t : LET s == Leased(r, i, t) IN
                /\ s.ps = "RUNNING" /\ s.status = "ACTIVE" /\ s.terminal = r.terminal
                /\ s.owner = i /\ s.epoch = r.epoch + 1
           /\ \A x, d :
                /\ LET s == Requeued(r, x, d) IN
                    /\ s.ps = "QUEUED" /\ s.status = x /\ s.terminal = r.terminal
                    /\ s.owner = NULL /\ s.epoch = r.epoch
                /\ LET s == RecoveryRequeued(r, x, d) IN
                    /\ s.ps = "QUEUED" /\ s.status = x /\ s.terminal = r.terminal
                    /\ s.owner = NULL /\ s.epoch = r.epoch
           /\ \A d : LET s == Parked(r, d) IN
                /\ s.ps = "WAITING_EXTERNAL" /\ s.status = "WAITING_RUN"
                /\ s.terminal = r.terminal /\ s.owner = NULL /\ s.epoch = r.epoch
           /\ LET s == QuarantinedLost(r) IN
                /\ s.ps = "LOST" /\ s.status = "RECOVERING" /\ s.terminal = r.terminal
                /\ s.owner = NULL /\ s.epoch = r.epoch
           /\ LET s == QuarantinedBlocked(r) IN
                /\ s.ps = "BLOCKED" /\ s.status = "TERMINAL" /\ s.terminal = "BLOCKED"
                /\ s.owner = NULL /\ s.epoch = r.epoch
           /\ \A x : LET s == Closed(r, x) IN
                /\ s.ps = x /\ s.status = "TERMINAL" /\ s.terminal = x
                /\ s.owner = r.owner /\ s.epoch = r.epoch
           /\ \A x : LET s == Projected(r, x) IN
                /\ s.ps = DerivePrimaryState(x, r.terminal, r.wait) /\ s.status = x
                /\ s.terminal = r.terminal /\ s.owner = r.owner /\ s.epoch = r.epoch
           /\ \A x : LET s == Projected(Bumped(r), x) IN
                /\ s.ps = DerivePrimaryState(x, r.terminal, r.wait) /\ s.status = x
                /\ s.terminal = r.terminal /\ s.owner = r.owner /\ s.epoch = r.epoch
           /\ \A d : LET s == BackedOff(r, d) IN
                /\ s.ps = DerivePrimaryState("BACKOFF", r.terminal, r.wait)
                /\ s.status = "BACKOFF" /\ s.terminal = r.terminal
                /\ s.owner = NULL /\ s.epoch = r.epoch
<1> USE DEF Row, Bumped, Released, Transitioned
<1>1. \A i, t : LET s == Leased(r, i, t) IN
        /\ s.ps = "RUNNING" /\ s.status = "ACTIVE" /\ s.terminal = r.terminal
        /\ s.owner = i /\ s.epoch = r.epoch + 1
  BY DEF Leased
<1>2. \A x, d :
        /\ LET s == Requeued(r, x, d) IN
            /\ s.ps = "QUEUED" /\ s.status = x /\ s.terminal = r.terminal
            /\ s.owner = NULL /\ s.epoch = r.epoch
        /\ LET s == RecoveryRequeued(r, x, d) IN
            /\ s.ps = "QUEUED" /\ s.status = x /\ s.terminal = r.terminal
            /\ s.owner = NULL /\ s.epoch = r.epoch
  BY DEF Requeued, RecoveryRequeued
<1>3. LET s == QuarantinedLost(r) IN
        /\ s.ps = "LOST" /\ s.status = "RECOVERING" /\ s.terminal = r.terminal
        /\ s.owner = NULL /\ s.epoch = r.epoch
  BY DEF QuarantinedLost
<1>4. LET s == QuarantinedBlocked(r) IN
        /\ s.ps = "BLOCKED" /\ s.status = "TERMINAL" /\ s.terminal = "BLOCKED"
        /\ s.owner = NULL /\ s.epoch = r.epoch
  BY DEF QuarantinedBlocked
<1>5. \A x : LET s == Closed(r, x) IN
        /\ s.ps = x /\ s.status = "TERMINAL" /\ s.terminal = x
        /\ s.owner = r.owner /\ s.epoch = r.epoch
  BY DEF Closed
<1>6. \A x : LET s == Projected(r, x) IN
        /\ s.ps = DerivePrimaryState(x, r.terminal, r.wait) /\ s.status = x
        /\ s.terminal = r.terminal /\ s.owner = r.owner /\ s.epoch = r.epoch
  BY DEF Projected
<1>7. \A x : LET s == Projected(Bumped(r), x) IN
        /\ s.ps = DerivePrimaryState(x, r.terminal, r.wait) /\ s.status = x
        /\ s.terminal = r.terminal /\ s.owner = r.owner /\ s.epoch = r.epoch
  BY DEF Projected
<1>8. \A d : LET s == BackedOff(r, d) IN
        /\ s.ps = DerivePrimaryState("BACKOFF", r.terminal, r.wait)
        /\ s.status = "BACKOFF" /\ s.terminal = r.terminal
        /\ s.owner = NULL /\ s.epoch = r.epoch
  BY DEF BackedOff, Projected
<1>9. \A d : LET s == Parked(r, d) IN
        /\ s.ps = "WAITING_EXTERNAL" /\ s.status = "WAITING_RUN"
        /\ s.terminal = r.terminal /\ s.owner = NULL /\ s.epoch = r.epoch
  BY DEF Parked
<1> HIDE DEF Row, Bumped, Released, Transitioned
<1>10. QED
  BY <1>1, <1>2, <1>3, <1>4, <1>5, <1>6, <1>7, <1>8, <1>9

\* The holder's own updates leave the projection and the epoch alone.
LEMMA HolderColumns ==
    ASSUME NEW r \in Row, NEW s, HolderStep(r, s)
    PROVE  /\ s.ps = r.ps /\ s.status = r.status /\ s.terminal = r.terminal
           /\ s.epoch = r.epoch /\ s.owner \in {NULL, r.owner}
<1>1. CASE \E t \in Nat : r.owner # NULL /\ s = [r EXCEPT !.expires = t + TTL]
  BY <1>1 DEF Row
<1>2. CASE s = Released(Bumped(r))
  BY <1>2 DEF Row, Released, Bumped
<1>3. CASE \E w \in Worktrees : s = [r EXCEPT !.path = w, !.bound = TRUE]
  BY <1>3 DEF Row
<1>4. CASE \E d \in Jobs \cup {0, NULL}, w \in Worktrees \cup {NULL} :
            s = [Bumped(r) EXCEPT !.dep = d, !.path = w]
  BY <1>4 DEF Row, Bumped
<1>5. QED
  BY <1>1, <1>2, <1>3, <1>4, Zenon DEF HolderStep

\* The reopen clears terminal.
LEMMA ReopenColumns ==
    ASSUME NEW r \in Row, NEW s, ReopenStep(r, s)
    PROVE  /\ s.ps = "QUEUED" /\ s.status \in RequeueStatuses /\ s.terminal = NULL
           /\ s.owner = NULL /\ s.epoch = r.epoch
<1>1. PICK x \in RequeueStatuses, d \in Nat : s = [Requeued(r, x, d) EXCEPT !.terminal = NULL]
  BY DEF ReopenStep
<1>2. QED
  BY <1>1 DEF Requeued, Released, Transitioned, Bumped, Row

\* A supervisor's write derives the projection and never grants a lease.
LEMMA SupervisorColumns ==
    ASSUME NEW r \in Row, NEW s, SupervisorStep(r, s)
    PROVE  /\ s.terminal = r.terminal /\ s.epoch = r.epoch /\ s.owner \in {NULL, r.owner}
           /\ s.ps = DerivePrimaryState(s.status, r.terminal, r.wait)
           /\ s.status \in {"ACTIVE", "BACKOFF", "WAITING_GATE", "ERROR", r.status}
           /\ s.terminal # NULL => s.status = "TERMINAL"
<1>0. s.terminal # NULL => s.status = "TERMINAL"
  BY Zenon DEF SupervisorStep
<1>1. CASE \E p \in Plans, d \in Nat : s = PlannedRow(r, p, d)
  <2>1. PICK p \in Plans, d \in Nat : s = PlannedRow(r, p, d)
    BY <1>1
  <2>2. \/ \E x \in {"ACTIVE", "WAITING_GATE", "ERROR", r.status} : s = Projected(Bumped(r), x)
        \/ s = BackedOff(r, d)
    BY <2>1 DEF PlannedRow
  <2>3. QED
    BY <1>0, <2>2, UpdateColumns
<1>2. CASE \/ \E d \in Nat : s = BackedOff(r, d)
           \/ s = Projected(Bumped(r), "ERROR")
           \/ s = Projected(r, "ERROR")
  BY <1>0, <1>2, UpdateColumns
<1>3. QED
  BY <1>1, <1>2, Zenon DEF SupervisorStep

\* A row step keeps the projection consistent.
LEMMA RowStepKeepsConsistent ==
    ASSUME NEW r \in Row, Consistent(r), NEW s, RowStep(r, s)
    PROVE  Consistent(s)
<1> USE DEF Consistent
<1>1. CASE s = r
  BY <1>1
<1>2. CASE GrantStep(r, s)
  <2>1. PICK i \in Instances, t \in Nat :
            /\ s = Leased(r, i, t)
            /\ Claimable(r, t) \/ r.terminal = NULL
    BY <1>2, Zenon DEF GrantStep
  <2>2. r.terminal = NULL
    BY <2>1, QueuedIsOpen DEF Claimable
  <2>3. s.ps = "RUNNING" /\ s.status = "ACTIVE" /\ s.terminal = NULL
    BY <2>1, <2>2, UpdateColumns
  <2>4. QED
    BY <2>3 DEF PrimaryStateStatuses
<1>3. CASE HolderStep(r, s)
  BY <1>3, HolderColumns
<1>4. CASE LeaveStep(r, s)
  <2>1. r.terminal = NULL /\ NULL \notin Terminals
    BY <1>4, NullAssumption DEF LeaveStep, Terminals
  <2>2. \/ s.ps = "QUEUED" /\ s.status \in RequeueStatuses /\ s.terminal = NULL
        \/ s.ps = "LOST" /\ s.status = "RECOVERING" /\ s.terminal = NULL
        \/ s.ps = "WAITING_EXTERNAL" /\ s.status = "WAITING_RUN" /\ s.terminal = NULL
        \/ s.ps \in Terminals /\ s.status = "TERMINAL" /\ s.terminal = s.ps
    <3>1. CASE \E d \in Nat : s = Parked(r, d)
      BY <2>1, <3>1, UpdateColumns
    <3>2. CASE \E x \in RequeueStatuses, d \in Nat :
                s = Requeued(r, x, d) \/ s = RecoveryRequeued(r, x, d)
      BY <2>1, <3>2, UpdateColumns
    <3>3. CASE s = QuarantinedLost(r) \/ s = QuarantinedBlocked(r)
      BY <2>1, <3>3, UpdateColumns DEF Terminals
    <3>4. CASE \E x \in Terminals : s = Closed(r, x)
      BY <3>4, UpdateColumns
    <3>5. QED
      BY <1>4, <3>1, <3>2, <3>3, <3>4 DEF LeaveStep
  <2>3. QED
    BY <2>1, <2>2 DEF PrimaryStateStatuses, RequeueStatuses, Terminals
<1>5. CASE ReopenStep(r, s)
  BY <1>5, ReopenColumns DEF PrimaryStateStatuses, RequeueStatuses
<1>6. CASE SupervisorStep(r, s)
  <2>1. /\ s.terminal = r.terminal
        /\ s.ps = DerivePrimaryState(s.status, r.terminal, r.wait)
        /\ s.status \in {"ACTIVE", "BACKOFF", "WAITING_GATE", "ERROR", r.status}
        /\ s.terminal # NULL => s.status = "TERMINAL"
    BY <1>6, SupervisorColumns
  <2>2. r.status \in Statuses /\ r.terminal \in Terminals \cup {NULL}
    BY DEF Row
  <2>3. CASE r.terminal # NULL
    BY <2>1, <2>2, <2>3 DEF DerivePrimaryState, PrimaryStateStatuses, Terminals
  <2>4. CASE r.terminal = NULL
    BY <2>1, <2>2, <2>4 DEF DerivePrimaryState, PrimaryStateStatuses, Statuses
  <2>5. QED
    BY <2>3, <2>4
<1>7. QED
  BY <1>1, <1>2, <1>3, <1>4, <1>5, <1>6 DEF RowStep

\* The variables other than jobs keep their types.
LEMMA NextKeepsRest ==
    ASSUME TypeOK, Next
    PROVE  /\ now' \in Nat /\ created' \in SUBSET Jobs /\ waits' \in SUBSET Wait
           /\ nwaits' \in Nat /\ waitOf' \in [Jobs -> Nat] /\ inflight' \in SUBSET Jobs
<1> USE DEF TypeOK
<1>1. CASE Tick
  BY <1>1 DEF Tick
<1>2. CASE \E w \in waits : CompleteWaitAndRequeue(w)
  BY <1>2 DEF CompleteWaitAndRequeue
<1>3. CASE OnlyJobs
  BY <1>3 DEF OnlyJobs
<1>4. ASSUME NEW t \in 0 .. now, ClaimNothing(t) PROVE OnlyJobs
  BY <1>4, Zenon DEF ClaimNothing
<1>5. ASSUME NEW j \in Jobs, CreateJob(j)
      PROVE  /\ created' \in SUBSET Jobs
             /\ UNCHANGED <<now, waits, nwaits, waitOf, inflight>>
  BY <1>5 DEF CreateJob
<1>6. ASSUME NEW j \in Jobs, UnfencedOp(j)
      PROVE  \/ OnlyJobs
             \/ inflight' \in SUBSET Jobs /\ UNCHANGED <<now, created, waits, nwaits, waitOf>>
  <2>1. CASE BeginApply(j)
    BY <2>1 DEF BeginApply
  <2>2. CASE FinishApply(j)
    BY <2>2 DEF FinishApply
  <2>3. QED
    BY <1>6, <2>1, <2>2, Zenon
       DEF UnfencedOp, QuarantineLost, QuarantineBlocked, EnqueueInitial, EnqueueAuthorized,
           CloseJob, PerformPersistentError
<1>7. ASSUME NEW j \in Jobs, NEW i \in Instances, SupervisorOp(i, j, jobs[j].epoch) PROVE OnlyJobs
  BY <1>7, Zenon DEF SupervisorOp, SupervisorCommit, BackoffDecision, AdapterBackoff, PersistError
<1>8. ASSUME NEW j \in Jobs, NEW i \in Instances, NEW t \in 0 .. now, Acquire(i, j, t)
      PROVE  OnlyJobs
  BY <1>8, Zenon DEF Acquire, ClaimJob, ClaimNextJob, RecoverTakeoverJob
<1>9. ASSUME NEW j \in Jobs, NEW i \in Instances, NEW t \in 0 .. now,
             HolderOp(i, j, jobs[j].epoch, t)
      PROVE  \/ OnlyJobs
             \/ /\ nwaits' \in Nat /\ waits' \in SUBSET Wait /\ waitOf' \in [Jobs -> Nat]
                /\ UNCHANGED <<now, created, inflight>>
  <2>1. CASE TransitionToWaitingExternal(i, j, jobs[j].epoch, t, t + Backoff)
    <3>1. /\ nwaits' = nwaits + 1
          /\ waits' = waits \cup {[id |-> nwaits + 1, job |-> j]}
          /\ waitOf' = [waitOf EXCEPT ![j] = nwaits + 1]
          /\ UNCHANGED <<now, created, inflight>>
      BY <2>1, Zenon DEF TransitionToWaitingExternal
    <3>2. [id |-> nwaits + 1, job |-> j] \in Wait
      BY DEF Wait
    <3>3. QED
      BY <3>1, <3>2
  <2>2. QED
    BY <1>9, <2>1, Zenon
       DEF HolderOp, RenewLease, ReleaseLease, ClearLease, EnqueueHolder,
           CommitRecoveryDecision, BindWriterWorktree, SetJobMetadata
<1>10. CASE \E j \in Jobs : CreateJob(j)
  BY <1>5, <1>10
<1>11. CASE \E j \in Jobs : UnfencedOp(j)
  BY <1>3, <1>6, <1>11
<1>12. CASE \E j \in Jobs, i \in Instances, t \in 0 .. now : HolderOp(i, j, jobs[j].epoch, t)
  BY <1>3, <1>9, <1>12
<1>13. QED
  BY <1>1, <1>2, <1>3, <1>4, <1>7, <1>8, <1>10, <1>11, <1>12, Zenon DEF Next

\* The invariant holds in the empty table.
LEMMA InitInv == Init => Inv
<1>1. NewRow \in Row
  BY DEF NewRow, Row, PrimaryStates, Statuses
<1>2. Consistent(NewRow)
  BY DEF NewRow, Consistent, PrimaryStateStatuses
<1>3. Init => TypeOK
  BY <1>1, TimeAssumption DEF Init, TypeOK
<1>4. Init => ProjectionConsistent
  <2>1. Init => \A j \in Jobs : jobs[j] = NewRow
    BY DEF Init
  <2>2. QED
    BY <1>2, <2>1, Zenon DEF ProjectionConsistent, Consistent
<1>5. QED
  BY <1>3, <1>4 DEF Inv

\* Every step of the store, or of anything that leaves the store alone, keeps it.
LEMMA StepInv == Inv /\ [Next]_storeVars => Inv'
<1> SUFFICES ASSUME Inv, [Next]_storeVars PROVE Inv'
  OBVIOUS
<1>1. CASE Next
  <2>1. jobs' \in [Jobs -> Row] /\ \A k \in Jobs : RowStep(jobs[k], jobs'[k])
    BY <1>1, NextRowStep
  <2>2. TypeOK'
    BY <1>1, <2>1, NextKeepsRest DEF Inv, TypeOK
  <2>3. \A k \in Jobs : Consistent(jobs'[k])
    BY <2>1, InvRows, RowStepKeepsConsistent, Zenon
  <2>4. ProjectionConsistent'
    BY <2>3, Zenon DEF ProjectionConsistent, Consistent
  <2>5. QED
    BY <2>2, <2>4 DEF Inv
<1>2. CASE UNCHANGED storeVars
  BY <1>2, Zenon DEF storeVars, Inv, TypeOK, ProjectionConsistent
<1>3. QED
  BY <1>1, <1>2

\* So it holds in every reachable state.
LEMMA InvCorrect == Spec => []Inv
BY InitInv, StepInv, PTL DEF Spec

\* Every reachable table is well typed.
THEOREM TypeCorrect == Spec => []TypeOK
<1>1. Inv => TypeOK
  BY DEF Inv
<1>2. QED
  BY <1>1, InvCorrect, PTL

\* primary_state, status and terminal agree in every reachable row, whichever
\* operations of whichever instances came before.
THEOREM ProjectionCorrect == Spec => []ProjectionConsistent
<1>1. Inv => ProjectionConsistent
  BY DEF Inv
<1>2. QED
  BY <1>1, InvCorrect, PTL

-----------------------------------------------------------------------------
(* The store: what a step may never do *)

\* Only a grant changes the epoch or brings in an owner.
LEMMA OnlyGrantsLease ==
    ASSUME NEW r \in Row, NEW s, RowStep(r, s), ~GrantStep(r, s)
    PROVE  s.epoch = r.epoch /\ s.owner \in {NULL, r.owner}
<1>1. CASE s = r
  BY <1>1
<1>2. CASE HolderStep(r, s)
  BY <1>2, HolderColumns
<1>3. CASE LeaveStep(r, s)
  BY <1>3, UpdateColumns DEF LeaveStep
<1>4. CASE ReopenStep(r, s)
  BY <1>4, ReopenColumns
<1>5. CASE SupervisorStep(r, s)
  BY <1>5, SupervisorColumns
<1>6. QED
  BY <1>1, <1>2, <1>3, <1>4, <1>5, Zenon DEF RowStep

\* A grant raises the epoch by one, makes the row RUNNING for its new owner, and
\* finds no unexpired lease.
LEMMA GrantFindsFreeJob ==
    ASSUME now \in Nat, NEW r \in Row, NEW s, GrantStep(r, s)
    PROVE  /\ s.epoch = r.epoch + 1 /\ s.ps = "RUNNING" /\ s.owner \in Instances
           /\ r.ps \in {"QUEUED", "RUNNING"}
           /\ r.owner = NULL \/ ~Unexpired(r, now)
<1>1. PICK i \in Instances, t \in Nat :
        /\ t =< now
        /\ \/ Claimable(r, t)
           \/ r.ps = "RUNNING" /\ r.terminal = NULL /\ r.expires # NULL /\ r.expires =< t
        /\ s = Leased(r, i, t)
  BY DEF GrantStep
<1>2. s.epoch = r.epoch + 1 /\ s.ps = "RUNNING" /\ s.owner \in Instances
  BY <1>1, UpdateColumns
<1>3. r.ps \in {"QUEUED", "RUNNING"}
  BY <1>1 DEF Claimable
<1>4. r.expires \in Nat \cup {NULL}
  BY DEF Row
<1>5. r.owner = NULL \/ ~Unexpired(r, now)
  BY <1>1, <1>4 DEF Claimable, Unexpired
<1>6. QED
  BY <1>2, <1>3, <1>5

\* lease_epoch is a fencing token, for any number of instances and any clock lag.
THEOREM EpochFencesCorrect == Spec => EpochFences
<1>1. Inv /\ [Next]_storeVars =>
        [\A j \in Jobs :
            /\ jobs'[j].epoch >= jobs[j].epoch
            /\ jobs'[j].owner \notin {NULL, jobs[j].owner} =>
                jobs'[j].epoch > jobs[j].epoch]_storeVars
  <2> SUFFICES ASSUME Inv, Next, NEW j \in Jobs
               PROVE  /\ jobs'[j].epoch >= jobs[j].epoch
                      /\ jobs'[j].owner \notin {NULL, jobs[j].owner} =>
                          jobs'[j].epoch > jobs[j].epoch
    OBVIOUS
  <2>1. jobs[j] \in Row /\ RowStep(jobs[j], jobs'[j]) /\ now \in Nat
    BY InvRows, NextRowStep DEF Inv, TypeOK
  <2>2. jobs[j].epoch \in Nat
    BY <2>1 DEF Row
  <2>3. QED
    BY <2>1, <2>2, OnlyGrantsLease, GrantFindsFreeJob
<1>2. QED
  BY <1>1, InvCorrect, PTL DEF Spec, EpochFences

\* No instance becomes the owner of a job that another holds under an unexpired
\* lease, however old the clock its call was made with.
THEOREM LeaseHandoverCorrect == Spec => LeaseHandover
<1>1. Inv /\ [Next]_storeVars =>
        [\A j \in Jobs :
            jobs'[j].owner \notin {NULL, jobs[j].owner} =>
                jobs[j].owner = NULL \/ ~Unexpired(jobs[j], now)]_storeVars
  <2> SUFFICES ASSUME Inv, Next, NEW j \in Jobs, jobs'[j].owner \notin {NULL, jobs[j].owner}
               PROVE  jobs[j].owner = NULL \/ ~Unexpired(jobs[j], now)
    OBVIOUS
  <2>1. jobs[j] \in Row /\ RowStep(jobs[j], jobs'[j]) /\ now \in Nat
    BY InvRows, NextRowStep DEF Inv, TypeOK
  <2>2. QED
    BY <2>1, OnlyGrantsLease, GrantFindsFreeJob
<1>2. QED
  BY <1>1, InvCorrect, PTL DEF Spec, LeaseHandover

\* BLOCKED, LOST, OWNER_GATE and WAITING_EXTERNAL jobs are never leased directly.
THEOREM LeaseGrantedFromQueueCorrect == Spec => LeaseGrantedFromQueue
<1>1. Inv /\ [Next]_storeVars =>
        [\A j \in Jobs :
            jobs'[j].epoch # jobs[j].epoch =>
                /\ jobs[j].ps \in {"QUEUED", "RUNNING"}
                /\ jobs'[j].ps = "RUNNING" /\ jobs'[j].owner # NULL]_storeVars
  <2> SUFFICES ASSUME Inv, Next, NEW j \in Jobs, jobs'[j].epoch # jobs[j].epoch
               PROVE  /\ jobs[j].ps \in {"QUEUED", "RUNNING"}
                      /\ jobs'[j].ps = "RUNNING" /\ jobs'[j].owner # NULL
    OBVIOUS
  <2>1. jobs[j] \in Row /\ RowStep(jobs[j], jobs'[j]) /\ now \in Nat
    BY InvRows, NextRowStep DEF Inv, TypeOK
  <2>2. QED
    BY <2>1, OnlyGrantsLease, GrantFindsFreeJob, NullAssumption
<1>2. QED
  BY <1>1, InvCorrect, PTL DEF Spec, LeaseGrantedFromQueue

\* DONE and FAILED are final; BLOCKED ends only by the owner-authorized reopen.
THEOREM TerminalStickyCorrect == Spec => TerminalSticky
<1>1. Inv /\ [Next]_storeVars =>
        [\A j \in Jobs :
            /\ jobs[j].terminal \in {"DONE", "FAILED"} =>
                jobs'[j].terminal = jobs[j].terminal /\ jobs'[j].ps = jobs[j].ps
            /\ jobs[j].terminal = "BLOCKED" =>
                \/ jobs'[j].terminal = "BLOCKED" /\ jobs'[j].ps = "BLOCKED"
                \/ /\ jobs'[j].terminal = NULL /\ jobs'[j].ps = "QUEUED"
                   /\ jobs[j].owner = NULL /\ jobs'[j].owner = NULL]_storeVars
  <2> SUFFICES ASSUME Inv, Next, NEW j \in Jobs
               PROVE  /\ jobs[j].terminal \in {"DONE", "FAILED"} =>
                          jobs'[j].terminal = jobs[j].terminal /\ jobs'[j].ps = jobs[j].ps
                      /\ jobs[j].terminal = "BLOCKED" =>
                          \/ jobs'[j].terminal = "BLOCKED" /\ jobs'[j].ps = "BLOCKED"
                          \/ /\ jobs'[j].terminal = NULL /\ jobs'[j].ps = "QUEUED"
                             /\ jobs[j].owner = NULL /\ jobs'[j].owner = NULL
    OBVIOUS
  <2> DEFINE r == jobs[j]
             s == jobs'[j]
  <2>0. r \in Row /\ Consistent(r) /\ RowStep(r, s)
    BY InvRows, NextRowStep
  <2> HIDE DEF r, s
  <2>1. SUFFICES ASSUME r.terminal # NULL
                 PROVE  \/ s.terminal = r.terminal /\ s.ps = r.ps
                        \/ /\ r.terminal = "BLOCKED" /\ s.terminal = NULL
                           /\ s.ps = "QUEUED" /\ r.owner = NULL /\ s.owner = NULL
    BY <2>0, NullAssumption DEF r, s, Consistent
  <2>2. r.terminal # NULL
    BY <2>1
  <2>3. ~GrantStep(r, s)
    BY <2>0, <2>2, QueuedIsOpen DEF GrantStep, Claimable
  <2>4. CASE HolderStep(r, s)
    BY <2>4, <2>0, HolderColumns
  <2>5. ~LeaveStep(r, s)
    BY <2>2 DEF LeaveStep
  <2>6. CASE ReopenStep(r, s)
    BY <2>6, <2>0, ReopenColumns DEF ReopenStep
  <2>7. CASE SupervisorStep(r, s)
    BY <2>7, <2>0, <2>2, SupervisorColumns DEF DerivePrimaryState, Consistent
  <2>8. CASE s = r
    BY <2>8
  <2>9. QED
    BY <2>0, <2>3, <2>4, <2>5, <2>6, <2>7, <2>8, Zenon DEF RowStep
<1>2. QED
  BY <1>1, InvCorrect, PTL DEF Spec, TerminalSticky

-----------------------------------------------------------------------------
(* The store: one writer per worktree *)

\* Blocking the rows with a missing prerequisite binds nothing: a row stays as it
\* is or leaves the index by becoming terminal.
LEMMA BlockMissingWithdraws ==
    ASSUME TypeOK, NEW V, NEW t, NEW k \in Jobs
    PROVE  BlockMissing(V, t)[k] = jobs[k] \/ BlockMissing(V, t)[k].terminal # NULL
<1>1. QuarantinedBlocked(jobs[k]).terminal = "BLOCKED"
  BY UpdateColumns DEF TypeOK
<1>2. QED
  BY <1>1, NullAssumption DEF BlockMissing

\* The unique index keeps a table without collisions so.
LEMMA TableStepOneWriter ==
    ASSUME TypeOK, OneWriterPerWorktree, TableStep
    PROVE  OneWriterPerWorktree'
<1> SUFFICES ASSUME NEW a \in Jobs, NEW b \in Jobs, a # b
             PROVE  ~Collide(jobs'[a], jobs'[b])
  BY DEF OneWriterPerWorktree, Collide
<1>0. jobs \in [Jobs -> Row] /\ ~Collide(jobs[a], jobs[b])
  BY DEF TypeOK, OneWriterPerWorktree
<1>1. CASE jobs' = jobs
  BY <1>0, <1>1
<1>2. CASE \E j \in Jobs : \E r : RowStep(jobs[j], r) /\ Put(j, r)
  <2>0. PICK j \in Jobs : \E r : Put(j, r)
    BY <1>2
  <2>1. PICK r : Put(j, r)
    BY <2>0
  <2>2. /\ jobs'[j] = r
        /\ \A k \in Jobs \ {j} : jobs'[k] = jobs[k] /\ ~Collide(r, jobs[k])
    BY <1>0, <2>1 DEF Put, SchemaAccepts
  <2>3. QED
    BY <1>0, <2>2 DEF Collide
<1>3. CASE \E i \in Instances, j \in Jobs, t \in 0 .. now : ClaimNextJob(i, j, t)
  <2>1. PICK i \in Instances, j \in Jobs, t \in 0 .. now : ClaimNextJob(i, j, t)
    BY <1>3
  <2> DEFINE r == Leased(jobs[j], i, t)
             f == BlockMissing({k \in Jobs : k < j}, t)
  <2>2. SchemaAccepts(j, r) /\ jobs' = [f EXCEPT ![j] = r]
    BY <2>1 DEF ClaimNextJob
  <2>3. \A k \in Jobs : f[k] = jobs[k] \/ f[k].terminal # NULL
    BY BlockMissingWithdraws
  <2>4. DOMAIN f = Jobs
    BY DEF BlockMissing
  <2> HIDE DEF r, f
  <2>5. jobs'[j] = r /\ \A k \in Jobs \ {j} : jobs'[k] = f[k]
    BY <2>2, <2>4
  <2>6. \A k \in Jobs \ {j} : ~Collide(r, jobs[k])
    BY <2>2 DEF SchemaAccepts
  <2>7. QED
    BY <1>0, <2>3, <2>5, <2>6 DEF Collide
<1>4. CASE \E t \in 0 .. now : ClaimNothing(t)
  <2>1. PICK t \in 0 .. now : jobs' = BlockMissing(Jobs, t)
    BY <1>4 DEF ClaimNothing
  <2>2. \A k \in Jobs : jobs'[k] = jobs[k] \/ jobs'[k].terminal # NULL
    BY <2>1, BlockMissingWithdraws
  <2>3. QED
    BY <1>0, <2>2 DEF Collide
<1>5. QED
  BY <1>1, <1>2, <1>3, <1>4, Zenon DEF TableStep

\* No two nonterminal jobs are BOUND to one path, for any number of jobs and
\* worktrees: bind, metadata, claim, close and reopen all keep the index.
THEOREM OneWriterCorrect == Spec => []OneWriterPerWorktree
<1>1. Init => OneWriterPerWorktree
  BY NullAssumption DEF Init, NewRow, OneWriterPerWorktree, Collide
<1>2. Inv /\ OneWriterPerWorktree /\ [Next]_storeVars => OneWriterPerWorktree'
  <2>1. CASE Next
    BY <2>1, NextTableStep, TableStepOneWriter DEF Inv
  <2>2. CASE UNCHANGED storeVars
    BY <2>2 DEF storeVars, OneWriterPerWorktree, Collide
  <2>3. QED
    BY <2>1, <2>2
<1>3. QED
  BY <1>1, <1>2, InvCorrect, PTL DEF Spec

-----------------------------------------------------------------------------
(* The scheduler: the invariant for any number of service processes *)

Typed(p) == \E listed \in SUBSET Jobs : p \in Pass(listed)

Launching == {"admit", "spawn", "register", "spawned"}

\* Where a pass is at work on a job it claimed, continues or took over.
Working == {"gate", "recover", "reconcile", "spawngate", "perform", "act", "apply", "test",
            "testrecover", "after", "admit", "spawn", "register", "spawned", "requeue",
            "lost", "block", "finish"}

\* A pass and the work W of all jobs: whoever is at work has a job, whoever is about
\* to launch has a dispatch, and from the journal to the end of the launch that
\* dispatch's row is RUNNING.
PassFits(p, W) ==
    /\ p.pc \in Working \cup {"scanlost", "takeover", "quarantine"} => p.job \in Jobs
    /\ p.pc \in {"scanlost", "takeover", "quarantine"} => p.job \in DOMAIN p.rows
    /\ p.pc \in Launching => p.act = "SPAWN"
    /\ p.act = "SPAWN" /\ p.pc \in {"spawngate", "perform", "act"} \cup Launching =>
        p.disp \in 1 .. Len(W[p.job].dispatches)
    /\ p.pc \in Launching => W[p.job].dispatches[p.disp].spawn = "RUNNING"

\* An active dispatch exists, and every process is counted.
WorkFits(w) ==
    /\ w.active => Len(w.dispatches) > 0
    /\ w.alive \subseteq 1 .. w.nproc
    /\ \A d \in 1 .. Len(w.dispatches) : w.dispatches[d].runs \subseteq 1 .. w.nproc

\* Passes i and k are not both at the launcher with one dispatch.
Apart(p, q) ==
    p.pc \in Launching /\ q.pc \in Launching => p.job # q.job \/ p.disp # q.disp

PassesOK ==
    /\ DOMAIN pass = Instances
    /\ \A i \in Instances : Typed(pass[i]) /\ PassFits(pass[i], work)
    /\ \A i, k \in Instances : i # k => Apart(pass[i], pass[k])

WorkOK == work \in [Jobs -> Work] /\ \A j \in Jobs : WorkFits(work[j])

IInv == Inv /\ PassesOK /\ WorkOK /\ exclusive \in BOOLEAN

-----------------------------------------------------------------------------
(* Passes *)

LEMMA GoOnPass ==
    ASSUME DOMAIN pass = Instances, NEW i \in Instances, NEW p, GoOn(i, p)
    PROVE  /\ DOMAIN pass' = Instances
           /\ pass'[i] = p
           /\ \A k \in Instances : k # i => pass'[k] = pass[k]
BY DEF GoOn

\* Every way a pass goes on is a well-typed pass.
LEMMA IdlePass == Idle \in Pass({}) /\ Idle.pc = "idle" /\ Idle.act = "NONE"
<1>1. NoRows \in [{} -> Row]
  BY DEF NoRows
<1>2. QED
  BY <1>1 DEF Idle, Pass, PCs, Acts

LEMMA IdleTyped == Typed(Idle) /\ Idle.pc = "idle" /\ Idle.act = "NONE"
BY IdlePass DEF Typed

LEMMA TurnedTyped ==
    ASSUME NEW p, Typed(p), NEW x \in PCs
    PROVE  LET q == TurnedTo(p, x) IN
           /\ Typed(q)
           /\ q.pc = x /\ q.job = p.job /\ q.epoch = p.epoch /\ q.rows = p.rows
           /\ q.act = p.act /\ q.disp = p.disp
<1>1. PICK S \in SUBSET Jobs : p \in Pass(S)
  BY DEF Typed
<1>2. TurnedTo(p, x) \in Pass(S)
  BY <1>1 DEF Pass, TurnedTo
<1>3. QED
  BY <1>1, <1>2 DEF Typed, Pass, TurnedTo

LEMMA HoldingTyped ==
    ASSUME NEW x \in PCs, NEW j \in Jobs, NEW e \in Nat
    PROVE  LET q == Holding(j, e, x) IN
           Typed(q) /\ q.pc = x /\ q.job = j /\ q.epoch = e /\ q.act = "NONE"
<1>1. Holding(j, e, x) \in Pass({})
  BY IdlePass DEF Pass, Holding
<1>2. QED
  BY <1>1, IdlePass DEF Typed, Pass, Holding

LEMMA ListingPCs == "scan" \in PCs /\ "restart" \in PCs
BY DEF PCs

LEMMA ListingTyped ==
    ASSUME now \in Nat, NEW x \in PCs, NEW S \in SUBSET Jobs, NEW f \in [S -> Row]
    PROVE  LET q == Listing(x, f) IN Typed(q) /\ q.pc = x /\ q.act = "NONE" /\ q.rows = f
<1>1. Listing(x, f) \in Pass(S)
  BY IdlePass DEF Pass, Listing
<1>2. QED
  BY <1>1, IdlePass DEF Typed, Pass, Listing

LEMMA RelistedTyped ==
    ASSUME NEW p, Typed(p), NEW x \in PCs, NEW S \in SUBSET Jobs, NEW f \in [S -> Row]
    PROVE  LET q == Relisted(p, x, f) IN
           Typed(q) /\ q.pc = x /\ q.rows = f /\ q.act = p.act /\ q.job = p.job
<1>1. PICK L \in SUBSET Jobs : p \in Pass(L)
  BY DEF Typed
<1>2. Relisted(p, x, f) \in Pass(S)
  BY <1>1 DEF Pass, Relisted
<1>3. QED
  BY <1>1, <1>2 DEF Typed, Pass, Relisted

LEMMA StoppedTyped ==
    ASSUME NEW p, Typed(p), NEW x \in PCs, NEW j \in Jobs, NEW u \in {"LOST", "BLOCKED"}
    PROVE  /\ LET q == StoppedAt(p, x, j) IN
                Typed(q) /\ q.pc = x /\ q.rows = p.rows /\ q.act = p.act /\ q.job = j
           /\ LET q == Condemning(p, j, u) IN
                Typed(q) /\ q.pc = "quarantine" /\ q.rows = p.rows /\ q.act = p.act /\ q.job = j
<1>1. PICK L \in SUBSET Jobs : p \in Pass(L)
  BY DEF Typed
<1>2. StoppedAt(p, x, j) \in Pass(L)
  BY <1>1 DEF Pass, StoppedAt
<1>3. LET q == StoppedAt(p, x, j) IN
        Typed(q) /\ q.pc = x /\ q.rows = p.rows /\ q.act = p.act /\ q.job = j
  BY <1>1, <1>2 DEF Typed, Pass, StoppedAt
<1>4. Condemning(p, j, u) \in Pass(L)
  BY <1>1 DEF Pass, Condemning, PCs
<1>5. LET q == Condemning(p, j, u) IN
        /\ Typed(q) /\ q.pc = "quarantine" /\ q.rows = p.rows /\ q.act = p.act
        /\ q.job = j
  BY <1>1, <1>4 DEF Typed, Pass, Condemning
<1>6. QED
  BY <1>3, <1>5

LEMMA DecidedTyped ==
    ASSUME NEW p, Typed(p), NEW act \in Acts, NEW b \in BOOLEAN, NEW v \in Nat, NEW d \in Nat
    PROVE  LET q == Decided(p, act, b, v, d) IN
           Typed(q) /\ q.pc = Stage(act) /\ q.job = p.job /\ q.act = act /\ q.disp = d
<1>1. PICK L \in SUBSET Jobs : p \in Pass(L)
  BY DEF Typed
<1>2. Stage(act) \in PCs
  BY DEF Stage, PCs
<1>3. Decided(p, act, b, v, d) \in Pass(L)
  BY <1>1, <1>2 DEF Pass, Decided
<1>4. QED
  BY <1>1, <1>2, <1>3 DEF Typed, Pass, Decided

LEMMA SpawnedTyped ==
    ASSUME NEW p, Typed(p), NEW n \in Nat
    PROVE  LET q == [TurnedTo(p, "register") EXCEPT !.pid = n] IN
           /\ Typed(q) /\ q.pc = "register" /\ q.job = p.job /\ q.act = p.act
           /\ q.disp = p.disp
<1>1. /\ Typed(TurnedTo(p, "register"))
      /\ TurnedTo(p, "register").pc = "register" /\ TurnedTo(p, "register").job = p.job
      /\ TurnedTo(p, "register").act = p.act /\ TurnedTo(p, "register").disp = p.disp
  BY TurnedTyped DEF PCs
<1>2. PICK L \in SUBSET Jobs : TurnedTo(p, "register") \in Pass(L)
  BY <1>1 DEF Typed
<1>3. [TurnedTo(p, "register") EXCEPT !.pid = n] \in Pass(L)
  BY <1>2 DEF Pass
<1>4. QED
  BY <1>1, <1>2, <1>3 DEF Typed, Pass

\* The rows a scan has still to visit.
LEMMA RowsTyped ==
    ASSUME NEW p, Typed(p)
    PROVE  /\ DOMAIN p.rows \subseteq Jobs
           /\ \A k \in DOMAIN p.rows : p.rows[k] \in Row
           /\ p.rows \in [DOMAIN p.rows -> Row]
           /\ p.epoch \in Nat /\ p.at \in Nat /\ p.pc \in PCs
BY DEF Typed, Pass

-----------------------------------------------------------------------------
(* Every step is a step of the store *)

LEMMA CallsAreSteps ==
    ASSUME NEW i \in Instances, NEW j \in Jobs
    PROVE  /\ \A t \in 0 .. now : Acquire(i, j, t) => Next
           /\ \A t \in 0 .. now : HolderOp(i, j, jobs[j].epoch, t) => Next
           /\ SupervisorOp(i, j, jobs[j].epoch) => Next
           /\ UnfencedOp(j) => Next
BY Zenon DEF Next

\* A fence that passes compares with the row's own epoch.
LEMMA FenceAtEpoch ==
    ASSUME NEW r, NEW i, NEW e, NEW t
    PROVE  /\ HoldsLease(r, i, e, t) => e = r.epoch
           /\ LeaseFence(r, i, e, t) => LeaseFence(r, i, r.epoch, t)
BY DEF LeaseFence, HoldsLease

LEMMA JobAtWork ==
    ASSUME IInv, NEW i \in Instances,
           pass[i].pc \in Working \cup {"scanlost", "takeover", "quarantine"}
    PROVE  pass[i].job \in Jobs
BY DEF IInv, PassesOK, PassFits

\* _resolve_target and reconcile_after_restart.
LEMMA TargetStoreSteps ==
    ASSUME IInv, NEW i \in Instances,
           \/ StartClaim(i) \/ StartScan(i) \/ ScanContinue(i) \/ ScanVerdict(i) \/ ScanLost(i)
           \/ TakeOver(i) \/ ScanEnd(i)
           \/ Restart(i) \/ RestartRow(i) \/ RestartQuarantine(i) \/ RestartEnd(i)
    PROVE  Next \/ SameStore
<1>1. CASE StartClaim(i)
  BY <1>1, CallsAreSteps, Zenon DEF StartClaim, Acquire
<1>2. CASE StartScan(i)
  BY <1>2, Zenon DEF StartScan, Next
<1>3. CASE ScanLost(i)
  <2>1. pass[i].job \in Jobs
    BY <1>3, JobAtWork DEF ScanLost, At
  <2>2. QuarantineLost(pass[i].job) \/ SameStore
    BY <1>3, Zenon DEF ScanLost
  <2>3. QED
    BY <2>1, <2>2, CallsAreSteps, Zenon DEF UnfencedOp
<1>4. CASE TakeOver(i)
  <2>1. pass[i].job \in Jobs
    BY <1>4, JobAtWork DEF TakeOver, At
  <2>2. PICK t \in 0 .. now, v \in WorktreeVerdicts(JobOf(i)) :
            RecoverTakeoverJob(i, pass[i].job, t, v) \/ SameStore
    BY <1>4, Zenon DEF TakeOver
  <2>3. v \in Verdicts
    BY <2>2 DEF WorktreeVerdicts, Verdicts
  <2>4. QED
    BY <2>1, <2>2, <2>3, CallsAreSteps, Zenon DEF Acquire
<1>5. CASE RestartQuarantine(i)
  <2>1. pass[i].job \in Jobs
    BY <1>5, JobAtWork DEF RestartQuarantine, At
  <2>2. QuarantineLost(pass[i].job) \/ QuarantineBlocked(pass[i].job) \/ SameStore
    BY <1>5, Zenon DEF RestartQuarantine
  <2>3. QED
    BY <2>1, <2>2, CallsAreSteps, Zenon DEF UnfencedOp
<1>6. CASE \/ ScanContinue(i) \/ ScanVerdict(i) \/ ScanEnd(i)
           \/ Restart(i) \/ RestartRow(i) \/ RestartEnd(i)
  BY <1>6, Zenon DEF ScanContinue, ScanVerdict, ScanEnd, Restart, RestartRow, RestartEnd
<1>7. QED
  BY <1>1, <1>2, <1>3, <1>4, <1>5, <1>6

\* Gates, recovery, reconcile and the end of a pass.
LEMMA GateStoreSteps ==
    ASSUME IInv, NEW i \in Instances,
           \/ GateAllow(i) \/ GateDefer(i) \/ GateBlock(i) \/ StopRequested(i)
           \/ Requeue(i) \/ Lose(i) \/ Block(i) \/ Recover(i) \/ RecoverNothing(i)
           \/ Reconcile(i) \/ ReconcileContention(i) \/ ReconcileFenced(i) \/ Finish(i)
    PROVE  Next \/ SameStore
<1>1. CASE Requeue(i)
  <2>1. pass[i].job \in Jobs
    BY <1>1, JobAtWork DEF Requeue, At, Working
  <2>2. PICK t \in 0 .. now, s \in RequeueStatuses :
            \/ /\ HoldsLease(JobOf(i), i, pass[i].epoch, t)
               /\ EnqueueHolder(i, pass[i].job, pass[i].epoch, t, s, t + Backoff)
            \/ SameStore
    BY <1>1, Zenon DEF Requeue
  <2>3. EnqueueHolder(i, pass[i].job, pass[i].epoch, t, s, t + Backoff)
            => HolderOp(i, pass[i].job, pass[i].epoch, t)
    BY <2>2, Zenon DEF HolderOp
  <2>4. QED
    BY <2>1, <2>2, <2>3, CallsAreSteps, FenceAtEpoch, Zenon DEF JobOf
<1>2. CASE Lose(i) \/ Block(i)
  <2>1. pass[i].job \in Jobs
    BY <1>2, JobAtWork DEF Lose, Block, At, Working
  <2>2. QuarantineLost(pass[i].job) \/ QuarantineBlocked(pass[i].job) \/ SameStore
    BY <1>2, Zenon DEF Lose, Block
  <2>3. QED
    BY <2>1, <2>2, CallsAreSteps, Zenon DEF UnfencedOp
<1>3. CASE Recover(i)
  <2>1. pass[i].job \in Jobs
    BY <1>3, JobAtWork DEF Recover, Working
  <2>2. PICK t \in 0 .. now, d \in RecoveryDecisions :
            CommitRecoveryDecision(i, pass[i].job, pass[i].epoch, t, d, t + Backoff)
    BY <1>3, Zenon DEF Recover
  <2>3. pass[i].epoch = jobs[pass[i].job].epoch
    BY <2>2, FenceAtEpoch, Zenon DEF CommitRecoveryDecision
  <2>4. HolderOp(i, pass[i].job, pass[i].epoch, t)
    BY <2>2, Zenon DEF HolderOp
  <2>5. QED
    BY <2>1, <2>2, <2>3, <2>4, CallsAreSteps, Zenon
<1>4. CASE Reconcile(i) \/ ReconcileContention(i)
  <2>1. pass[i].job \in Jobs
    BY <1>4, JobAtWork DEF Reconcile, ReconcileContention, At, Working
  <2>2. \/ \E p \in Plans : SupervisorCommit(i, pass[i].job, pass[i].epoch, p, now + Backoff)
        \/ BackoffDecision(i, pass[i].job, pass[i].epoch, now + Backoff)
    <3>1. \A a \in Acts : PlansFor(a) \subseteq Plans
      BY DEF Acts, PlansFor, Plans
    <3>2. QED
      BY <1>4, <3>1, Zenon DEF Reconcile, ReconcileContention
  <2>3. SupervisorOp(i, pass[i].job, jobs[pass[i].job].epoch)
    BY <2>2, FenceAtEpoch, Zenon DEF SupervisorOp, SupervisorCommit, BackoffDecision
  <2>4. QED
    BY <2>1, <2>3, CallsAreSteps, Zenon
<1>5. CASE Finish(i)
  <2>1. pass[i].job \in Jobs
    BY <1>5, JobAtWork DEF Finish, At, Working
  <2>2. PICK t \in 0 .. now :
            \/ RenewLease(i, pass[i].job, JobOf(i).epoch, t)
            \/ ClearLease(i, pass[i].job, JobOf(i).epoch, t)
            \/ SameStore
    BY <1>5, Zenon DEF Finish
  <2>3. QED
    BY <2>1, <2>2, CallsAreSteps, Zenon DEF HolderOp, JobOf
<1>6. CASE \/ GateAllow(i) \/ GateDefer(i) \/ GateBlock(i) \/ StopRequested(i)
           \/ RecoverNothing(i) \/ ReconcileFenced(i)
  BY <1>6, Zenon
     DEF GateAllow, GateDefer, GateBlock, StopRequested, RecoverNothing, ReconcileFenced, Fenced
<1>7. QED
  BY <1>1, <1>2, <1>3, <1>4, <1>5, <1>6

\* The handlers.
LEMMA HandlerStoreSteps ==
    ASSUME IInv, NEW i \in Instances,
           \/ Perform(i) \/ ActFenced(i) \/ ActStep(i) \/ After(i) \/ AfterRefused(i)
           \/ ActError(i) \/ ActErrorRefused(i) \/ ActClose(i) \/ ActCreate(i) \/ ActUnroutable(i)
           \/ ActConsume(i) \/ ActTest(i) \/ TestEnds(i)
           \/ ActApply(i) \/ ApplyBind(i) \/ ApplyFinish(i)
    PROVE  Next \/ SameStore
<1>1. CASE After(i) \/ ActUnroutable(i)
  <2>1. pass[i].job \in Jobs
    BY <1>1, JobAtWork DEF After, ActUnroutable, At, Working
  <2>2. \/ BackoffDecision(i, pass[i].job, pass[i].epoch, now + Backoff)
        \/ AdapterBackoff(i, pass[i].job, pass[i].epoch, now + Backoff)
        \/ PersistError(i, pass[i].job, pass[i].epoch)
        \/ CloseJob(pass[i].job, "BLOCKED")
    BY <1>1, Zenon DEF After, ActUnroutable
  <2>3. CASE CloseJob(pass[i].job, "BLOCKED")
    BY <2>1, <2>3, CallsAreSteps DEF UnfencedOp, Terminals
  <2>4. CASE ~CloseJob(pass[i].job, "BLOCKED")
    BY <2>1, <2>2, <2>4, FenceAtEpoch, CallsAreSteps, Zenon
       DEF SupervisorOp, BackoffDecision, AdapterBackoff, PersistError
  <2>5. QED
    BY <2>3, <2>4
<1>2. CASE ActError(i)
  <2>1. pass[i].job \in Jobs
    BY <1>2, JobAtWork DEF ActError, At, Working
  <2>2. QED
    BY <1>2, <2>1, CallsAreSteps, Zenon DEF ActError, UnfencedOp
<1>3. CASE ActClose(i)
  <2>1. pass[i].job \in Jobs
    BY <1>3, JobAtWork DEF ActClose, At, Working
  <2>2. TerminalOf(pass[i].act) \in Terminals
    BY DEF TerminalOf, Terminals
  <2>3. CloseJob(pass[i].job, TerminalOf(pass[i].act)) \/ SameStore
    BY <1>3, Zenon DEF ActClose
  <2>4. QED
    BY <2>1, <2>2, <2>3, CallsAreSteps, Zenon DEF UnfencedOp
<1>4. CASE ActApply(i) \/ ApplyFinish(i)
  <2>1. pass[i].job \in Jobs
    BY <1>4, JobAtWork DEF ActApply, ApplyFinish, At, Working
  <2>2. QED
    BY <1>4, <2>1, CallsAreSteps, Zenon DEF ActApply, ApplyFinish, UnfencedOp
<1>5. CASE ApplyBind(i)
  <2>1. pass[i].job \in Jobs
    BY <1>5, JobAtWork DEF ApplyBind, At, Working
  <2>2. PICK t \in 0 .. now, w \in Worktrees :
            BindWriterWorktree(i, pass[i].job, pass[i].epoch, t, w)
    BY <1>5, Zenon DEF ApplyBind
  <2>3. pass[i].epoch = jobs[pass[i].job].epoch
    BY <2>2, FenceAtEpoch, Zenon DEF BindWriterWorktree
  <2>4. HolderOp(i, pass[i].job, pass[i].epoch, t)
    BY <2>2, Zenon DEF HolderOp
  <2>5. QED
    BY <2>1, <2>2, <2>3, <2>4, CallsAreSteps, Zenon
<1>6. CASE \/ Perform(i) \/ ActFenced(i) \/ ActStep(i) \/ AfterRefused(i) \/ ActErrorRefused(i)
           \/ ActCreate(i) \/ ActConsume(i) \/ ActTest(i) \/ TestEnds(i)
  BY <1>6, Zenon
     DEF Perform, ActFenced, ActStep, AfterRefused, ActErrorRefused, ActCreate, ActConsume,
         ActTest, TestEnds, Fenced
<1>7. QED
  BY <1>1, <1>2, <1>3, <1>4, <1>5, <1>6

\* The launch, the crash and everyone else.
LEMMA OtherStoreSteps ==
    ASSUME IInv, NEW i \in Instances,
           \/ ActSpawn(i) \/ ActSpawnRefused(i) \/ SpawnRefused(i) \/ SpawnRecheck(i)
           \/ SpawnRecheckFails(i) \/ Spawn(i) \/ SpawnFails(i) \/ Register(i) \/ Spawned(i)
           \/ Crash(i) \/ EnterWait(i)
    PROVE  Next \/ SameStore
<1>1. CASE EnterWait(i)
  <2>1. PICK j \in Jobs, t \in 0 .. now :
            TransitionToWaitingExternal(i, j, jobs[j].epoch, t, t + Backoff)
    BY <1>1, Zenon DEF EnterWait
  <2>2. QED
    BY <2>1, CallsAreSteps, Zenon DEF HolderOp
<1>2. CASE ~EnterWait(i)
  BY <1>2, Zenon DEF ActSpawn, ActSpawnRefused, SpawnRefused, SpawnRecheck, SpawnRecheckFails,
     Spawn, SpawnFails, Register, Spawned, Crash
<1>3. QED
  BY <1>1, <1>2

LEMMA EveryoneElseStoreSteps ==
    ASSUME IInv, Owner \/ CompleteWait \/ AgentExit \/ Clock
    PROVE  Next \/ SameStore
<1>1. CASE Owner
  <2>1. PICK j \in Jobs : CreateJob(j) \/ EnqueueAuthorized(j, "WAITING_RUN", 0)
    BY <1>1, Zenon DEF Owner
  <2>2. EnqueueAuthorized(j, "WAITING_RUN", 0) => UnfencedOp(j)
    BY <2>1 DEF UnfencedOp, RequeueStatuses
  <2>3. QED
    BY <2>1, <2>2, Zenon DEF Next
<1>2. CASE CompleteWait \/ AgentExit \/ Clock
  BY <1>2, Zenon DEF CompleteWait, AgentExit, Clock, Next
<1>3. QED
  BY <1>1, <1>2

LEMMA StoreSteps ==
    ASSUME IInv, SchedNext
    PROVE  Next \/ SameStore
BY TargetStoreSteps, GateStoreSteps, HandlerStoreSteps, OtherStoreSteps, EveryoneElseStoreSteps,
   Zenon DEF SchedNext, PassStep

\* The store's invariant and its types after a step.
LEMMA StepKeepsStore ==
    ASSUME IInv, SchedNext
    PROVE  Inv' /\ jobs' \in [Jobs -> Row]
<1>1. [Next]_storeVars
  BY StoreSteps DEF SameStore
<1>2. Inv'
  BY <1>1, StepInv DEF IInv
<1>3. QED
  BY <1>2 DEF Inv, TypeOK

-----------------------------------------------------------------------------
(* The work of a job *)

\* x has all dispatches of w, and those outside D that were RUNNING still are.
Extends(w, x, D) ==
    /\ Len(x.dispatches) >= Len(w.dispatches)
    /\ \A c \in 1 .. Len(w.dispatches) :
        c \notin D /\ w.dispatches[c].spawn = "RUNNING" => x.dispatches[c].spawn = "RUNNING"

SpawnStates == {"ABSENT", "RUNNING", "FAILED", "SUCCEEDED"}

LEMMA WorkFields ==
    ASSUME NEW w \in Work
    PROVE  /\ w.dispatches \in Seq(Dispatch) /\ Len(w.dispatches) \in Nat
           /\ DOMAIN w.dispatches = 1 .. Len(w.dispatches)
           /\ \A d \in 1 .. Len(w.dispatches) :
                /\ w.dispatches[d] \in Dispatch
                /\ w.dispatches[d].spawn \in SpawnStates
                /\ w.dispatches[d].runs \in SUBSET Nat
           /\ w.active \in BOOLEAN /\ w.nproc \in Nat /\ w.alive \in SUBSET Nat
<1>1. /\ w.dispatches \in Seq(Dispatch)
      /\ w.active \in BOOLEAN /\ w.nproc \in Nat /\ w.alive \in SUBSET Nat
  BY DEF Work
<1>2. /\ Len(w.dispatches) \in Nat /\ DOMAIN w.dispatches = 1 .. Len(w.dispatches)
      /\ \A d \in 1 .. Len(w.dispatches) : w.dispatches[d] \in Dispatch
  BY <1>1
<1>3. \A y \in Dispatch : y.spawn \in SpawnStates /\ y.runs \in SUBSET Nat
  BY DEF Dispatch, SpawnStates
<1>4. QED
  BY <1>1, <1>2, <1>3

\* A sequence with one element replaced.
LEMMA ReplacedSeq ==
    ASSUME NEW S, NEW s \in Seq(S), NEW d \in 1 .. Len(s), NEW x \in S
    PROVE  LET t == [s EXCEPT ![d] = x] IN
           /\ t \in Seq(S) /\ Len(t) = Len(s) /\ t[d] = x
           /\ \A c \in 1 .. Len(s) : c # d => t[c] = s[c]
OBVIOUS

LEMMA NoWorkFits == NoWork \in Work /\ WorkFits(NoWork)
<1>1. NoWork \in Work
  BY DEF NoWork, Work
<1>2. QED
  BY <1>1 DEF NoWork, WorkFits

LEMMA JournalledWork ==
    ASSUME NEW w \in Work, WorkFits(w), NEW d \in 1 .. Len(w.dispatches), NEW s \in SpawnStates
    PROVE  LET x == Journalled(w, d, s) IN
           /\ x \in Work /\ WorkFits(x)
           /\ Len(x.dispatches) = Len(w.dispatches)
           /\ x.dispatches[d].spawn = s /\ x.dispatches[d].runs = w.dispatches[d].runs
           /\ \A c \in 1 .. Len(w.dispatches) : c # d => x.dispatches[c] = w.dispatches[c]
           /\ x.nproc = w.nproc
<1> DEFINE y == [w.dispatches[d] EXCEPT !.spawn = s]
           ds == [w.dispatches EXCEPT ![d] = y]
           x == Journalled(w, d, s)
<1>1. w.dispatches \in Seq(Dispatch) /\ w.dispatches[d] \in Dispatch
  BY WorkFields
<1>2. y \in Dispatch /\ y.spawn = s /\ y.runs = w.dispatches[d].runs
  BY <1>1 DEF Dispatch, SpawnStates
<1> HIDE DEF y
<1>3. /\ ds \in Seq(Dispatch) /\ Len(ds) = Len(w.dispatches) /\ ds[d] = y
      /\ \A c \in 1 .. Len(w.dispatches) : c # d => ds[c] = w.dispatches[c]
  BY <1>1, <1>2, ReplacedSeq
<1>4. x = [w EXCEPT !.dispatches = ds]
  BY DEF x, ds, y, Journalled
<1> HIDE DEF ds, x
<1>5. /\ x \in Work /\ x.dispatches = ds /\ x.active = w.active /\ x.nproc = w.nproc
      /\ x.alive = w.alive
  BY <1>3, <1>4 DEF Work
<1>6. WorkFits(x)
  <2>1. \A c \in 1 .. Len(w.dispatches) : ds[c].runs = w.dispatches[c].runs
    BY <1>2, <1>3
  <2>2. QED
    BY <1>3, <1>5, <2>1 DEF WorkFits
<1>7. QED
  BY <1>2, <1>3, <1>5, <1>6 DEF x

LEMMA LaunchedWork ==
    ASSUME NEW w \in Work, WorkFits(w), NEW d \in 1 .. Len(w.dispatches)
    PROVE  LET x == Launched(w, d) IN
           /\ x \in Work /\ WorkFits(x)
           /\ Len(x.dispatches) = Len(w.dispatches)
           /\ x.dispatches[d].spawn = w.dispatches[d].spawn
           /\ x.dispatches[d].runs = w.dispatches[d].runs \cup {w.nproc + 1}
           /\ \A c \in 1 .. Len(w.dispatches) : c # d => x.dispatches[c] = w.dispatches[c]
<1> DEFINE n == w.nproc + 1
           y == [w.dispatches[d] EXCEPT !.runs = @ \cup {n}]
           ds == [w.dispatches EXCEPT ![d] = y]
           x == Launched(w, d)
<1>1. w.dispatches \in Seq(Dispatch) /\ w.dispatches[d] \in Dispatch /\ n \in Nat
  BY WorkFields
<1>2. /\ y \in Dispatch /\ y.spawn = w.dispatches[d].spawn
      /\ y.runs = w.dispatches[d].runs \cup {n}
  <2> HIDE DEF n
  <2>1. QED
    BY <1>1 DEF Dispatch
<1>3. ds = WithRun(w.dispatches, d, n)
  BY DEF WithRun
<1> HIDE DEF y
<1>4. /\ ds \in Seq(Dispatch) /\ Len(ds) = Len(w.dispatches) /\ ds[d] = y
      /\ \A c \in 1 .. Len(w.dispatches) : c # d => ds[c] = w.dispatches[c]
  BY <1>1, <1>2, ReplacedSeq
<1> HIDE DEF ds
<1>5. x = [w EXCEPT !.nproc = n, !.alive = w.alive \cup {n}, !.dispatches = ds]
  BY <1>3 DEF x, Launched, Work
<1> HIDE DEF x
<1>6. /\ x \in Work /\ x.dispatches = ds /\ x.active = w.active /\ x.nproc = n
      /\ x.alive = w.alive \cup {n}
  <2> HIDE DEF n
  <2>1. QED
    BY <1>1, <1>4, <1>5 DEF Work
<1>7. WorkFits(x)
  <2>1. w.nproc \in Nat /\ 1 .. w.nproc \subseteq 1 .. n /\ n \in 1 .. n
    BY WorkFields
  <2>2. \A c \in 1 .. Len(w.dispatches) : ds[c].runs \subseteq 1 .. n
    <3> HIDE DEF n
    <3>1. QED
      BY <1>2, <1>4, <2>1 DEF WorkFits
  <2> HIDE DEF n
  <2>3. QED
    BY <1>4, <1>6, <2>1, <2>2 DEF WorkFits
<1>8. QED
  BY <1>2, <1>4, <1>6, <1>7 DEF x

LEMMA NewDispatchWork ==
    ASSUME NEW w \in Work, WorkFits(w)
    PROVE  LET x == WithNewDispatch(w) IN
           /\ x \in Work /\ WorkFits(x)
           /\ Len(x.dispatches) = Len(w.dispatches) + 1
           /\ x.dispatches[Len(x.dispatches)] = NewDispatch
           /\ \A c \in 1 .. Len(w.dispatches) : x.dispatches[c] = w.dispatches[c]
<1> DEFINE ds == Append(w.dispatches, NewDispatch)
           x == WithNewDispatch(w)
<1>1. w.dispatches \in Seq(Dispatch) /\ NewDispatch \in Dispatch /\ NewDispatch.runs = {}
  BY WorkFields DEF NewDispatch, Dispatch
<1>2. /\ ds \in Seq(Dispatch) /\ Len(ds) = Len(w.dispatches) + 1
      /\ ds[Len(ds)] = NewDispatch
      /\ \A c \in 1 .. Len(w.dispatches) : ds[c] = w.dispatches[c]
  BY <1>1
<1>3. x = [w EXCEPT !.dispatches = ds, !.active = TRUE, !.evid = "none"]
  BY DEF WithNewDispatch
<1> HIDE DEF ds, x
<1>4. /\ x \in Work /\ x.dispatches = ds /\ x.nproc = w.nproc /\ x.alive = w.alive
  BY <1>2, <1>3 DEF Work
<1>5. WorkFits(x)
  <2>1. Len(w.dispatches) \in Nat
    BY WorkFields
  <2>2. ASSUME NEW c \in 1 .. Len(ds)
        PROVE  ds[c].runs \subseteq 1 .. w.nproc
    <3>1. CASE c = Len(ds)
      <4>1. ds[c].runs = {}
        BY <1>1, <1>2, <3>1
      <4>2. QED
        BY <4>1
    <3>2. CASE c # Len(ds)
      <4>1. c \in 1 .. Len(w.dispatches)
        BY <1>2, <2>1, <3>2
      <4>2. ds[c] = w.dispatches[c]
        BY <1>2, <4>1
      <4>3. w.dispatches[c].runs \subseteq 1 .. w.nproc
        BY <4>1 DEF WorkFits
      <4>4. QED
        BY <4>2, <4>3
    <3>3. QED
      BY <3>1, <3>2
  <2>3. QED
    BY <1>2, <1>4, <2>1, <2>2 DEF WorkFits
<1>6. QED
  BY <1>2, <1>4, <1>5 DEF x

\* What leaves the dispatches alone keeps everything the invariant says of a job.
LEMMA SameDispatches ==
    ASSUME NEW w \in Work, WorkFits(w), NEW x \in Work,
           x.dispatches = w.dispatches, x.nproc = w.nproc, x.alive \subseteq w.alive,
           x.active => w.active
    PROVE  WorkFits(x) /\ Extends(w, x, {})
BY WorkFields DEF WorkFits, Extends

-----------------------------------------------------------------------------
(* Types and the launcher: every step keeps them *)

\* A pass goes on and no work is done.
LEMMA Stay ==
    ASSUME IInv, NEW i \in Instances, NEW p, GoOn(i, p), UNCHANGED work,
           Typed(p), PassFits(p, work),
           p.pc \in Launching =>
            pass[i].pc \in Launching /\ p.job = pass[i].job /\ p.disp = pass[i].disp
    PROVE  PassesOK' /\ WorkOK'
<1>1. /\ DOMAIN pass' = Instances /\ pass'[i] = p
      /\ \A k \in Instances : k # i => pass'[k] = pass[k]
  BY GoOnPass DEF IInv, PassesOK
<1>2. \A k \in Instances : Typed(pass'[k]) /\ PassFits(pass'[k], work)
  BY <1>1 DEF IInv, PassesOK
<1>3. \A k, l \in Instances : k # l => Apart(pass'[k], pass'[l])
  BY <1>1 DEF IInv, PassesOK, Apart
<1>4. PassesOK'
  BY <1>1, <1>2, <1>3, Zenon DEF PassesOK, Typed, PassFits, Apart
<1>5. QED
  BY <1>4, Zenon DEF IInv, WorkOK, WorkFits

\* The pass ends.
LEMMA EndFits ==
    ASSUME IInv, NEW i \in Instances, EndPass(i), UNCHANGED work
    PROVE  PassesOK' /\ WorkOK'
<1>1. PassFits(Idle, work) /\ Idle.pc \notin Launching
  BY IdleTyped DEF PassFits, Working, Launching
<1>2. QED
  BY <1>1, IdleTyped, Stay DEF EndPass

\* The pass goes on at x with the job and the decision it has.
LEMMA TurnFits ==
    ASSUME IInv, NEW i \in Instances, NEW x \in Working, Goto(i, x), UNCHANGED work,
           pass[i].pc \in Working,
           x \in {"spawngate", "perform", "act"} =>
            pass[i].pc \in {"spawngate", "perform", "act"} \/ pass[i].act # "SPAWN",
           x \in Launching => pass[i].pc \in Launching
    PROVE  PassesOK' /\ WorkOK'
<1> DEFINE q == TurnedTo(pass[i], x)
<1>1. Typed(pass[i]) /\ PassFits(pass[i], work)
  BY DEF IInv, PassesOK
<1>2. x \in PCs
  BY DEF Working, PCs
<1>3. /\ Typed(q) /\ q.pc = x /\ q.job = pass[i].job /\ q.act = pass[i].act
      /\ q.disp = pass[i].disp
  BY <1>1, <1>2, TurnedTyped
<1> HIDE DEF q
<1>4. PassFits(q, work)
  BY <1>1, <1>3 DEF PassFits, Launching, Working
<1>5. GoOn(i, q)
  BY DEF Goto, q
<1>6. QED
  BY <1>3, <1>4, <1>5, Stay

\* The pass goes on with p and its job's work becomes x; D are the dispatches whose
\* journal rows may have been RUNNING and are no longer.
LEMMA WorkFitsOn ==
    ASSUME IInv, NEW i \in Instances, NEW p, NEW x \in Work, NEW D,
           GoOn(i, p), SetWork(i, x), pass[i].pc \in Working, Typed(p),
           WorkFits(x), Extends(WorkOf(i), x, D),
           PassFits(p, [work EXCEPT ![pass[i].job] = x]),
           D = {} \/ (pass[i].pc \in Launching /\ D = {pass[i].disp}),
           p.pc \in Launching =>
            /\ p.job = pass[i].job /\ p.disp = pass[i].disp
            /\ \/ pass[i].pc \in Launching
               \/ /\ pass[i].disp \in 1 .. Len(WorkOf(i).dispatches)
                  /\ WorkOf(i).dispatches[pass[i].disp].spawn # "RUNNING"
    PROVE  PassesOK' /\ WorkOK'
<1> DEFINE j == pass[i].job
           W == [work EXCEPT ![j] = x]
<1>1. /\ DOMAIN pass' = Instances /\ pass'[i] = p
      /\ \A k \in Instances : k # i => pass'[k] = pass[k]
  BY GoOnPass DEF IInv, PassesOK
<1>2. j \in Jobs
  BY JobAtWork
<1>3. work' = W /\ work \in [Jobs -> Work]
  BY DEF SetWork, IInv, WorkOK
<1>4. W \in [Jobs -> Work] /\ W[j] = x /\ \A k \in Jobs : k # j => W[k] = work[k]
  BY <1>2, <1>3
<1> HIDE DEF W
<1>5. WorkOK'
  <2>1. \A k \in Jobs : WorkFits(W[k])
    BY <1>4 DEF IInv, WorkOK
  <2>2. QED
    BY <1>3, <1>4, <2>1, Zenon DEF WorkOK, WorkFits
<1>6. \A k \in Instances : k # i =>
        Typed(pass[k]) /\ PassFits(pass[k], work) /\ Apart(pass[i], pass[k])
  BY Zenon DEF IInv, PassesOK
<1>7. ASSUME NEW k \in Instances, k # i PROVE PassFits(pass[k], W)
  <2>1. PassFits(pass[k], work) /\ Apart(pass[i], pass[k])
    BY <1>6, <1>7
  <2>2. CASE pass[k].job # j \/ pass[k].pc \notin Working
    BY <1>4, <2>1, <2>2 DEF PassFits, Launching, Working
  <2>3. CASE pass[k].job = j /\ pass[k].pc \in Working
    <3>1. Extends(work[j], x, D) /\ W[j] = x
      BY <1>4 DEF WorkOf
    <3>2. Len(work[j].dispatches) \in Nat /\ Len(x.dispatches) \in Nat
      BY <1>2, <1>3, WorkFields
    <3>3. pass[k].pc \in Launching => pass[k].disp \notin D
      BY <2>1, <2>3 DEF Apart
    <3>4. pass[k].act = "SPAWN" /\ pass[k].pc \in {"spawngate", "perform", "act"} \cup Launching
            => pass[k].disp \in 1 .. Len(work[j].dispatches)
      BY <2>1, <2>3, Zenon DEF PassFits
    <3>5. pass[k].act = "SPAWN" /\ pass[k].pc \in {"spawngate", "perform", "act"} \cup Launching
            => pass[k].disp \in 1 .. Len(x.dispatches)
      BY <3>1, <3>2, <3>4 DEF Extends
    <3>6. pass[k].pc \in Launching => x.dispatches[pass[k].disp].spawn = "RUNNING"
      BY <2>1, <2>3, <3>1, <3>3, <3>4 DEF Extends, PassFits
    <3>7. QED
      BY <2>1, <2>3, <3>1, <3>5, <3>6 DEF PassFits
  <2>4. QED
    BY <2>2, <2>3
<1>8. ASSUME NEW k \in Instances, k # i PROVE Apart(p, pass[k]) /\ Apart(pass[k], p)
  <2>1. PassFits(pass[k], work) /\ Apart(pass[i], pass[k])
    BY <1>6, <1>8
  <2>2. QED
    BY <2>1 DEF PassFits, Apart, WorkOf
<1>9. PassesOK'
  <2>1. \A k \in Instances : Typed(pass'[k]) /\ PassFits(pass'[k], W)
    BY <1>1, <1>6, <1>7 DEF W
  <2>2. \A k, l \in Instances : k # l => Apart(pass'[k], pass'[l])
    BY <1>1, <1>8, Zenon DEF IInv, PassesOK
  <2>3. QED
    BY <1>1, <1>3, <2>1, <2>2, Zenon DEF PassesOK, Typed, PassFits, Apart
<1>10. QED
  BY <1>5, <1>9

\* A scan's list goes on.
LEMMA RowsAfterTyped ==
    ASSUME NEW i \in Instances, Typed(pass[i]), NEW j
    PROVE  /\ RowsAfter(i, j) \in [{k \in DOMAIN pass[i].rows : k > j} -> Row]
           /\ {k \in DOMAIN pass[i].rows : k > j} \in SUBSET Jobs
           /\ \A k \in DOMAIN RowsAfter(i, j) :
                k \in DOMAIN pass[i].rows /\ RowsAfter(i, j)[k] = pass[i].rows[k]
BY RowsTyped DEF RowsAfter

\* A pass that lists.
LEMMA ListFits ==
    ASSUME IInv, NEW i \in Instances, NEW p, GoOn(i, p), UNCHANGED work, Typed(p),
           p.pc \in {"scan", "restart", "dead", "off"}
    PROVE  PassesOK' /\ WorkOK'
<1>1. PassFits(p, work) /\ p.pc \notin Launching
  BY DEF PassFits, Working, Launching
<1>2. QED
  BY <1>1, Stay

\* A pass takes up job j.
LEMMA HoldFits ==
    ASSUME IInv, NEW i \in Instances, NEW j \in Jobs, NEW e \in Nat, NEW x \in {"gate", "recover"},
           Hold(i, j, e, x), UNCHANGED work
    PROVE  PassesOK' /\ WorkOK'
<1> DEFINE q == Holding(j, e, x)
<1>1. Typed(q) /\ q.pc = x /\ q.job = j /\ q.act = "NONE"
  BY HoldingTyped DEF PCs
<1>2. GoOn(i, q)
  BY DEF Hold
<1> HIDE DEF q
<1>3. PassFits(q, work) /\ q.pc \notin Launching
  BY <1>1 DEF PassFits, Working, Launching
<1>4. QED
  BY <1>1, <1>2, <1>3, Stay

LEMMA RowEpoch ==
    ASSUME IInv, NEW j \in Jobs
    PROVE  jobs[j] \in Row /\ jobs[j].epoch \in Nat /\ jobs[j].fv \in Nat
BY DEF IInv, Inv, TypeOK, Row

\* The rest of the list.
LEMMA RelistFits ==
    ASSUME IInv, NEW i \in Instances, NEW x \in {"scan", "restart"},
           NEW S \in SUBSET Jobs, NEW f \in [S -> Row],
           GoOn(i, Relisted(pass[i], x, f)), UNCHANGED work
    PROVE  PassesOK' /\ WorkOK'
<1>1. Typed(pass[i]) /\ x \in PCs
  BY DEF IInv, PassesOK, PCs
<1>2. Typed(Relisted(pass[i], x, f)) /\ Relisted(pass[i], x, f).pc = x
  BY <1>1, RelistedTyped
<1>3. QED
  BY <1>2, ListFits

LEMMA NextListFits ==
    ASSUME IInv, NEW i \in Instances, NEW x \in {"scan", "restart"}, NEW j,
           GoOn(i, Relisted(pass[i], x, RowsAfter(i, j))), UNCHANGED work
    PROVE  PassesOK' /\ WorkOK'
<1>1. Typed(pass[i])
  BY DEF IInv, PassesOK
<1>2. QED
  BY <1>1, RowsAfterTyped, RelistFits

\* The scan stops at a listed job.
LEMMA StopFits ==
    ASSUME IInv, NEW i \in Instances, NEW x \in {"scanlost", "takeover"},
           NEW j \in DOMAIN pass[i].rows, NEW u \in {"LOST", "BLOCKED"}, UNCHANGED work,
           \/ GoOn(i, StoppedAt(pass[i], x, j))
           \/ GoOn(i, Condemning(pass[i], j, u))
    PROVE  PassesOK' /\ WorkOK'
<1>1. Typed(pass[i]) /\ x \in PCs /\ j \in Jobs
  BY RowsTyped DEF IInv, PassesOK, PCs
<1>2. PICK q : /\ GoOn(i, q) /\ Typed(q)
               /\ q.pc \in {x, "quarantine"} /\ q.rows = pass[i].rows /\ q.job = j
  <2> DEFINE y == StoppedAt(pass[i], x, j)
             z == Condemning(pass[i], j, u)
  <2>1. /\ Typed(y) /\ y.pc = x /\ y.rows = pass[i].rows /\ y.job = j
        /\ Typed(z) /\ z.pc = "quarantine" /\ z.rows = pass[i].rows /\ z.job = j
    BY <1>1, StoppedTyped
  <2>2. GoOn(i, y) \/ GoOn(i, z)
    OBVIOUS
  <2> HIDE DEF y, z
  <2>3. QED
    BY <2>1, <2>2
<1>3. PassFits(q, work) /\ q.pc \notin Launching
  BY <1>1, <1>2 DEF PassFits, Working, Launching
<1>4. QED
  BY <1>2, <1>3, Stay

LEMMA TargetFits ==
    ASSUME IInv, SchedNext, NEW i \in Instances,
           \/ StartClaim(i) \/ StartScan(i) \/ ScanContinue(i) \/ ScanVerdict(i) \/ ScanLost(i)
           \/ TakeOver(i) \/ ScanEnd(i)
           \/ Restart(i) \/ RestartRow(i) \/ RestartQuarantine(i) \/ RestartEnd(i)
    PROVE  PassesOK' /\ WorkOK'
<1>0. Typed(pass[i]) /\ created \subseteq Jobs /\ now \in Nat /\ jobs \in [Jobs -> Row]
  BY DEF IInv, PassesOK, Inv, TypeOK
<1>1. CASE StartClaim(i)
  <2>1. PICK j \in Jobs : Hold(i, j, jobs[j].epoch + 1, "gate") /\ UNCHANGED work
    BY <1>1, Zenon DEF StartClaim
  <2>2. jobs[j].epoch + 1 \in Nat
    BY RowEpoch
  <2>3. QED
    BY <2>1, <2>2, HoldFits
<1>2. CASE StartScan(i)
  <2> DEFINE S == {k \in created : jobs'[k].terminal = NULL}
             f == [j \in S |-> jobs'[j]]
  <2>1. GoOn(i, Listing("scan", f)) /\ UNCHANGED work
    BY <1>2, Zenon DEF StartScan
  <2>2. S \in SUBSET Jobs /\ f \in [S -> Row]
    BY <1>0, StepKeepsStore
  <2> HIDE DEF S, f
  <2>3. Typed(Listing("scan", f)) /\ Listing("scan", f).pc = "scan"
    <3>1. now \in Nat
      BY <1>0
    <3>2. QED
      BY <2>2, <3>1, ListingTyped, ListingPCs
  <2>4. QED
    BY <2>1, <2>3, ListFits
<1>3. CASE ScanContinue(i)
  <2>1. PICK j \in Jobs : /\ NextRow(i, j) /\ Hold(i, j, pass[i].rows[j].epoch, "recover")
                          /\ UNCHANGED work
    BY <1>3, Zenon DEF ScanContinue
  <2>2. pass[i].rows[j] \in Row
    BY <1>0, <2>1, RowsTyped DEF NextRow
  <2>3. pass[i].rows[j].epoch \in Nat
    BY <2>2 DEF Row
  <2>4. QED
    BY <2>1, <2>3, HoldFits
<1>4. CASE ScanVerdict(i)
  <2>1. PICK j \in Jobs :
            /\ j \in DOMAIN pass[i].rows /\ UNCHANGED work
            /\ \/ GoOn(i, Relisted(pass[i], "scan", RowsAfter(i, j)))
               \/ GoOn(i, StoppedAt(pass[i], "scanlost", j))
               \/ GoOn(i, StoppedAt(pass[i], "takeover", j))
    BY <1>4 DEF ScanVerdict, NextRow
  <2>2. QED
    BY <2>1, NextListFits, StopFits
<1>5. CASE ScanLost(i) \/ TakeOver(i)
  <2>1. UNCHANGED work
    BY <1>5, Zenon DEF ScanLost, TakeOver
  <2>2. CASE ScanOn(i)
    BY <2>1, <2>2, NextListFits DEF ScanOn
  <2>3. CASE ~ScanOn(i)
    <3>1. Hold(i, pass[i].job, JobOf(i).epoch + 1, "gate")
      BY <1>5, <2>3, Zenon DEF ScanLost, TakeOver
    <3>2. pass[i].job \in Jobs
      BY <1>5, JobAtWork DEF ScanLost, TakeOver, At
    <3>3. JobOf(i).epoch + 1 \in Nat
      BY <3>2, RowEpoch DEF JobOf
    <3>4. QED
      BY <2>1, <3>1, <3>2, <3>3, HoldFits
  <2>4. QED
    BY <2>2, <2>3
<1>6. CASE ScanEnd(i) \/ RestartEnd(i)
  BY <1>6, EndFits, Zenon DEF ScanEnd, RestartEnd
<1>7. CASE Restart(i)
  <2> DEFINE S == {k \in created : jobs[k].ps = "RUNNING"}
             f == [j \in S |-> jobs[j]]
  <2>1. GoOn(i, Listing("restart", f)) /\ UNCHANGED work
    BY <1>7, Zenon DEF Restart
  <2>2. S \in SUBSET Jobs /\ f \in [S -> Row]
    BY <1>0
  <2> HIDE DEF S, f
  <2>3. Typed(Listing("restart", f)) /\ Listing("restart", f).pc = "restart"
    BY <1>0, <2>2, ListingTyped, ListingPCs
  <2>4. QED
    BY <2>1, <2>3, ListFits
<1>8. CASE RestartRow(i)
  <2>1. PICK j \in DOMAIN pass[i].rows, to \in {"LOST", "BLOCKED", "keep"} :
            /\ UNCHANGED work
            /\ GoOn(i, IF to = "keep" THEN Relisted(pass[i], "restart", RowsAfter(i, j))
                       ELSE Condemning(pass[i], j, to))
    BY <1>8, Zenon DEF RestartRow
  <2>2. CASE to = "keep"
    BY <2>1, <2>2, NextListFits
  <2>3. CASE to # "keep"
    <3>1. GoOn(i, Condemning(pass[i], j, to))
      BY <2>1, <2>3, Zenon
    <3>2. to \in {"LOST", "BLOCKED"}
      BY <2>3
    <3>3. QED
      BY <2>1, <3>1, <3>2, StopFits
  <2>4. QED
    BY <2>2, <2>3
<1>9. CASE RestartQuarantine(i)
  <2> DEFINE f == [pass[i].rows EXCEPT ![pass[i].job] = jobs[pass[i].job]]
  <2>1. /\ UNCHANGED work
        /\ \/ GoOn(i, Relisted(pass[i], "restart", f))
           \/ GoOn(i, Relisted(pass[i], "restart", RowsAfter(i, pass[i].job)))
    BY <1>9 DEF RestartQuarantine
  <2>2. pass[i].job \in Jobs
    BY <1>9, JobAtWork DEF RestartQuarantine, At
  <2>3. f \in [DOMAIN pass[i].rows -> Row] /\ DOMAIN pass[i].rows \in SUBSET Jobs
    BY <1>0, <2>2, RowsTyped
  <2>4. QED
    BY <2>1, <2>3, RelistFits, NextListFits
<1>10. QED
  BY <1>1, <1>2, <1>3, <1>4, <1>5, <1>6, <1>7, <1>8, <1>9

\* A decision: only an ABSENT journal row of an active dispatch is planned to launch.
LEMMA DecideFits ==
    ASSUME IInv, NEW i \in Instances, pass[i].pc \in Working, UNCHANGED work,
           NEW act \in Acts, NEW b \in BOOLEAN, NEW v \in Nat, Plannable(WorkOf(i), act),
           Decide(i, act, b, v)
    PROVE  PassesOK' /\ WorkOK'
<1> DEFINE d == Len(WorkOf(i).dispatches)
           q == Decided(pass[i], act, b, v, d)
<1>1. Typed(pass[i]) /\ pass[i].job \in Jobs
  BY JobAtWork DEF IInv, PassesOK
<1>2. WorkOf(i) \in Work /\ WorkFits(WorkOf(i))
  BY <1>1 DEF WorkOf, IInv, WorkOK
<1>3. d \in Nat
  BY <1>2, WorkFields
<1>4. act = "SPAWN" => d \in 1 .. d
  BY <1>2, <1>3 DEF Plannable, WorkFits
<1>5. GoOn(i, q)
  BY DEF Decide
<1>6. d = Len(work[pass[i].job].dispatches)
  BY DEF WorkOf
<1> HIDE DEF d
<1>7. Typed(q) /\ q.pc = Stage(act) /\ q.job = pass[i].job /\ q.act = act /\ q.disp = d
  BY <1>1, <1>3, DecidedTyped
<1>8. Stage(act) \in {"finish", "spawngate", "perform"}
  BY DEF Stage
<1> HIDE DEF q
<1>9. PassFits(q, work) /\ q.pc \notin Launching
  <2>1. q.disp \in Nat /\ q.pc \notin Launching
    BY <1>3, <1>7, <1>8 DEF Launching
  <2>2. q.act = "SPAWN" => q.disp \in 1 .. Len(work[q.job].dispatches)
    BY <1>4, <1>6, <1>7
  <2>3. QED
    BY <1>1, <1>7, <1>8, <2>1, <2>2 DEF PassFits
<1>10. QED
  BY <1>5, <1>7, <1>9, Stay

LEMMA GateFits ==
    ASSUME IInv, SchedNext, NEW i \in Instances,
           \/ GateAllow(i) \/ GateDefer(i) \/ GateBlock(i) \/ StopRequested(i)
           \/ Requeue(i) \/ Lose(i) \/ Block(i) \/ Recover(i) \/ RecoverNothing(i)
           \/ Reconcile(i) \/ ReconcileContention(i) \/ ReconcileFenced(i) \/ Finish(i)
    PROVE  PassesOK' /\ WorkOK'
<1>1. CASE GateAllow(i) \/ GateDefer(i) \/ GateBlock(i)
  <2>1. PICK x \in {"recover", "perform", "requeue", "block"} :
            /\ Goto(i, x) /\ pass[i].pc \in {"gate", "spawngate"}
            /\ x = "perform" => pass[i].pc = "spawngate"
            /\ UNCHANGED work
    BY <1>1 DEF GateAllow, GateDefer, GateBlock, At
  <2>2. QED
    BY <2>1, TurnFits DEF Working, Launching
<1>2. CASE StopRequested(i) \/ Requeue(i) \/ Lose(i) \/ Block(i) \/ ReconcileFenced(i) \/ Finish(i)
  BY <1>2, EndFits, Zenon DEF StopRequested, Requeue, Lose, Block, ReconcileFenced, Fenced, Finish
<1>3. CASE Recover(i)
  <2> DEFINE w == WorkOf(i)
             x == [w EXCEPT !.evid = "consumed"]
  <2>1. SetWork(i, x) /\ EndPass(i) /\ pass[i].pc \in Working
    BY <1>3 DEF Recover, Working
  <2>2. pass[i].job \in Jobs
    BY <2>1, JobAtWork
  <2>3. w \in Work /\ WorkFits(w)
    BY <2>2 DEF WorkOf, IInv, WorkOK
  <2>4. /\ x \in Work /\ x.dispatches = w.dispatches /\ x.nproc = w.nproc
        /\ x.alive = w.alive /\ x.active = w.active
    BY <2>3 DEF Work
  <2>5. WorkFits(x) /\ Extends(w, x, {})
    BY <2>3, <2>4, SameDispatches
  <2> HIDE DEF w, x
  <2>6. PassFits(Idle, [work EXCEPT ![pass[i].job] = x]) /\ Idle.pc \notin Launching
    BY IdleTyped DEF PassFits, Working, Launching
  <2>7. QED
    BY <2>1, <2>4, <2>5, <2>6, IdleTyped, WorkFitsOn DEF EndPass, w
<1>4. CASE RecoverNothing(i)
  <2>1. CASE EndPass(i)
    BY <1>4, <2>1, EndFits, Zenon DEF RecoverNothing
  <2>2. CASE ~EndPass(i)
    <3>1. Goto(i, "reconcile") /\ UNCHANGED work /\ pass[i].pc \in Working
      BY <1>4, <2>2 DEF RecoverNothing, Working
    <3>2. QED
      BY <3>1, TurnFits DEF Working, Launching
  <2>3. QED
    BY <2>1, <2>2
<1>5. CASE Reconcile(i) \/ ReconcileContention(i)
  <2>1. pass[i].pc \in Working
    BY <1>5 DEF Reconcile, ReconcileContention, At, Working
  <2>2. PICK act \in Acts, b \in BOOLEAN : Decide(i, act, b, JobOf(i).fv + 1)
                /\ Plannable(WorkOf(i), act) /\ UNCHANGED work
    <3>1. Plannable(WorkOf(i), "WAIT") /\ "WAIT" \in Acts
      BY DEF Plannable, Acts
    <3>2. (JobOf(i).owner # NULL) \in BOOLEAN
      OBVIOUS
    <3>3. QED
      BY <1>5, <3>1, <3>2, Zenon DEF Reconcile, ReconcileContention
  <2>3. JobOf(i).fv + 1 \in Nat
    BY <2>1, JobAtWork, RowEpoch DEF JobOf
  <2>4. QED
    BY <2>1, <2>2, <2>3, DecideFits
<1>6. QED
  BY <1>1, <1>2, <1>3, <1>4, <1>5

LEMMA HandlerFits ==
    ASSUME IInv, SchedNext, NEW i \in Instances,
           \/ Perform(i) \/ ActFenced(i) \/ ActStep(i) \/ After(i) \/ AfterRefused(i)
           \/ ActError(i) \/ ActErrorRefused(i) \/ ActClose(i) \/ ActCreate(i) \/ ActUnroutable(i)
           \/ ActConsume(i) \/ ActTest(i) \/ TestEnds(i)
           \/ ActApply(i) \/ ApplyBind(i) \/ ApplyFinish(i)
    PROVE  PassesOK' /\ WorkOK'
<1>0. ASSUME pass[i].pc \in Working
      PROVE  /\ pass[i].job \in Jobs /\ Typed(pass[i]) /\ PassFits(pass[i], work)
             /\ WorkOf(i) \in Work /\ WorkFits(WorkOf(i))
  BY <1>0, JobAtWork DEF WorkOf, IInv, WorkOK, PassesOK
<1>1. CASE EndPass(i) /\ UNCHANGED work
  BY <1>1, EndFits
<1>2. CASE \E x \in {"act", "finish", "after", "test", "requeue", "apply"} :
            /\ Goto(i, x) /\ UNCHANGED work
            /\ pass[i].pc \in {"perform", "act", "after", "apply"}
            /\ x = "act" => pass[i].pc = "perform"
  <2>1. PICK x \in {"act", "finish", "after", "test", "requeue", "apply"} :
            /\ Goto(i, x) /\ UNCHANGED work
            /\ pass[i].pc \in {"perform", "act", "after", "apply"}
            /\ x = "act" => pass[i].pc = "perform"
    BY <1>2
  <2>2. QED
    BY <2>1, TurnFits DEF Working, Launching
<1>3. CASE ActCreate(i) \/ ActConsume(i)
  <2>1. pass[i].pc = "act" /\ Goto(i, "finish") /\ pass[i].pc \in Working
    BY <1>3 DEF ActCreate, ActConsume, At, Working
  <2>2. CASE UNCHANGED work
    BY <1>2, <2>1, <2>2
  <2>3. CASE ~UNCHANGED work
    <3> DEFINE w == WorkOf(i)
               q == TurnedTo(pass[i], "finish")
    <3>1. PICK x : SetWork(i, x) /\ (x = WithNewDispatch(w) \/ x = [w EXCEPT !.active = FALSE])
      BY <1>3, <2>3, Zenon DEF ActCreate, ActConsume
    <3>2. x \in Work /\ WorkFits(x) /\ Extends(w, x, {})
      <4>1. CASE x = WithNewDispatch(w)
        <5>1. Len(w.dispatches) \in Nat
          BY <1>0, <2>1, WorkFields
        <5>2. /\ x \in Work /\ WorkFits(x) /\ Len(x.dispatches) = Len(w.dispatches) + 1
              /\ \A c \in 1 .. Len(w.dispatches) : x.dispatches[c] = w.dispatches[c]
          BY <1>0, <2>1, <4>1, NewDispatchWork
        <5> HIDE DEF w
        <5>3. QED
          BY <5>1, <5>2 DEF Extends
      <4>2. CASE x = [w EXCEPT !.active = FALSE]
        <5>1. /\ x \in Work /\ x.dispatches = w.dispatches /\ x.nproc = w.nproc
              /\ x.alive = w.alive /\ x.active = FALSE
          BY <1>0, <2>1, <4>2 DEF Work
        <5>2. QED
          BY <1>0, <2>1, <5>1, SameDispatches
      <4>3. QED
        BY <3>1, <4>1, <4>2
    <3>3. Typed(q) /\ q.pc = "finish" /\ q.job = pass[i].job
      BY <1>0, <2>1, TurnedTyped DEF PCs
    <3>4. GoOn(i, q)
      BY <2>1 DEF Goto
    <3> HIDE DEF q
    <3>5. PassFits(q, [work EXCEPT ![pass[i].job] = x]) /\ q.pc \notin Launching
      BY <1>0, <2>1, <3>3 DEF PassFits, Working, Launching
    <3>6. QED
      BY <2>1, <3>1, <3>2, <3>3, <3>4, <3>5, WorkFitsOn
  <2>4. QED
    BY <2>2, <2>3
<1>4. CASE TestEnds(i)
  <2> DEFINE w == WorkOf(i)
  <2>1. pass[i].pc = "test" /\ pass[i].pc \in Working
    BY <1>4 DEF TestEnds, At, Working
  <2>2. PICK e \in {"resource", w.evid} :
            /\ SetWork(i, Tested(w, e))
            /\ Goto(i, "testrecover") \/ Goto(i, "finish") \/ EndPass(i)
    BY <1>4 DEF TestEnds
  <2>3. w.evid \in {"none", "resource", "consumed"}
    BY <1>0, <2>1 DEF Work
  <2> DEFINE x == Tested(w, e)
  <2>4. /\ x \in Work /\ x.dispatches = w.dispatches /\ x.nproc = w.nproc
        /\ x.alive = w.alive /\ x.active = w.active
    BY <1>0, <2>1, <2>3 DEF Work, Tested
  <2>5. WorkFits(x) /\ Extends(w, x, {})
    BY <1>0, <2>1, <2>4, SameDispatches
  <2> HIDE DEF w, x
  <2>6. PICK q : /\ GoOn(i, q) /\ Typed(q) /\ q.pc \in {"testrecover", "finish", "idle"}
                 /\ q.pc # "idle" => q.job = pass[i].job
    <3>1. CASE EndPass(i)
      BY <3>1, IdleTyped DEF EndPass
    <3>2. ASSUME NEW y \in {"testrecover", "finish"}, Goto(i, y)
          PROVE  GoOn(i, TurnedTo(pass[i], y)) /\ Typed(TurnedTo(pass[i], y))
                 /\ TurnedTo(pass[i], y).pc = y /\ TurnedTo(pass[i], y).job = pass[i].job
      <4>1. y \in PCs
        BY DEF PCs
      <4>2. QED
        BY <1>0, <2>1, <3>2, <4>1, TurnedTyped DEF Goto
    <3>3. QED
      BY <2>2, <3>1, <3>2
  <2>7. PassFits(q, [work EXCEPT ![pass[i].job] = x]) /\ q.pc \notin Launching
    BY <1>0, <2>1, <2>6 DEF PassFits, Working, Launching
  <2>8. QED
    BY <2>1, <2>2, <2>4, <2>5, <2>6, <2>7, WorkFitsOn DEF w, x
<1>5. CASE ApplyBind(i)
  <2>1. UNCHANGED pass /\ UNCHANGED work
    BY <1>5, Zenon DEF ApplyBind
  <2>2. QED
    BY <2>1, Zenon DEF IInv, PassesOK, WorkOK, Typed, PassFits, Apart, WorkFits
<1>6. CASE \/ Perform(i) \/ ActFenced(i) \/ ActStep(i) \/ After(i) \/ AfterRefused(i)
           \/ ActError(i) \/ ActErrorRefused(i) \/ ActClose(i) \/ ActUnroutable(i)
           \/ ActTest(i) \/ ActApply(i) \/ ApplyFinish(i)
  <2>1. \/ EndPass(i) /\ UNCHANGED work
        \/ \E x \in {"act", "finish", "after", "test", "requeue", "apply"} :
            /\ Goto(i, x) /\ UNCHANGED work
            /\ pass[i].pc \in {"perform", "act", "after", "apply"}
            /\ x = "act" => pass[i].pc = "perform"
    BY <1>6 DEF Perform, ActFenced, ActStep, After, AfterRefused, ActError, ActErrorRefused,
                ActClose, ActUnroutable, ActTest, ActApply, ApplyFinish, Fenced, At
  <2>2. QED
    BY <1>1, <1>2, <2>1
<1>7. QED
  BY <1>3, <1>4, <1>5, <1>6

\* A step of the launch: the journal row of the pass's own dispatch is written, the
\* agent is launched, or both.
LEMMA LaunchFits ==
    ASSUME IInv, NEW i \in Instances, NEW p, NEW x \in Work, Typed(p), WorkFits(x),
           GoOn(i, p), SetWork(i, x), pass[i].pc \in Working, pass[i].act = "SPAWN",
           pass[i].disp \in 1 .. Len(WorkOf(i).dispatches),
           Len(x.dispatches) = Len(WorkOf(i).dispatches),
           \A c \in 1 .. Len(WorkOf(i).dispatches) : c # pass[i].disp =>
                x.dispatches[c].spawn = WorkOf(i).dispatches[c].spawn,
           \/ pass[i].pc \in Launching
           \/ WorkOf(i).dispatches[pass[i].disp].spawn # "RUNNING",
           \/ p.pc \in {"requeue", "block", "finish", "lost"} /\ p.job = pass[i].job
           \/ p.pc = "idle"
           \/ /\ p.pc \in Launching
              /\ p.job = pass[i].job /\ p.disp = pass[i].disp /\ p.act = pass[i].act
              /\ x.dispatches[pass[i].disp].spawn = "RUNNING"
    PROVE  PassesOK' /\ WorkOK'
<1> DEFINE w == WorkOf(i)
           d == pass[i].disp
           D == IF pass[i].pc \in Launching THEN {d} ELSE {}
           W == [work EXCEPT ![pass[i].job] = x]
<1>1. pass[i].job \in Jobs
  BY JobAtWork
<1>2. W[pass[i].job] = x
  BY <1>1 DEF IInv, WorkOK
<1>3. Len(w.dispatches) \in Nat
  BY <1>1, WorkFields DEF WorkOf, IInv, WorkOK
<1>4. Extends(w, x, D)
  BY <1>3 DEF Extends
<1> HIDE DEF W
<1>5. PassFits(p, W)
  BY <1>1, <1>2 DEF PassFits, Working, Launching
<1>6. QED
  BY <1>4, <1>5, WorkFitsOn DEF W, Launching

\* Facts about a pass that is to launch.
LEMMA LauncherFacts ==
    ASSUME IInv, NEW i \in Instances,
           pass[i].pc = "act" \/ pass[i].pc \in Launching,
           pass[i].act = "SPAWN" \/ pass[i].pc \in Launching
    PROVE  /\ pass[i].pc \in Working /\ pass[i].act = "SPAWN" /\ pass[i].job \in Jobs
           /\ Typed(pass[i])
           /\ WorkOf(i) \in Work /\ WorkFits(WorkOf(i))
           /\ pass[i].disp \in 1 .. Len(WorkOf(i).dispatches)
           /\ WorkOf(i).dispatches[pass[i].disp].spawn \in SpawnStates
           /\ pass[i].pc \in Launching => WorkOf(i).dispatches[pass[i].disp].spawn = "RUNNING"
<1>1. pass[i].pc \in Working /\ PassFits(pass[i], work) /\ Typed(pass[i])
  BY DEF Working, Launching, IInv, PassesOK
<1>2. pass[i].job \in Jobs
  BY <1>1, JobAtWork
<1>3. WorkOf(i) \in Work /\ WorkFits(WorkOf(i))
  BY <1>2 DEF WorkOf, IInv, WorkOK
<1>4. pass[i].act = "SPAWN" /\ pass[i].disp \in 1 .. Len(WorkOf(i).dispatches)
  BY <1>1 DEF PassFits, WorkOf
<1>5. QED
  BY <1>1, <1>2, <1>3, <1>4, WorkFields DEF PassFits, WorkOf

\* The journal row is written and the pass turns to y.
LEMMA JournalFits ==
    ASSUME IInv, NEW i \in Instances, NEW s \in SpawnStates,
           NEW y \in {"admit", "requeue", "block", "finish"},
           pass[i].pc = "act" \/ pass[i].pc \in Launching,
           pass[i].act = "SPAWN" \/ pass[i].pc \in Launching,
           pass[i].pc = "act" => SpawnRow(i) # "RUNNING",
           y = "admit" => s = "RUNNING",
           Journal(i, WorkOf(i), s), Goto(i, y)
    PROVE  PassesOK' /\ WorkOK'
<1> DEFINE w == WorkOf(i)
           d == pass[i].disp
           x == Journalled(w, d, s)
           q == TurnedTo(pass[i], y)
<1>1. /\ pass[i].pc \in Working /\ pass[i].act = "SPAWN" /\ Typed(pass[i])
      /\ w \in Work /\ WorkFits(w) /\ d \in 1 .. Len(w.dispatches)
  BY LauncherFacts
<1>2. y \in PCs
  BY DEF PCs
<1>3. /\ x \in Work /\ WorkFits(x) /\ Len(x.dispatches) = Len(w.dispatches)
      /\ x.dispatches[d].spawn = s
      /\ \A c \in 1 .. Len(w.dispatches) : c # d => x.dispatches[c] = w.dispatches[c]
  BY <1>1, JournalledWork
<1>4. /\ Typed(q) /\ q.pc = y /\ q.job = pass[i].job /\ q.disp = d /\ q.act = pass[i].act
  BY <1>1, <1>2, TurnedTyped
<1>5. GoOn(i, q) /\ SetWork(i, x) /\ (pass[i].pc = "act" => w.dispatches[d].spawn # "RUNNING")
  BY DEF Goto, Journal, SpawnRow
<1> HIDE DEF x, q
<1>6. QED
  BY <1>1, <1>3, <1>4, <1>5, LaunchFits DEF Launching

LEMMA SpawnFits ==
    ASSUME IInv, SchedNext, NEW i \in Instances,
           \/ ActSpawn(i) \/ ActSpawnRefused(i) \/ SpawnRefused(i) \/ SpawnRecheck(i)
           \/ SpawnRecheckFails(i) \/ Spawn(i) \/ SpawnFails(i) \/ Register(i) \/ Spawned(i)
    PROVE  PassesOK' /\ WorkOK'
<1> DEFINE w == WorkOf(i)
           d == pass[i].disp
<1>1. CASE ActSpawn(i)
  BY <1>1, JournalFits DEF ActSpawn, At, SpawnStates
<1>2. CASE SpawnRefused(i) \/ SpawnRecheckFails(i) \/ Spawned(i)
  BY <1>2, JournalFits DEF SpawnRefused, SpawnRecheckFails, Spawned, At, SpawnStates, Launching
<1>3. CASE ActSpawnRefused(i) \/ SpawnRecheck(i)
  <2>1. PICK y \in {"finish", "after", "spawn"} :
            /\ Goto(i, y) /\ UNCHANGED work /\ pass[i].pc \in {"act", "admit"}
            /\ y = "spawn" => pass[i].pc = "admit"
    BY <1>3 DEF ActSpawnRefused, SpawnRecheck, At
  <2>2. QED
    BY <2>1, TurnFits DEF Working, Launching
<1>4. CASE Spawn(i) \/ SpawnFails(i)
  <2> DEFINE x == Launched(w, d)
  <2>1. pass[i].pc = "spawn" /\ pass[i].pc \in Launching
    BY <1>4 DEF Spawn, SpawnFails, At, Launching
  <2>2. /\ pass[i].pc \in Working /\ pass[i].act = "SPAWN" /\ Typed(pass[i])
        /\ w \in Work /\ WorkFits(w) /\ d \in 1 .. Len(w.dispatches)
        /\ w.dispatches[d].spawn = "RUNNING"
    BY <2>1, LauncherFacts
  <2>3. /\ x \in Work /\ WorkFits(x)
        /\ Len(x.dispatches) = Len(w.dispatches)
        /\ x.dispatches[d].spawn = "RUNNING"
        /\ \A c \in 1 .. Len(w.dispatches) : c # d => x.dispatches[c] = w.dispatches[c]
    BY <2>2, LaunchedWork
  <2>4. CASE Spawn(i)
    <3> DEFINE q == [TurnedTo(pass[i], "register") EXCEPT !.pid = w.nproc + 1]
    <3>1. GoOn(i, q) /\ SetWork(i, x)
      BY <2>4 DEF Spawn
    <3>2. w.nproc + 1 \in Nat
      BY <2>2, WorkFields
    <3>3. /\ Typed(q) /\ q.pc = "register" /\ q.job = pass[i].job /\ q.disp = pass[i].disp
          /\ q.act = pass[i].act
      BY <2>2, <3>2, SpawnedTyped
    <3> HIDE DEF q, x
    <3>4. QED
      BY <2>1, <2>2, <2>3, <3>1, <3>3, LaunchFits DEF Launching
  <2>5. CASE SpawnFails(i)
    <3>1. PICK v \in {w, x} :
            \/ Journal(i, v, "FAILED") /\ \E y \in {"lost", "requeue", "finish"} : Goto(i, y)
            \/ SetWork(i, v) /\ EndPass(i)
      BY <2>5 DEF SpawnFails
    <3> HIDE DEF x
    <3>2. /\ v \in Work /\ WorkFits(v) /\ Len(v.dispatches) = Len(w.dispatches)
          /\ \A c \in 1 .. Len(w.dispatches) : c # d =>
                v.dispatches[c].spawn = w.dispatches[c].spawn
      BY <2>2, <2>3
    <3> DEFINE z == Journalled(v, d, "FAILED")
    <3>3. CASE SetWork(i, v) /\ EndPass(i)
      BY <2>1, <2>2, <3>2, <3>3, IdleTyped, LaunchFits DEF EndPass
    <3>4. CASE Journal(i, v, "FAILED") /\ \E y \in {"lost", "requeue", "finish"} : Goto(i, y)
      <4>1. "FAILED" \in SpawnStates /\ d \in 1 .. Len(v.dispatches)
        BY <2>2, <3>2 DEF SpawnStates
      <4>2. /\ z \in Work /\ WorkFits(z) /\ Len(z.dispatches) = Len(v.dispatches)
            /\ \A c \in 1 .. Len(v.dispatches) : c # d => z.dispatches[c] = v.dispatches[c]
        BY <3>2, <4>1, JournalledWork
      <4>3. SetWork(i, z)
        BY <3>4 DEF Journal
      <4>4. PICK y \in {"lost", "requeue", "finish"} : Goto(i, y)
        BY <3>4
      <4>5. y \in PCs
        BY DEF PCs
      <4> DEFINE q == TurnedTo(pass[i], y)
      <4>6. Typed(q) /\ q.pc = y /\ q.job = pass[i].job /\ GoOn(i, q)
        BY <2>2, <4>4, <4>5, TurnedTyped DEF Goto
      <4> HIDE DEF q, z
      <4>7. \A c \in 1 .. Len(w.dispatches) : c # d =>
                z.dispatches[c].spawn = w.dispatches[c].spawn
        BY <3>2, <4>2
      <4>8. QED
        BY <2>1, <2>2, <3>2, <4>2, <4>3, <4>4, <4>6, <4>7, LaunchFits
    <3>5. QED
      BY <3>1, <3>3, <3>4
  <2>6. QED
    BY <1>4, <2>4, <2>5
<1>5. CASE Register(i)
  <2>1. pass[i].pc = "register" /\ pass[i].pc \in Launching /\ Goto(i, "spawned")
    BY <1>5 DEF Register, At, Launching
  <2>2. /\ pass[i].pc \in Working /\ pass[i].act = "SPAWN" /\ Typed(pass[i])
        /\ w \in Work /\ WorkFits(w) /\ d \in 1 .. Len(w.dispatches)
        /\ w.dispatches[d].spawn = "RUNNING"
    BY <2>1, LauncherFacts
  <2>3. PICK x : SetWork(i, x) /\ (x = w \/ \E s \in {"RUNNING", "UNKNOWN"} :
                    x = [w EXCEPT !.last = [pid |-> pass[i].pid, status |-> s]])
    BY <1>5 DEF Register
  <2>4. pass[i].pid \in Nat
    BY <2>2 DEF Typed, Pass
  <2>5. x \in Work /\ WorkFits(x) /\ x.dispatches = w.dispatches
    <3>1. CASE x = w
      BY <2>2, <3>1
    <3>2. CASE x # w
      <4>1. PICK s \in {"RUNNING", "UNKNOWN"} :
                x = [w EXCEPT !.last = [pid |-> pass[i].pid, status |-> s]]
        BY <2>3, <3>2
      <4>2. /\ x \in Work /\ x.dispatches = w.dispatches /\ x.nproc = w.nproc
            /\ x.alive = w.alive /\ x.active = w.active
        BY <2>2, <2>4, <4>1 DEF Work
      <4>3. QED
        BY <2>2, <4>2, SameDispatches
    <3>3. QED
      BY <3>1, <3>2
  <2> DEFINE q == TurnedTo(pass[i], "spawned")
  <2>6. /\ Typed(q) /\ q.pc = "spawned" /\ q.job = pass[i].job /\ q.disp = pass[i].disp
        /\ q.act = pass[i].act /\ GoOn(i, q)
    BY <2>1, <2>2, TurnedTyped DEF PCs, Goto
  <2> HIDE DEF q
  <2>7. QED
    BY <2>1, <2>2, <2>3, <2>5, <2>6, LaunchFits DEF Launching
<1>6. QED
  BY <1>1, <1>2, <1>3, <1>4, <1>5

LEMMA OtherFits ==
    ASSUME IInv, SchedNext,
           \/ \E i \in Instances : Crash(i) \/ EnterWait(i)
           \/ Owner \/ CompleteWait \/ AgentExit \/ Clock
    PROVE  PassesOK' /\ WorkOK'
<1>1. CASE UNCHANGED <<pass, work>>
  BY <1>1, Zenon DEF IInv, PassesOK, WorkOK, Typed, PassFits, Apart, WorkFits
<1>2. ASSUME NEW i \in Instances, Crash(i) PROVE PassesOK' /\ WorkOK'
  <2>1. GoOn(i, TurnedTo(Idle, "dead")) /\ UNCHANGED work
    BY <1>2, Zenon DEF Crash
  <2>2. Typed(TurnedTo(Idle, "dead")) /\ TurnedTo(Idle, "dead").pc = "dead"
    BY IdleTyped, TurnedTyped DEF PCs
  <2>3. QED
    BY <2>1, <2>2, ListFits
<1>3. CASE AgentExit
  <2>0. PICK j \in Jobs : \E g : work' = [work EXCEPT ![j].alive = @ \ {g}]
    BY <1>3, Zenon DEF AgentExit
  <2>1. PICK g : work' = [work EXCEPT ![j].alive = @ \ {g}]
    BY <2>0
  <2> DEFINE x == [work[j] EXCEPT !.alive = work[j].alive \ {g}]
  <2>2. work \in [Jobs -> Work] /\ \A k \in Jobs : WorkFits(work[k])
    BY DEF IInv, WorkOK
  <2>3. work' = [work EXCEPT ![j] = x] /\ UNCHANGED pass
    BY <1>3, <2>1, <2>2 DEF AgentExit
  <2>4. /\ x \in Work /\ x.dispatches = work[j].dispatches /\ x.nproc = work[j].nproc
        /\ x.alive \subseteq work[j].alive /\ x.active = work[j].active
    BY <2>1, <2>2 DEF Work
  <2>5. WorkFits(x)
    BY <2>2, <2>4, SameDispatches
  <2> HIDE DEF x
  <2>6. work' \in [Jobs -> Work] /\ work'[j] = x /\ \A k \in Jobs : k # j => work'[k] = work[k]
    BY <2>2, <2>3, <2>4
  <2>7. WorkOK'
    <3>1. \A k \in Jobs : WorkFits(work'[k])
      BY <2>2, <2>5, <2>6
    <3>2. QED
      BY <2>6, <3>1, Zenon DEF WorkOK, WorkFits
  <2>8. PassesOK'
    <3>1. \A k \in Jobs : work'[k].dispatches = work[k].dispatches
      BY <2>4, <2>6
    <3>2. ASSUME NEW k \in Instances PROVE PassFits(pass[k], work')
      <4>1. PassFits(pass[k], work)
        BY DEF IInv, PassesOK
      <4>2. pass[k].pc \in Working => pass[k].job \in Jobs
        BY <4>1, Zenon DEF PassFits
      <4>3. pass[k].pc \in {"spawngate", "perform", "act"} \cup Launching => pass[k].pc \in Working
        BY DEF Working, Launching
      <4>4. QED
        BY <3>1, <4>1, <4>2, <4>3 DEF PassFits
    <3>3. QED
      BY <2>3, <3>2, Zenon DEF IInv, PassesOK, Typed, PassFits, Apart
  <2>9. QED
    BY <2>7, <2>8
<1>4. QED
  BY <1>1, <1>2, <1>3, Zenon DEF EnterWait, Owner, CompleteWait, Clock

LEMMA SchedStep == IInv /\ [SchedNext]_schedVars => IInv'
<1> SUFFICES ASSUME IInv, [SchedNext]_schedVars PROVE IInv'
  OBVIOUS
<1>1. CASE SchedNext
  <2>1. PassesOK' /\ WorkOK'
    BY <1>1, TargetFits, GateFits, HandlerFits, SpawnFits, OtherFits, Zenon DEF SchedNext, PassStep
  <2>2. Inv'
    BY <1>1, StepKeepsStore
  <2>3. QED
    BY <1>1, <2>1, <2>2, Zenon DEF IInv, SchedNext
<1>2. CASE UNCHANGED schedVars
  <2>1. UNCHANGED storeVars /\ UNCHANGED <<pass, work, exclusive>>
    BY <1>2 DEF schedVars, storeVars
  <2>2. Inv'
    BY <2>1, StepInv DEF IInv
  <2>3. QED
    BY <2>1, <2>2, Zenon DEF IInv, PassesOK, WorkOK, Typed, PassFits, Apart, WorkFits
<1>3. QED
  BY <1>1, <1>2

LEMMA SchedInitInv == SchedInit => IInv
<1> SUFFICES ASSUME SchedInit PROVE IInv
  OBVIOUS
<1>1. Inv
  BY InitInv DEF SchedInit
<1>2. Typed(TurnedTo(Idle, "off")) /\ TurnedTo(Idle, "off").pc = "off"
  BY IdleTyped, TurnedTyped DEF PCs
<1>3. \A i \in Instances : pass[i] = TurnedTo(Idle, "off")
  BY DEF SchedInit
<1>4. DOMAIN pass = Instances /\ exclusive \in BOOLEAN
  BY DEF SchedInit
<1>5. \A i \in Instances : Typed(pass[i]) /\ pass[i].pc = "off"
  BY <1>2, <1>3
<1>6. PassesOK
  BY <1>4, <1>5 DEF PassesOK, PassFits, Apart, Working, Launching
<1>7. WorkOK
  <2>1. work = [j \in Jobs |-> NoWork]
    BY DEF SchedInit
  <2>2. QED
    BY <2>1, NoWorkFits DEF WorkOK
<1>8. QED
  BY <1>1, <1>4, <1>6, <1>7 DEF IInv

LEMMA IInvCorrect == SchedSpec => []IInv
BY SchedInitInv, SchedStep, PTL DEF SchedSpec

-----------------------------------------------------------------------------
(* What holds of any number of service processes *)

\* Whatever rival service processes do, each of their steps is a step of the queue
\* or leaves its tables alone.
THEOREM SchedulerStepsStore == SchedSpec => StepsAreStoreSteps
<1>1. IInv /\ [SchedNext]_schedVars => [Next]_storeVars
  <2>1. UNCHANGED schedVars => UNCHANGED storeVars
    BY DEF schedVars, storeVars
  <2>2. QED
    BY <2>1, StoreSteps DEF SameStore
<1>2. QED
  BY <1>1, IInvCorrect, PTL DEF SchedSpec, StepsAreStoreSteps

\* So a scheduler is an implementation of the queue that JobStore specifies.
THEOREM SchedulerImplementsStore == SchedSpec => Spec
<1>1. SchedInit => Init
  BY DEF SchedInit
<1>2. QED
  BY <1>1, SchedulerStepsStore, PTL DEF SchedSpec, Spec, StepsAreStoreSteps

\* And what is proved of the queue holds under any number of schedulers: the columns
\* agree, one writer per worktree, epochs fence, a lease changes hands only when it
\* is gone and is granted from the queue only, terminal states stick.
THEOREM SchedulerKeepsQueue ==
    SchedSpec => /\ []ProjectionConsistent /\ []OneWriterPerWorktree
                 /\ EpochFences /\ LeaseHandover /\ LeaseGrantedFromQueue /\ TerminalSticky
BY SchedulerImplementsStore, ProjectionCorrect, OneWriterCorrect, EpochFencesCorrect,
   LeaseHandoverCorrect, LeaseGrantedFromQueueCorrect, TerminalStickyCorrect, PTL

\* No two passes are ever between the SPAWN_RUN journal row and the end of the launch
\* with one dispatch, rivals and stale ones included (_perform_spawn_run).
THEOREM LaunchersApart == SchedSpec => []OneLauncherPerDispatch
<1>1. IInv => OneLauncherPerDispatch
  <2> SUFFICES ASSUME IInv, NEW i \in Instances, NEW k \in Instances, i # k,
                      {pass[i].pc, pass[k].pc} \subseteq {"admit", "spawn", "register", "spawned"}
               PROVE  <<pass[i].job, pass[i].disp>> # <<pass[k].job, pass[k].disp>>
    BY DEF OneLauncherPerDispatch
  <2>1. Apart(pass[i], pass[k])
    BY DEF IInv, PassesOK
  <2>2. QED
    BY <2>1 DEF Apart, Launching
<1>2. QED
  BY <1>1, IInvCorrect, PTL

-----------------------------------------------------------------------------
(* The invariant for one service process at a time *)

Gone == {"off", "dead"}

OneAtATime ==
    \A i, k \in Instances : i # k => pass[i].pc \in Gone \/ pass[k].pc \in Gone

\* The rows a pass has listed and J, the table: as long as a scan goes on, a row
\* that was RUNNING when it was listed still is what it was.
RowsHold(p, J) ==
    /\ p.pc \in {"scan", "scanlost", "takeover"} =>
        \A k \in DOMAIN p.rows : p.rows[k].ps = "RUNNING" => J[k] = p.rows[k]
    /\ p.pc \in {"restart", "quarantine"} => \A k \in DOMAIN p.rows : p.rows[k].ps = "RUNNING"
    /\ p.pc \in {"scanlost", "takeover"} => p.rows[p.job].ps = "RUNNING"

\* The job a pass works on: RUNNING under a lease until a decision is made, leased
\* until the recheck of a launch, neither LOST nor waiting at any time.
HoldsJob(p, J) ==
    /\ p.pc \in Working => J[p.job].ps \notin {"LOST", "WAITING_EXTERNAL"}
    /\ p.pc \in {"gate", "recover", "reconcile"} =>
        J[p.job].ps = "RUNNING" /\ J[p.job].owner # NULL
    /\ p.act = "SPAWN" /\ p.pc \in {"spawngate", "perform", "act", "admit"} =>
        J[p.job].owner # NULL

\* Its dispatch: not journalled until it is acted on, without an agent until the
\* launch.
HoldsDispatch(p, W) ==
    /\ p.act = "SPAWN" /\ p.pc \in {"spawngate", "perform", "act"} =>
        W[p.job].dispatches[p.disp].spawn = "ABSENT"
    /\ p.pc \in {"admit", "spawn"} => W[p.job].dispatches[p.disp].runs = {}

PassAlone(p, J, W) == RowsHold(p, J) /\ HoldsJob(p, J) /\ HoldsDispatch(p, W)

\* A dispatch without a journal row has no agent, and none has two.
RunsSettled(w) ==
    \A d \in 1 .. Len(w.dispatches) :
        /\ w.dispatches[d].spawn = "ABSENT" => w.dispatches[d].runs = {}
        /\ \A x, y \in w.dispatches[d].runs : x = y

JobsAlone == RunningIsLeased /\ WaitsMatch

WorkAlone == \A j \in Jobs : RunsSettled(work[j])

AloneInv ==
    exclusive =>
        /\ OneAtATime /\ JobsAlone /\ WorkAlone
        /\ \A i \in Instances : PassAlone(pass[i], jobs, work)

-----------------------------------------------------------------------------
(* The table under one service process *)

LeasedIfRunning(r) == r.ps = "RUNNING" => r.owner # NULL /\ r.expires # NULL

Waiting(r) == r.ps = "WAITING_EXTERNAL"

\* Rows that keep their leases and no wait that begins or ends.
LEMMA TableAlone ==
    ASSUME JobsAlone, UNCHANGED <<waits, waitOf>>,
           \A k \in Jobs : LeasedIfRunning(jobs'[k]) /\ (Waiting(jobs'[k]) <=> Waiting(jobs[k]))
    PROVE  JobsAlone'
<1>1. RunningIsLeased'
  BY DEF RunningIsLeased, LeasedIfRunning
<1>2. WaitsMatch'
  <2> SUFFICES ASSUME NEW k \in Jobs
               PROVE  {w.id : w \in {x \in waits : x.job = k}} =
                        IF jobs'[k].ps = "WAITING_EXTERNAL" THEN {waitOf[k]} ELSE {}
    BY DEF WaitsMatch
  <2>1. {w.id : w \in {x \in waits : x.job = k}} =
            IF jobs[k].ps = "WAITING_EXTERNAL" THEN {waitOf[k]} ELSE {}
    BY DEF JobsAlone, WaitsMatch
  <2>2. QED
    BY <2>1 DEF Waiting
<1>3. QED
  BY <1>1, <1>2 DEF JobsAlone

LEMMA SameStoreAlone ==
    ASSUME JobsAlone, SameStore
    PROVE  JobsAlone' /\ jobs' = jobs
BY Zenon DEF JobsAlone, RunningIsLeased, WaitsMatch, SameStore, storeVars

\* One row is written, neither waiting before nor after.
LEMMA WriteAlone ==
    ASSUME IInv, JobsAlone, NEW j \in Jobs, NEW s, Put(j, s), OnlyJobs,
           ~Waiting(jobs[j]), ~Waiting(s), LeasedIfRunning(s)
    PROVE  /\ JobsAlone'
           /\ jobs'[j] = s /\ \A k \in Jobs : k # j => jobs'[k] = jobs[k]
<1>1. jobs \in [Jobs -> Row]
  BY DEF IInv, Inv, TypeOK
<1>2. jobs' = [jobs EXCEPT ![j] = s]
  BY Zenon DEF Put
<1>3. jobs'[j] = s /\ \A k \in Jobs : k # j => jobs'[k] = jobs[k]
  BY <1>1, <1>2
<1>4. \A k \in Jobs : LeasedIfRunning(jobs[k])
  BY Zenon DEF JobsAlone, RunningIsLeased, LeasedIfRunning
<1>5. UNCHANGED <<waits, waitOf>>
  BY DEF OnlyJobs
<1>6. JobsAlone'
  BY <1>3, <1>4, <1>5, TableAlone
<1>7. QED
  BY <1>3, <1>6

\* What the updates do to the expiry.
LEMMA ExpiryColumns ==
    ASSUME NEW r \in Row, NEW x
    PROVE  /\ \A i, t : Leased(r, i, t).expires = t + TTL
           /\ Projected(Bumped(r), x).expires = r.expires
           /\ Projected(r, x).expires = r.expires
           /\ Released(Bumped(r)).ps = r.ps
<1>1. \A i, t : Leased(r, i, t).expires = t + TTL
  BY DEF Leased, Transitioned, Bumped, Row
<1>2. Projected(Bumped(r), x).expires = r.expires /\ Projected(r, x).expires = r.expires
  BY DEF Projected, Bumped, Row
<1>3. Released(Bumped(r)).ps = r.ps
  BY DEF Released, Bumped, Row
<1>4. QED
  BY <1>1, <1>2, <1>3

\* A grant is leased.
LEMMA LeasedAlone ==
    ASSUME NEW r \in Row, NEW i \in Instances, NEW t \in Nat
    PROVE  LET s == Leased(r, i, t) IN
           s.ps = "RUNNING" /\ s.owner # NULL /\ LeasedIfRunning(s) /\ ~Waiting(s)
<1>1. t + TTL \in Nat
  BY TimeAssumption
<1>2. t + TTL # NULL /\ i # NULL
  BY <1>1, NullAssumption
<1>3. QED
  BY <1>2, UpdateColumns, ExpiryColumns DEF LeasedIfRunning, Waiting

\* A write that ends work on a job.
LEMMA LeavingAlone ==
    ASSUME NEW r \in Row, NEW s,
           \/ \E x, d : s = Requeued(r, x, d) \/ s = RecoveryRequeued(r, x, d)
           \/ s = QuarantinedLost(r)
           \/ s = QuarantinedBlocked(r)
           \/ \E x \in Terminals : s = Closed(r, x)
    PROVE  LeasedIfRunning(s) /\ ~Waiting(s) /\ (s.ps = "LOST" => s = QuarantinedLost(r))
<1>1. s.ps \in {"QUEUED", "LOST", "BLOCKED"} \cup Terminals /\ (s.ps = "LOST" => s = QuarantinedLost(r))
  <2>1. CASE \E x, d : s = Requeued(r, x, d) \/ s = RecoveryRequeued(r, x, d)
    BY <2>1, UpdateColumns
  <2>2. CASE s = QuarantinedLost(r) \/ s = QuarantinedBlocked(r)
    BY <2>2, UpdateColumns
  <2>3. CASE \E x \in Terminals : s = Closed(r, x)
    BY <2>3, UpdateColumns DEF Terminals
  <2>4. QED
    BY <2>1, <2>2, <2>3
<1>2. QED
  BY <1>1 DEF LeasedIfRunning, Waiting, Terminals

\* A supervisor's error or backoff.
LEMMA FailingAlone ==
    ASSUME NEW r \in Row, NEW s,
           \/ s = Projected(Bumped(r), "ERROR") \/ s = Projected(r, "ERROR")
           \/ \E d : s = BackedOff(r, d)
    PROVE  LeasedIfRunning(s) /\ ~Waiting(s) /\ s.ps # "LOST"
<1>1. r.terminal \in Terminals \cup {NULL}
  BY DEF Row
<1>2. s.ps \in {DerivePrimaryState("ERROR", r.terminal, r.wait),
                DerivePrimaryState("BACKOFF", r.terminal, r.wait)}
  BY UpdateColumns
<1>3. s.ps \in {"QUEUED", "BLOCKED"} \cup Terminals
  BY <1>1, <1>2 DEF DerivePrimaryState
<1>4. QED
  BY <1>3 DEF LeasedIfRunning, Waiting, Terminals

-----------------------------------------------------------------------------
(* One service process: a pass goes on *)

\* The stages that ask nothing of the job's lease or its dispatch.
Late == {"apply", "test", "testrecover", "after", "register", "spawned", "requeue",
         "lost", "block", "finish"}

LEMMA RestAlone ==
    ASSUME NEW p, NEW J, NEW W,
           \/ p.pc \in Gone \cup {"idle"}
           \/ p.pc \in Late /\ J[p.job].ps \notin {"LOST", "WAITING_EXTERNAL"}
    PROVE  PassAlone(p, J, W)
BY DEF PassAlone, RowsHold, HoldsJob, HoldsDispatch, Working, Gone, Late

LEMMA AloneFacts ==
    ASSUME IInv, AloneInv, exclusive, NEW i \in Instances, pass[i].pc \notin Gone
    PROVE  /\ JobsAlone /\ WorkAlone /\ PassAlone(pass[i], jobs, work)
           /\ \A k \in Instances : k # i => pass[k].pc \in Gone
           /\ \A j \in Jobs : jobs[j] \in Row /\ LeasedIfRunning(jobs[j])
<1>1. OneAtATime /\ JobsAlone /\ WorkAlone /\ PassAlone(pass[i], jobs, work)
  BY DEF AloneInv
<1>2. \A j \in Jobs : jobs[j] \in Row
  BY DEF IInv, Inv, TypeOK
<1>3. \A j \in Jobs : LeasedIfRunning(jobs[j])
  BY <1>1 DEF JobsAlone, RunningIsLeased, LeasedIfRunning
<1>4. QED
  BY <1>1, <1>2, <1>3 DEF OneAtATime

LEMMA WorkingAlone ==
    ASSUME IInv, AloneInv, exclusive, NEW i \in Instances, pass[i].pc \in Working
    PROVE  /\ pass[i].pc \notin Gone /\ pass[i].job \in Jobs /\ Typed(pass[i])
           /\ JobOf(i) \in Row /\ LeasedIfRunning(JobOf(i))
           /\ JobOf(i).ps \notin {"LOST", "WAITING_EXTERNAL"} /\ ~Waiting(JobOf(i))
           /\ WorkOf(i) \in Work /\ WorkFits(WorkOf(i)) /\ RunsSettled(WorkOf(i))
<1>1. pass[i].pc \notin Gone /\ pass[i].job \in Jobs /\ Typed(pass[i])
  BY JobAtWork DEF Working, Gone, IInv, PassesOK
<1>2. JobOf(i) \in Row /\ LeasedIfRunning(JobOf(i))
  BY <1>1, AloneFacts DEF JobOf
<1>3. JobOf(i).ps \notin {"LOST", "WAITING_EXTERNAL"}
  BY <1>1, AloneFacts DEF PassAlone, HoldsJob, JobOf
<1>4. WorkOf(i) \in Work /\ WorkFits(WorkOf(i)) /\ RunsSettled(WorkOf(i))
  BY <1>1, AloneFacts DEF WorkOf, IInv, WorkOK, WorkAlone
<1>5. QED
  BY <1>1, <1>2, <1>3, <1>4 DEF Waiting

\* The pass of the one live process goes on as p.
LEMMA PassStepAlone ==
    ASSUME IInv, exclusive, UNCHANGED exclusive, NEW i \in Instances, NEW p, GoOn(i, p),
           \A k \in Instances : k # i => pass[k].pc \in Gone,
           JobsAlone', WorkAlone', PassAlone(p, jobs', work')
    PROVE  AloneInv'
<1>1. /\ DOMAIN pass' = Instances /\ pass'[i] = p
      /\ \A k \in Instances : k # i => pass'[k] = pass[k]
  BY GoOnPass DEF IInv, PassesOK
<1>2. OneAtATime'
  BY <1>1 DEF OneAtATime
<1>3. ASSUME NEW k \in Instances PROVE PassAlone(pass'[k], jobs', work')
  <2>1. k # i => pass'[k].pc \in Gone
    BY <1>1
  <2>2. QED
    BY <1>1, <2>1, RestAlone
<1>4. (\A k \in Instances : PassAlone(pass[k], jobs, work))'
  BY <1>3
<1>5. QED
  BY <1>2, <1>4 DEF AloneInv

LEMMA SameWorkAlone == WorkAlone /\ UNCHANGED work => WorkAlone'
BY DEF WorkAlone, RunsSettled

\* It ends.
LEMMA EndAlone ==
    ASSUME IInv, AloneInv, exclusive, UNCHANGED exclusive,
           NEW i \in Instances, pass[i].pc \notin Gone, EndPass(i), JobsAlone', WorkAlone'
    PROVE  AloneInv'
<1>1. PassAlone(Idle, jobs', work')
  BY IdleTyped, RestAlone
<1>2. QED
  BY <1>1, AloneFacts, PassStepAlone DEF EndPass

\* It turns to a late stage.
LEMMA LateAlone ==
    ASSUME IInv, AloneInv, exclusive, UNCHANGED exclusive, NEW i \in Instances,
           pass[i].pc \in Working, NEW x \in Late, Goto(i, x), JobsAlone', WorkAlone',
           jobs'[pass[i].job].ps \notin {"LOST", "WAITING_EXTERNAL"}
    PROVE  AloneInv'
<1> DEFINE q == TurnedTo(pass[i], x)
<1>1. x \in PCs
  BY DEF Late, PCs
<1>2. q.pc = x /\ q.job = pass[i].job /\ GoOn(i, q)
  BY <1>1, WorkingAlone, TurnedTyped DEF Goto
<1> HIDE DEF q
<1>3. PassAlone(q, jobs', work')
  BY <1>2, RestAlone
<1>4. QED
  BY <1>2, <1>3, AloneFacts, WorkingAlone, PassStepAlone

\* It turns to an earlier one, with the job, the decision and the tables as they are.
LEMMA TurnAlone ==
    ASSUME IInv, AloneInv, exclusive, UNCHANGED exclusive, NEW i \in Instances,
           pass[i].pc \in Working, NEW x \in Working, Goto(i, x), SameStore, UNCHANGED work,
           x \in {"gate", "recover", "reconcile"} =>
            pass[i].pc \in {"gate", "recover", "reconcile"},
           x \in {"spawngate", "perform", "act"} =>
            pass[i].pc \in {"spawngate", "perform", "act"} \/ pass[i].act # "SPAWN",
           x # "admit",
           x = "spawn" => pass[i].pc = "admit"
    PROVE  AloneInv'
<1> DEFINE q == TurnedTo(pass[i], x)
<1>1. x \in PCs
  BY DEF Working, PCs
<1>2. /\ q.pc = x /\ q.job = pass[i].job /\ q.act = pass[i].act /\ q.disp = pass[i].disp
      /\ GoOn(i, q)
  BY <1>1, WorkingAlone, TurnedTyped DEF Goto
<1> HIDE DEF q
<1>3. JobsAlone' /\ WorkAlone' /\ jobs' = jobs
  BY WorkingAlone, AloneFacts, SameStoreAlone, SameWorkAlone
<1>4. PassAlone(pass[i], jobs, work)
  BY WorkingAlone, AloneFacts
<1>5. PassAlone(q, jobs, work)
  BY <1>2, <1>4 DEF PassAlone, RowsHold, HoldsJob, HoldsDispatch, Working
<1>6. PassAlone(q, jobs', work')
  BY <1>3, <1>5
<1>7. QED
  BY <1>2, <1>3, <1>6, AloneFacts, WorkingAlone, PassStepAlone

\* What a pass leaves behind in the store: its own job's row, or nothing.
LEMMA OwnRowAlone ==
    ASSUME IInv, AloneInv, exclusive, NEW i \in Instances, pass[i].pc \in Working
    PROVE  /\ SameStore => JobsAlone' /\ jobs'[pass[i].job] = JobOf(i)
           /\ \A s : Put(pass[i].job, s) /\ OnlyJobs /\ ~Waiting(s) /\ LeasedIfRunning(s)
                => JobsAlone' /\ jobs'[pass[i].job] = s
<1>1. /\ JobsAlone /\ pass[i].job \in Jobs /\ ~Waiting(JobOf(i))
  BY WorkingAlone, AloneFacts
<1>2. SameStore => JobsAlone' /\ jobs'[pass[i].job] = JobOf(i)
  BY <1>1, SameStoreAlone, Zenon DEF JobOf
<1>3. ASSUME NEW s, Put(pass[i].job, s), OnlyJobs, ~Waiting(s), LeasedIfRunning(s)
      PROVE  JobsAlone' /\ jobs'[pass[i].job] = s
  BY <1>1, <1>3, WriteAlone DEF JobOf
<1>4. QED
  BY <1>2, <1>3

\* It writes its job's row, or not, and ends.
LEMMA WriteEndAlone ==
    ASSUME IInv, AloneInv, exclusive, UNCHANGED exclusive, NEW i \in Instances,
           pass[i].pc \in Working, EndPass(i), WorkAlone',
           \/ SameStore
           \/ \E s : Put(pass[i].job, s) /\ OnlyJobs /\ ~Waiting(s) /\ LeasedIfRunning(s)
    PROVE  AloneInv'
BY OwnRowAlone, WorkingAlone, EndAlone

\* It writes its job's row, or not, and turns to a late stage.
LEMMA WriteLateAlone ==
    ASSUME IInv, AloneInv, exclusive, UNCHANGED exclusive, NEW i \in Instances,
           pass[i].pc \in Working, NEW x \in Late, Goto(i, x), WorkAlone',
           \/ SameStore
           \/ \E s : /\ Put(pass[i].job, s) /\ OnlyJobs
                     /\ ~Waiting(s) /\ LeasedIfRunning(s) /\ s.ps # "LOST"
    PROVE  AloneInv'
<1>1. JobsAlone' /\ jobs'[pass[i].job].ps \notin {"LOST", "WAITING_EXTERNAL"}
  BY OwnRowAlone, WorkingAlone DEF Waiting
<1>2. QED
  BY <1>1, LateAlone

\* The plan of a reconcile on a leased RUNNING row.
LEMMA PlannedAlone ==
    ASSUME NEW r \in Row, r.ps = "RUNNING", r.terminal = NULL, r.status = "ACTIVE",
           r.owner # NULL, LeasedIfRunning(r), NEW plan \in Plans \ {"NONE"}, NEW d \in Nat
    PROVE  LET s == PlannedRow(r, plan, d) IN
           /\ LeasedIfRunning(s) /\ ~Waiting(s) /\ s.ps # "LOST"
           /\ plan = "ACT" => s.owner # NULL
<1> DEFINE s == PlannedRow(r, plan, d)
<1>1. CASE plan \in {"WAIT", "ACT"}
  <2>1. s = Projected(Bumped(r), "ACTIVE")
    BY <1>1 DEF PlannedRow
  <2>2. s.ps = DerivePrimaryState("ACTIVE", NULL, r.wait) /\ s.owner = r.owner
    BY <2>1, UpdateColumns
  <2>3. s.ps = "RUNNING"
    BY <2>2 DEF DerivePrimaryState
  <2>4. s.expires = r.expires
    BY <2>1, ExpiryColumns
  <2>5. QED
    BY <2>2, <2>3, <2>4 DEF LeasedIfRunning, Waiting
<1>2. CASE plan = "GATE"
  <2>1. s = Projected(Bumped(r), "WAITING_GATE")
    BY <1>2 DEF PlannedRow
  <2>2. s.ps = DerivePrimaryState("WAITING_GATE", NULL, r.wait)
    BY <2>1, UpdateColumns
  <2>3. s.ps = "OWNER_GATE"
    BY <2>2 DEF DerivePrimaryState
  <2>4. QED
    BY <1>2, <2>3 DEF LeasedIfRunning, Waiting
<1>3. CASE plan \in {"BACKOFF", "ERROR"}
  <2>1. s = BackedOff(r, d) \/ s = Projected(Bumped(r), "ERROR")
    BY <1>3 DEF PlannedRow
  <2>2. QED
    BY <1>3, <2>1, FailingAlone
<1>4. QED
  BY <1>1, <1>2, <1>3 DEF Plans

LEMMA ReconcileAlone ==
    ASSUME IInv, AloneInv, exclusive, UNCHANGED exclusive, NEW i \in Instances, Reconcile(i)
    PROVE  AloneInv'
<1> DEFINE j == pass[i].job
           r == JobOf(i)
           e == now + Backoff
<1>1. pass[i].pc = "reconcile" /\ pass[i].pc \in Working
  BY DEF Reconcile, At, Working
<1>2. /\ j \in Jobs /\ r \in Row /\ LeasedIfRunning(r) /\ Typed(pass[i])
      /\ WorkOf(i) \in Work
  BY <1>1, WorkingAlone
<1>3. r.ps = "RUNNING" /\ r.owner # NULL
  BY <1>1, WorkingAlone, AloneFacts DEF PassAlone, HoldsJob, JobOf
<1>4. r.terminal = NULL /\ r.status = "ACTIVE"
  <2>1. /\ r.terminal # NULL => r.ps = r.terminal
        /\ r.status \in PrimaryStateStatuses(r.ps) \/ r.ps = "BLOCKED"
    BY <1>2 DEF IInv, Inv, ProjectionConsistent, JobOf
  <2>2. r.terminal \in Terminals \cup {NULL}
    BY <1>2 DEF Row
  <2>3. r.terminal = NULL
    BY <1>3, <2>1, <2>2 DEF Terminals
  <2>4. PrimaryStateStatuses("RUNNING") = {"ACTIVE"}
    BY DEF PrimaryStateStatuses
  <2>5. QED
    BY <1>3, <2>1, <2>3, <2>4
<1>5. PICK act \in Acts, plan \in Plans, b \in BOOLEAN :
        /\ plan \in PlansFor(act)
        /\ Plannable(WorkOf(i), act)
        /\ SupervisorCommit(i, j, pass[i].epoch, plan, e)
        /\ Decide(i, act, b, r.fv + 1) /\ UNCHANGED work
  <2>1. \A x \in Acts : PlansFor(x) \subseteq Plans
    BY DEF PlansFor, Plans, Acts
  <2>2. (r.owner # NULL) \in BOOLEAN
    OBVIOUS
  <2>3. QED
    BY <2>1, <2>2, Zenon DEF Reconcile
<1>6. plan \in Plans \ {"NONE"} /\ (act = "SPAWN" => plan = "ACT")
  <2>1. plan \in Plans
    OBVIOUS
  <2>2. plan # "NONE"
    BY <1>4, <1>5 DEF SupervisorCommit, Decides, JobOf
  <2>3. act = "SPAWN" => plan = "ACT"
    BY <1>5 DEF PlansFor
  <2>4. QED
    BY <2>1, <2>2, <2>3
<1>7. e \in Nat
  BY TimeAssumption DEF IInv, Inv, TypeOK
<1> DEFINE s == PlannedRow(r, plan, e)
<1>8. /\ LeasedIfRunning(s) /\ ~Waiting(s) /\ s.ps # "LOST"
      /\ act = "SPAWN" => s.owner # NULL
  <2> HIDE DEF r, e
  <2>1. QED
    BY <1>2, <1>3, <1>4, <1>6, <1>7, PlannedAlone
<1>9. Put(j, s) /\ OnlyJobs
  BY <1>5, Zenon DEF SupervisorCommit, JobOf
<1>10. JobsAlone' /\ jobs'[j] = s /\ WorkAlone' /\ pass[i].pc \notin Gone
  <2> HIDE DEF s
  <2>1. QED
    BY <1>1, <1>5, <1>8, <1>9, OwnRowAlone, WorkingAlone, AloneFacts, SameWorkAlone
<1> DEFINE d == Len(WorkOf(i).dispatches)
           q == Decided(pass[i], act, b, r.fv + 1, d)
<1>11. GoOn(i, q)
  BY <1>5 DEF Decide
<1>12. d \in Nat /\ r.fv + 1 \in Nat
  BY <1>2, WorkFields, RowEpoch DEF JobOf
<1>13. act = "SPAWN" => work[j].dispatches[d].spawn = "ABSENT"
  BY <1>5 DEF Plannable, WorkOf
<1> HIDE DEF d, s
<1>14. q.pc = Stage(act) /\ q.job = j /\ q.act = act /\ q.disp = d
  BY <1>2, <1>12, DecidedTyped
<1>15. Stage(act) \in {"finish", "spawngate", "perform"}
  BY DEF Stage
<1> HIDE DEF q
<1>16. PassAlone(q, jobs', work)
  BY <1>8, <1>10, <1>13, <1>14, <1>15 DEF PassAlone, RowsHold, HoldsJob, HoldsDispatch, Waiting
<1>17. PassAlone(q, jobs', work')
  BY <1>5, <1>16
<1>18. QED
  BY <1>10, <1>11, <1>17, AloneFacts, PassStepAlone

\* Gates, recovery and the end of a pass.
LEMMA GateAlone ==
    ASSUME IInv, AloneInv, exclusive, UNCHANGED exclusive, NEW i \in Instances,
           \/ GateAllow(i) \/ GateDefer(i) \/ GateBlock(i) \/ StopRequested(i)
           \/ Requeue(i) \/ Lose(i) \/ Block(i) \/ Recover(i) \/ RecoverNothing(i)
           \/ Reconcile(i) \/ ReconcileContention(i) \/ ReconcileFenced(i) \/ Finish(i)
    PROVE  AloneInv'
<1> DEFINE j == pass[i].job
           r == JobOf(i)
<1>1. pass[i].pc \in Working /\ pass[i].pc \notin Gone
  BY DEF GateAllow, GateDefer, GateBlock, StopRequested, Requeue, Lose, Block, Recover,
         RecoverNothing, Reconcile, ReconcileContention, ReconcileFenced, Finish, At, Working, Gone
<1>2. /\ j \in Jobs /\ r \in Row /\ LeasedIfRunning(r) /\ ~Waiting(r) /\ Typed(pass[i])
      /\ r.ps \notin {"LOST", "WAITING_EXTERNAL"} /\ r = jobs[j]
      /\ UNCHANGED work => WorkAlone'
  BY <1>1, WorkingAlone, AloneFacts, SameWorkAlone DEF JobOf
<1>3. CASE GateAllow(i) \/ GateDefer(i) \/ GateBlock(i)
  <2>1. PICK x \in {"recover", "perform", "requeue", "block"} :
            /\ Goto(i, x) /\ pass[i].pc \in {"gate", "spawngate"}
            /\ x = "perform" => pass[i].pc = "spawngate"
            /\ x = "recover" => pass[i].pc = "gate"
            /\ SameStore /\ UNCHANGED work
    BY <1>3 DEF GateAllow, GateDefer, GateBlock, At
  <2>2. QED
    BY <1>1, <2>1, TurnAlone DEF Working
<1>4. CASE StopRequested(i) \/ ReconcileFenced(i)
  <2>1. EndPass(i) /\ SameStore /\ UNCHANGED work
    BY <1>4, Zenon DEF StopRequested, ReconcileFenced, Fenced
  <2>2. QED
    BY <1>1, <1>2, <2>1, WriteEndAlone
<1>5. CASE Requeue(i) \/ Lose(i) \/ Block(i)
  <2>1. PICK s : /\ SameStore \/ (Put(j, s) /\ OnlyJobs)
                 /\ \/ \E x, d : s = Requeued(r, x, d)
                    \/ s = QuarantinedLost(r) \/ s = QuarantinedBlocked(r)
    BY <1>5, <1>2, Zenon DEF Requeue, Lose, Block, EnqueueHolder, QuarantineLost, QuarantineBlocked
  <2>2. LeasedIfRunning(s) /\ ~Waiting(s)
    BY <1>2, <2>1, LeavingAlone, Zenon
  <2>3. EndPass(i) /\ UNCHANGED work
    BY <1>5, Zenon DEF Requeue, Lose, Block
  <2> HIDE DEF r
  <2>4. QED
    BY <1>1, <1>2, <2>1, <2>2, <2>3, WriteEndAlone
<1>6. CASE Recover(i)
  <2>1. PICK t \in 0 .. now, d \in RecoveryDecisions :
            CommitRecoveryDecision(i, j, pass[i].epoch, t, d, t + Backoff)
    BY <1>6, Zenon DEF Recover
  <2>2. PICK s : /\ Put(j, s) /\ OnlyJobs
                 /\ \/ \E x, y : s = RecoveryRequeued(r, x, y)
                    \/ s = QuarantinedLost(r) \/ s = QuarantinedBlocked(r)
    BY <1>2, <2>1 DEF CommitRecoveryDecision
  <2>3. LeasedIfRunning(s) /\ ~Waiting(s)
    BY <1>2, <2>2, LeavingAlone, Zenon
  <2> DEFINE w == WorkOf(i)
             x == [w EXCEPT !.evid = "consumed"]
  <2>4. w \in Work /\ RunsSettled(w) /\ WorkAlone /\ work \in [Jobs -> Work]
    BY <1>1, WorkingAlone, AloneFacts DEF IInv, WorkOK
  <2>5. x.dispatches = w.dispatches
    BY <2>4 DEF Work
  <2>6. work' = [work EXCEPT ![j] = x] /\ EndPass(i)
    BY <1>6 DEF Recover, SetWork
  <2> HIDE DEF x, w
  <2>7. WorkAlone'
    BY <1>2, <2>4, <2>5, <2>6 DEF WorkAlone, RunsSettled
  <2> HIDE DEF r
  <2>8. QED
    BY <1>1, <2>2, <2>3, <2>6, <2>7, WriteEndAlone
<1>7. CASE RecoverNothing(i)
  <2>1. /\ SameStore /\ UNCHANGED work
        /\ EndPass(i) \/ (pass[i].pc = "recover" /\ Goto(i, "reconcile"))
    BY <1>7 DEF RecoverNothing, At
  <2>2. CASE EndPass(i)
    BY <1>1, <1>2, <2>1, <2>2, WriteEndAlone
  <2>3. CASE pass[i].pc = "recover" /\ Goto(i, "reconcile")
    BY <1>1, <2>1, <2>3, TurnAlone DEF Working
  <2>4. QED
    BY <2>1, <2>2, <2>3
<1>8. CASE ReconcileContention(i)
  <2> DEFINE s == RecoveryRequeued(r, "BACKOFF", now + Backoff)
  <2>1. Put(j, s) /\ OnlyJobs
    BY <1>2, <1>8, Zenon DEF ReconcileContention, BackoffDecision
  <2>2. LeasedIfRunning(s) /\ ~Waiting(s) /\ s.ps = "QUEUED"
    BY <1>2, LeavingAlone, UpdateColumns
  <2> DEFINE d == Len(WorkOf(i).dispatches)
             v == r.fv + 1
  <2>3. PICK b \in BOOLEAN : GoOn(i, Decided(pass[i], "WAIT", b, v, d)) /\ UNCHANGED work
    BY <1>8, Zenon DEF ReconcileContention, Decide
  <2> DEFINE q == Decided(pass[i], "WAIT", b, v, d)
  <2>4. d \in Nat /\ v \in Nat
    BY <1>1, <1>2, WorkingAlone, WorkFields, RowEpoch DEF JobOf
  <2> HIDE DEF d, v
  <2>5. GoOn(i, q) /\ q.pc = "finish" /\ q.job = j
    <3>1. Stage("WAIT") = "finish" /\ "WAIT" \in Acts
      BY DEF Stage, Acts
    <3>2. q.pc = "finish" /\ q.job = j
      BY <1>2, <2>4, <3>1, DecidedTyped
    <3>3. QED
      BY <2>3, <3>2
  <2> HIDE DEF q, s
  <2>6. JobsAlone' /\ jobs'[j] = s /\ WorkAlone'
    BY <1>1, <1>2, <2>1, <2>2, <2>3, OwnRowAlone
  <2>7. PassAlone(q, jobs', work')
    BY <2>2, <2>5, <2>6, RestAlone DEF Late
  <2>8. QED
    BY <1>1, <2>5, <2>6, <2>7, AloneFacts, PassStepAlone
<1>9. CASE Finish(i)
  <2>1. EndPass(i) /\ UNCHANGED work
    BY <1>9, Zenon DEF Finish
  <2>2. CASE SameStore
    BY <1>1, <1>2, <2>1, <2>2, WriteEndAlone
  <2>3. CASE ~SameStore
    <3>1. PICK t \in 0 .. now :
            \/ RenewLease(i, j, r.epoch, t)
            \/ ClearLease(i, j, r.epoch, t) /\ r.ps # "RUNNING"
      BY <1>9, <2>3, Zenon DEF Finish
    <3>2. PICK s : /\ Put(j, s) /\ OnlyJobs
                   /\ \/ s = Released(Bumped(r)) /\ r.ps # "RUNNING"
                      \/ s = [r EXCEPT !.expires = t + TTL] /\ r.owner = i
      BY <1>2, <3>1 DEF RenewLease, ClearLease, HoldsLease
    <3>3. LeasedIfRunning(s) /\ ~Waiting(s)
      <4>1. CASE s = Released(Bumped(r)) /\ r.ps # "RUNNING"
        BY <1>2, <4>1, ExpiryColumns DEF LeasedIfRunning, Waiting
      <4>2. CASE s = [r EXCEPT !.expires = t + TTL] /\ r.owner = i
        <5>1. t + TTL # NULL /\ i # NULL
          BY TimeAssumption, NullAssumption DEF IInv, Inv, TypeOK
        <5>2. s.ps = r.ps /\ s.owner = i /\ s.expires = t + TTL
          BY <1>2, <4>2 DEF Row
        <5>3. QED
          BY <1>2, <5>1, <5>2 DEF LeasedIfRunning, Waiting
      <4>3. QED
        BY <3>2, <4>1, <4>2
    <3> HIDE DEF r
    <3>4. QED
      BY <1>1, <1>2, <2>1, <3>2, <3>3, WriteEndAlone
  <2>4. QED
    BY <2>2, <2>3
<1>10. QED
  BY <1>3, <1>4, <1>5, <1>6, <1>7, <1>8, <1>9, ReconcileAlone

LEMMA PassKeptAlone ==
    ASSUME AloneInv, exclusive, UNCHANGED <<exclusive, pass>>, JobsAlone', WorkAlone',
           \A k \in Instances : PassAlone(pass[k], jobs', work')
    PROVE  AloneInv'
<1>1. OneAtATime'
  BY DEF AloneInv, OneAtATime
<1>2. (\A k \in Instances : PassAlone(pass[k], jobs, work))'
  OBVIOUS
<1>3. QED
  BY <1>1, <1>2 DEF AloneInv

LEMMA SameTableAlone ==
    ASSUME JobsAlone, UNCHANGED <<jobs, waits, waitOf>>
    PROVE  JobsAlone'
BY Zenon DEF JobsAlone, RunningIsLeased, WaitsMatch

\* The pass writes the work of its job.
LEMMA OwnWorkAlone ==
    ASSUME IInv, AloneInv, exclusive, NEW i \in Instances, pass[i].pc \in Working,
           NEW x, SetWork(i, x), RunsSettled(x)
    PROVE  WorkAlone' /\ work'[pass[i].job] = x
<1>1. work' = [work EXCEPT ![pass[i].job] = x]
  BY DEF SetWork
<1>2. work \in [Jobs -> Work] /\ pass[i].job \in Jobs /\ WorkAlone
  BY WorkingAlone, AloneFacts DEF IInv, WorkOK
<1>3. work'[pass[i].job] = x /\ \A k \in Jobs : k # pass[i].job => work'[k] = work[k]
  BY <1>1, <1>2
<1>4. \A k \in Jobs : RunsSettled(work'[k])
  BY <1>2, <1>3 DEF WorkAlone
<1>5. QED
  BY <1>3, <1>4 DEF WorkAlone, RunsSettled

LEMMA SettledWork ==
    ASSUME NEW w \in Work, WorkFits(w), RunsSettled(w), NEW x
    PROVE  /\ x.dispatches = w.dispatches => RunsSettled(x)
           /\ RunsSettled(WithNewDispatch(w))
<1>1. x.dispatches = w.dispatches => RunsSettled(x)
  BY DEF RunsSettled
<1>2. RunsSettled(WithNewDispatch(w))
  <2> DEFINE y == WithNewDispatch(w)
  <2>1. /\ Len(y.dispatches) = Len(w.dispatches) + 1 /\ Len(w.dispatches) \in Nat
        /\ y.dispatches[Len(y.dispatches)].runs = {}
        /\ \A c \in 1 .. Len(w.dispatches) : y.dispatches[c] = w.dispatches[c]
    BY NewDispatchWork, WorkFields DEF NewDispatch
  <2> HIDE DEF y
  <2>2. QED
    BY <2>1 DEF RunsSettled, y
<1>3. QED
  BY <1>1, <1>2

\* The handlers outside the launch.
LEMMA HandlerAlone ==
    ASSUME IInv, AloneInv, exclusive, UNCHANGED exclusive, NEW i \in Instances,
           \/ Perform(i) \/ ActFenced(i) \/ ActStep(i) \/ After(i) \/ AfterRefused(i)
           \/ ActError(i) \/ ActErrorRefused(i) \/ ActClose(i) \/ ActCreate(i) \/ ActUnroutable(i)
           \/ ActConsume(i) \/ ActTest(i) \/ TestEnds(i)
           \/ ActApply(i) \/ ApplyBind(i) \/ ApplyFinish(i)
    PROVE  AloneInv'
<1> DEFINE j == pass[i].job
           r == JobOf(i)
           w == WorkOf(i)
<1>1. pass[i].pc \in Working /\ pass[i].pc \notin Gone
  BY DEF Perform, ActFenced, ActStep, After, AfterRefused, ActError, ActErrorRefused, ActClose,
         ActCreate, ActUnroutable, ActConsume, ActTest, TestEnds, ActApply, ApplyBind,
         ApplyFinish, At, Working, Gone
<1>2. /\ j \in Jobs /\ r \in Row /\ LeasedIfRunning(r) /\ ~Waiting(r)
      /\ r.ps \notin {"LOST", "WAITING_EXTERNAL"} /\ r = jobs[j] /\ JobsAlone
      /\ w \in Work /\ WorkFits(w) /\ RunsSettled(w)
      /\ UNCHANGED work => WorkAlone'
  BY <1>1, WorkingAlone, AloneFacts, SameWorkAlone DEF JobOf
<1> HIDE DEF r, w
<1>3. CASE \/ Perform(i) \/ ActFenced(i) \/ ActStep(i) \/ AfterRefused(i) \/ ActErrorRefused(i)
           \/ ActTest(i)
  <2>1. /\ SameStore /\ UNCHANGED work
        /\ \/ EndPass(i)
           \/ \E x \in {"act", "finish", "after", "test", "requeue"} :
                Goto(i, x) /\ (x = "act" => pass[i].pc = "perform")
    BY <1>3 DEF Perform, ActFenced, ActStep, AfterRefused, ActErrorRefused, ActTest, Fenced, At
  <2>2. CASE EndPass(i)
    BY <1>1, <1>2, <2>1, <2>2, WriteEndAlone
  <2>3. CASE ~EndPass(i)
    <3>1. PICK x \in {"act", "finish", "after", "test", "requeue"} :
            Goto(i, x) /\ (x = "act" => pass[i].pc = "perform")
      BY <2>1, <2>3
    <3>2. QED
      BY <1>1, <2>1, <3>1, TurnAlone DEF Working
  <2>4. QED
    BY <2>2, <2>3
<1>4. CASE After(i) \/ ActError(i) \/ ActClose(i) \/ ActUnroutable(i)
  <2>1. Goto(i, "finish") /\ UNCHANGED work
    BY <1>4, Zenon DEF After, ActError, ActClose, ActUnroutable
  <2>2. CASE SameStore
    BY <1>1, <1>2, <2>1, <2>2, WriteLateAlone DEF Late
  <2>3. CASE ~SameStore
    <3>1. PICK s : /\ Put(j, s) /\ OnlyJobs
                   /\ \/ s = Projected(Bumped(r), "ERROR") \/ s = Projected(r, "ERROR")
                      \/ \E d : s = BackedOff(r, d) \/ s = RecoveryRequeued(r, "BACKOFF", d)
                      \/ \E x \in Terminals : s = Closed(r, x)
      <4>1. TerminalOf(pass[i].act) \in Terminals /\ "BLOCKED" \in Terminals
        BY DEF TerminalOf, Terminals
      <4>2. QED
        BY <1>2, <1>4, <2>3, <4>1, Zenon
           DEF After, ActError, ActClose, ActUnroutable, PersistError, AdapterBackoff,
               PerformPersistentError, CloseJob, BackoffDecision, r, JobOf
    <3>2. LeasedIfRunning(s) /\ ~Waiting(s) /\ s.ps # "LOST"
      <4>1. CASE \/ s = Projected(Bumped(r), "ERROR") \/ s = Projected(r, "ERROR")
                 \/ \E d : s = BackedOff(r, d)
        BY <1>2, <4>1, FailingAlone, Zenon
      <4>2. CASE \E d : s = RecoveryRequeued(r, "BACKOFF", d)
        BY <1>2, <4>2, LeavingAlone, UpdateColumns
      <4>3. CASE \E x \in Terminals : s = Closed(r, x)
        <5>1. LeasedIfRunning(s) /\ ~Waiting(s)
          BY <1>2, <4>3, LeavingAlone, Zenon
        <5>2. s.ps \in Terminals
          BY <1>2, <4>3, UpdateColumns
        <5>3. QED
          BY <5>1, <5>2 DEF Terminals
      <4>4. QED
        BY <3>1, <4>1, <4>2, <4>3
    <3>3. QED
      BY <1>1, <1>2, <2>1, <3>1, <3>2, WriteLateAlone DEF Late
  <2>4. QED
    BY <2>2, <2>3
<1>5. CASE ActCreate(i) \/ ActConsume(i) \/ TestEnds(i)
  <2>1. /\ SameStore
        /\ EndPass(i) \/ Goto(i, "finish") \/ Goto(i, "testrecover")
        /\ \/ UNCHANGED work
           \/ SetWork(i, WithNewDispatch(w))
           \/ SetWork(i, [w EXCEPT !.active = FALSE])
           \/ \E e : SetWork(i, Tested(w, e))
    BY <1>5 DEF ActCreate, ActConsume, TestEnds, w
  <2>2. WorkAlone'
    <3>1. CASE UNCHANGED work
      BY <1>2, <3>1
    <3>2. CASE ~UNCHANGED work
      <4>1. PICK x : /\ SetWork(i, x)
                     /\ \/ x = WithNewDispatch(w) \/ x = [w EXCEPT !.active = FALSE]
                        \/ \E e : x = Tested(w, e)
        BY <2>1, <3>2, Zenon
      <4>2. x = WithNewDispatch(w) \/ x.dispatches = w.dispatches
        BY <1>2, <4>1 DEF Work, Tested
      <4>3. RunsSettled(x)
        BY <1>2, <4>2, SettledWork
      <4>4. QED
        BY <1>1, <4>1, <4>3, OwnWorkAlone
    <3>3. QED
      BY <3>1, <3>2
  <2>3. QED
    BY <1>1, <2>1, <2>2, WriteEndAlone, WriteLateAlone DEF Late
<1>6. CASE ActApply(i) \/ ApplyFinish(i)
  <2>1. /\ UNCHANGED <<jobs, waits, waitOf, work>>
        /\ Goto(i, "apply") \/ Goto(i, "finish")
    BY <1>6 DEF ActApply, ApplyFinish, BeginApply, FinishApply
  <2>2. JobsAlone' /\ WorkAlone' /\ jobs'[j].ps \notin {"LOST", "WAITING_EXTERNAL"}
    BY <1>2, <2>1, SameTableAlone
  <2>3. QED
    BY <1>1, <2>1, <2>2, LateAlone DEF Late
<1>7. CASE ApplyBind(i)
  <2>1. PICK v \in Worktrees : Put(j, [r EXCEPT !.path = v, !.bound = TRUE]) /\ OnlyJobs
    BY <1>2, <1>7, Zenon DEF ApplyBind, BindWriterWorktree
  <2> DEFINE s == [r EXCEPT !.path = v, !.bound = TRUE]
  <2>2. s.ps = r.ps /\ s.owner = r.owner /\ s.expires = r.expires
    BY <1>2 DEF Row
  <2> HIDE DEF s
  <2>3. LeasedIfRunning(s) /\ ~Waiting(s)
    BY <1>2, <2>2 DEF LeasedIfRunning, Waiting
  <2>4. JobsAlone' /\ jobs'[j] = s
    BY <1>1, <2>1, <2>3, OwnRowAlone DEF s
  <2>5. UNCHANGED <<pass, work>> /\ pass[i].pc = "apply"
    BY <1>7 DEF ApplyBind, At
  <2>6. PassAlone(pass[i], jobs', work')
    BY <1>2, <2>2, <2>4, <2>5, RestAlone DEF Late
  <2>7. \A k \in Instances : PassAlone(pass[k], jobs', work')
    BY <1>1, <2>6, AloneFacts, RestAlone
  <2>8. QED
    BY <1>2, <2>4, <2>5, <2>7, PassKeptAlone
<1>8. QED
  BY <1>3, <1>4, <1>5, <1>6, <1>7

\* A row journalled, an agent launched for a dispatch that has none.
LEMMA SettledLaunch ==
    ASSUME NEW w \in Work, WorkFits(w), RunsSettled(w), NEW d \in 1 .. Len(w.dispatches)
    PROVE  /\ \A s \in SpawnStates \ {"ABSENT"} : RunsSettled(Journalled(w, d, s))
           /\ w.dispatches[d].runs = {} /\ w.dispatches[d].spawn = "RUNNING" =>
                RunsSettled(Launched(w, d))
<1>1. ASSUME NEW s \in SpawnStates \ {"ABSENT"} PROVE RunsSettled(Journalled(w, d, s))
  <2> DEFINE x == Journalled(w, d, s)
  <2>1. /\ Len(x.dispatches) = Len(w.dispatches)
        /\ x.dispatches[d].spawn = s /\ x.dispatches[d].runs = w.dispatches[d].runs
        /\ \A c \in 1 .. Len(w.dispatches) : c # d => x.dispatches[c] = w.dispatches[c]
    BY JournalledWork
  <2> HIDE DEF x
  <2>2. QED
    BY <2>1 DEF RunsSettled, x
<1>2. ASSUME w.dispatches[d].runs = {}, w.dispatches[d].spawn = "RUNNING"
      PROVE  RunsSettled(Launched(w, d))
  <2> DEFINE x == Launched(w, d)
             n == w.nproc + 1
  <2>1. /\ Len(x.dispatches) = Len(w.dispatches)
        /\ x.dispatches[d].spawn = "RUNNING" /\ x.dispatches[d].runs = {n}
        /\ \A c \in 1 .. Len(w.dispatches) : c # d => x.dispatches[c] = w.dispatches[c]
    BY <1>2, LaunchedWork
  <2> HIDE DEF x, n
  <2>2. QED
    BY <2>1 DEF RunsSettled, x
<1>3. QED
  BY <1>1, <1>2

\* _perform_spawn_run.
LEMMA SpawnAlone ==
    ASSUME IInv, AloneInv, exclusive, UNCHANGED exclusive, NEW i \in Instances,
           \/ ActSpawn(i) \/ ActSpawnRefused(i) \/ SpawnRefused(i) \/ SpawnRecheck(i)
           \/ SpawnRecheckFails(i) \/ Spawn(i) \/ SpawnFails(i) \/ Register(i) \/ Spawned(i)
    PROVE  AloneInv'
<1> DEFINE j == pass[i].job
           r == JobOf(i)
           w == WorkOf(i)
           d == pass[i].disp
<1>1. /\ pass[i].pc = "act" \/ pass[i].pc \in Launching
      /\ pass[i].act = "SPAWN" \/ pass[i].pc \in Launching
      /\ pass[i].pc \notin Gone
  BY DEF ActSpawn, ActSpawnRefused, SpawnRefused, SpawnRecheck, SpawnRecheckFails, Spawn,
         SpawnFails, Register, Spawned, At, Launching, Gone
<1>2. /\ pass[i].pc \in Working /\ pass[i].act = "SPAWN" /\ w \in Work /\ WorkFits(w)
      /\ d \in 1 .. Len(w.dispatches) /\ Typed(pass[i])
      /\ pass[i].pc \in Launching => w.dispatches[d].spawn = "RUNNING"
  BY <1>1, LauncherFacts
<1>3. /\ RunsSettled(w) /\ JobsAlone /\ WorkAlone /\ r.ps \notin {"LOST", "WAITING_EXTERNAL"}
      /\ r = jobs[j]
      /\ pass[i].pc \in {"admit", "spawn"} => w.dispatches[d].runs = {}
      /\ pass[i].pc = "act" => /\ w.dispatches[d].spawn = "ABSENT" /\ w.dispatches[d].runs = {}
                               /\ r.owner # NULL
  <2>1. /\ RunsSettled(w) /\ JobsAlone /\ WorkAlone /\ r.ps \notin {"LOST", "WAITING_EXTERNAL"}
        /\ r = jobs[j] /\ w = work[j] /\ PassAlone(pass[i], jobs, work)
    BY <1>1, <1>2, WorkingAlone, AloneFacts DEF JobOf, WorkOf
  <2>2. pass[i].pc \in {"admit", "spawn"} => w.dispatches[d].runs = {}
    BY <2>1 DEF PassAlone, HoldsDispatch
  <2>3. pass[i].pc = "act" => w.dispatches[d].spawn = "ABSENT"
    BY <1>2, <2>1 DEF PassAlone, HoldsDispatch
  <2>4. pass[i].pc = "act" => r.owner # NULL
    BY <1>2, <2>1 DEF PassAlone, HoldsJob
  <2>5. w.dispatches[d].spawn = "ABSENT" => w.dispatches[d].runs = {}
    BY <1>2, <2>1 DEF RunsSettled
  <2>6. QED
    BY <2>1, <2>2, <2>3, <2>4, <2>5
<1> HIDE DEF w, r, d
<1>4. CASE ActSpawnRefused(i) \/ SpawnRecheck(i)
  <2>1. PICK x \in {"finish", "after", "spawn"} :
            Goto(i, x) /\ (x = "spawn" => pass[i].pc = "admit") /\ SameStore /\ UNCHANGED work
    BY <1>4 DEF ActSpawnRefused, SpawnRecheck, At
  <2>2. QED
    BY <1>2, <2>1, TurnAlone DEF Working
<1>5. CASE ActSpawn(i)
  <2> DEFINE x == Journalled(w, d, "RUNNING")
             q == TurnedTo(pass[i], "admit")
  <2>1. GoOn(i, q) /\ SetWork(i, x) /\ SameStore /\ pass[i].pc = "act"
    BY <1>5 DEF ActSpawn, Goto, Journal, At, w, d
  <2>2. /\ RunsSettled(x) /\ x.dispatches[d].runs = {}
    BY <1>2, <1>3, <2>1, SettledLaunch, JournalledWork DEF SpawnStates
  <2>3. q.pc = "admit" /\ q.job = j /\ q.act = "SPAWN" /\ q.disp = d
    BY <1>2, TurnedTyped DEF PCs, d
  <2> HIDE DEF x, q
  <2>4. WorkAlone' /\ work'[j] = x
    BY <1>2, <2>1, <2>2, OwnWorkAlone
  <2>5. JobsAlone' /\ jobs'[j] = r
    BY <1>2, <1>3, <2>1, SameStoreAlone
  <2>6. PassAlone(q, jobs', work')
    BY <1>3, <2>1, <2>2, <2>3, <2>4, <2>5 DEF PassAlone, RowsHold, HoldsJob, HoldsDispatch, Working
  <2>7. QED
    BY <1>1, <2>1, <2>4, <2>5, <2>6, AloneFacts, PassStepAlone
<1>6. CASE \/ SpawnRefused(i) \/ SpawnRecheckFails(i) \/ Register(i) \/ Spawned(i) \/ SpawnFails(i)
  <2>1. /\ SameStore
        /\ EndPass(i) \/ \E y \in {"finish", "requeue", "block", "lost", "spawned"} : Goto(i, y)
    BY <1>6 DEF SpawnRefused, SpawnRecheckFails, Register, Spawned, SpawnFails
  <2>2. PICK v \in {w, Launched(w, d)} :
            /\ v # w => pass[i].pc = "spawn"
            /\ \/ \E s \in {"FAILED", "SUCCEEDED"} : SetWork(i, Journalled(v, d, s))
               \/ SetWork(i, v)
               \/ v = w /\ \E z : SetWork(i, [w EXCEPT !.last = z])
    <3>1. CASE SpawnFails(i)
      BY <3>1 DEF SpawnFails, Journal, At, w, d
    <3>2. CASE \/ SpawnRefused(i) \/ SpawnRecheckFails(i) \/ Register(i) \/ Spawned(i)
      <4>1. \/ \E s \in {"FAILED", "SUCCEEDED"} : SetWork(i, Journalled(w, d, s))
            \/ SetWork(i, w)
            \/ \E z : SetWork(i, [w EXCEPT !.last = z])
        BY <3>2 DEF SpawnRefused, SpawnRecheckFails, Register, Spawned, Journal, w, d
      <4>2. QED
        BY <4>1
    <3>3. QED
      BY <1>6, <3>1, <3>2
  <2>3. /\ v \in Work /\ WorkFits(v) /\ RunsSettled(v) /\ d \in 1 .. Len(v.dispatches)
    <3>1. CASE v = w
      BY <1>2, <1>3, <3>1
    <3>2. CASE v # w
      <4>1. v = Launched(w, d) /\ pass[i].pc = "spawn"
        BY <2>2, <3>2
      <4>2. w.dispatches[d].runs = {} /\ w.dispatches[d].spawn = "RUNNING"
        BY <1>2, <1>3, <4>1 DEF Launching
      <4>3. QED
        BY <1>2, <1>3, <4>1, <4>2, SettledLaunch, LaunchedWork
    <3>3. QED
      BY <3>1, <3>2
  <2>4. PICK x : SetWork(i, x) /\ RunsSettled(x)
    <3>1. ASSUME NEW s \in {"FAILED", "SUCCEEDED"} PROVE RunsSettled(Journalled(v, d, s))
      BY <2>3, SettledLaunch DEF SpawnStates
    <3>2. ASSUME NEW z PROVE RunsSettled([w EXCEPT !.last = z])
      <4>1. [w EXCEPT !.last = z].dispatches = w.dispatches
        BY <1>2 DEF Work
      <4>2. QED
        BY <1>2, <1>3, <4>1, SettledWork
    <3>3. QED
      BY <2>2, <2>3, <3>1, <3>2, Zenon
  <2>5. WorkAlone'
    BY <1>2, <2>4, OwnWorkAlone
  <2>6. QED
    BY <1>2, <2>1, <2>5, WriteEndAlone, WriteLateAlone DEF Late
<1>7. CASE Spawn(i)
  <2> DEFINE x == Launched(w, d)
             n == w.nproc + 1
             q == [TurnedTo(pass[i], "register") EXCEPT !.pid = n]
  <2>1. pass[i].pc = "spawn" /\ SetWork(i, x) /\ SameStore /\ GoOn(i, q)
    BY <1>7 DEF Spawn, At, w, d
  <2>2. w.dispatches[d].runs = {} /\ w.dispatches[d].spawn = "RUNNING"
    BY <1>2, <1>3, <2>1 DEF Launching
  <2>3. RunsSettled(x)
    BY <1>2, <1>3, <2>2, SettledLaunch
  <2>4. n \in Nat
    BY <1>2, WorkFields
  <2> HIDE DEF n
  <2>5. q.pc = "register" /\ q.job = j
    BY <1>2, <2>4, SpawnedTyped
  <2> HIDE DEF x, q
  <2>6. WorkAlone' /\ JobsAlone' /\ jobs'[j] = r
    BY <1>2, <1>3, <2>1, <2>3, OwnWorkAlone, SameStoreAlone
  <2>7. PassAlone(q, jobs', work')
    BY <1>3, <2>5, <2>6, RestAlone DEF Late
  <2>8. QED
    BY <1>1, <2>1, <2>6, <2>7, AloneFacts, PassStepAlone
<1>8. QED
  BY <1>4, <1>5, <1>6, <1>7

\* The rows claim_next_job passes by: left alone, or QUEUED and blocked.
LEMMA BlockedAlone ==
    ASSUME IInv, JobsAlone, NEW S, NEW t, NEW k \in Jobs
    PROVE  LET s == BlockMissing(S, t)[k] IN
           LeasedIfRunning(s) /\ (Waiting(s) <=> Waiting(jobs[k]))
<1> DEFINE s == BlockMissing(S, t)[k]
<1>1. jobs[k] \in Row /\ LeasedIfRunning(jobs[k])
  BY DEF IInv, Inv, TypeOK, JobsAlone, RunningIsLeased, LeasedIfRunning
<1>2. s = jobs[k] \/ (s = QuarantinedBlocked(jobs[k]) /\ jobs[k].ps = "QUEUED")
  BY DEF BlockMissing, MissingDependency, Claimable
<1> HIDE DEF s
<1>3. CASE s = jobs[k]
  BY <1>1, <1>3 DEF s
<1>4. CASE s = QuarantinedBlocked(jobs[k]) /\ jobs[k].ps = "QUEUED"
  <2>1. LeasedIfRunning(s) /\ ~Waiting(s)
    BY <1>1, <1>4, LeavingAlone, Zenon
  <2>2. QED
    BY <1>4, <2>1 DEF Waiting, s
<1>5. QED
  BY <1>2, <1>3, <1>4

\* The scan or the restart goes on with a list.
LEMMA RelistAlone ==
    ASSUME IInv, AloneInv, exclusive, UNCHANGED exclusive, NEW i \in Instances,
           pass[i].pc \notin Gone, NEW x \in {"scan", "restart"},
           NEW S \in SUBSET Jobs, NEW f \in [S -> Row],
           GoOn(i, Relisted(pass[i], x, f)), JobsAlone', UNCHANGED work,
           x = "scan" => \A k \in S : f[k].ps = "RUNNING" => jobs'[k] = f[k],
           x = "restart" => \A k \in S : f[k].ps = "RUNNING"
    PROVE  AloneInv'
<1> DEFINE q == Relisted(pass[i], x, f)
<1>1. Typed(pass[i]) /\ x \in PCs
  BY DEF IInv, PassesOK, PCs
<1>2. q.pc = x /\ q.rows = f /\ GoOn(i, q)
  BY <1>1, RelistedTyped
<1> HIDE DEF q
<1>3. PassAlone(q, jobs', work')
  BY <1>2 DEF PassAlone, RowsHold, HoldsJob, HoldsDispatch, Working
<1>4. QED
  BY <1>2, <1>3, AloneFacts, SameWorkAlone, PassStepAlone

\* It takes up job j, which is RUNNING under a lease.
LEMMA HoldAlone ==
    ASSUME IInv, AloneInv, exclusive, UNCHANGED exclusive, NEW i \in Instances,
           pass[i].pc \notin Gone, NEW j \in Jobs, NEW e \in Nat, NEW x \in {"gate", "recover"},
           Hold(i, j, e, x), JobsAlone', UNCHANGED work,
           jobs'[j].ps = "RUNNING", jobs'[j].owner # NULL
    PROVE  AloneInv'
<1> DEFINE q == Holding(j, e, x)
<1>1. x \in PCs
  BY DEF PCs
<1>2. q.pc = x /\ q.job = j /\ q.act = "NONE" /\ GoOn(i, q)
  BY <1>1, HoldingTyped DEF Hold
<1> HIDE DEF q
<1>3. PassAlone(q, jobs', work')
  BY <1>2 DEF PassAlone, RowsHold, HoldsJob, HoldsDispatch, Working
<1>4. QED
  BY <1>2, <1>3, AloneFacts, SameWorkAlone, PassStepAlone

\* claim_next_job.
LEMMA ClaimAlone ==
    ASSUME IInv, SchedNext, AloneInv, exclusive, UNCHANGED exclusive, NEW i \in Instances,
           StartClaim(i) \/ StartScan(i)
    PROVE  AloneInv'
<1>1. pass[i].pc = "idle" /\ pass[i].pc \notin Gone /\ UNCHANGED work
  BY DEF StartClaim, StartScan, At, Gone
<1>2. JobsAlone /\ jobs \in [Jobs -> Row] /\ created \subseteq Jobs /\ now \in Nat
  BY <1>1, AloneFacts DEF IInv, Inv, TypeOK
<1>3. CASE StartClaim(i)
  <2>1. PICK j \in Jobs, t \in 0 .. now :
            ClaimNextJob(i, j, t) /\ Hold(i, j, jobs[j].epoch + 1, "gate")
    BY <1>3, Zenon DEF StartClaim
  <2> DEFINE B == BlockMissing({k \in Jobs : k < j}, t)
             s == Leased(jobs[j], i, t)
  <2>2. /\ jobs' = [B EXCEPT ![j] = s] /\ UNCHANGED <<waits, waitOf>>
        /\ jobs[j].ps = "QUEUED"
    BY <2>1 DEF ClaimNextJob, OnlyJobs, Ready, Claimable
  <2>3. s.ps = "RUNNING" /\ s.owner # NULL /\ LeasedIfRunning(s) /\ ~Waiting(s)
    BY <1>2, LeasedAlone
  <2>4. \A k \in Jobs : LeasedIfRunning(B[k]) /\ (Waiting(B[k]) <=> Waiting(jobs[k]))
    BY <1>2, BlockedAlone
  <2>5. DOMAIN B = Jobs
    BY DEF BlockMissing
  <2> HIDE DEF B, s
  <2>6. jobs'[j] = s /\ \A k \in Jobs : k # j => jobs'[k] = B[k]
    BY <2>2, <2>5
  <2>7. ~Waiting(jobs[j])
    BY <2>2 DEF Waiting
  <2>8. JobsAlone'
    BY <1>2, <2>2, <2>3, <2>4, <2>6, <2>7, TableAlone
  <2>9. jobs[j].epoch + 1 \in Nat
    BY RowEpoch
  <2>10. QED
    BY <1>1, <2>1, <2>3, <2>6, <2>8, <2>9, HoldAlone
<1>4. CASE StartScan(i)
  <2> DEFINE S == {k \in created : jobs'[k].terminal = NULL}
             f == [j \in S |-> jobs'[j]]
             q == Listing("scan", f)
  <2>1. PICK t \in 0 .. now : ClaimNothing(t)
    BY <1>4, Zenon DEF StartScan
  <2>2. GoOn(i, q)
    BY <1>4, Zenon DEF StartScan
  <2>3. jobs' = BlockMissing(Jobs, t) /\ UNCHANGED <<waits, waitOf>>
    BY <2>1 DEF ClaimNothing, OnlyJobs
  <2>4. \A k \in Jobs : LeasedIfRunning(jobs'[k]) /\ (Waiting(jobs'[k]) <=> Waiting(jobs[k]))
    BY <1>2, <2>3, BlockedAlone
  <2>5. JobsAlone'
    BY <1>2, <2>3, <2>4, TableAlone
  <2>6. jobs' \in [Jobs -> Row]
    BY StepKeepsStore DEF Inv, TypeOK
  <2>7. S \in SUBSET Jobs /\ f \in [S -> Row] /\ \A k \in S : f[k] = jobs'[k]
    BY <1>2, <2>6
  <2> HIDE DEF S, f
  <2>8. q.pc = "scan" /\ q.rows = f
    BY <1>2, <2>7, ListingTyped, ListingPCs
  <2> HIDE DEF q
  <2>9. PassAlone(q, jobs', work')
    BY <2>7, <2>8 DEF PassAlone, RowsHold, HoldsJob, HoldsDispatch, Working
  <2>10. QED
    BY <1>1, <2>2, <2>5, <2>9, AloneFacts, SameWorkAlone, PassStepAlone
<1>5. QED
  BY <1>3, <1>4

\* The scan of _resolve_loop_continuation.
LEMMA ScanAlone ==
    ASSUME IInv, AloneInv, exclusive, UNCHANGED exclusive, NEW i \in Instances,
           ScanContinue(i) \/ ScanVerdict(i) \/ ScanLost(i) \/ TakeOver(i) \/ ScanEnd(i)
    PROVE  AloneInv'
<1> DEFINE j == pass[i].job
           rows == pass[i].rows
<1>1. pass[i].pc \in {"scan", "scanlost", "takeover"} /\ pass[i].pc \notin Gone /\ UNCHANGED work
  BY DEF ScanContinue, ScanVerdict, ScanLost, TakeOver, ScanEnd, At, Gone
<1>2. /\ JobsAlone /\ jobs \in [Jobs -> Row] /\ now \in Nat /\ Typed(pass[i])
      /\ \A k \in Jobs : LeasedIfRunning(jobs[k])
  BY <1>1, AloneFacts DEF IInv, Inv, TypeOK, PassesOK
<1>3. /\ \A k \in DOMAIN rows : rows[k].ps = "RUNNING" => jobs[k] = rows[k]
      /\ pass[i].pc \in {"scanlost", "takeover"} =>
            /\ j \in Jobs /\ jobs[j] = rows[j] /\ rows[j].ps = "RUNNING" /\ ~Waiting(jobs[j])
  <2>1. RowsHold(pass[i], jobs) /\ PassFits(pass[i], work)
    BY <1>1, AloneFacts DEF PassAlone, IInv, PassesOK
  <2>2. QED
    BY <1>1, <2>1 DEF RowsHold, PassFits, Waiting
<1>4. ASSUME ScanOn(i), JobsAlone',
             \A k \in Jobs : k # j => jobs'[k] = jobs[k]
      PROVE  AloneInv'
  <2> DEFINE S == {k \in DOMAIN rows : k > j}
             f == RowsAfter(i, j)
  <2>1. f \in [S -> Row] /\ S \in SUBSET Jobs /\ \A k \in S : f[k] = rows[k] /\ k \in DOMAIN rows
    BY <1>2, RowsAfterTyped DEF RowsAfter
  <2>2. \A k \in S : k \in Jobs /\ k # j
    BY <2>1, JobsAssumption
  <2>3. GoOn(i, Relisted(pass[i], "scan", f))
    BY <1>4, Zenon DEF ScanOn
  <2> HIDE DEF S, f, rows, j
  <2>4. \A k \in S : f[k].ps = "RUNNING" => jobs'[k] = f[k]
    BY <1>3, <1>4, <2>1, <2>2
  <2>5. QED
    BY <1>1, <1>4, <2>1, <2>3, <2>4, RelistAlone
<1>5. CASE ScanContinue(i)
  <2>1. PICK k \in Jobs : /\ NextRow(i, k) /\ Continuable(i, k) /\ SameStore
                          /\ Hold(i, k, rows[k].epoch, "recover")
    BY <1>5, Zenon DEF ScanContinue
  <2>2. rows[k].ps = "RUNNING" /\ rows[k].owner = i /\ k \in DOMAIN rows
    BY <2>1 DEF NextRow, Continuable, Mine
  <2>3. JobsAlone' /\ jobs'[k] = rows[k]
    BY <1>2, <1>3, <2>1, <2>2, SameStoreAlone
  <2>4. rows[k].epoch \in Nat
    BY <1>2, <1>3, <2>2 DEF Row
  <2> HIDE DEF rows
  <2>5. jobs'[k].ps = "RUNNING" /\ jobs'[k].owner # NULL
    BY <2>2, <2>3, NullAssumption
  <2>6. QED
    BY <1>1, <2>1, <2>3, <2>4, <2>5, HoldAlone
<1>6. CASE ScanVerdict(i)
  <2>1. PICK k \in Jobs :
            /\ NextRow(i, k) /\ ~Continuable(i, k) /\ SameStore
            /\ \/ GoOn(i, Relisted(pass[i], "scan", RowsAfter(i, k)))
               \/ GoOn(i, StoppedAt(pass[i], "scanlost", k))
               \/ GoOn(i, StoppedAt(pass[i], "takeover", k))
    BY <1>6 DEF ScanVerdict
  <2>2. k \in DOMAIN rows /\ rows[k].ps = "RUNNING"
    BY <2>1 DEF NextRow, ExpiredRow
  <2>3. JobsAlone' /\ jobs' = jobs
    BY <1>2, <2>1, SameStoreAlone
  <2>4. CASE GoOn(i, Relisted(pass[i], "scan", RowsAfter(i, k)))
    <3> DEFINE S == {l \in DOMAIN rows : l > k}
               f == RowsAfter(i, k)
    <3>1. f \in [S -> Row] /\ S \in SUBSET Jobs /\ \A l \in S : f[l] = rows[l] /\ l \in DOMAIN rows
      BY <1>2, RowsAfterTyped DEF RowsAfter
    <3>2. \A l \in S : f[l].ps = "RUNNING" => jobs'[l] = f[l]
      BY <1>3, <2>3, <3>1
    <3> HIDE DEF S, f
    <3>3. QED
      BY <1>1, <2>3, <2>4, <3>1, <3>2, RelistAlone DEF f
  <2>5. ASSUME NEW x \in {"scanlost", "takeover"}, GoOn(i, StoppedAt(pass[i], x, k))
        PROVE  AloneInv'
    <3> DEFINE q == StoppedAt(pass[i], x, k)
    <3>1. x \in PCs /\ "LOST" \in {"LOST", "BLOCKED"}
      BY DEF PCs
    <3>2. q.pc = x /\ q.rows = rows /\ q.job = k
      BY <1>2, <3>1, StoppedTyped
    <3>3. GoOn(i, q)
      BY <2>5
    <3> HIDE DEF q, rows
    <3>4. PassAlone(q, jobs', work')
      BY <1>3, <2>2, <2>3, <3>2 DEF PassAlone, RowsHold, HoldsJob, HoldsDispatch, Working
    <3>5. QED
      BY <1>1, <2>3, <3>3, <3>4, AloneFacts, SameWorkAlone, PassStepAlone
  <2>6. QED
    BY <2>1, <2>4, <2>5
<1>7. CASE ScanLost(i)
  <2>1. pass[i].pc = "scanlost" /\ ScanOn(i)
    BY <1>7 DEF ScanLost, At
  <2>2. CASE SameStore
    <3>1. JobsAlone' /\ jobs' = jobs
      BY <1>2, <2>2, SameStoreAlone
    <3>2. QED
      BY <1>4, <2>1, <3>1
  <2>3. CASE ~SameStore
    <3>1. Put(j, QuarantinedLost(jobs[j])) /\ OnlyJobs
      BY <1>7, <2>3, Zenon DEF ScanLost, QuarantineLost
    <3>2. jobs[j] \in Row
      BY <1>2, <1>3, <2>1
    <3>3. LeasedIfRunning(QuarantinedLost(jobs[j])) /\ ~Waiting(QuarantinedLost(jobs[j]))
      BY <3>2, LeavingAlone
    <3>4. JobsAlone' /\ \A k \in Jobs : k # j => jobs'[k] = jobs[k]
      BY <1>2, <1>3, <2>1, <3>1, <3>3, WriteAlone
    <3>5. QED
      BY <1>4, <2>1, <3>4
  <2>4. QED
    BY <2>2, <2>3
<1>8. CASE TakeOver(i)
  <2>1. pass[i].pc = "takeover"
    BY <1>8 DEF TakeOver, At
  <2>2. PICK t \in 0 .. now, v \in WorktreeVerdicts(JobOf(i)) :
            \/ SameStore /\ ScanOn(i)
            \/ /\ RecoverTakeoverJob(i, j, t, v)
               /\ IF v = "clean" THEN Hold(i, j, JobOf(i).epoch + 1, "gate") ELSE ScanOn(i)
    BY <1>8, Zenon DEF TakeOver
  <2>3. CASE SameStore /\ ScanOn(i)
    <3>1. JobsAlone' /\ jobs' = jobs
      BY <1>2, <2>3, SameStoreAlone
    <3>2. QED
      BY <1>4, <2>3, <3>1
  <2>4. CASE RecoverTakeoverJob(i, j, t, v) /\ v = "clean" /\ Hold(i, j, JobOf(i).epoch + 1, "gate")
    <3> DEFINE s == Leased(jobs[j], i, t)
    <3>1. Put(j, s) /\ OnlyJobs
      BY <2>4 DEF RecoverTakeoverJob
    <3>2. jobs[j] \in Row /\ t \in Nat /\ JobOf(i).epoch + 1 \in Nat /\ j \in Jobs
      BY <1>2, <1>3, <2>1, RowEpoch DEF JobOf
    <3>3. s.ps = "RUNNING" /\ s.owner # NULL /\ LeasedIfRunning(s) /\ ~Waiting(s)
      BY <3>2, LeasedAlone
    <3> HIDE DEF s
    <3>4. JobsAlone' /\ jobs'[j] = s
      BY <1>2, <1>3, <2>1, <3>1, <3>3, WriteAlone
    <3>5. QED
      BY <1>1, <2>4, <3>2, <3>3, <3>4, HoldAlone
  <2>5. CASE RecoverTakeoverJob(i, j, t, v) /\ v # "clean" /\ ScanOn(i)
    <3>1. PICK s : /\ s = QuarantinedBlocked(jobs[j]) \/ s = QuarantinedLost(jobs[j])
                   /\ Put(j, s) /\ OnlyJobs
      BY <2>5 DEF RecoverTakeoverJob, WorktreeVerdicts, Verdicts
    <3>2. jobs[j] \in Row
      BY <1>2, <1>3, <2>1
    <3>3. LeasedIfRunning(s) /\ ~Waiting(s)
      BY <3>1, <3>2, LeavingAlone, Zenon
    <3>4. JobsAlone' /\ \A k \in Jobs : k # j => jobs'[k] = jobs[k]
      BY <1>2, <1>3, <2>1, <3>1, <3>3, WriteAlone
    <3>5. QED
      BY <1>4, <2>5, <3>4
  <2>6. QED
    BY <2>2, <2>3, <2>4, <2>5
<1>9. CASE ScanEnd(i)
  <2>1. EndPass(i) /\ SameStore
    BY <1>9, Zenon DEF ScanEnd
  <2>2. QED
    BY <1>1, <1>2, <2>1, AloneFacts, SameStoreAlone, SameWorkAlone, EndAlone
<1>10. QED
  BY <1>5, <1>6, <1>7, <1>8, <1>9

\* reconcile_after_restart.
LEMMA RestartAlone ==
    ASSUME IInv, AloneInv, exclusive, UNCHANGED exclusive, NEW i \in Instances,
           Restart(i) \/ RestartRow(i) \/ RestartQuarantine(i) \/ RestartEnd(i)
    PROVE  AloneInv'
<1> DEFINE j == pass[i].job
           rows == pass[i].rows
<1>0. UNCHANGED work
  BY Zenon DEF Restart, RestartRow, RestartQuarantine, RestartEnd
<1>1. /\ JobsAlone /\ WorkAlone /\ jobs \in [Jobs -> Row] /\ now \in Nat /\ created \subseteq Jobs
      /\ Typed(pass[i]) /\ \A k \in Jobs : LeasedIfRunning(jobs[k])
  BY DEF IInv, Inv, TypeOK, PassesOK, AloneInv, JobsAlone, RunningIsLeased, LeasedIfRunning
<1>2. CASE Restart(i)
  <2> DEFINE S == {k \in created : jobs[k].ps = "RUNNING"}
             f == [k \in S |-> jobs[k]]
             q == Listing("restart", f)
  <2>1. GoOn(i, q) /\ SameStore
    BY <1>2, Zenon DEF Restart
  <2>2. \A k \in Instances : k # i => pass[k].pc \in Gone
    BY <1>2 DEF Restart, Gone
  <2>3. S \in SUBSET Jobs /\ f \in [S -> Row] /\ \A k \in S : f[k].ps = "RUNNING"
    BY <1>1
  <2> HIDE DEF S, f
  <2>4. q.pc = "restart" /\ q.rows = f
    BY <1>1, <2>3, ListingTyped, ListingPCs
  <2> HIDE DEF q
  <2>5. PassAlone(q, jobs', work')
    BY <2>3, <2>4 DEF PassAlone, RowsHold, HoldsJob, HoldsDispatch, Working
  <2>6. QED
    BY <1>0, <1>1, <2>1, <2>2, <2>5, SameStoreAlone, SameWorkAlone, PassStepAlone
<1>3. CASE RestartRow(i) \/ RestartQuarantine(i) \/ RestartEnd(i)
  <2>1. pass[i].pc \in {"restart", "quarantine"} /\ pass[i].pc \notin Gone
    BY <1>3 DEF RestartRow, RestartQuarantine, RestartEnd, At, Gone
  <2>2. /\ \A k \in DOMAIN rows : rows[k].ps = "RUNNING"
        /\ pass[i].pc = "quarantine" => j \in Jobs /\ j \in DOMAIN rows
    <3>1. RowsHold(pass[i], jobs) /\ PassFits(pass[i], work)
      BY <2>1, AloneFacts DEF PassAlone, IInv, PassesOK
    <3>2. QED
      BY <2>1, <3>1 DEF RowsHold, PassFits
  <2>3. ASSUME NEW k, JobsAlone', GoOn(i, Relisted(pass[i], "restart", RowsAfter(i, k)))
        PROVE  AloneInv'
    <3> DEFINE S == {l \in DOMAIN rows : l > k}
               f == RowsAfter(i, k)
    <3>1. f \in [S -> Row] /\ S \in SUBSET Jobs /\ \A l \in S : f[l] = rows[l] /\ l \in DOMAIN rows
      BY <1>1, RowsAfterTyped DEF RowsAfter
    <3>2. \A l \in S : f[l].ps = "RUNNING"
      BY <2>2, <3>1
    <3> HIDE DEF S, f
    <3>3. QED
      BY <1>0, <2>1, <2>3, <3>1, <3>2, RelistAlone DEF f
  <2>4. CASE RestartRow(i)
    <3>1. PICK k \in DOMAIN rows, to \in {"LOST", "BLOCKED", "keep"} :
            /\ SameStore
            /\ GoOn(i, IF to = "keep" THEN Relisted(pass[i], "restart", RowsAfter(i, k))
                       ELSE Condemning(pass[i], k, to))
      BY <2>4, Zenon DEF RestartRow
    <3>2. JobsAlone' /\ jobs' = jobs
      BY <1>1, <3>1, SameStoreAlone
    <3>3. CASE to = "keep"
      BY <2>3, <3>1, <3>2, <3>3
    <3>4. CASE to # "keep"
      <4> DEFINE q == Condemning(pass[i], k, to)
      <4>1. GoOn(i, q)
        BY <3>1, <3>4, Zenon
      <4>2. k \in Jobs /\ to \in {"LOST", "BLOCKED"} /\ "quarantine" \in PCs
        BY <1>1, <3>1, <3>4, RowsTyped DEF PCs
      <4>3. q.pc = "quarantine" /\ q.rows = rows
        BY <1>1, <4>2, StoppedTyped
      <4> HIDE DEF q, rows
      <4>4. PassAlone(q, jobs', work')
        BY <2>2, <4>3 DEF PassAlone, RowsHold, HoldsJob, HoldsDispatch, Working
      <4>5. QED
        BY <1>0, <2>1, <3>2, <4>1, <4>4, AloneFacts, SameWorkAlone, PassStepAlone
    <3>5. QED
      BY <3>3, <3>4
  <2>5. CASE RestartQuarantine(i)
    <3>1. pass[i].pc = "quarantine" /\ j \in Jobs /\ jobs[j] \in Row
      BY <1>1, <2>2, <2>5 DEF RestartQuarantine, At
    <3>2. JobsAlone'
      <4>1. CASE SameStore
        BY <1>1, <4>1, SameStoreAlone
      <4>2. CASE ~SameStore
        <5>1. /\ SnapshotHolds(i)
              /\ \E s : /\ s = QuarantinedLost(jobs[j]) \/ s = QuarantinedBlocked(jobs[j])
                        /\ Put(j, s) /\ OnlyJobs
          BY <2>5, <4>2, Zenon DEF RestartQuarantine, QuarantineLost, QuarantineBlocked
        <5>2. ~Waiting(jobs[j])
          BY <2>2, <3>1, <5>1 DEF SnapshotHolds, SnapshotOf, JobOf, Waiting
        <5>3. PICK s : /\ s = QuarantinedLost(jobs[j]) \/ s = QuarantinedBlocked(jobs[j])
                       /\ Put(j, s) /\ OnlyJobs
          BY <5>1
        <5>4. LeasedIfRunning(s) /\ ~Waiting(s)
          BY <3>1, <5>3, LeavingAlone, Zenon
        <5>5. QED
          BY <1>1, <3>1, <5>2, <5>3, <5>4, WriteAlone
      <4>3. QED
        BY <4>1, <4>2
    <3> DEFINE f == [rows EXCEPT ![j] = jobs[j]]
    <3>3. \/ GoOn(i, Relisted(pass[i], "restart", f)) /\ jobs[j].ps = "RUNNING"
          \/ GoOn(i, Relisted(pass[i], "restart", RowsAfter(i, j)))
      BY <2>5 DEF RestartQuarantine
    <3>4. ASSUME GoOn(i, Relisted(pass[i], "restart", f)), jobs[j].ps = "RUNNING"
          PROVE  AloneInv'
      <4>1. f \in [DOMAIN rows -> Row] /\ DOMAIN rows \in SUBSET Jobs
        BY <1>1, <3>1, RowsTyped
      <4>2. \A l \in DOMAIN rows : f[l].ps = "RUNNING"
        BY <2>2, <3>4
      <4> HIDE DEF f
      <4>3. QED
        BY <1>0, <2>1, <3>2, <3>4, <4>1, <4>2, RelistAlone
    <3>5. QED
      BY <2>3, <3>2, <3>3, <3>4
  <2>6. CASE RestartEnd(i)
    <3>1. EndPass(i) /\ SameStore
      BY <2>6, Zenon DEF RestartEnd
    <3>2. QED
      BY <1>0, <1>1, <2>1, <3>1, SameStoreAlone, SameWorkAlone, EndAlone
  <2>7. QED
    BY <1>3, <2>4, <2>5, <2>6
<1>4. QED
  BY <1>2, <1>3

-----------------------------------------------------------------------------
(* One service process: everyone else *)

\* Nobody's pass moves, and what is written is no row a pass relies on.
LEMMA ElsewhereAlone ==
    ASSUME IInv, AloneInv, exclusive, UNCHANGED <<exclusive, pass, work>>, JobsAlone',
           \A k \in Jobs :
                \/ jobs'[k] = jobs[k]
                \/ /\ jobs[k].ps # "RUNNING"
                   /\ jobs'[k].ps \notin {"LOST", "WAITING_EXTERNAL"}
                   /\ jobs[k].owner = NULL \/ jobs[k].ps = "WAITING_EXTERNAL"
    PROVE  AloneInv'
<1>1. ASSUME NEW k \in Instances PROVE PassAlone(pass[k], jobs', work)
  <2> DEFINE p == pass[k]
             J == jobs'
  <2>1. /\ Typed(p) /\ PassAlone(p, jobs, work)
        /\ p.pc \in Working => p.job \in Jobs
    BY JobAtWork DEF AloneInv, IInv, PassesOK
  <2>2. DOMAIN p.rows \subseteq Jobs
    BY <2>1, RowsTyped
  <2>3. p.pc \in {"gate", "recover", "reconcile", "spawngate", "perform", "act", "admit"}
            => p.pc \in Working
    BY DEF Working
  <2>4. /\ RowsHold(p, jobs) /\ HoldsJob(p, jobs) /\ HoldsDispatch(p, work)
    BY <2>1 DEF PassAlone
  <2> HIDE DEF p, J
  <2>5. RowsHold(p, J)
    BY <2>2, <2>4 DEF RowsHold, J
  <2>6. HoldsJob(p, J)
    BY <2>1, <2>3, <2>4 DEF HoldsJob, J
  <2>7. QED
    BY <2>4, <2>5, <2>6 DEF PassAlone, p, J
<1>2. WorkAlone'
  BY SameWorkAlone DEF AloneInv
<1>3. QED
  BY <1>1, <1>2, PassKeptAlone

LEMMA EnterAlone ==
    ASSUME IInv, AloneInv, exclusive, UNCHANGED exclusive, NEW i \in Instances, EnterWait(i)
    PROVE  AloneInv'
<1>1. pass[i].pc = "idle" /\ pass[i].pc \notin Gone /\ UNCHANGED <<pass, work>>
  BY DEF EnterWait, At, Gone
<1>2. JobsAlone /\ WorkAlone /\ \A k \in Jobs : jobs[k] \in Row /\ LeasedIfRunning(jobs[k])
  BY <1>1, AloneFacts
<1>3. PICK j \in Jobs, t \in 0 .. now :
        TransitionToWaitingExternal(i, j, jobs[j].epoch, t, t + Backoff)
  BY Zenon DEF EnterWait
<1> DEFINE s == Parked(jobs[j], t + Backoff)
           n == nwaits + 1
<1>4. /\ jobs' = [jobs EXCEPT ![j] = s] /\ waits' = waits \cup {[id |-> n, job |-> j]}
      /\ waitOf' = [waitOf EXCEPT ![j] = n] /\ jobs[j].ps = "RUNNING"
  BY <1>3, Zenon DEF TransitionToWaitingExternal, Put
<1>5. s.ps = "WAITING_EXTERNAL"
  BY <1>2, UpdateColumns
<1>6. jobs \in [Jobs -> Row] /\ waitOf \in [Jobs -> Nat]
  BY DEF IInv, Inv, TypeOK
<1> HIDE DEF s, n
<1>7. /\ jobs'[j] = s /\ waitOf'[j] = n
      /\ \A k \in Jobs : k # j => jobs'[k] = jobs[k] /\ waitOf'[k] = waitOf[k]
  BY <1>4, <1>6
<1>8. RunningIsLeased'
  BY <1>2, <1>5, <1>7 DEF RunningIsLeased, LeasedIfRunning
<1>9. WaitsMatch'
  <2> SUFFICES ASSUME NEW k \in Jobs
               PROVE  {w.id : w \in {x \in waits' : x.job = k}} =
                        IF jobs'[k].ps = "WAITING_EXTERNAL" THEN {waitOf'[k]} ELSE {}
    BY DEF WaitsMatch
  <2>1. {w.id : w \in {x \in waits : x.job = k}} =
            IF jobs[k].ps = "WAITING_EXTERNAL" THEN {waitOf[k]} ELSE {}
    BY <1>2 DEF JobsAlone, WaitsMatch
  <2>2. CASE k = j
    <3>1. {x \in waits : x.job = k} = {}
      BY <1>4, <2>1, <2>2
    <3>2. {x \in waits' : x.job = k} = {[id |-> n, job |-> j]}
      BY <1>4, <2>2, <3>1
    <3>3. {w.id : w \in {[id |-> n, job |-> j]}} = {n}
      OBVIOUS
    <3>4. jobs'[k].ps = "WAITING_EXTERNAL" /\ waitOf'[k] = n
      BY <1>5, <1>7, <2>2
    <3>5. QED
      BY <3>2, <3>3, <3>4
  <2>3. CASE k # j
    <3>1. {x \in waits' : x.job = k} = {x \in waits : x.job = k}
      BY <1>4, <2>3
    <3>2. QED
      BY <1>7, <2>1, <2>3, <3>1
  <2>4. QED
    BY <2>2, <2>3
<1>10. JobsAlone'
  BY <1>8, <1>9 DEF JobsAlone
<1>11. \A k \in Instances : PassAlone(pass[k], jobs', work')
  BY <1>1, AloneFacts, RestAlone
<1>12. QED
  BY <1>1, <1>2, <1>10, <1>11, SameWorkAlone, PassKeptAlone

LEMMA CompleteAlone ==
    ASSUME IInv, AloneInv, exclusive, UNCHANGED exclusive, CompleteWait
    PROVE  AloneInv'
<1>1. PICK w \in waits : CompleteWaitAndRequeue(w)
  BY DEF CompleteWait
<1> DEFINE j == w.job
           s == Requeued(jobs[j], "WAITING_RUN", now)
<1>2. /\ jobs' = [jobs EXCEPT ![j] = s] /\ waits' = waits \ {w} /\ waitOf' = waitOf
      /\ jobs[j].ps = "WAITING_EXTERNAL"
  BY <1>1, Zenon DEF CompleteWaitAndRequeue, Put
<1>3. /\ jobs \in [Jobs -> Row] /\ waits \subseteq Wait /\ w \in Wait /\ j \in Jobs
      /\ JobsAlone
  BY DEF IInv, Inv, TypeOK, Wait, AloneInv
<1>4. s.ps = "QUEUED"
  BY <1>3, UpdateColumns
<1> HIDE DEF s
<1>5. jobs'[j] = s /\ \A k \in Jobs : k # j => jobs'[k] = jobs[k]
  BY <1>2, <1>3
<1>6. RunningIsLeased'
  BY <1>3, <1>4, <1>5 DEF RunningIsLeased, JobsAlone
<1>7. WaitsMatch'
  <2> SUFFICES ASSUME NEW k \in Jobs
               PROVE  {v.id : v \in {x \in waits' : x.job = k}} =
                        IF jobs'[k].ps = "WAITING_EXTERNAL" THEN {waitOf'[k]} ELSE {}
    BY DEF WaitsMatch
  <2>1. {v.id : v \in {x \in waits : x.job = k}} =
            IF jobs[k].ps = "WAITING_EXTERNAL" THEN {waitOf[k]} ELSE {}
    BY <1>3 DEF JobsAlone, WaitsMatch
  <2>2. CASE k = j
    <3>1. \A x \in waits : x.job = k => x.id = waitOf[k]
      BY <1>2, <2>1, <2>2
    <3>2. \A x \in waits : x.job = k => x = w
      <4>1. w.id = waitOf[k]
        BY <2>2, <3>1
      <4>2. QED
        BY <1>3, <2>2, <3>1, <4>1 DEF Wait
    <3>3. {x \in waits' : x.job = k} = {}
      BY <1>2, <3>2
    <3>4. QED
      BY <1>4, <1>5, <2>2, <3>3
  <2>3. CASE k # j
    <3>1. {x \in waits' : x.job = k} = {x \in waits : x.job = k}
      BY <1>2, <2>3
    <3>2. QED
      BY <1>2, <1>5, <2>1, <2>3, <3>1
  <2>4. QED
    BY <2>2, <2>3
<1>8. JobsAlone' /\ UNCHANGED <<pass, work>>
  BY <1>6, <1>7 DEF JobsAlone, CompleteWait
<1>9. QED
  BY <1>2, <1>3, <1>4, <1>5, <1>8, ElsewhereAlone

LEMMA OtherAlone ==
    ASSUME IInv, AloneInv, exclusive, UNCHANGED exclusive,
           \/ \E i \in Instances : Crash(i) \/ EnterWait(i)
           \/ Owner \/ CompleteWait \/ AgentExit \/ Clock
    PROVE  AloneInv'
<1>1. JobsAlone /\ WorkAlone /\ jobs \in [Jobs -> Row]
  BY DEF AloneInv, IInv, Inv, TypeOK
<1>2. ASSUME NEW i \in Instances, Crash(i) PROVE AloneInv'
  <2> DEFINE q == TurnedTo(Idle, "dead")
  <2>1. pass[i].pc \notin Gone /\ GoOn(i, q) /\ SameStore /\ UNCHANGED work
    BY <1>2 DEF Crash, Gone
  <2>2. q.pc = "dead"
    BY IdleTyped, TurnedTyped DEF PCs
  <2> HIDE DEF q
  <2>3. PassAlone(q, jobs', work')
    BY <2>2, RestAlone DEF Gone
  <2>4. QED
    BY <1>1, <2>1, <2>3, AloneFacts, SameStoreAlone, SameWorkAlone, PassStepAlone
<1>3. CASE Clock \/ (Owner /\ \E j \in Jobs : CreateJob(j))
  <2>1. UNCHANGED <<jobs, waits, waitOf, pass, work>>
    BY <1>3 DEF Clock, Tick, Owner, CreateJob
  <2>2. JobsAlone'
    BY <1>1, <2>1, SameTableAlone
  <2>3. QED
    BY <2>1, <2>2, ElsewhereAlone
<1>4. CASE Owner /\ ~\E j \in Jobs : CreateJob(j)
  <2>1. PICK j \in Jobs : EnqueueAuthorized(j, "WAITING_RUN", 0)
    BY <1>4, Zenon DEF Owner
  <2> DEFINE s == [Requeued(jobs[j], "WAITING_RUN", 0) EXCEPT !.terminal = NULL]
  <2>2. Put(j, s) /\ OnlyJobs /\ jobs[j].ps = "BLOCKED" /\ jobs[j].owner = NULL
    BY <2>1, Zenon DEF EnqueueAuthorized
  <2>3. s.ps = "QUEUED"
    <3>1. jobs[j] \in Row
      BY <1>1
    <3>2. QED
      BY <3>1 DEF Requeued, Released, Transitioned, Bumped, Row
  <2> HIDE DEF s
  <2>4. LeasedIfRunning(s) /\ ~Waiting(s) /\ ~Waiting(jobs[j])
    BY <2>2, <2>3 DEF LeasedIfRunning, Waiting
  <2>5. JobsAlone' /\ jobs'[j] = s /\ \A k \in Jobs : k # j => jobs'[k] = jobs[k]
    BY <1>1, <2>2, <2>4, WriteAlone
  <2>6. UNCHANGED <<pass, work>>
    BY <1>4 DEF Owner
  <2>7. QED
    BY <2>2, <2>3, <2>5, <2>6, ElsewhereAlone
<1>5. CASE AgentExit
  <2>0. PICK j \in Jobs : \E g : work' = [work EXCEPT ![j].alive = @ \ {g}]
    BY <1>5, Zenon DEF AgentExit
  <2>1. PICK g : work' = [work EXCEPT ![j].alive = @ \ {g}]
    BY <2>0
  <2>2. SameStore /\ UNCHANGED pass
    BY <1>5, Zenon DEF AgentExit
  <2>3. \A k \in Jobs : work'[k].dispatches = work[k].dispatches
    BY <2>1 DEF IInv, WorkOK, Work
  <2>4. WorkAlone'
    BY <1>1, <2>3 DEF WorkAlone, RunsSettled
  <2>5. JobsAlone' /\ jobs' = jobs
    BY <1>1, <2>2, SameStoreAlone
  <2>6. ASSUME NEW k \in Instances PROVE PassAlone(pass[k], jobs', work')
    <3>1. PassAlone(pass[k], jobs, work) /\ (pass[k].pc \in Working => pass[k].job \in Jobs)
      BY JobAtWork DEF AloneInv
    <3>2. pass[k].pc \in {"spawngate", "perform", "act", "admit", "spawn"} => pass[k].pc \in Working
      BY DEF Working
    <3>3. HoldsDispatch(pass[k], work')
      BY <2>3, <3>1, <3>2 DEF PassAlone, HoldsDispatch
    <3>4. QED
      BY <2>5, <3>1, <3>3 DEF PassAlone
  <2>7. QED
    BY <2>2, <2>4, <2>5, <2>6, PassKeptAlone
<1>6. QED
  BY <1>2, <1>3, <1>4, <1>5, EnterAlone, CompleteAlone

-----------------------------------------------------------------------------
(* What holds of one service process at a time *)

LEMMA AloneStep ==
    ASSUME IInv, AloneInv, [SchedNext]_schedVars
    PROVE  AloneInv'
<1>1. CASE SchedNext /\ exclusive
  <2>1. UNCHANGED exclusive
    BY <1>1, Zenon DEF SchedNext
  <2>2. ASSUME NEW i \in Instances, PassStep(i) PROVE AloneInv'
    BY <1>1, <2>1, <2>2, ClaimAlone, ScanAlone, RestartAlone, GateAlone, HandlerAlone, SpawnAlone,
       Zenon DEF PassStep
  <2>3. QED
    BY <1>1, <2>1, <2>2, OtherAlone, Zenon DEF SchedNext
<1>2. CASE SchedNext /\ ~exclusive
  <2>1. UNCHANGED exclusive
    BY <1>2, Zenon DEF SchedNext
  <2>2. QED
    BY <1>2, <2>1 DEF AloneInv
<1>3. CASE UNCHANGED schedVars
  <2>1. SameStore /\ UNCHANGED <<pass, work, exclusive>>
    BY <1>3 DEF schedVars, storeVars, SameStore
  <2>2. CASE exclusive
    <3>1. JobsAlone' /\ jobs' = jobs /\ WorkAlone'
      BY <2>1, <2>2, SameStoreAlone, SameWorkAlone DEF AloneInv
    <3>2. QED
      BY <2>1, <2>2, <3>1, ElsewhereAlone
  <2>3. CASE ~exclusive
    BY <2>1, <2>3 DEF AloneInv
  <2>4. QED
    BY <2>2, <2>3
<1>4. QED
  BY <1>1, <1>2, <1>3

LEMMA AloneInit == SchedInit => AloneInv
<1> SUFFICES ASSUME SchedInit PROVE AloneInv
  OBVIOUS
<1>1. TurnedTo(Idle, "off").pc = "off"
  BY IdleTyped, TurnedTyped DEF PCs
<1>2. \A i \in Instances : pass[i].pc \in Gone
  BY <1>1 DEF SchedInit, Gone
<1>3. \A i \in Instances : PassAlone(pass[i], jobs, work)
  BY <1>2, RestAlone
<1>4. \A j \in Jobs : jobs[j].ps = "QUEUED"
  BY DEF SchedInit, Init, NewRow
<1>5. RunningIsLeased
  BY <1>4 DEF RunningIsLeased
<1>6. WaitsMatch
  <2>1. waits = {}
    BY DEF SchedInit, Init
  <2>2. QED
    BY <1>4, <2>1 DEF WaitsMatch
<1>7. WorkAlone
  <2>1. \A j \in Jobs : work[j].dispatches = <<>>
    BY DEF SchedInit, NoWork
  <2>2. QED
    BY <2>1 DEF WorkAlone, RunsSettled
<1>8. QED
  BY <1>2, <1>3, <1>5, <1>6, <1>7 DEF AloneInv, OneAtATime, JobsAlone

LEMMA AloneCorrect == SchedSpec => [](IInv /\ AloneInv)
<1>1. SchedInit => IInv /\ AloneInv
  BY SchedInitInv, AloneInit
<1>2. IInv /\ AloneInv /\ [SchedNext]_schedVars => (IInv /\ AloneInv)'
  BY SchedStep, AloneStep
<1>3. QED
  BY <1>1, <1>2, PTL DEF SchedSpec

\* Types hold and no agent is uncounted, for rivals too; with one service process at
\* a time no RUNNING row is without a lease and a job waits exactly as long as its
\* wait row is open (_do_claim_locked, transition_to_waiting_external).
THEOREM SchedulerSafe == SchedSpec => []SchedInv
<1>1. ASSUME IInv, AloneInv PROVE SchedInv
  <2>1. SchedTypeOK
    BY <1>1 DEF IInv, Inv, PassesOK, WorkOK, Typed, SchedTypeOK
  <2>2. AgentsCounted
    <3>1. \A j \in Jobs : work[j] \in Work /\ WorkFits(work[j])
      BY <1>1 DEF IInv, WorkOK
    <3>2. \A j \in Jobs : DOMAIN work[j].dispatches = 1 .. Len(work[j].dispatches)
      BY <3>1, WorkFields
    <3>3. QED
      BY <3>1, <3>2 DEF WorkFits, AgentsCounted
  <2>3. exclusive => RunningIsLeased /\ WaitsMatch
    BY <1>1 DEF AloneInv, JobsAlone
  <2>4. QED
    BY <2>1, <2>2, <2>3 DEF SchedInv
<1>2. QED
  BY <1>1, AloneCorrect, PTL

\* With one service process at a time no dispatch is ever launched twice, whatever
\* crashes, restarts, takeovers, requeues and reopens happen (_perform_spawn_run).
THEOREM OneLaunch == SchedSpec => []AloneOneLaunchPerDispatch
<1>1. ASSUME IInv, AloneInv PROVE AloneOneLaunchPerDispatch
  <2> SUFFICES ASSUME exclusive, NEW j \in Jobs, NEW d \in DOMAIN work[j].dispatches
               PROVE  Cardinality(work[j].dispatches[d].runs) =< 1
    BY DEF AloneOneLaunchPerDispatch
  <2> DEFINE R == work[j].dispatches[d].runs
  <2>1. work[j] \in Work /\ RunsSettled(work[j])
    BY <1>1 DEF IInv, WorkOK, AloneInv, WorkAlone
  <2>2. d \in 1 .. Len(work[j].dispatches)
    BY <2>1, WorkFields
  <2>3. \A x, y \in R : x = y
    BY <2>1, <2>2 DEF RunsSettled
  <2> HIDE DEF R
  <2>4. R = {} \/ \E x : R = {x}
    BY <2>3
  <2>5. Cardinality(R) \in {0, 1}
    BY <2>4, FS_EmptySet, FS_Singleton
  <2>6. QED
    BY <2>5 DEF R
<1>2. QED
  BY <1>1, AloneCorrect, PTL

\* The one way to the launcher is the recheck.
LEMMA OnlyRecheckLaunches ==
    ASSUME IInv, SchedNext, NEW i \in Instances, pass[i].pc = "admit", pass'[i].pc = "spawn"
    PROVE  SpawnRecheck(i)
<1>1. CASE UNCHANGED pass
  BY <1>1
<1>2. ASSUME NEW k \in Instances, k # i, PassStep(k) \/ Crash(k) PROVE FALSE
  <2>1. \/ UNCHANGED pass
        \/ \E p : GoOn(k, p)
    BY <1>2, Zenon DEF PassStep, Crash, StartClaim, StartScan, ScanContinue, ScanVerdict, ScanLost,
         TakeOver, ScanEnd, ScanOn, Restart, RestartRow, RestartQuarantine, RestartEnd,
         GateAllow, GateDefer, GateBlock, StopRequested, Requeue, Lose, Block, Recover,
         RecoverNothing, Reconcile, ReconcileContention, ReconcileFenced, Finish,
         Perform, ActFenced, ActStep, After, AfterRefused, ActError, ActErrorRefused, ActClose,
         ActCreate, ActUnroutable, ActConsume, ActTest, TestEnds, ActApply, ApplyBind,
         ApplyFinish, ActSpawn, ActSpawnRefused, SpawnRefused, SpawnRecheck, SpawnRecheckFails,
         Spawn, SpawnFails, Register, Spawned, Goto, EndPass, Hold, Decide, Fenced
  <2>2. QED
    BY <1>1, <1>2, <2>1, GoOnPass DEF IInv, PassesOK
<1>3. CASE PassStep(i) /\ ~SpawnRecheck(i)
  <2>1. \/ Fenced(i) \/ EndPass(i)
        \/ \E x \in {"requeue", "block", "finish"} : Goto(i, x)
    BY <1>3 DEF PassStep, At, StartClaim, StartScan, ScanContinue, ScanVerdict, ScanLost,
         TakeOver, ScanEnd, Restart, RestartRow, RestartQuarantine, RestartEnd,
         GateAllow, GateDefer, GateBlock, StopRequested, Requeue, Lose, Block, Recover,
         RecoverNothing, Reconcile, ReconcileContention, ReconcileFenced, Finish,
         Perform, ActFenced, ActStep, After, AfterRefused, ActError, ActErrorRefused, ActClose,
         ActCreate, ActUnroutable, ActConsume, ActTest, TestEnds, ActApply, ApplyBind,
         ApplyFinish, ActSpawn, ActSpawnRefused, SpawnRefused, SpawnRecheckFails,
         Spawn, SpawnFails, Register, Spawned
  <2>2. Typed(pass[i])
    BY DEF IInv, PassesOK
  <2>3. CASE EndPass(i)
    BY <2>3, IdleTyped, GoOnPass DEF EndPass, IInv, PassesOK
  <2>4. ASSUME NEW x \in {"requeue", "block", "finish"}, Goto(i, x) PROVE FALSE
    <3>1. TurnedTo(pass[i], x).pc = x
      BY <2>2, TurnedTyped DEF PCs
    <3>2. pass'[i] = TurnedTo(pass[i], x)
      BY <2>4, GoOnPass DEF Goto, IInv, PassesOK
    <3>3. QED
      BY <3>1, <3>2
  <2>5. QED
    BY <2>1, <2>3, <2>4 DEF Fenced
<1>4. CASE Crash(i)
  <2>1. TurnedTo(Idle, "dead").pc = "dead"
    BY IdleTyped, TurnedTyped DEF PCs
  <2>2. pass'[i] = TurnedTo(Idle, "dead")
    BY <1>4, GoOnPass DEF Crash, IInv, PassesOK
  <2>3. QED
    BY <2>1, <2>2
<1>5. QED
  BY <1>1, <1>2, <1>3, <1>4, Zenon
     DEF SchedNext, EnterWait, Owner, CompleteWait, AgentExit, Clock

\* With one service process at a time whoever starts an agent holds the job's
\* unexpired lease: the fence of the recheck never passes for want of an owner
\* (_recheck_lease_fence).
THEOREM HolderLaunches == SchedSpec => AloneHolderLaunches
<1>1. ASSUME IInv, AloneInv, [SchedNext]_schedVars,
             NEW i \in Instances, exclusive, pass[i].pc = "admit", pass'[i].pc = "spawn"
      PROVE  HoldsLease(jobs[pass[i].job], i, pass[i].epoch, now)
  <2>1. SchedNext
    BY <1>1 DEF schedVars
  <2>2. LeaseFence(JobOf(i), i, pass[i].epoch, now)
    BY <1>1, <2>1, OnlyRecheckLaunches DEF SpawnRecheck
  <2>3. pass[i].act = "SPAWN" /\ PassAlone(pass[i], jobs, work)
    BY <1>1, LauncherFacts DEF AloneInv, Launching
  <2>4. jobs[pass[i].job].owner # NULL
    BY <1>1, <2>3 DEF PassAlone, HoldsJob
  <2>5. QED
    BY <2>2, <2>4 DEF LeaseFence, JobOf
<1>2. IInv /\ AloneInv /\ [SchedNext]_schedVars =>
        [\A i \in Instances :
            exclusive /\ pass[i].pc = "admit" /\ pass'[i].pc = "spawn" =>
                HoldsLease(jobs[pass[i].job], i, pass[i].epoch, now)]_schedVars
  BY <1>1
<1>3. QED
  BY <1>2, AloneCorrect, PTL DEF SchedSpec, AloneHolderLaunches

\* Past the claim a pass writes no row but its own job's.
LEMMA WritesOwnRow ==
    ASSUME NEW i \in Instances, PassStep(i), ~StartClaim(i), ~StartScan(i)
    PROVE  jobs' = jobs \/ \E s : Put(pass[i].job, s)
<1>1. CASE ScanContinue(i) \/ ScanVerdict(i) \/ ScanLost(i) \/ TakeOver(i) \/ ScanEnd(i)
           \/ Restart(i) \/ RestartRow(i) \/ RestartQuarantine(i) \/ RestartEnd(i)
  <2>1. SameStore \/ \E s : Put(pass[i].job, s)
    BY <1>1, Zenon DEF ScanContinue, ScanVerdict, ScanLost, TakeOver, ScanEnd, Restart, RestartRow,
         RestartQuarantine, RestartEnd, QuarantineLost, QuarantineBlocked, RecoverTakeoverJob
  <2>2. QED
    BY <2>1 DEF SameStore, storeVars
<1>2. CASE \/ GateAllow(i) \/ GateDefer(i) \/ GateBlock(i) \/ StopRequested(i)
           \/ Requeue(i) \/ Lose(i) \/ Block(i) \/ Recover(i) \/ RecoverNothing(i)
           \/ Reconcile(i) \/ ReconcileContention(i) \/ ReconcileFenced(i) \/ Finish(i)
  <2>1. SameStore \/ \E s : Put(pass[i].job, s)
    <3>1. CASE Finish(i)
      <4>1. SameStore \/ \E t \in 0 .. now : \/ RenewLease(i, pass[i].job, JobOf(i).epoch, t)
                                             \/ ClearLease(i, pass[i].job, JobOf(i).epoch, t)
        BY <3>1 DEF Finish
      <4>2. QED
        BY <4>1, Zenon DEF RenewLease, ClearLease
    <3>2. CASE ~Finish(i)
      BY <1>2, <3>2, Zenon DEF GateAllow, GateDefer, GateBlock, StopRequested, Requeue, Lose, Block,
         Recover, RecoverNothing, Reconcile, ReconcileContention, ReconcileFenced, Fenced,
         EnqueueHolder, QuarantineLost, QuarantineBlocked, CommitRecoveryDecision,
         SupervisorCommit, BackoffDecision
    <3>3. QED
      BY <3>1, <3>2
  <2>2. QED
    BY <2>1 DEF SameStore, storeVars
<1>3. CASE \/ Perform(i) \/ ActFenced(i) \/ ActStep(i) \/ After(i) \/ AfterRefused(i)
           \/ ActError(i) \/ ActErrorRefused(i) \/ ActClose(i) \/ ActCreate(i) \/ ActUnroutable(i)
           \/ ActConsume(i) \/ ActTest(i) \/ TestEnds(i)
  <2>1. SameStore \/ \E s : Put(pass[i].job, s)
    BY <1>3, Zenon DEF Perform, ActFenced, ActStep, After, AfterRefused, ActError, ActErrorRefused,
         ActClose, ActCreate, ActUnroutable, ActConsume, ActTest, TestEnds, Fenced,
         PersistError, AdapterBackoff, PerformPersistentError, CloseJob, BackoffDecision
  <2>2. QED
    BY <2>1 DEF SameStore, storeVars
<1>4. CASE ActApply(i) \/ ApplyFinish(i)
  BY <1>4 DEF ActApply, ApplyFinish, BeginApply, FinishApply
<1>5. CASE ApplyBind(i)
  BY <1>5, Zenon DEF ApplyBind, BindWriterWorktree
<1>6. CASE \/ ActSpawn(i) \/ ActSpawnRefused(i) \/ SpawnRefused(i) \/ SpawnRecheck(i)
           \/ SpawnRecheckFails(i) \/ Spawn(i) \/ SpawnFails(i) \/ Register(i) \/ Spawned(i)
  <2>1. SameStore
    BY <1>6, Zenon DEF ActSpawn, ActSpawnRefused, SpawnRefused, SpawnRecheck, SpawnRecheckFails,
         Spawn, SpawnFails, Register, Spawned
  <2>2. QED
    BY <2>1 DEF SameStore, storeVars
<1>7. QED
  BY <1>1, <1>2, <1>3, <1>4, <1>5, <1>6, Zenon DEF PassStep

\* A pass leaves a LOST job LOST, or blocks it at a restart that listed it RUNNING.
LEMMA PassLeavesLost ==
    ASSUME IInv, AloneInv, exclusive, NEW i \in Instances, PassStep(i),
           NEW j \in Jobs, jobs[j].ps = "LOST"
    PROVE  jobs'[j].ps \notin {"QUEUED", "RUNNING"}
<1>1. jobs \in [Jobs -> Row] /\ jobs[j] \in Row
  BY DEF IInv, Inv, TypeOK
<1>2. CASE StartClaim(i) \/ StartScan(i)
  <2>1. ASSUME NEW S, NEW t
        PROVE  BlockMissing(S, t)[j] = jobs[j] /\ DOMAIN BlockMissing(S, t) = Jobs
    BY <1>1 DEF BlockMissing, MissingDependency, Claimable
  <2>2. CASE StartClaim(i)
    <3>1. PICK k \in Jobs, t \in 0 .. now : ClaimNextJob(i, k, t)
      BY <2>2, Zenon DEF StartClaim
    <3>2. /\ jobs' = [BlockMissing({l \in Jobs : l < k}, t) EXCEPT ![k] = Leased(jobs[k], i, t)]
          /\ j # k
      BY <1>1, <3>1 DEF ClaimNextJob, Ready, Claimable
    <3> DEFINE B == BlockMissing({l \in Jobs : l < k}, t)
    <3>3. B[j] = jobs[j] /\ DOMAIN B = Jobs
      BY <2>1
    <3> HIDE DEF B
    <3>4. jobs'[j] = jobs[j]
      BY <3>2, <3>3 DEF B
    <3>5. QED
      BY <3>4
  <2>3. CASE StartScan(i)
    <3>1. PICK t \in 0 .. now : jobs' = BlockMissing(Jobs, t)
      BY <2>3, Zenon DEF StartScan, ClaimNothing
    <3>2. jobs'[j] = jobs[j]
      BY <2>1, <3>1
    <3>3. QED
      BY <3>2
  <2>4. QED
    BY <1>2, <2>2, <2>3
<1>3. CASE ~StartClaim(i) /\ ~StartScan(i) /\ j # pass[i].job
  BY <1>1, <1>3, WritesOwnRow DEF Put
<1>4. CASE ~StartClaim(i) /\ ~StartScan(i) /\ j = pass[i].job
  <2>1. pass[i].pc \notin Working \cup {"scanlost", "takeover"}
    <3>1. PassAlone(pass[i], jobs, work) /\ PassFits(pass[i], work)
      BY DEF AloneInv, IInv, PassesOK
    <3>2. QED
      BY <1>4, <3>1 DEF PassAlone, HoldsJob, RowsHold, PassFits
  <2>2. CASE RestartQuarantine(i)
    <3>1. SameStore \/ QuarantineLost(j) \/ QuarantineBlocked(j)
      BY <1>4, <2>2, Zenon DEF RestartQuarantine
    <3>2. \/ jobs' = jobs
          \/ jobs' = [jobs EXCEPT ![j] = QuarantinedLost(jobs[j])]
          \/ jobs' = [jobs EXCEPT ![j] = QuarantinedBlocked(jobs[j])]
      BY <3>1 DEF SameStore, storeVars, QuarantineLost, QuarantineBlocked, Put
    <3>3. QED
      BY <1>1, <3>2, UpdateColumns
  <2>3. CASE ~RestartQuarantine(i)
    <3>1. ScanContinue(i) \/ ScanVerdict(i) \/ ScanEnd(i) \/ Restart(i) \/ RestartRow(i) \/ RestartEnd(i)
      BY <1>4, <2>1, <2>3 DEF PassStep, At, Working, ScanLost, TakeOver,
         GateAllow, GateDefer, GateBlock, StopRequested, Requeue, Lose, Block, Recover,
         RecoverNothing, Reconcile, ReconcileContention, ReconcileFenced, Finish,
         Perform, ActFenced, ActStep, After, AfterRefused, ActError, ActErrorRefused, ActClose,
         ActCreate, ActUnroutable, ActConsume, ActTest, TestEnds, ActApply, ApplyBind,
         ApplyFinish, ActSpawn, ActSpawnRefused, SpawnRefused, SpawnRecheck, SpawnRecheckFails,
         Spawn, SpawnFails, Register, Spawned
    <3>2. SameStore
      BY <3>1, Zenon DEF ScanContinue, ScanVerdict, ScanEnd, Restart, RestartRow, RestartEnd
    <3>3. QED
      BY <3>2 DEF SameStore, storeVars
  <2>4. QED
    BY <2>2, <2>3
<1>5. QED
  BY <1>2, <1>3, <1>4

\* With one service process at a time a LOST job comes back neither to the queue nor
\* to a pass (quarantine_lost): whatever might still be on its way to it is fenced.
THEOREM LostStaysLost == SchedSpec => AloneLostStaysLost
<1>1. ASSUME IInv, AloneInv, [SchedNext]_schedVars, NEW j \in Jobs, exclusive, jobs[j].ps = "LOST"
      PROVE  jobs'[j].ps \notin {"QUEUED", "RUNNING"}
  <2>1. jobs \in [Jobs -> Row]
    BY <1>1 DEF IInv, Inv, TypeOK
  <2>2. CASE UNCHANGED jobs
    BY <1>1, <2>2
  <2>3. ASSUME NEW k \in Jobs, NEW s, Put(k, s), jobs[k].ps # "LOST"
        PROVE  jobs'[j].ps \notin {"QUEUED", "RUNNING"}
    BY <1>1, <2>1, <2>3 DEF Put
  <2>4. ASSUME NEW i \in Instances, PassStep(i) PROVE jobs'[j].ps \notin {"QUEUED", "RUNNING"}
    BY <1>1, <2>4, PassLeavesLost
  <2>5. ASSUME NEW i \in Instances, EnterWait(i) PROVE jobs'[j].ps \notin {"QUEUED", "RUNNING"}
    <3>0. PICK k \in Jobs : \E s : Put(k, s) /\ jobs[k].ps = "RUNNING"
      BY <2>5, Zenon DEF EnterWait, TransitionToWaitingExternal
    <3>1. PICK s : Put(k, s) /\ jobs[k].ps = "RUNNING"
      BY <3>0
    <3>2. QED
      BY <2>3, <3>1
  <2>6. CASE Owner
    <3>1. UNCHANGED jobs \/ \E k \in Jobs : \E s : Put(k, s) /\ jobs[k].ps = "BLOCKED"
      BY <2>6, Zenon DEF Owner, CreateJob, EnqueueAuthorized
    <3>2. QED
      BY <2>2, <2>3, <3>1
  <2>7. CASE CompleteWait
    <3>0. PICK w \in waits : \E s : Put(w.job, s) /\ jobs[w.job].ps = "WAITING_EXTERNAL"
      BY <2>7, Zenon DEF CompleteWait, CompleteWaitAndRequeue
    <3>1. PICK s : Put(w.job, s) /\ jobs[w.job].ps = "WAITING_EXTERNAL"
      BY <3>0
    <3>2. w.job \in Jobs
      BY <1>1 DEF IInv, Inv, TypeOK, Wait
    <3>3. QED
      BY <2>3, <3>1, <3>2
  <2>8. ASSUME NEW i \in Instances, Crash(i) PROVE UNCHANGED jobs
    BY <2>8 DEF Crash, SameStore, storeVars
  <2>9. CASE AgentExit \/ Clock \/ UNCHANGED schedVars
    BY <2>2, <2>9 DEF AgentExit, Clock, Tick, SameStore, storeVars, schedVars
  <2>10. QED
    BY <1>1, <2>2, <2>4, <2>5, <2>6, <2>7, <2>8, <2>9, Zenon DEF SchedNext
<1>2. IInv /\ AloneInv /\ [SchedNext]_schedVars =>
        [\A j \in Jobs : exclusive /\ jobs[j].ps = "LOST" =>
            jobs'[j].ps \notin {"QUEUED", "RUNNING"}]_schedVars
  BY <1>1
<1>3. QED
  BY <1>2, AloneCorrect, PTL DEF SchedSpec, AloneLostStaysLost

=============================================================================
