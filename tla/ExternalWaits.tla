---------------------------- MODULE ExternalWaits ----------------------------
(***************************************************************************)
(* external_wait.py and ci_external_wait.py: jobs parked in                *)
(* WAITING_EXTERNAL, and the two bounded checkers that every runtime pass  *)
(* runs over the due rows of external_waits.  Rows, provider reads and     *)
(* writes are separate steps, so that a process which has lost the single  *)
(* active instance may still finish a check it began.                      *)
(*                                                                         *)
(* Time is counted down: minutes to the next check and to the deadline.    *)
(* Rows that are due stand in a line by their next_check_at.  A pull       *)
(* request is read in three calls; "run" is a check run, "ctx" a commit    *)
(* status context, and the provider may change between the calls.          *)
(***************************************************************************)
EXTENDS Integers, Sequences, FiniteSets, SequencesExt

CONSTANTS
    Waits,             \* rows of external_waits, numbered in order of entry
    JobOf,             \* wait -> its job
    CiWaits,           \* the rows of kind ci
    Instances,         \* supervisor processes
    MaxItems,          \* rows one checker takes up in a pass
    BACKOFF_MINUTES,   \* the ladder of delays
    DeadlineMinutes,   \* deadline_at of a new row, from its entry
    ResetMinutes       \* how far off a provider puts its rate limit reset

Jobs == {JobOf[w] : w \in Waits}
Required == {"run", "ctx"}
Conclusions == {"absent", "none", "SUCCESS", "FAILURE"}
PrStates == {"open", "moved", "rebased", "closed"}
ReadErrors == {"PROVIDER_UNAVAILABLE", "RATE_LIMITED"}

ASSUME WaitsAssumption ==
    /\ Waits \subseteq Nat /\ IsFiniteSet(Waits)
    /\ JobOf \in [Waits -> Nat]
    /\ CiWaits \subseteq Waits
    /\ MaxItems \in Nat \ {0}
    /\ BACKOFF_MINUTES \in Seq(Nat \ {0}) /\ BACKOFF_MINUTES # <<>>
    /\ DeadlineMinutes \in Nat \ {0} /\ ResetMinutes \in Nat \ {0}

VARIABLES
    job,        \* primary_state of each job
    row,        \* the rows of external_waits
    line,       \* open rows whose next_check_at has passed, oldest first
    holder,     \* the ACTIVE instance of supervisor_instances
    proc,       \* per instance: its pass
    pr,         \* external: the pull request
    checks,     \* external: conclusion of each required check
    seen        \* history, per row: what the provider showed while it was open

waitVars == <<job, row, line, holder, proc, pr, checks, seen>>

NoRow == [status |-> "none", state |-> "none", names |-> {}, attempt |-> 0,
          check |-> 0, left |-> 0, why |-> "none"]

\* A read in progress, and the outcome it led to.
NoRead == [pr |-> "none", concl |-> [c \in Required |-> "absent"]]
NoOutcome == [kind |-> "none", state |-> "none", names |-> {}, why |-> "none"]
Stopped == [at |-> "stopped", todo |-> <<>>, read |-> NoRead, out |-> NoOutcome]

WaitsInit ==
    /\ job = [j \in Jobs |-> "RUNNING"]
    /\ row = [w \in Waits |-> NoRow]
    /\ line = <<>>
    /\ holder \in Instances
    /\ proc = [i \in Instances |->
         IF i = holder THEN [Stopped EXCEPT !.at = "idle"] ELSE Stopped]
    /\ pr = "open"
    /\ checks = [c \in Required |-> "absent"]
    /\ seen = [w \in Waits |-> {}]

Cap(n, most) == IF n < most THEN n ELSE most

Open(w) == row[w].status = "open"

----------------------------------------------------------------------------
(* Entering a wait.                                                        *)

\* transition_to_waiting_external, called by the two entry points with a
\* validated row: insertion, job state and lease release in one transaction.
transition_to_waiting_external(w) ==
    /\ job[JobOf[w]] = "RUNNING"
    /\ row[w].status = "none"
    /\ job' = [job EXCEPT ![JobOf[w]] = "WAITING_EXTERNAL"]
    /\ row' = [row EXCEPT ![w] = [NoRow EXCEPT !.status = "open", !.check = 1,
                                              !.left = DeadlineMinutes]]
    /\ seen' = [seen EXCEPT ![w] = {c \in Required : checks[c] = "SUCCESS"}]
    /\ UNCHANGED <<line, holder, proc, pr, checks>>

\* The scheduler claims a woken job and runs it.
ClaimWoken(j) ==
    /\ job[j] = "QUEUED"
    /\ job' = [job EXCEPT ![j] = "RUNNING"]
    /\ UNCHANGED <<row, line, holder, proc, pr, checks, seen>>

----------------------------------------------------------------------------
(* One pass: the general checker, then the CI checker.                     *)

\* Due by the deadline alone: behind every row that is due for a check.
DeadlineOnly == {w \in Waits : Open(w) /\ row[w].check > 0 /\ row[w].left = 0}

\* ORDER BY next_check_at.
Earlier(v, w) ==
    \/ \E m, n \in DOMAIN line : line[m] = v /\ line[n] = w /\ m < n
    \/ v \in Range(line) /\ w \notin Range(line)
    \/ v \notin Range(line) /\ w \notin Range(line) /\ row[v].check < row[w].check

\* list_due_external_waits: limited before the caller filters by kind.
\* Rows with the same next_check_at that are not in the line come in any order.
list_due_external_waits(kinds) ==
    LET mine == (Range(line) \cup DeadlineOnly) \cap kinds
        listed == 1 .. Cap(MaxItems, Cardinality(mine))
    IN  {ws \in Injection(listed, mine) :
           \A k \in listed : \A v \in mine :
             Earlier(v, ws[k]) => \E h \in 1 .. k - 1 : ws[h] = v}

\* The rows a checker works on are the rows as they were listed.
Snapshot(ws) ==
    [k \in DOMAIN ws |-> [w |-> ws[k], attempt |-> row[ws[k]].attempt,
                          names |-> row[ws[k]].names, late |-> row[ws[k]].left = 0]]

\* How far a pass has come.
Go(i, at, todo, read, out) ==
    proc' = [proc EXCEPT ![i] =
               [at |-> at, todo |-> todo, read |-> read, out |-> out]]

\* _run_one_iteration asks for the fence, then check_due_waits lists.
StartPass(i) ==
    /\ proc[i].at = "idle"
    /\ IF holder # i
       THEN proc' = [proc EXCEPT ![i] = Stopped]
       ELSE \E ws \in list_due_external_waits(Waits) :
              Go(i, "wait", Snapshot(ws), NoRead, NoOutcome)
    /\ UNCHANGED <<job, row, line, holder, pr, checks, seen>>

check_due_ci_waits(i) ==
    /\ proc[i].at = "wait"
    /\ proc[i].todo = <<>>
    /\ \E ws \in list_due_external_waits(CiWaits) :
         Go(i, "ci", Snapshot(ws), NoRead, NoOutcome)
    /\ UNCHANGED <<job, row, line, holder, pr, checks, seen>>

EndPass(i) ==
    /\ proc[i].at = "ci"
    /\ proc[i].todo = <<>>
    /\ proc' = [proc EXCEPT ![i] =
         IF holder # i THEN Stopped ELSE [Stopped EXCEPT !.at = "idle"]]
    /\ UNCHANGED <<job, row, line, holder, pr, checks, seen>>

----------------------------------------------------------------------------
(* The decision about one row.                                             *)

Wake(why, state, names) ==
    [kind |-> "wake", why |-> why, state |-> state, names |-> names]
Backoff(state, names) ==
    [kind |-> "backoff", why |-> "none", state |-> state, names |-> names]

\* _process_wait: the deadline wins; an adapter that raises, an observation
\* that is invalid, pending, about another subject or not newer backs off.
\* READY stands for every relevant event (READY and FAILED).
_process_wait(item, obs) ==
    IF item.late THEN Wake("WAIT_DEADLINE", "none", {})
    ELSE IF obs.usable /\ obs.state = "READY" THEN Wake("WAIT_EVENT", "READY", {})
    ELSE Backoff(obs.state, {})

\* Mutant of aggregate_ci_state: a check that is not there does not count.
aggregate_present(concl) ==
    IF \E c \in Required : concl[c] = "FAILURE" THEN "FAILURE"
    ELSE IF \E c \in Required : concl[c] = "none" THEN "PENDING"
    ELSE "SUCCESS"

\* aggregate_ci_state for a non-empty required set.
aggregate_ci_state(concl) ==
    IF \A c \in Required : concl[c] = "absent" THEN "NO_CHECKS_CONFIGURED"
    ELSE IF \E c \in Required : concl[c] = "FAILURE" THEN "FAILURE"
    ELSE IF \E c \in Required : concl[c] = "absent" THEN "UNKNOWN"
    ELSE IF \E c \in Required : concl[c] = "none" THEN "PENDING"
    ELSE "SUCCESS"

Names(concl) == {c \in Required : concl[c] # "absent"}

\* Mutant of _process_ci_wait: a failed read backs off before the deadline is
\* asked for.
ProcessReadFirst(item, read) ==
    IF read.pr \in ReadErrors THEN Backoff(read.pr, {})
    ELSE IF item.late THEN Wake("WAIT_DEADLINE", "none", {})
    ELSE Wake("WAIT_EVENT", "STALE", {})

\* _process_ci_wait: deadline, provider errors, identity of the pull request,
\* required checks gone since the evidence last stored, aggregate.
_process_ci_wait(item, read) ==
    LET agg == aggregate_ci_state(read.concl)
        names == Names(read.concl)
    IN  IF item.late THEN Wake("WAIT_DEADLINE", "none", {})
        ELSE IF read.pr \in ReadErrors THEN Backoff(read.pr, names)
        ELSE IF read.pr = "unknown" THEN Backoff("UNKNOWN", names)
        ELSE IF read.pr \in {"moved", "rebased"}
             THEN Wake("WAIT_EVENT", "STALE", names)
        ELSE IF read.pr = "closed" THEN Wake("WAIT_EVENT", "CLOSED", names)
        ELSE IF item.names \ names # {} \/ agg \in {"SUCCESS", "FAILURE"}
             THEN Wake("WAIT_EVENT", agg, names)
        ELSE Backoff(agg, names)

----------------------------------------------------------------------------
(* Reading the provider.                                                   *)

Decide(i, at, out) == Go(i, at, proc[i].todo, NoRead, out)

Working(i, at) ==
    proc[i].at = at /\ proc[i].todo # <<>> /\ proc[i].out = NoOutcome

Observe(i) ==
    /\ Working(i, "wait")
    /\ Head(proc[i].todo).w \notin CiWaits
    /\ \E obs \in [usable : BOOLEAN, state : {"PENDING", "READY"}] :
         Decide(i, "wait", _process_wait(Head(proc[i].todo), obs))
    /\ UNCHANGED <<job, row, line, holder, pr, checks, seen>>

\* gh pr view, which may fail or leave head or state open.  Past the deadline
\* nothing is read.
ReadPr(i) ==
    LET item == Head(proc[i].todo)
    IN  /\ Working(i, "ci")
        /\ proc[i].read.pr = "none"
        /\ \/ /\ ~item.late
              /\ Go(i, "ci", proc[i].todo, [NoRead EXCEPT !.pr = pr], NoOutcome)
           \/ \E p \in ReadErrors \cup {"unknown"} :
                Decide(i, "ci", _process_ci_wait(item, [NoRead EXCEPT !.pr = p]))
        /\ UNCHANGED <<job, row, line, holder, pr, checks, seen>>

WithCheck(read, c) ==
    [pr |-> read.pr, concl |-> [read.concl EXCEPT ![c] = checks[c]]]

\* The check runs of the expected head.
ReadRuns(i) ==
    /\ Working(i, "ci")
    /\ proc[i].read.pr # "none"
    /\ Go(i, "statuses", proc[i].todo, WithCheck(proc[i].read, "run"), NoOutcome)
    /\ UNCHANGED <<job, row, line, holder, pr, checks, seen>>

\* Its commit status contexts; a failure here keeps the names read so far.
ReadStatuses(i) ==
    LET read == proc[i].read
    IN  /\ Working(i, "statuses")
        /\ \E r \in {WithCheck(read, "ctx")} \cup
                    {[read EXCEPT !.pr = p] : p \in ReadErrors} :
             Decide(i, "ci", _process_ci_wait(Head(proc[i].todo), r))
        /\ UNCHANGED <<job, row, line, holder, pr, checks, seen>>

----------------------------------------------------------------------------
(* Writing the outcome.                                                    *)

\* next_check_delay_seconds; _backoff_rate_limited waits for the reset.
next_check_delay(attempt, state) ==
    LET delay == BACKOFF_MINUTES[Cap(attempt, Len(BACKOFF_MINUTES))]
    IN  IF state = "RATE_LIMITED" /\ ResetMinutes > delay
        THEN ResetMinutes ELSE delay

\* The CI checker writes as the active instance and to open rows only; the
\* general checker writes to the row whatever became of it.
MayUpdate(i, w) == w \in CiWaits => holder = i /\ Open(w)

\* Mutant of MayComplete: whatever the row's own status.
MayCompleteAgain(i, w) ==
    (w \in CiWaits => holder = i) /\ job[JobOf[w]] = "WAITING_EXTERNAL"

\* complete_wait_and_requeue writes for an open row of a waiting job; only the
\* CI checker passes the instance to be fenced.
MayComplete(i, w) ==
    /\ w \in CiWaits => holder = i
    /\ Open(w)
    /\ job[JobOf[w]] = "WAITING_EXTERNAL"

\* Mutant of Drop: a check does not move next_check_at.
KeepDue(w) == line' = line

Drop(w) ==
    line' = IF w \in Range(line)
            THEN RemoveAt(line, CHOOSE k \in DOMAIN line : line[k] = w)
            ELSE line

NextItem(i) == Go(i, proc[i].at, Tail(proc[i].todo), NoRead, NoOutcome)

\* check_due_waits leaves the rows of kind ci among those listed to the other
\* checker.
PassOver(i) ==
    /\ Working(i, "wait")
    /\ Head(proc[i].todo).w \in CiWaits
    /\ NextItem(i)
    /\ UNCHANGED <<job, row, line, holder, pr, checks, seen>>

BackoffWrite(i) ==
    LET item == Head(proc[i].todo)
        attempt == item.attempt + 1
        out == proc[i].out
    IN  /\ out.kind = "backoff"
        /\ IF MayUpdate(i, item.w)
           THEN /\ row' = [row EXCEPT ![item.w] =
                     [@ EXCEPT !.attempt = Cap(attempt, Len(BACKOFF_MINUTES)),
                               !.check = next_check_delay(attempt, out.state),
                               !.state = out.state,
                               !.names = out.names]]
                /\ Drop(item.w)
           ELSE UNCHANGED <<row, line>>
        /\ NextItem(i)
        /\ UNCHANGED <<job, holder, pr, checks, seen>>

\* The schedule of a finished row is not read again; it is zeroed here only to
\* make rows comparable.
complete_wait_and_requeue(i) ==
    LET item == Head(proc[i].todo)
        out == proc[i].out
    IN  /\ out.kind = "wake"
        /\ IF MayComplete(i, item.w)
           THEN /\ row' = [row EXCEPT ![item.w] =
                     [@ EXCEPT !.status = "terminal", !.why = out.why,
                               !.names = out.names,
                               !.check = 0, !.left = 0, !.attempt = 0,
                               !.state = IF out.state = "none"
                                         THEN row[item.w].state ELSE out.state]]
                /\ job' = [job EXCEPT ![JobOf[item.w]] = "QUEUED"]
                /\ Drop(item.w)
           ELSE UNCHANGED <<row, job, line>>
        /\ NextItem(i)
        /\ UNCHANGED <<holder, pr, checks, seen>>

----------------------------------------------------------------------------
(* Time, the provider, and the instances.                                  *)

Less(n) == IF n > 0 THEN n - 1 ELSE 0

\* A minute passes; rows that become due join the line.
Tick ==
    LET later == [w \in Waits |-> IF Open(w)
                    THEN [row[w] EXCEPT !.check = Less(@), !.left = Less(@)]
                    ELSE row[w]]
        newly == {w \in Waits : Open(w) /\ row[w].check = 1}
    IN  /\ row' = later
        /\ \E s \in SetToSeqs(newly) : line' = line \o s
        /\ UNCHANGED <<job, holder, proc, pr, checks, seen>>

\* The pull request moves on, checks are queued, finish and are run again.
ProviderChanges ==
    /\ \/ pr = "open" /\ pr' \in PrStates \ {"open"} /\ UNCHANGED checks
       \/ /\ \E c \in Required, v \in Conclusions :
               v # checks[c] /\ checks' = [checks EXCEPT ![c] = v]
          /\ UNCHANGED pr
    /\ seen' = [w \in Waits |->
         IF Open(w) THEN seen[w] \cup {c \in Required : checks'[c] = "SUCCESS"}
         ELSE seen[w]]
    /\ UNCHANGED <<job, row, line, holder, proc>>

\* A new process takes the instance of one that is gone, or that has missed
\* its heartbeats and still works.
Boot(i) ==
    /\ proc[i].at = "stopped"
    /\ holder' = i
    /\ proc' = [proc EXCEPT ![i] = [Stopped EXCEPT !.at = "idle"]]
    /\ UNCHANGED <<job, row, line, pr, checks, seen>>

Crash(i) ==
    /\ proc[i].at # "stopped"
    /\ proc' = [proc EXCEPT ![i] = Stopped]
    /\ UNCHANGED <<job, row, line, holder, pr, checks, seen>>

PassStep(i) ==
    \/ StartPass(i) \/ PassOver(i) \/ Observe(i) \/ check_due_ci_waits(i) \/ ReadPr(i)
    \/ ReadRuns(i) \/ ReadStatuses(i) \/ BackoffWrite(i)
    \/ complete_wait_and_requeue(i) \/ EndPass(i)

WaitsNext ==
    \/ \E w \in Waits : transition_to_waiting_external(w)
    \/ \E i \in Instances : PassStep(i) \/ Boot(i) \/ Crash(i)
    \/ \E j \in Jobs : ClaimWoken(j)
    \/ Tick
    \/ ProviderChanges

WaitsSpec == WaitsInit /\ [][WaitsNext]_waitVars

----------------------------------------------------------------------------
(* Properties.                                                             *)

\* Rows, schedules and the line of due rows have their types; a row is never
\* in the line more often than there are rows.
WaitsTypeOK ==
    /\ job \in [Jobs -> {"RUNNING", "WAITING_EXTERNAL", "QUEUED"}]
    /\ \A w \in Waits :
         /\ row[w].status \in {"none", "open", "terminal"}
         /\ row[w].check \in Nat /\ row[w].left \in 0 .. DeadlineMinutes
         /\ row[w].attempt \in 0 .. Len(BACKOFF_MINUTES)
    /\ line \in Seq(Waits) /\ Len(line) =< Cardinality(Waits)
    /\ holder \in Instances

\* A waiting job has exactly one open row and no other job has one, although
\* a late finalizer may still hold the row of a wait that is over.
WaitingHasOneOpenRow ==
    \A j \in Jobs :
      Cardinality({w \in Waits : JobOf[w] = j /\ Open(w)}) =
        IF job[j] = "WAITING_EXTERNAL" THEN 1 ELSE 0

\* The invariant of the waits: types, and one open row exactly for a waiting job
\* (enter_wait, complete_wait_and_requeue).
WaitsInv == WaitsTypeOK /\ WaitingHasOneOpenRow

\* A CI wait that ended in SUCCESS saw every required check succeed while it
\* was open, though the calls of one read see different moments.
GreenWasSeen ==
    \A w \in CiWaits : row[w].status = "terminal" /\ row[w].state = "SUCCESS" =>
      Required \subseteq seen[w]

\* Every wait with a deadline ends, whatever the provider answers, and even
\* if the rows of the other kind always come first in the line.
EventuallyWoken ==
    \A w \in Waits : (row[w].status = "open") ~> (row[w].status = "terminal")

=============================================================================
