------------------------------ MODULE TaskCore ------------------------------
(***************************************************************************)
(* core.py for one task: its state, its role runs and handoffs, the ledger *)
(* of agent dispatches with the workflow frontier that is replayed from    *)
(* it, and the owner gate.  One action is one command, which is one        *)
(* BEGIN IMMEDIATE transaction; a command the code refuses changes nothing *)
(* that is modelled and is left out.  Event rows, quarantine rows, test    *)
(* runs, reviews and texts are left out: no guard reads them.              *)
(*                                                                         *)
(* Commands come from the controller (the supervisor), from the owner and  *)
(* from role agents.  `manual' remembers whether a command was used that   *)
(* the controller's protocol never issues.  Approvals are numbered in      *)
(* order of request; what distinguishes two of them, action and scope, is  *)
(* left out.                                                               *)
(***************************************************************************)
EXTENDS Integers, Sequences, FiniteSets, FiniteSetsExt

CONSTANTS
    NONE,          \* no role, no state
    ApprovalTTL,   \* APPROVAL_TTL_SECONDS, in ticks
    MaxAttempts    \* MAX_DISPATCH_ATTEMPTS_PER_STEP

ASSUME TaskAssumption ==
    /\ ApprovalTTL \in Nat \ {0}
    /\ MaxAttempts \in Nat \ {0}

VARIABLES
    now,        \* the clock
    task,       \* state and resume_state
    active,     \* the role of the started role run, or NONE
    handoff,    \* number and to_role of the latest handoff
    run,        \* number of the latest task run
    ledger,     \* what the frontier reads of dispatches and lead decisions
    disp,       \* the latest dispatch; all older ones are closed
    findings,   \* whether an open finding exists
    approvals,  \* the owner approvals of the task, in order of request
    manual,     \* history: a command outside the controller's protocol ran
    late        \* history: a closed approval released the task of an open one

coreVars == <<now, task, active, handoff, run, ledger, disp, findings,
              approvals, manual, late>>

Roles == {"lead", "analyst", "implementer", "qa", "reviewer"}

MainPath == {"NEW", "PLANNING", "ANALYZING", "LEAD_DECISION", "IMPLEMENTING",
             "TESTING", "REVIEWING", "FINAL_DECISION", "DONE"}
TerminalStates == {"DONE", "CANCELLED"}
PauseStates == {"OWNER_APPROVAL_REQUIRED", "PAUSED", "RECOVERING"}
States == MainPath \cup TerminalStates \cup PauseStates
            \cup {"REWORK", "BLOCKED", "FAILED"}
Actionable == (MainPath \ TerminalStates) \cup {"REWORK"}

Decisions == {"accept", "rework", "cancel", "request_owner_gate"}
OpenDispatch == {"PENDING", "RUNNING", "RECOVERY_PENDING"}
LiveApproval == {"pending", "approved"}

CoreTypeOK ==
    /\ now \in Nat
    /\ task \in [state : States, resume : States \cup {NONE}]
    /\ active \in Roles \cup {NONE}
    /\ handoff \in [no : Nat, to : Roles]
    /\ run \in Nat
    /\ ledger \in [cycle : Nat, kind : {"STANDARD", "REWORK"},
                   toggle : {"yes", "no", "unset"}, done : SUBSET (0 .. 6),
                   attempts : 0 .. MaxAttempts, rework : BOOLEAN,
                   next : {"yes", "no", "unset"}]
    /\ disp \in [status : OpenDispatch \cup
                   {"NONE", "CONSUMED", "FAILED", "REJECTED"},
                 role : Roles, cycle : Nat, pos : 0 .. 6, handoff : Nat,
                 run : Nat, bound : BOOLEAN]
    /\ findings \in BOOLEAN
    /\ approvals \in Seq([expires : Nat,
                           status : LiveApproval \cup
                             {"rejected", "expired", "consumed"}])
    /\ manual \in BOOLEAN
    /\ late \in BOOLEAN

CoreInit ==
    /\ now = 0
    /\ task = [state |-> "NEW", resume |-> NONE]
    /\ active = NONE
    /\ handoff = [no |-> 0, to |-> "lead"]
    /\ run = 1
    /\ ledger = [cycle |-> 1, kind |-> "STANDARD", toggle |-> "yes",
                 done |-> {}, attempts |-> 0, rework |-> FALSE,
                 next |-> "unset"]
    /\ disp = [status |-> "NONE", role |-> "lead", cycle |-> 1, pos |-> 0,
               handoff |-> 0, run |-> 1, bound |-> FALSE]
    /\ findings = FALSE
    /\ approvals = <<>>
    /\ manual = FALSE
    /\ late = FALSE

----------------------------------------------------------------------------
(* The state machine.                                                      *)

StaticTargets(s) ==
    CASE s = "NEW" -> {"PLANNING"}
      [] s = "PLANNING" -> {"ANALYZING", "REWORK"}
      [] s = "ANALYZING" -> {"LEAD_DECISION"}
      [] s = "LEAD_DECISION" -> {"IMPLEMENTING", "REWORK"}
      [] s = "IMPLEMENTING" -> {"TESTING"}
      [] s = "TESTING" -> {"REVIEWING", "REWORK"}
      [] s = "REVIEWING" -> {"FINAL_DECISION", "REWORK"}
      [] s = "FINAL_DECISION" -> {"DONE", "REWORK"}
      [] s = "REWORK" -> {"PLANNING", "IMPLEMENTING"}
      [] s = "BLOCKED" -> {"RECOVERING"}
      [] s = "FAILED" -> {"RECOVERING", "CANCELLED"}
      [] OTHER -> {}

PauseExits(s) ==
    CASE s = "OWNER_APPROVAL_REQUIRED" -> {"BLOCKED", "CANCELLED"}
      [] s = "PAUSED" -> {"CANCELLED"}
      [] OTHER -> {"BLOCKED"}

is_valid_resume_target(s) == s \in States \ (TerminalStates \cup PauseStates)

is_allowed(from, to, resume) ==
    /\ from # to
    /\ from \notin TerminalStates
    /\ IF from \in PauseStates
       THEN \/ to = resume /\ is_valid_resume_target(resume)
            \/ to \in PauseExits(from)
       ELSE \/ to \in StaticTargets(from)
            \/ to \in {"OWNER_APPROVAL_REQUIRED", "BLOCKED", "CANCELLED"}

\* Where an expired gate, a recovery or a resumed gate sends the task.
ResumedTask(t) ==
    [state |-> IF is_valid_resume_target(t.resume) THEN t.resume ELSE "BLOCKED",
     resume |-> NONE]

----------------------------------------------------------------------------
(* The workflow sequence and its frontier.                                 *)

StandardSequence ==
    <<"lead", "analyst", "lead", "implementer", "qa", "reviewer", "lead">>

effective_sequence(kind, reviewer) ==
    IF kind = "STANDARD" THEN StandardSequence
    ELSE IF reviewer THEN <<"lead", "implementer", "qa", "reviewer", "lead">>
    ELSE <<"lead", "implementer", "qa", "lead">>

\* The reviewer's part in a rework cycle: the lead's explicit word, else
\* whether findings are open at the moment of asking.
IncludeReviewer(l, open) ==
    l.kind = "STANDARD" \/ l.toggle = "yes" \/ (l.toggle = "unset" /\ open)

\* The next dispatch: a pending rework decision opens a new cycle, otherwise
\* the first position of the cycle that is not consumed.
_workflow_frontier(l, open) ==
    LET seq == effective_sequence(l.kind, IncludeReviewer(l, open))
        left == (0 .. Len(seq) - 1) \ l.done
    IN  IF l.rework
        THEN [cycle |-> l.cycle + 1, pos |-> 0, kind |-> "REWORK",
              role |-> "lead"]
        ELSE IF left = {}
        THEN [cycle |-> l.cycle, pos |-> Len(seq), kind |-> l.kind,
              role |-> NONE]
        ELSE [cycle |-> l.cycle, pos |-> Min(left), kind |-> l.kind,
              role |-> seq[Min(left) + 1]]

Frontier == _workflow_frontier(ledger, findings)

\* The transitions a consumed dispatch drives, as pairs <<from, to>>.
_state_sync_plan(kind, pos, role, decision, current) ==
    LET main == <<"NEW", "PLANNING", "ANALYZING", "LEAD_DECISION",
                  "IMPLEMENTING", "TESTING", "REVIEWING", "FINAL_DECISION">>
        final == role = "lead" /\ (IF kind = "STANDARD" THEN pos = 6 ELSE pos > 0)
        base ==
          IF kind = "STANDARD" THEN <<<<main[pos + 1], main[pos + 2]>>>>
          ELSE IF role = "implementer" THEN <<<<"REWORK", "IMPLEMENTING">>>>
          ELSE IF role = "qa" THEN <<<<"IMPLEMENTING", "TESTING">>>>
          ELSE IF role = "reviewer" THEN <<<<"TESTING", "REVIEWING">>>>
          ELSE IF final /\ current = "REVIEWING"
               THEN <<<<"REVIEWING", "FINAL_DECISION">>>>
          ELSE IF final /\ current = "TESTING"
               THEN <<<<"TESTING", "REVIEWING">>, <<"REVIEWING", "FINAL_DECISION">>>>
          ELSE <<>>
        decides == [accept |-> "DONE", rework |-> "REWORK", cancel |-> "CANCELLED"]
        verdict ==
          IF role # "lead" \/ decision = "request_owner_gate" THEN <<>>
          ELSE IF final THEN <<<<"FINAL_DECISION", decides[decision]>>>>
          ELSE IF kind = "STANDARD" /\ pos = 0 /\ decision = "rework"
               THEN <<<<"PLANNING", "REWORK">>>>
          ELSE IF kind = "STANDARD" /\ pos = 2 /\ decision # "accept"
               THEN <<<<"LEAD_DECISION", decides[decision]>>>>
          ELSE IF kind = "REWORK" /\ pos = 0 /\ decision = "cancel"
               THEN <<<<"REWORK", "CANCELLED">>>>
          ELSE <<>>
    IN  base \o verdict

\* The plan starts where the task is and every step is a legal transition;
\* otherwise the whole consuming transaction is rolled back.
PlanFits(plan, current) ==
    \A i \in DOMAIN plan :
      /\ plan[i][1] = (IF i = 1 THEN current ELSE plan[i - 1][2])
      /\ is_allowed(plan[i][1], plan[i][2], NONE)

PlanEnd(plan, current) ==
    IF plan = <<>> THEN current ELSE plan[Len(plan)][2]

\* The state the plan is applied to: recovery is left first.
SyncState == IF task.state = "RECOVERING" THEN task.resume ELSE task.state

----------------------------------------------------------------------------
(* Controller commands.                                                    *)

StartRole ==
    /\ task.state \notin TerminalStates \cup PauseStates \cup {"BLOCKED"}
    /\ active = NONE
    /\ handoff.to = Frontier.role
    /\ active' = handoff.to
    /\ UNCHANGED <<now, task, handoff, run, ledger, disp, findings, approvals,
                   manual, late>>

CreateDispatch ==
    /\ task.state \notin TerminalStates \cup PauseStates
    /\ active # NONE
    /\ active = Frontier.role
    /\ disp.status \notin OpenDispatch
    /\ Frontier.cycle > ledger.cycle \/ ledger.attempts < MaxAttempts
    /\ ledger' = IF Frontier.cycle = ledger.cycle
                 THEN [ledger EXCEPT !.attempts = @ + 1]
                 ELSE [cycle |-> Frontier.cycle, kind |-> "REWORK",
                       toggle |-> ledger.next, done |-> {}, attempts |-> 1,
                       rework |-> FALSE, next |-> "unset"]
    /\ disp' = [status |-> "PENDING", role |-> active, cycle |-> Frontier.cycle,
                pos |-> Frontier.pos, handoff |-> handoff.no, run |-> run,
                bound |-> FALSE]
    /\ UNCHANGED <<now, task, active, handoff, run, findings, approvals, manual, late>>

\* The spawn's identity matches what the dispatch expects, or the dispatch is
\* rejected; both by a compare-and-swap on the two open unbound statuses.
BindSpawnResult ==
    /\ disp.status \in {"PENDING", "RECOVERY_PENDING"}
    /\ \/ disp' = [disp EXCEPT !.status = "RUNNING", !.bound = TRUE]
       \/ disp' = [disp EXCEPT !.status = "REJECTED"]
    /\ UNCHANGED <<now, task, active, handoff, run, ledger, findings, approvals,
                   manual, late>>

\* Everything _receive_work asks of a genuine result before its content.
Receivable ==
    /\ disp.status \in {"RUNNING", "RECOVERY_PENDING"}
    /\ disp.bound
    /\ disp.run = run
    /\ active = disp.role
    /\ disp.handoff = handoff.no
    /\ task.state \notin TerminalStates

ReceiveMalformed ==
    /\ Receivable
    /\ disp' = [disp EXCEPT !.status = "REJECTED"]
    /\ UNCHANGED <<now, task, active, handoff, run, ledger, findings, approvals,
                   manual, late>>

\* Mutant of _sequence_handoff: before the findings of the result are stored.
_sequence_handoff_early(l, open) == _workflow_frontier(l, findings).role

\* The role the frontier names once the result's effects are stored.
_sequence_handoff(l, open) == _workflow_frontier(l, open).role

\* Consume: the decision and the findings of the result, the role run, the
\* handoff to the new frontier and the state sync, or nothing at all.
ReceiveAgentResult ==
    /\ Receivable
    /\ \E decision \in IF disp.role = "lead" THEN Decisions ELSE {"accept"},
          toggle \in {"yes", "no", "unset"}, open \in BOOLEAN :
         LET plan == _state_sync_plan(ledger.kind, disp.pos, disp.role,
                                      decision, SyncState)
             reworks == disp.role = "lead" /\ decision = "rework"
             l == [ledger EXCEPT !.done = @ \cup {disp.pos}, !.attempts = 0,
                     !.rework = reworks,
                     !.next = IF reworks THEN toggle ELSE "unset"]
             nxt == _sequence_handoff(l, open)
         IN  /\ toggle # "unset" => reworks
             /\ findings /\ ~open => disp.role = "lead" /\ decision = "accept"
             /\ PlanFits(plan, SyncState)
             /\ findings' = open
             /\ ledger' = l
             /\ handoff' = IF nxt = NONE THEN handoff
                           ELSE [no |-> handoff.no + 1, to |-> nxt]
             /\ task' = [state |-> PlanEnd(plan, SyncState),
                         resume |-> IF plan = <<>> /\ SyncState = task.state
                                    THEN task.resume ELSE NONE]
    /\ disp' = [disp EXCEPT !.status = "CONSUMED"]
    /\ active' = NONE
    /\ UNCHANGED <<now, run, approvals, manual, late>>

\* A retry goes to the same role under a new handoff.
MarkAgentFailed ==
    /\ disp.status \in {"RUNNING", "RECOVERY_PENDING"}
    /\ disp' = [disp EXCEPT !.status = "FAILED"]
    /\ active' = IF active = disp.role THEN NONE ELSE active
    /\ handoff' = [no |-> handoff.no + 1, to |-> disp.role]
    /\ UNCHANGED <<now, task, run, ledger, findings, approvals, manual, late>>

\* A writer is never failed by recovery, nor is anything that was spawned.
Recovered(d) ==
    IF d.status = "PENDING" /\ d.role # "implementer" THEN "FAILED"
    ELSE IF d.status \in {"PENDING", "RUNNING"} THEN "RECOVERY_PENDING"
    ELSE d.status

\* Mutant of KeepsRun: only dispatches of this recovery are spared.
KeepsRunOnce(d) == d.status \in {"PENDING", "RUNNING"}

\* Role and task runs of an unresolved dispatch stay started.
KeepsRun(d) == Recovered(d) = "RECOVERY_PENDING"

Recover ==
    LET unresolved == KeepsRun(disp)
    IN  /\ disp' = [disp EXCEPT !.status = Recovered(disp)]
        /\ task' =
             IF unresolved
             THEN IF task.state \in TerminalStates \cup PauseStates THEN task
                  ELSE [state |-> "RECOVERING", resume |-> task.state]
             ELSE IF task.state = "RECOVERING" THEN ResumedTask(task) ELSE task
        /\ active' = IF unresolved /\ active = disp.role THEN active ELSE NONE
        /\ UNCHANGED <<now, handoff, run, ledger, findings, approvals, manual, late>>

----------------------------------------------------------------------------
(* The owner gate.                                                         *)

\* A role asks for a gated action and parks the task.  The request is refused
\* only if an open approval is for the same action and scope.
RequestAction ==
    /\ active # NONE
    /\ task.state \in Actionable
    /\ approvals' = Append(approvals, [expires |-> now + ApprovalTTL,
                                      status |-> "pending"])
    /\ task' = [state |-> "OWNER_APPROVAL_REQUIRED", resume |-> task.state]
    /\ UNCHANGED <<now, active, handoff, run, ledger, disp, findings, manual,
                   late>>

Gated == task.state = "OWNER_APPROVAL_REQUIRED"

Overdue(n) == approvals[n].expires =< now

SetStatus(n, s) == approvals' = [approvals EXCEPT ![n].status = s]

\* Mutant of ReleasedTask: the task stays where it is.
ReleasedNowhere(t) == t

\* What _expire_and_release makes of the task, whichever gate parked it.
ReleasedTask(t) ==
    IF t.state = "OWNER_APPROVAL_REQUIRED" THEN ResumedTask(t) ELSE t

\* Mutant of RejectedTask: the task is released as after an expiry.
RejectedTaskResumes(t) == ReleasedTask(t)

RejectedTask(t) ==
    IF t.state = "OWNER_APPROVAL_REQUIRED"
    THEN [state |-> "BLOCKED", resume |-> NONE] ELSE t

\* approve, reject and execute_approved of an overdue approval are rolled back
\* and followed by a transaction of their own, in which the approval may have
\* been closed by another command.  reject asks for the expiry before the
\* status, so it comes here with any overdue approval, closed ones included.
_expire_and_release(n) ==
    LET open == approvals[n].status \in LiveApproval
    IN  /\ Overdue(n)
        /\ IF open THEN SetStatus(n, "expired") ELSE UNCHANGED approvals
        /\ task' = ReleasedTask(task)
        /\ late' = (late \/ (~open /\ Gated))
        /\ UNCHANGED <<now, active, handoff, run, ledger, disp, findings, manual>>

Approve(n) ==
    /\ approvals[n].status = "pending"
    /\ ~Overdue(n)
    /\ SetStatus(n, "approved")
    /\ UNCHANGED <<now, task, active, handoff, run, ledger, disp, findings,
                   manual, late>>

Reject(n) ==
    /\ ~Overdue(n)
    /\ approvals[n].status = "pending"
    /\ SetStatus(n, "rejected")
    /\ task' = RejectedTask(task)
    /\ UNCHANGED <<now, active, handoff, run, ledger, disp, findings, manual,
                   late>>

ExecuteApproved(n) ==
    /\ approvals[n].status = "approved"
    /\ ~Overdue(n)
    /\ SetStatus(n, "consumed")
    /\ task' = IF Gated THEN [state |-> task.resume, resume |-> NONE] ELSE task
    /\ UNCHANGED <<now, active, handoff, run, ledger, disp, findings, manual,
                   late>>

OwnerCommand ==
    \E n \in DOMAIN approvals :
      Approve(n) \/ Reject(n) \/ ExecuteApproved(n) \/ _expire_and_release(n)

----------------------------------------------------------------------------
(* Commands the controller's protocol does not issue.                      *)

Transition ==
    /\ active = "lead"
    /\ \E to \in States \ PauseStates :
         /\ task.state \notin PauseStates
         /\ is_allowed(task.state, to, task.resume)
         /\ task' = [state |-> to, resume |-> NONE]
    /\ manual' = TRUE
    /\ UNCHANGED <<now, active, handoff, run, ledger, disp, findings, approvals,
                   late>>

DefaultNextRole(r) ==
    CASE r = "lead" -> "analyst"
      [] r = "analyst" -> "implementer"
      [] r = "implementer" -> "qa"
      [] r = "qa" -> "reviewer"
      [] OTHER -> "lead"

\* complete_role and fail_role differ in the recorded status only.
EndRole ==
    /\ active # NONE
    /\ handoff' = [no |-> handoff.no + 1, to |-> DefaultNextRole(active)]
    /\ active' = NONE
    /\ manual' = TRUE
    /\ UNCHANGED <<now, task, run, ledger, disp, findings, approvals,
                   late>>

\* add_finding and resolve_finding.
ChangeFindings ==
    /\ active \in {"qa", "reviewer"}
    /\ findings' = ~findings
    /\ manual' = TRUE
    /\ UNCHANGED <<now, task, active, handoff, run, ledger, disp, approvals,
                   late>>

StartTaskRun ==
    /\ run' = run + 1
    /\ manual' = TRUE
    /\ UNCHANGED <<now, task, active, handoff, ledger, disp, findings, approvals,
                   late>>

Tick ==
    /\ now' = now + 1
    /\ UNCHANGED <<task, active, handoff, run, ledger, disp, findings, approvals,
                   manual, late>>

CoreNext ==
    \/ StartRole \/ CreateDispatch \/ BindSpawnResult
    \/ ReceiveAgentResult \/ ReceiveMalformed \/ MarkAgentFailed \/ Recover
    \/ RequestAction \/ OwnerCommand
    \/ Transition \/ EndRole \/ ChangeFindings \/ StartTaskRun
    \/ Tick

CoreSpec == CoreInit /\ [][CoreNext]_coreVars

----------------------------------------------------------------------------
(* Properties.                                                             *)

OpenGates == {n \in DOMAIN approvals : approvals[n].status \in LiveApproval}

\* The task never waits without an open approval, and it is the latest one
\* (the supervisor's gate_task_inconsistent_no_gate).  Until a closed approval
\* releases it, it waits exactly while one is open, and never more than one is
\* (gate_task_inconsistent_active_gate, multiple_active_gates).
GateMatchesApproval ==
    /\ Gated => Len(approvals) \in OpenGates
    /\ ~late => OpenGates \subseteq {Len(approvals)} /\ (OpenGates # {} => Gated)

\* The state the task returns to when pause and recovery are over.
Underlying == IF task.state \in PauseStates THEN task.resume ELSE task.state

\* The ledger and the frontier replayed from it agree: an open dispatch is
\* at the frontier (no ledger_conflict_active_dispatch), and with none open
\* the latest handoff names the role the frontier expects, so that
\* start_role admits it.
LedgerAgrees ==
    ~manual =>
      IF disp.status \in OpenDispatch
      THEN /\ disp.cycle = Frontier.cycle
           /\ disp.pos = Frontier.pos
           /\ disp.role = Frontier.role
      ELSE (Frontier.role # NONE /\ task.state \notin TerminalStates) =>
             handoff.to = Frontier.role

\* The result of a bound dispatch is never lost to bookkeeping: through
\* crashes, repeated recovery, rebinding, gates and retries it passes every
\* check of receive_agent_result and its state sync, whatever the lead
\* decided, unless the owner blocked the task.
ResultConsumable ==
    (/\ ~manual
     /\ disp.status \in {"RUNNING", "RECOVERY_PENDING"}
     /\ disp.bound
     /\ Underlying # "BLOCKED") =>
       /\ Receivable
       /\ \A decision \in Decisions :
            PlanFits(_state_sync_plan(ledger.kind, disp.pos, disp.role,
                                      decision, Underlying), Underlying)

=============================================================================
