------------------------ MODULE ExternalActionBroker ------------------------
(***************************************************************************)
(* external_action_broker.py: one external action request driven by calls  *)
(* of several holders.  A call reads the request row, decides, and then    *)
(* goes through separate transactions and provider calls, so that every    *)
(* step below may interleave with those of other holders.  All writes are  *)
(* compare-and-swaps on the row's state and revision; the authoritative    *)
(* ones also ask for the lease and the lock.  Requests have locks and      *)
(* approvals of their own, so that one request stands for all.             *)
(*                                                                         *)
(* The policy verdict may change between reads (the allowlist is fixed per *)
(* process, and processes restart).  The provider may apply the action and *)
(* fail to say so.                                                         *)
(***************************************************************************)
EXTENDS ActionLocks

CONSTANTS
    RequestLock,        \* _lock_name of the request
    MaxRetryAttempts    \* MAX_RETRY_ATTEMPTS

ASSUME BrokerAssumption ==
    RequestLock \in Locks /\ MaxRetryAttempts \in Nat \ {0}

VARIABLES
    req,         \* the row of external_action_requests
    ownerOk,     \* the owner's approval bound to this request
    policy,      \* what evaluate_policy answers now
    overdue,     \* the request's expires_at has passed
    broker,      \* per holder: its call's step, the row it read, its outcome
    applied,     \* external: the provider has carried out the action
    sends        \* history: provider calls so far

brokerVars == <<req, ownerOk, policy, overdue, broker, applied, sends>>

TerminalRequest == {"SUCCEEDED", "FAILED", "BLOCKED", "DENIED"}
RequestStates == {"NONE", "PENDING", "AUTHORIZED", "EXECUTING",
                  "WAITING_EXTERNAL"} \cup TerminalRequest
Operations == {"authorize_autonomous", "authorize_owner", "execute",
               "redrive_waiting", "reconcile"}
Verdicts == {"ALLOW_AUTONOMOUS", "OWNER_GATE_REQUIRED", "DENY"}

Requests == [state : RequestStates, rev : Nat, attempts : Nat,
             by : {"nobody", "policy", "owner"}]

\* The steps of a call, and the outcomes of its provider call.
CallSteps == {"idle", "expire", "deny", "consume", "authorize", "acquire", "drive",
              "observe", "dispatch", "settle", "release"}
Answers == {"none", "success", "waiting", "unavailable", "error",
            "write_disabled", "precondition"}

NoRequest == [state |-> "NONE", rev |-> 0, attempts |-> 0, by |-> "nobody"]
NoCall == [at |-> "idle", op |-> "execute", row |-> NoRequest, out |-> "none"]

BrokerInit ==
    /\ req = NoRequest
    /\ ownerOk = "none"
    /\ policy \in Verdicts
    /\ overdue = FALSE
    /\ broker = [h \in Holders |-> NoCall]
    /\ applied = FALSE
    /\ sends = 0

BrokerTypeOK ==
    /\ LocksTypeOK
    /\ req \in Requests
    /\ ownerOk \in {"none", "approved", "consumed", "expired"}
    /\ policy \in Verdicts
    /\ overdue \in BOOLEAN
    /\ broker \in [Holders -> [at : CallSteps, op : Operations, row : Requests, out : Answers]]
    /\ applied \in BOOLEAN
    /\ sends \in Nat

\* REQUEST_TRANSITIONS.
Edges(s) ==
    CASE s = "PENDING" -> {"AUTHORIZED", "DENIED", "BLOCKED"}
      [] s = "AUTHORIZED" -> {"EXECUTING", "DENIED", "BLOCKED"}
      [] s = "EXECUTING" ->
           {"WAITING_EXTERNAL", "SUCCEEDED", "FAILED", "BLOCKED"}
      [] s = "WAITING_EXTERNAL" ->
           {"EXECUTING", "SUCCEEDED", "FAILED", "BLOCKED"}
      [] OTHER -> {}

\* Mutant of Current: the row is written as it was read, without comparing.
NotCompared(row) == TRUE

\* The row is still the one that was read.
Current(row) == req.state = row.state /\ req.rev = row.rev

\* _transition_request_locked, given that it does not raise.
Moved(to) == [req EXCEPT !.state = to, !.rev = @ + 1]

----------------------------------------------------------------------------

create_request ==
    /\ req.state = "NONE"
    /\ req' = [NoRequest EXCEPT !.state = "PENDING"]
    /\ UNCHANGED <<lockVars, ownerOk, policy, overdue, broker, applied, sends>>

\* The states in which a call does not return or raise at once.
Accepts(op, s) ==
    CASE op = "authorize_autonomous" -> s \notin TerminalRequest
      [] op = "authorize_owner" -> s = "PENDING"
      [] op = "execute" -> s = "AUTHORIZED"
      [] op = "redrive_waiting" -> s = "WAITING_EXTERNAL"
      [] OTHER -> s \in {"EXECUTING", "WAITING_EXTERNAL"}

\* Mutant of FirstStep: the owner's approval is asked for, not spent.
FirstStepUnpaid(op) ==
    IF overdue THEN "expire"
    ELSE IF op = "reconcile" THEN "acquire"
    ELSE IF op = "authorize_autonomous"
         THEN IF policy = "ALLOW_AUTONOMOUS" THEN "authorize" ELSE "deny"
    ELSE IF policy = "DENY"
         THEN IF op = "authorize_owner" THEN "idle" ELSE "deny"
    ELSE IF op = "authorize_owner" /\ ownerOk = "approved" THEN "authorize"
    ELSE "acquire"

\* Where a call goes once expiry and policy are asked; reconcile asks no
\* policy, and an owner's authorization is refused only by DENY.
FirstStep(op) ==
    IF overdue THEN "expire"
    ELSE IF op = "reconcile" THEN "acquire"
    ELSE IF op = "authorize_autonomous"
         THEN IF policy = "ALLOW_AUTONOMOUS" THEN "authorize" ELSE "deny"
    ELSE IF policy = "DENY"
         THEN IF op = "authorize_owner" THEN "idle" ELSE "deny"
    ELSE IF op = "authorize_owner" THEN "consume" ELSE "acquire"

Call(h, op) ==
    /\ broker[h].at = "idle"
    /\ req.state # "NONE"
    /\ Accepts(op, req.state)
    /\ FirstStep(op) # "idle"
    /\ broker' = [broker EXCEPT ![h] =
         [at |-> FirstStep(op), op |-> op, row |-> req, out |-> "none"]]
    /\ UNCHANGED <<lockVars, req, ownerOk, policy, overdue, applied, sends>>

Goto(h, at) == broker' = [broker EXCEPT ![h] = [@ EXCEPT !.at = at]]

Return(h) == broker' = [broker EXCEPT ![h] = NoCall]

Leave(h) == broker' = [broker EXCEPT ![h] = [NoCall EXCEPT !.at = "release"]]

\* _expire and _deny: revision-checked, but neither lease nor lock; an edge
\* the table does not have leaves the row as it is.
_expire_or_deny(h) ==
    LET to == IF broker[h].at = "expire" THEN "BLOCKED" ELSE "DENIED"
    IN  /\ broker[h].at \in {"expire", "deny"}
        /\ req' = IF Current(broker[h].row) /\ to \in Edges(req.state)
                  THEN Moved(to) ELSE req
        /\ Return(h)
        /\ UNCHANGED <<lockVars, ownerOk, policy, overdue, applied, sends>>

\* _consume_approval, a transaction of its own: what follows may not happen.
_consume_approval(h) ==
    /\ broker[h].at = "consume"
    /\ IF ownerOk = "approved"
       THEN ownerOk' = "consumed" /\ Goto(h, "authorize")
       ELSE UNCHANGED ownerOk /\ Return(h)
    /\ UNCHANGED <<lockVars, req, policy, overdue, applied, sends>>

Authorize(h) ==
    /\ broker[h].at = "authorize"
    /\ req' = IF Current(broker[h].row) /\ req.state = "PENDING"
              THEN [Moved("AUTHORIZED") EXCEPT !.by =
                     IF broker[h].op = "authorize_owner" THEN "owner" ELSE "policy"]
              ELSE req
    /\ Return(h)
    /\ UNCHANGED <<lockVars, ownerOk, policy, overdue, applied, sends>>

AcquireRequest(h) ==
    /\ broker[h].at = "acquire"
    /\ IF _job_holds_current_lease(h) /\ Obtainable(RequestLock, h)
       THEN /\ lock' = [lock EXCEPT ![RequestLock] = h]
            /\ Goto(h, IF broker[h].op = "reconcile" THEN "observe" ELSE "drive")
       ELSE UNCHANGED lock /\ Return(h)
    /\ UNCHANGED <<lease, req, ownerOk, policy, overdue, applied, sends>>

\* The row _drive goes on with is the one its transition returned.
_drive(h) ==
    /\ broker[h].at = "drive"
    /\ IF /\ Fenced(RequestLock, h)
          /\ Current(broker[h].row)
          /\ broker[h].row.state \in {"AUTHORIZED", "WAITING_EXTERNAL"}
       THEN /\ req' = Moved("EXECUTING")
            /\ broker' = [broker EXCEPT ![h] = [@ EXCEPT !.at = "dispatch", !.row = req']]
       ELSE UNCHANGED req /\ Leave(h)
    /\ UNCHANGED <<lockVars, ownerOk, policy, overdue, applied, sends>>

\* A read-only adapter or a changed source job: no provider call.
Refused(h) ==
    /\ broker[h].at = "dispatch"
    /\ \E out \in {"write_disabled", "precondition"} :
         broker' = [broker EXCEPT ![h] = [@ EXCEPT !.at = "settle", !.out = out]]
    /\ UNCHANGED <<lockVars, req, ownerOk, policy, overdue, applied, sends>>

\* The provider call.  Success is only claimed after the effect was read back;
\* any other outcome leaves open whether the action was carried out.
_dispatch(h) ==
    /\ broker[h].at = "dispatch"
    /\ \E out \in {"success", "waiting", "unavailable", "error"},
          done \in BOOLEAN :
         /\ out = "success" => done
         /\ applied' = (applied \/ done)
         /\ broker' = [broker EXCEPT ![h] = [@ EXCEPT !.at = "settle", !.out = out]]
    /\ sends' = sends + 1
    /\ UNCHANGED <<lockVars, req, ownerOk, policy, overdue>>

\* What the adapter can see; a failed read counts as not found.
_reconcile_locked(h) ==
    /\ broker[h].at = "observe"
    /\ \E found \in {FALSE, applied} :
         IF found
         THEN broker' = [broker EXCEPT ![h] = [@ EXCEPT !.at = "settle", !.out = "success"]]
         ELSE Leave(h)
    /\ UNCHANGED <<lockVars, req, ownerOk, policy, overdue, applied, sends>>

\* Mutant of _bounded_wait: the budget is never exhausted.
WaitForever(row) == "WAITING_EXTERNAL"

\* Every transient outcome shares one budget.
_bounded_wait(row) ==
    IF row.attempts + 1 > MaxRetryAttempts THEN "FAILED" ELSE "WAITING_EXTERNAL"

\* Mutant of SettledState: a timeout after the call counts as done.
SettledOptimistically(out, row) ==
    CASE out \in {"success", "unavailable"} -> "SUCCEEDED"
      [] out = "waiting" -> _bounded_wait(row)
      [] out = "precondition" -> "BLOCKED"
      [] OTHER -> "FAILED"

SettledState(out, row) ==
    CASE out = "success" -> "SUCCEEDED"
      [] out \in {"waiting", "unavailable"} -> _bounded_wait(row)
      [] out = "precondition" -> "BLOCKED"
      [] OTHER -> "FAILED"

\* _settle, _finalize: whoever lost the lease, the lock or the row writes
\* nothing.
_settle(h) ==
    LET to == SettledState(broker[h].out, broker[h].row)
    IN  /\ broker[h].at = "settle"
        /\ req' = IF /\ Fenced(RequestLock, h)
                     /\ Current(broker[h].row)
                     /\ to \in Edges(req.state)
                  THEN [Moved(to) EXCEPT !.attempts =
                         IF to = "WAITING_EXTERNAL" THEN @ + 1 ELSE @]
                  ELSE req
        /\ Leave(h)
        /\ UNCHANGED <<lockVars, ownerOk, policy, overdue, applied, sends>>

ReleaseRequest(h) ==
    /\ broker[h].at = "release"
    /\ lock' = Released(RequestLock, h)
    /\ Return(h)
    /\ UNCHANGED <<lease, req, ownerOk, policy, overdue, applied, sends>>

\* The process dies: its lock row stays, and so does an EXECUTING request.
CrashCall(h) ==
    /\ broker[h].at # "idle"
    /\ Return(h)
    /\ UNCHANGED <<lockVars, req, ownerOk, policy, overdue, applied, sends>>

----------------------------------------------------------------------------
(* The surroundings: the owner, configuration and time.                    *)

OwnerApproves ==
    /\ ownerOk = "none"
    /\ ownerOk' = "approved"
    /\ UNCHANGED <<lockVars, req, policy, overdue, broker, applied, sends>>

ApprovalExpires ==
    /\ ownerOk = "approved"
    /\ ownerOk' = "expired"
    /\ UNCHANGED <<lockVars, req, policy, overdue, broker, applied, sends>>

PolicyChanges ==
    /\ \E v \in Verdicts \ {policy} : policy' = v
    /\ UNCHANGED <<lockVars, req, ownerOk, overdue, broker, applied, sends>>

RequestExpires ==
    /\ ~overdue
    /\ overdue' = TRUE
    /\ UNCHANGED <<lockVars, req, ownerOk, policy, broker, applied, sends>>

BrokerStep(h) ==
    \/ \E op \in Operations : Call(h, op)
    \/ _expire_or_deny(h) \/ _consume_approval(h) \/ Authorize(h)
    \/ AcquireRequest(h) \/ _drive(h) \/ Refused(h) \/ _dispatch(h)
    \/ _reconcile_locked(h) \/ _settle(h) \/ ReleaseRequest(h)

BrokerNext ==
    \/ \E h \in Holders : BrokerStep(h)
    \/ create_request \/ OwnerApproves \/ ApprovalExpires \/ RequestExpires

BrokerFault == PolicyChanges \/ \E h \in Holders : CrashCall(h)

----------------------------------------------------------------------------
(* Properties.                                                             *)

\* SUCCEEDED is only ever recorded for an action the provider carried out,
\* through lost answers, crashes after the call, expiry and reconciliation by
\* another holder.
SucceededWasApplied == req.state = "SUCCEEDED" => applied

\* At most one provider call of a request is under way, although the lock
\* goes to another holder when the lease of a slow caller runs out.
OneDispatchInFlight ==
    \A g, h \in Holders :
      (/\ broker[g].at \in {"dispatch", "settle"}
       /\ broker[h].at \in {"dispatch", "settle"}
       /\ broker[g].op # "reconcile"
       /\ broker[h].op # "reconcile") => g = h

\* Retries and redrives together make at most one more provider call than
\* MAX_RETRY_ATTEMPTS, whoever makes them and however they end.
SendsWithinRetryBudget == sends =< MaxRetryAttempts + 1

\* A request goes to the provider only after it was authorized, and under the
\* owner's name only for an approval that was spent on it.
DispatchedWasAuthorized ==
    /\ sends > 0 => req.by # "nobody"
    /\ req.by = "owner" => ownerOk = "consumed"

=============================================================================
