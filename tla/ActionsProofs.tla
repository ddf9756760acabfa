----------------------------- MODULE ActionsProofs -----------------------------
(***************************************************************************)
(* External actions and the merge queue, for every number of holders,      *)
(* candidates, dependencies and retries.                                   *)
(***************************************************************************)
EXTENDS Actions, TLAPS

(***************************************************************************)
(* The broker's inductive invariant.  RowInv: a call's copy of the request *)
(* is the request itself as long as the revision is the same.              *)
(***************************************************************************)
InCall(h) == broker[h].at \notin {"idle", "release"}

RowInv ==
    \A h \in Holders : InCall(h) =>
       /\ req.state # "NONE"
       /\ broker[h].row.rev =< req.rev
       /\ broker[h].row.rev = req.rev => broker[h].row = req

(* Flying(h): h has driven the request to EXECUTING and not settled yet.   *)
(* FlightInv: meanwhile nobody can drive it again.                         *)
Flying(h) == broker[h].at \in {"dispatch", "settle"} /\ broker[h].op # "reconcile"

FlightInv ==
    /\ \A h \in Holders : Flying(h) => req.state \in {"EXECUTING"} \cup TerminalRequest
    /\ \A h \in Holders : broker[h].at = "dispatch" => broker[h].op # "reconcile"
    /\ \A h \in Holders : broker[h].at = "drive" => broker[h].op # "reconcile"
    /\ \A h \in Holders : broker[h].at = "observe" => broker[h].op = "reconcile"

(* AnswerInv: success is only reported of an action that was carried out,  *)
(* and a reconciling call reports nothing else.                            *)
AnswerInv ==
    \A h \in Holders : broker[h].at = "settle" =>
       /\ broker[h].out = "success" => applied
       /\ broker[h].op = "reconcile" => broker[h].out = "success"

(* RetryInv: the provider calls are counted by the attempts, except the    *)
(* one of the present drive, which is counted when it is settled.          *)
RetryInv ==
    /\ req.attempts =< MaxRetryAttempts
    /\ req.state \in {"NONE", "PENDING", "AUTHORIZED"} => sends = 0
    /\ req.state = "WAITING_EXTERNAL" => sends =< req.attempts
    /\ sends =< req.attempts + 1
    /\ \A h \in Holders : broker[h].at = "dispatch" => sends =< req.attempts

(* AuthorityInv: from AUTHORIZED on the request names who authorized it,   *)
(* and a call that will write "owner" has spent the owner's approval.      *)
AuthorityInv ==
    /\ req.state \in {"AUTHORIZED", "EXECUTING", "WAITING_EXTERNAL"} => req.by # "nobody"
    /\ \A h \in Holders : broker[h].at = "dispatch" => req.by # "nobody"
    /\ \A h \in Holders : broker[h].at = "authorize" /\ broker[h].op = "authorize_owner"
          => ownerOk = "consumed"

BrokerInv ==
    /\ BrokerTypeOK
    /\ RowInv /\ FlightInv /\ OneDispatchInFlight
    /\ AnswerInv /\ SucceededWasApplied
    /\ RetryInv
    /\ AuthorityInv /\ DispatchedWasAuthorized

(***************************************************************************)
(* The queue's.  LockInv: who is no longer alone has lost the lock.        *)
(***************************************************************************)
LockInv == \A h \in Holders : ~pass[h].alone => lock[TargetLock] # h

(* StageInv: the steps of a pass are at a candidate, and from the clean    *)
(* classification on its prerequisite is integrated.                       *)
StageOK(p) ==
    /\ p.at \in AtCandidate => p.cur \in Candidates
    /\ p.at \in {"prepare", "prepared", "merge", "merged", "test", "tested"}
          => _dependency_satisfied(p.cur)
    /\ p.at = "tested" => p.out \in {"INTEGRATED", "FAILED"}
    /\ p.at = "mark" =>
          /\ p.out \in {"PENDING", "FAILED", "STALE", "CONFLICTED", "INTEGRATED"}
          /\ p.out = "INTEGRATED" => _dependency_satisfied(p.cur)

StageInv == \A h \in Holders : StageOK(pass[h])

(* HistoryInv: what is INTEGRATED is in the history.                       *)
HistoryInv ==
    \A c \in InState("INTEGRATED") : \E i \in DOMAIN integrated : integrated[i] = c

QueueInv ==
    /\ QueueTypeOK /\ LockInv /\ StageInv /\ HistoryInv
    /\ IntegratedAlone /\ DependencyFirst

IInv == BrokerInv /\ QueueInv

-----------------------------------------------------------------------------
(***************************************************************************)
(* Types.                                                                  *)
(***************************************************************************)

Calls == [at : CallSteps, op : Operations, row : Requests, out : Answers]

(* An idle and a leaving call are calls.                                   *)
LEMMA CallTyped ==
    /\ NoRequest \in Requests /\ NoCall \in Calls
    /\ [NoCall EXCEPT !.at = "release"] \in Calls
BY DEF NoRequest, NoCall, Requests, Calls, CallSteps, Operations, Answers, RequestStates

(* A step of a call keeps it a call, whatever it sets.                     *)
LEMMA CallSets ==
    ASSUME NEW c \in Calls
    PROVE  /\ \A at \in CallSteps : [c EXCEPT !.at = at] \in Calls
           /\ \A at \in CallSteps, out \in Answers : [c EXCEPT !.at = at, !.out = out] \in Calls
           /\ \A at \in CallSteps, r \in Requests : [c EXCEPT !.at = at, !.row = r] \in Calls
BY DEF Calls

(* The ways a call goes on, ends and leaves.                               *)
LEMMA GotoTyped ==
    ASSUME broker \in [Holders -> Calls], NEW h \in Holders,
           (\E at \in CallSteps : Goto(h, at)) \/ Return(h) \/ Leave(h)
    PROVE  broker' \in [Holders -> Calls]
<1>1. ASSUME NEW at \in CallSteps, Goto(h, at) PROVE broker' \in [Holders -> Calls]
  <2>1. [broker[h] EXCEPT !.at = at] \in Calls
    BY CallSets
  <2> QED
    BY <1>1, <2>1 DEF Goto
<1>2. CASE Return(h) \/ Leave(h)
  BY <1>2, CallTyped DEF Return, Leave
<1> QED
  BY <1>1, <1>2

(* A state the table may move to is a state of requests.                   *)
LEMMA EdgesTyped == \A s : Edges(s) \subseteq RequestStates
BY DEF Edges, RequestStates, TerminalRequest

(* Moved changes state and revision only.                                  *)
LEMMA MovedTyped ==
    ASSUME req \in Requests, NEW to \in RequestStates
    PROVE  /\ Moved(to) \in Requests
           /\ Moved(to).state = to /\ Moved(to).rev = req.rev + 1
           /\ Moved(to).attempts = req.attempts /\ Moved(to).by = req.by
<1>1. ASSUME NEW r \in Requests, NEW n \in Nat
      PROVE  LET m == [r EXCEPT !.state = to, !.rev = n]
             IN  /\ m \in Requests /\ m.state = to /\ m.rev = n
                 /\ m.attempts = r.attempts /\ m.by = r.by
  <2> HIDE DEF RequestStates
  <2> QED
    BY DEF Requests
<1>2. req.rev + 1 \in Nat
  BY DEF Requests
<1> QED
  BY <1>1, <1>2 DEF Moved

(* Where a call may go first.                                              *)
LEMMA FirstSteps ==
    ASSUME NEW op
    PROVE  /\ FirstStep(op) \in {"expire", "acquire", "authorize", "deny", "idle", "consume"}
           /\ FirstStep(op) = "authorize" => op = "authorize_autonomous"
BY DEF FirstStep

(* What a broker step may change: a call of one holder and the request.    *)
LEMMA BrokerTypes ==
    ASSUME BrokerTypeOK, BrokerNext \/ BrokerFault
    PROVE  BrokerTypeOK'
<1> USE LocksAssumption, BrokerAssumption
<1> DEFINE TypeOK == /\ LocksTypeOK
                     /\ req \in Requests
                     /\ ownerOk \in {"none", "approved", "consumed", "expired"}
                     /\ policy \in Verdicts
                     /\ overdue \in BOOLEAN
                     /\ broker \in [Holders -> Calls]
                     /\ applied \in BOOLEAN
                     /\ sends \in Nat
<1>0. TypeOK /\ (TypeOK' => BrokerTypeOK')
  BY DEF BrokerTypeOK, Calls
<1> SUFFICES TypeOK'
  BY <1>0
<1>1. ASSUME NEW h \in Holders, NEW op \in Operations, Call(h, op) PROVE TypeOK'
  <2>1. [at |-> FirstStep(op), op |-> op, row |-> req, out |-> "none"] \in Calls
    BY <1>0, FirstSteps DEF Calls, CallSteps, Answers
  <2> QED
    BY <1>0, <1>1, <2>1 DEF Call, lockVars, LocksTypeOK
<1>2. ASSUME NEW h \in Holders, _expire_or_deny(h) PROVE TypeOK'
  <2> DEFINE to == IF broker[h].at = "expire" THEN "BLOCKED" ELSE "DENIED"
  <2>1. Moved(to) \in Requests
    BY <1>0, MovedTyped DEF RequestStates, TerminalRequest
  <2>2. req' \in {req, Moved(to)}
    BY <1>2 DEF _expire_or_deny
  <2>3. broker' \in [Holders -> Calls]
    BY <1>0, <1>2, CallTyped DEF _expire_or_deny, Return
  <2> HIDE DEF to
  <2> QED
    BY <1>0, <1>2, <2>1, <2>2, <2>3 DEF _expire_or_deny, lockVars, LocksTypeOK
<1>3. ASSUME NEW h \in Holders, _consume_approval(h) PROVE TypeOK'
  <2>1. Goto(h, "authorize") \/ Return(h)
    BY <1>3 DEF _consume_approval
  <2>2. broker' \in [Holders -> Calls]
    BY <1>0, <2>1, GotoTyped DEF CallSteps
  <2> QED
    BY <1>0, <1>3, <2>2 DEF _consume_approval, lockVars, LocksTypeOK
<1>4. ASSUME NEW h \in Holders, Authorize(h) PROVE TypeOK'
  <2>1. Moved("AUTHORIZED") \in Requests
    BY <1>0, MovedTyped DEF RequestStates
  <2>2. \A b \in {"owner", "policy"} : [Moved("AUTHORIZED") EXCEPT !.by = b] \in Requests
    BY <2>1 DEF Requests
  <2>3. req' \in Requests
    BY <1>0, <1>4, <2>2 DEF Authorize
  <2> QED
    BY <1>0, <1>4, <2>3, CallTyped DEF Authorize, Return, lockVars, LocksTypeOK
<1>5. ASSUME NEW h \in Holders, AcquireRequest(h) PROVE TypeOK'
  <2>1. Goto(h, "observe") \/ Goto(h, "drive") \/ Return(h)
    BY <1>5 DEF AcquireRequest
  <2>2. broker' \in [Holders -> Calls]
    BY <1>0, <2>1, GotoTyped DEF CallSteps
  <2> QED
    BY <1>0, <1>5, <2>2 DEF AcquireRequest, LocksTypeOK
<1>6. ASSUME NEW h \in Holders, _drive(h) PROVE TypeOK'
  <2>1. req' \in Requests
    BY <1>0, <1>6, MovedTyped DEF _drive, RequestStates
  <2>2. broker' = [broker EXCEPT ![h] = [@ EXCEPT !.at = "dispatch", !.row = req']] \/ Leave(h)
    BY <1>6 DEF _drive
  <2>3. [broker[h] EXCEPT !.at = "dispatch", !.row = req'] \in Calls
    BY <1>0, <2>1, CallSets DEF CallSteps
  <2>4. broker' \in [Holders -> Calls]
    BY <1>0, <2>2, <2>3, CallTyped DEF Leave
  <2> QED
    BY <1>0, <1>6, <2>1, <2>4 DEF _drive, lockVars, LocksTypeOK
<1>7. ASSUME NEW h \in Holders, Refused(h) PROVE TypeOK'
  <2>1. PICK out \in Answers :
           broker' = [broker EXCEPT ![h] = [@ EXCEPT !.at = "settle", !.out = out]]
    BY <1>7 DEF Refused, Answers
  <2>2. [broker[h] EXCEPT !.at = "settle", !.out = out] \in Calls
    BY <1>0, CallSets DEF CallSteps
  <2> QED
    BY <1>0, <1>7, <2>1, <2>2 DEF Refused, lockVars, LocksTypeOK
<1>8. ASSUME NEW h \in Holders, _dispatch(h) PROVE TypeOK'
  <2>1. PICK out \in {"success", "waiting", "unavailable", "error"}, done \in BOOLEAN :
           /\ applied' = (applied \/ done)
           /\ broker' = [broker EXCEPT ![h] = [@ EXCEPT !.at = "settle", !.out = out]]
    BY <1>8, Zenon DEF _dispatch
  <2>2. applied' \in BOOLEAN
    BY <2>1
  <2>3. [broker[h] EXCEPT !.at = "settle", !.out = out] \in Calls
    BY <1>0, CallSets DEF CallSteps, Answers
  <2> QED
    BY <1>0, <1>8, <2>1, <2>2, <2>3 DEF _dispatch, lockVars, LocksTypeOK
<1>9. ASSUME NEW h \in Holders, _reconcile_locked(h) PROVE TypeOK'
  <2>1. broker' = [broker EXCEPT ![h] = [@ EXCEPT !.at = "settle", !.out = "success"]] \/ Leave(h)
    BY <1>9 DEF _reconcile_locked
  <2>2. [broker[h] EXCEPT !.at = "settle", !.out = "success"] \in Calls
    BY <1>0, CallSets DEF CallSteps, Answers
  <2>3. broker' \in [Holders -> Calls]
    BY <1>0, <2>1, <2>2, CallTyped DEF Leave
  <2> QED
    BY <1>0, <1>9, <2>3 DEF _reconcile_locked, lockVars, LocksTypeOK
<1>10. ASSUME NEW h \in Holders, _settle(h) PROVE TypeOK'
  <2> DEFINE to == SettledState(broker[h].out, broker[h].row)
  <2>1. to \in RequestStates
    BY DEF SettledState, _bounded_wait, RequestStates, TerminalRequest
  <2> HIDE DEF to
  <2>2. Moved(to) \in Requests
    BY <1>0, <2>1, MovedTyped
  <2>3. [Moved(to) EXCEPT !.attempts = IF to = "WAITING_EXTERNAL" THEN @ + 1 ELSE @] \in Requests
    BY <2>2 DEF Requests
  <2>4. req' \in {req, [Moved(to) EXCEPT !.attempts = IF to = "WAITING_EXTERNAL" THEN @ + 1 ELSE @]}
    BY <1>10 DEF _settle, to
  <2> QED
    BY <1>0, <1>10, <2>3, <2>4, CallTyped DEF _settle, Leave, lockVars, LocksTypeOK
<1>11. ASSUME NEW h \in Holders, ReleaseRequest(h) PROVE TypeOK'
  BY <1>0, <1>11, CallTyped DEF ReleaseRequest, Released, Return, LocksTypeOK
<1>12. ASSUME NEW h \in Holders, CrashCall(h) PROVE TypeOK'
  BY <1>0, <1>12, CallTyped DEF CrashCall, Return, lockVars, LocksTypeOK
<1>13. ASSUME create_request PROVE TypeOK'
  BY <1>0, <1>13 DEF create_request, NoRequest, Requests, RequestStates, lockVars, LocksTypeOK
<1>14. ASSUME OwnerApproves \/ ApprovalExpires PROVE TypeOK'
  BY <1>0, <1>14 DEF OwnerApproves, ApprovalExpires, lockVars, LocksTypeOK
<1>15. ASSUME PolicyChanges \/ RequestExpires PROVE TypeOK'
  BY <1>0, <1>15 DEF PolicyChanges, RequestExpires, lockVars, LocksTypeOK
<1> QED
  BY <1>1, <1>2, <1>3, <1>4, <1>5, <1>6, <1>7, <1>8, <1>9, <1>10, <1>11, <1>12, <1>13, <1>14, <1>15
     DEF BrokerNext, BrokerStep, BrokerFault

-----------------------------------------------------------------------------
(***************************************************************************)
(* The broker's invariant, step by step.                                   *)
(***************************************************************************)

BrokerCore ==
    /\ RowInv /\ FlightInv /\ OneDispatchInFlight
    /\ AnswerInv /\ SucceededWasApplied
    /\ RetryInv
    /\ AuthorityInv /\ DispatchedWasAuthorized

(* Only h's call changes, and it becomes c.                                *)
CallBecomes(h, c) ==
    broker'[h] = c /\ \A g \in Holders \ {h} : broker'[g] = broker[g]

(* An assignment to h's call is such a change.                             *)
LEMMA Becomes ==
    ASSUME BrokerTypeOK, NEW h \in Holders, NEW c, broker' = [broker EXCEPT ![h] = c]
    PROVE  CallBecomes(h, c)
BY DEF BrokerTypeOK, CallBecomes

(* A call that ends or leaves while nothing else changes.                  *)
LEMMA CallEnds ==
    ASSUME BrokerTypeOK, BrokerCore, NEW h \in Holders, NEW c,
           CallBecomes(h, c), c.at \in {"idle", "release"},
           req' = req, sends' = sends, applied' = applied, ownerOk' = ownerOk
    PROVE  BrokerCore'
<1> USE DEF CallBecomes
<1>1. RowInv'
  BY DEF BrokerCore, RowInv, InCall
<1>2. FlightInv' /\ OneDispatchInFlight'
  BY DEF BrokerCore, FlightInv, OneDispatchInFlight, Flying
<1>3. AnswerInv' /\ SucceededWasApplied'
  BY DEF BrokerCore, AnswerInv, SucceededWasApplied
<1>4. RetryInv'
  BY DEF BrokerCore, RetryInv
<1>5. AuthorityInv' /\ DispatchedWasAuthorized'
  BY DEF BrokerCore, AuthorityInv, DispatchedWasAuthorized
<1> QED
  BY <1>1, <1>2, <1>3, <1>4, <1>5 DEF BrokerCore

(* The request moves to a terminal state: no call may go on with it, and   *)
(* the ones in flight stay as they are.                                    *)
LEMMA RequestMoves ==
    ASSUME BrokerTypeOK, BrokerCore, NEW h \in Holders, NEW c,
           CallBecomes(h, c), c.at \in {"idle", "release"},
           req' \in Requests, req'.rev = req.rev + 1, req'.by = req.by,
           req'.attempts = req.attempts, req.state # "NONE",
           req'.state \in TerminalRequest, req'.state = "SUCCEEDED" => applied,
           sends' = sends, applied' = applied, ownerOk' = ownerOk
    PROVE  BrokerCore'
<1> USE DEF CallBecomes, TerminalRequest
<1>0. req.rev \in Nat /\ req.attempts \in Nat /\ sends \in Nat
      /\ \A g \in Holders : broker[g].row.rev \in Nat
  BY DEF BrokerTypeOK, Requests
<1>1. RowInv'
  BY <1>0 DEF BrokerCore, RowInv, InCall
<1>2. FlightInv' /\ OneDispatchInFlight'
  BY DEF BrokerCore, FlightInv, OneDispatchInFlight, Flying
<1>3. AnswerInv' /\ SucceededWasApplied'
  BY DEF BrokerCore, AnswerInv, SucceededWasApplied
<1>4. RetryInv'
  BY DEF BrokerCore, RetryInv
<1>5. AuthorityInv' /\ DispatchedWasAuthorized'
  BY DEF BrokerCore, AuthorityInv, DispatchedWasAuthorized
<1> QED
  BY <1>1, <1>2, <1>3, <1>4, <1>5 DEF BrokerCore

(* A call begins with the request as it is read.                           *)
LEMMA CallKeeps ==
    ASSUME BrokerTypeOK, BrokerCore, NEW h \in Holders, NEW op \in Operations, Call(h, op)
    PROVE  BrokerCore'
<1> DEFINE c == [at |-> FirstStep(op), op |-> op, row |-> req, out |-> "none"]
<1>0. CallBecomes(h, c)
  BY Becomes DEF Call
<1>1. /\ c.at \in {"expire", "acquire", "authorize", "deny", "idle", "consume"}
      /\ c.row = req /\ c.op = op
      /\ c.at = "authorize" => op = "authorize_autonomous"
  BY FirstSteps
<1>2. /\ req.state # "NONE" /\ req.rev \in Nat
      /\ req' = req /\ sends' = sends /\ applied' = applied /\ ownerOk' = ownerOk
  BY DEF Call, BrokerTypeOK, Requests
<1> HIDE DEF c
<1> USE DEF CallBecomes
<1>3. RowInv'
  BY <1>0, <1>1, <1>2 DEF BrokerCore, RowInv, InCall
<1>4. FlightInv' /\ OneDispatchInFlight'
  BY <1>0, <1>1, <1>2 DEF BrokerCore, FlightInv, OneDispatchInFlight, Flying
<1>5. AnswerInv' /\ SucceededWasApplied'
  BY <1>0, <1>1, <1>2 DEF BrokerCore, AnswerInv, SucceededWasApplied
<1>6. RetryInv'
  BY <1>0, <1>1, <1>2 DEF BrokerCore, RetryInv
<1>7. AuthorityInv' /\ DispatchedWasAuthorized'
  BY <1>0, <1>1, <1>2 DEF BrokerCore, AuthorityInv, DispatchedWasAuthorized
<1> QED
  BY <1>3, <1>4, <1>5, <1>6, <1>7 DEF BrokerCore

(* Expiry and denial end a request, from wherever the table lets them.     *)
LEMMA ExpireOrDenyKeeps ==
    ASSUME BrokerTypeOK, BrokerCore, NEW h \in Holders, _expire_or_deny(h)
    PROVE  BrokerCore'
<1> DEFINE to == IF broker[h].at = "expire" THEN "BLOCKED" ELSE "DENIED"
<1>1. CallBecomes(h, NoCall) /\ NoCall.at = "idle"
  BY Becomes DEF _expire_or_deny, Return, NoCall
<1>2. sends' = sends /\ applied' = applied /\ ownerOk' = ownerOk
  BY DEF _expire_or_deny
<1>3. CASE req' = req
  BY <1>1, <1>2, <1>3, CallEnds
<1>4. CASE req' = Moved(to)
  <2>1. /\ Moved(to) \in Requests
        /\ Moved(to).state = to /\ Moved(to).rev = req.rev + 1
        /\ Moved(to).attempts = req.attempts /\ Moved(to).by = req.by
    BY MovedTyped DEF BrokerTypeOK, RequestStates, TerminalRequest
  <2>2. req.state # "NONE"
    BY DEF BrokerCore, RowInv, InCall, _expire_or_deny
  <2>3. to \in TerminalRequest /\ to # "SUCCEEDED"
    BY DEF TerminalRequest
  <2> HIDE DEF to
  <2> QED
    BY <1>1, <1>2, <1>4, <2>1, <2>2, <2>3, RequestMoves
<1>5. req' = req \/ req' = Moved(to)
  BY DEF _expire_or_deny
<1> QED
  BY <1>3, <1>4, <1>5

(* A spent approval is spent for good.                                     *)
LEMMA ConsumeKeeps ==
    ASSUME BrokerTypeOK, BrokerCore, NEW h \in Holders, _consume_approval(h)
    PROVE  BrokerCore'
<1>1. req' = req /\ sends' = sends /\ applied' = applied
  BY DEF _consume_approval
<1>2. CASE ownerOk = "approved"
  <2> DEFINE c == [broker[h] EXCEPT !.at = "authorize"]
  <2>1. CallBecomes(h, c)
    BY <1>2, Becomes DEF _consume_approval, Goto
  <2>2. c.at = "authorize" /\ c.row = broker[h].row /\ c.op = broker[h].op
    BY DEF BrokerTypeOK
  <2>3. ownerOk' = "consumed" /\ broker[h].at = "consume"
    BY <1>2 DEF _consume_approval
  <2> HIDE DEF c
  <2> USE DEF CallBecomes
  <2>4. RowInv'
    BY <1>1, <2>1, <2>2, <2>3 DEF BrokerCore, RowInv, InCall
  <2>5. FlightInv' /\ OneDispatchInFlight'
    BY <1>1, <2>1, <2>2, <2>3 DEF BrokerCore, FlightInv, OneDispatchInFlight, Flying
  <2>6. AnswerInv' /\ SucceededWasApplied'
    BY <1>1, <2>1, <2>2, <2>3 DEF BrokerCore, AnswerInv, SucceededWasApplied
  <2>7. RetryInv'
    BY <1>1, <2>1, <2>2, <2>3 DEF BrokerCore, RetryInv
  <2>8. AuthorityInv' /\ DispatchedWasAuthorized'
    BY <1>1, <2>1, <2>2, <2>3 DEF BrokerCore, AuthorityInv, DispatchedWasAuthorized
  <2> QED
    BY <2>4, <2>5, <2>6, <2>7, <2>8 DEF BrokerCore
<1>3. CASE ownerOk # "approved"
  <2>1. CallBecomes(h, NoCall) /\ NoCall.at = "idle"
    BY <1>3, Becomes DEF _consume_approval, Return, NoCall
  <2> QED
    BY <1>1, <1>3, <2>1, CallEnds DEF _consume_approval
<1> QED
  BY <1>2, <1>3

(* The request is authorized while it is PENDING, hence before any call.   *)
LEMMA AuthorizeKeeps ==
    ASSUME BrokerTypeOK, BrokerCore, NEW h \in Holders, Authorize(h)
    PROVE  BrokerCore'
<1>1. CallBecomes(h, NoCall) /\ NoCall.at = "idle"
  BY Becomes DEF Authorize, Return, NoCall
<1>2. /\ sends' = sends /\ applied' = applied /\ ownerOk' = ownerOk
      /\ broker[h].at = "authorize"
  BY DEF Authorize
<1>3. CASE req' = req
  BY <1>1, <1>2, <1>3, CallEnds
<1>4. CASE req' # req
  <2> DEFINE b == IF broker[h].op = "authorize_owner" THEN "owner" ELSE "policy"
  <2>1. req.state = "PENDING" /\ req' = [Moved("AUTHORIZED") EXCEPT !.by = b]
    BY <1>4 DEF Authorize
  <2>2. /\ Moved("AUTHORIZED") \in Requests
        /\ Moved("AUTHORIZED").state = "AUTHORIZED" /\ Moved("AUTHORIZED").rev = req.rev + 1
        /\ Moved("AUTHORIZED").attempts = req.attempts
    BY MovedTyped DEF BrokerTypeOK, RequestStates
  <2>3. /\ req'.state = "AUTHORIZED" /\ req'.rev = req.rev + 1
        /\ req'.attempts = req.attempts /\ req'.by = b
    BY <2>1, <2>2 DEF Requests
  <2>4. req.rev \in Nat /\ req.attempts \in Nat /\ sends \in Nat
        /\ \A g \in Holders : broker[g].row.rev \in Nat
    BY DEF BrokerTypeOK, Requests
  <2> USE DEF CallBecomes
  <2>5. RowInv'
    BY <1>1, <2>1, <2>3, <2>4 DEF BrokerCore, RowInv, InCall
  <2>6. FlightInv' /\ OneDispatchInFlight'
    BY <1>1, <2>1, <2>3 DEF BrokerCore, FlightInv, OneDispatchInFlight, Flying, TerminalRequest
  <2>7. AnswerInv' /\ SucceededWasApplied'
    BY <1>1, <1>2, <2>3 DEF BrokerCore, AnswerInv, SucceededWasApplied
  <2>8. RetryInv'
    BY <1>1, <1>2, <2>1, <2>3, <2>4 DEF BrokerCore, RetryInv
  <2>9. AuthorityInv' /\ DispatchedWasAuthorized'
    BY <1>1, <1>2, <2>1, <2>3 DEF BrokerCore, AuthorityInv, DispatchedWasAuthorized
  <2> QED
    BY <2>5, <2>6, <2>7, <2>8, <2>9 DEF BrokerCore
<1> QED
  BY <1>3, <1>4

(* Only a call that may go on acquires the lock; reconcile observes.       *)
LEMMA AcquireKeeps ==
    ASSUME BrokerTypeOK, BrokerCore, NEW h \in Holders, AcquireRequest(h)
    PROVE  BrokerCore'
<1>1. /\ req' = req /\ sends' = sends /\ applied' = applied /\ ownerOk' = ownerOk
      /\ broker[h].at = "acquire"
  BY DEF AcquireRequest
<1>2. CASE Return(h)
  <2>1. CallBecomes(h, NoCall) /\ NoCall.at = "idle"
    BY <1>2, Becomes DEF Return, NoCall
  <2> QED
    BY <1>1, <2>1, CallEnds
<1>3. CASE Goto(h, IF broker[h].op = "reconcile" THEN "observe" ELSE "drive")
  <2> DEFINE at == IF broker[h].op = "reconcile" THEN "observe" ELSE "drive"
             c == [broker[h] EXCEPT !.at = at]
  <2>1. CallBecomes(h, c)
    BY <1>3, Becomes DEF Goto
  <2>2. c.at = at /\ c.row = broker[h].row /\ c.op = broker[h].op
    BY DEF BrokerTypeOK
  <2>3. /\ at \in {"observe", "drive"}
        /\ (at = "drive") = (broker[h].op # "reconcile")
    OBVIOUS
  <2> HIDE DEF at, c
  <2> USE DEF CallBecomes
  <2>4. RowInv'
    BY <1>1, <2>1, <2>2, <2>3 DEF BrokerCore, RowInv, InCall
  <2>5. FlightInv' /\ OneDispatchInFlight'
    BY <1>1, <2>1, <2>2, <2>3 DEF BrokerCore, FlightInv, OneDispatchInFlight, Flying
  <2>6. AnswerInv' /\ SucceededWasApplied'
    BY <1>1, <2>1, <2>2, <2>3 DEF BrokerCore, AnswerInv, SucceededWasApplied
  <2>7. RetryInv'
    BY <1>1, <2>1, <2>2, <2>3 DEF BrokerCore, RetryInv
  <2>8. AuthorityInv' /\ DispatchedWasAuthorized'
    BY <1>1, <2>1, <2>2, <2>3 DEF BrokerCore, AuthorityInv, DispatchedWasAuthorized
  <2> QED
    BY <2>4, <2>5, <2>6, <2>7, <2>8 DEF BrokerCore
<1> QED
  BY <1>2, <1>3 DEF AcquireRequest

(* A request is driven only from a state in which no call is in flight.    *)
LEMMA DriveKeeps ==
    ASSUME BrokerTypeOK, BrokerCore, NEW h \in Holders, _drive(h)
    PROVE  BrokerCore'
<1>1. /\ sends' = sends /\ applied' = applied /\ ownerOk' = ownerOk
      /\ broker[h].at = "drive"
  BY DEF _drive
<1>2. CASE req' = req /\ Leave(h)
  <2>1. CallBecomes(h, [NoCall EXCEPT !.at = "release"])
        /\ [NoCall EXCEPT !.at = "release"].at = "release"
    BY <1>2, Becomes DEF Leave, NoCall
  <2> QED
    BY <1>1, <1>2, <2>1, CallEnds
<1>3. CASE /\ Current(broker[h].row)
           /\ broker[h].row.state \in {"AUTHORIZED", "WAITING_EXTERNAL"}
           /\ req' = Moved("EXECUTING")
           /\ broker' = [broker EXCEPT ![h] = [@ EXCEPT !.at = "dispatch", !.row = req']]
  <2> DEFINE c == [broker[h] EXCEPT !.at = "dispatch", !.row = req']
  <2>1. CallBecomes(h, c)
    BY <1>3, Becomes
  <2>2. c.at = "dispatch" /\ c.row = req' /\ c.op = broker[h].op
    BY DEF BrokerTypeOK
  <2> HIDE DEF c
  <2>3. /\ req'.state = "EXECUTING" /\ req'.rev = req.rev + 1
        /\ req'.attempts = req.attempts /\ req'.by = req.by
    BY <1>3, MovedTyped DEF BrokerTypeOK, RequestStates
  <2>4. req.rev \in Nat /\ req.attempts \in Nat /\ sends \in Nat
        /\ \A g \in Holders : broker[g].row.rev \in Nat
    BY DEF BrokerTypeOK, Requests
  <2>5. req.state \in {"AUTHORIZED", "WAITING_EXTERNAL"}
    BY <1>3 DEF Current
  <2>6. /\ \A g \in Holders : ~Flying(g) /\ broker[g].at # "dispatch"
        /\ broker[h].op # "reconcile" /\ sends =< req.attempts /\ req.by # "nobody"
    BY <1>1, <2>4, <2>5 DEF BrokerCore, FlightInv, Flying, TerminalRequest, RetryInv, AuthorityInv
  <2> USE DEF CallBecomes
  <2>7. RowInv'
    BY <1>1, <2>1, <2>2, <2>3, <2>4 DEF BrokerCore, RowInv, InCall
  <2>8. FlightInv' /\ OneDispatchInFlight'
    BY <1>1, <2>1, <2>2, <2>3, <2>6 DEF BrokerCore, FlightInv, OneDispatchInFlight, Flying
  <2>9. AnswerInv' /\ SucceededWasApplied'
    BY <1>1, <2>1, <2>2, <2>3 DEF BrokerCore, AnswerInv, SucceededWasApplied
  <2>10. RetryInv'
    BY <1>1, <2>1, <2>2, <2>3, <2>4, <2>6 DEF BrokerCore, RetryInv
  <2>11. AuthorityInv' /\ DispatchedWasAuthorized'
    BY <1>1, <2>1, <2>2, <2>3, <2>6 DEF BrokerCore, AuthorityInv, DispatchedWasAuthorized
  <2> QED
    BY <2>7, <2>8, <2>9, <2>10, <2>11 DEF BrokerCore
<1> QED
  BY <1>2, <1>3 DEF _drive

(* A call that was not made, or was made, is settled next.                 *)
LEMMA DispatchKeeps ==
    ASSUME BrokerTypeOK, BrokerCore, NEW h \in Holders, Refused(h) \/ _dispatch(h)
    PROVE  BrokerCore'
<1>1. PICK out \in Answers :
        /\ broker' = [broker EXCEPT ![h] = [@ EXCEPT !.at = "settle", !.out = out]]
        /\ out = "success" => applied'
        /\ applied => applied'
  <2>1. CASE Refused(h)
    <3>1. PICK out \in {"write_disabled", "precondition"} :
            broker' = [broker EXCEPT ![h] = [@ EXCEPT !.at = "settle", !.out = out]]
      BY <2>1, Zenon DEF Refused
    <3>2. out \in Answers /\ out # "success"
      BY <3>1 DEF Answers
    <3>3. applied' = applied
      BY <2>1 DEF Refused
    <3> QED
      BY <3>1, <3>2, <3>3, Zenon
  <2>2. CASE _dispatch(h)
    <3>1. PICK out \in {"success", "waiting", "unavailable", "error"}, done \in BOOLEAN :
            /\ out = "success" => done
            /\ applied' = (applied \/ done)
            /\ broker' = [broker EXCEPT ![h] = [@ EXCEPT !.at = "settle", !.out = out]]
      BY <2>2, Zenon DEF _dispatch
    <3>2. out \in Answers
      BY <3>1 DEF Answers
    <3>3. (out = "success" => applied') /\ (applied => applied')
      BY <3>1, Zenon
    <3> QED
      BY <3>1, <3>2, <3>3, Zenon
  <2> QED
    BY <2>1, <2>2
<1>2. /\ req' = req /\ ownerOk' = ownerOk /\ broker[h].at = "dispatch"
      /\ sends' \in {sends, sends + 1}
  BY DEF Refused, _dispatch
<1> DEFINE c == [broker[h] EXCEPT !.at = "settle", !.out = out]
<1>3. CallBecomes(h, c)
  BY <1>1, Becomes
<1>4. c.at = "settle" /\ c.row = broker[h].row /\ c.op = broker[h].op /\ c.out = out
  BY DEF BrokerTypeOK
<1> HIDE DEF c
<1>5. req.attempts \in Nat /\ sends \in Nat
  BY DEF BrokerTypeOK, Requests
<1>6. /\ Flying(h) /\ sends =< req.attempts /\ req.by # "nobody"
      /\ req.state \in {"EXECUTING"} \cup TerminalRequest
      /\ \A g \in Holders : broker[g].at = "dispatch" => g = h
  BY <1>2 DEF BrokerCore, FlightInv, Flying, OneDispatchInFlight, RetryInv, AuthorityInv
<1> USE DEF CallBecomes
<1>7. RowInv'
  BY <1>2, <1>3, <1>4 DEF BrokerCore, RowInv, InCall
<1>8. FlightInv' /\ OneDispatchInFlight'
  BY <1>2, <1>3, <1>4, <1>6 DEF BrokerCore, FlightInv, OneDispatchInFlight, Flying
<1>9. AnswerInv' /\ SucceededWasApplied'
  BY <1>1, <1>2, <1>3, <1>4, <1>6 DEF BrokerCore, AnswerInv, SucceededWasApplied, Flying
<1>10. RetryInv'
  BY <1>2, <1>3, <1>4, <1>5, <1>6 DEF BrokerCore, RetryInv, TerminalRequest
<1>11. AuthorityInv' /\ DispatchedWasAuthorized'
  BY <1>2, <1>3, <1>4, <1>6 DEF BrokerCore, AuthorityInv, DispatchedWasAuthorized
<1> QED
  BY <1>7, <1>8, <1>9, <1>10, <1>11 DEF BrokerCore

(* What is found was carried out.                                          *)
LEMMA ReconcileKeeps ==
    ASSUME BrokerTypeOK, BrokerCore, NEW h \in Holders, _reconcile_locked(h)
    PROVE  BrokerCore'
<1>1. /\ req' = req /\ sends' = sends /\ applied' = applied /\ ownerOk' = ownerOk
      /\ broker[h].at = "observe"
  BY DEF _reconcile_locked
<1>2. CASE Leave(h)
  <2>1. CallBecomes(h, [NoCall EXCEPT !.at = "release"])
        /\ [NoCall EXCEPT !.at = "release"].at = "release"
    BY <1>2, Becomes DEF Leave, NoCall
  <2> QED
    BY <1>1, <2>1, CallEnds
<1>3. CASE /\ applied
           /\ broker' = [broker EXCEPT ![h] = [@ EXCEPT !.at = "settle", !.out = "success"]]
  <2> DEFINE c == [broker[h] EXCEPT !.at = "settle", !.out = "success"]
  <2>1. CallBecomes(h, c)
    BY <1>3, Becomes
  <2>2. c.at = "settle" /\ c.row = broker[h].row /\ c.op = broker[h].op /\ c.out = "success"
    BY DEF BrokerTypeOK
  <2> HIDE DEF c
  <2> USE DEF CallBecomes
  <2>3. RowInv'
    BY <1>1, <2>1, <2>2 DEF BrokerCore, RowInv, InCall
  <2>4. FlightInv' /\ OneDispatchInFlight'
    BY <1>1, <2>1, <2>2 DEF BrokerCore, FlightInv, OneDispatchInFlight, Flying
  <2>5. AnswerInv' /\ SucceededWasApplied'
    BY <1>1, <1>3, <2>1, <2>2 DEF BrokerCore, AnswerInv, SucceededWasApplied
  <2>6. RetryInv'
    BY <1>1, <2>1, <2>2 DEF BrokerCore, RetryInv
  <2>7. AuthorityInv' /\ DispatchedWasAuthorized'
    BY <1>1, <2>1, <2>2 DEF BrokerCore, AuthorityInv, DispatchedWasAuthorized
  <2> QED
    BY <2>3, <2>4, <2>5, <2>6, <2>7 DEF BrokerCore
<1>4. PICK found \in {FALSE, applied} :
        IF found
        THEN broker' = [broker EXCEPT ![h] = [@ EXCEPT !.at = "settle", !.out = "success"]]
        ELSE Leave(h)
  BY Zenon DEF _reconcile_locked
<1>5. CASE found
  BY <1>3, <1>4, <1>5, Zenon
<1>6. CASE ~found
  BY <1>2, <1>4, <1>6, Zenon
<1> QED
  BY <1>5, <1>6

(* Settling writes only over the row it went by, so a call that waits again *)
(* is counted, and one that succeeded was carried out.                     *)
LEMMA SettleKeeps ==
    ASSUME BrokerTypeOK, BrokerCore, NEW h \in Holders, _settle(h)
    PROVE  BrokerCore'
<1> USE BrokerAssumption
<1> DEFINE to == SettledState(broker[h].out, broker[h].row)
<1>1. /\ sends' = sends /\ applied' = applied /\ ownerOk' = ownerOk
      /\ broker[h].at = "settle"
  BY DEF _settle
<1>2. PICK c : CallBecomes(h, c) /\ c.at = "release"
  <2>1. CallBecomes(h, [NoCall EXCEPT !.at = "release"])
        /\ [NoCall EXCEPT !.at = "release"].at = "release"
    BY Becomes DEF _settle, Leave, NoCall
  <2> QED
    BY <2>1
<1>3. CASE req' = req
  BY <1>1, <1>2, <1>3, CallEnds
<1>4. CASE req' # req
  <2>1. /\ Current(broker[h].row) /\ to \in Edges(req.state)
        /\ req' = [Moved(to) EXCEPT !.attempts = IF to = "WAITING_EXTERNAL" THEN @ + 1 ELSE @]
    BY <1>4 DEF _settle
  <2>2. broker[h].row = req /\ req.state # "NONE"
    BY <1>1, <2>1 DEF BrokerCore, RowInv, InCall, Current
  <2>3. /\ to \in {"WAITING_EXTERNAL"} \cup TerminalRequest
        /\ to = "SUCCEEDED" => applied
        /\ to = "WAITING_EXTERNAL" => Flying(h) /\ req.attempts + 1 =< MaxRetryAttempts
    <3>1. broker[h].out = "success" => applied
      BY <1>1 DEF BrokerCore, AnswerInv
    <3>2. broker[h].out # "success" => Flying(h)
      BY <1>1 DEF BrokerCore, AnswerInv, Flying
    <3>3. req.attempts \in Nat /\ MaxRetryAttempts \in Nat
      BY DEF BrokerTypeOK, Requests
    <3> QED
      BY <2>2, <3>1, <3>2, <3>3 DEF SettledState, _bounded_wait, TerminalRequest
  <2>4. to \in RequestStates
    BY <2>3 DEF RequestStates
  <2> HIDE DEF to
  <2>5. /\ Moved(to) \in Requests
        /\ Moved(to).state = to /\ Moved(to).rev = req.rev + 1
        /\ Moved(to).attempts = req.attempts /\ Moved(to).by = req.by
    BY <2>4, MovedTyped DEF BrokerTypeOK
  <2>6. req.rev \in Nat /\ req.attempts \in Nat /\ sends \in Nat
        /\ \A g \in Holders : broker[g].row.rev \in Nat
    BY DEF BrokerTypeOK, Requests
  <2>7. CASE to \in TerminalRequest
    <3>1. req' = [Moved(to) EXCEPT !.attempts = @]
      BY <2>1, <2>7 DEF TerminalRequest
    <3>2. /\ req' \in Requests /\ req'.state = to /\ req'.rev = req.rev + 1
          /\ req'.attempts = req.attempts /\ req'.by = req.by
      BY <2>5, <3>1 DEF Requests
    <3> QED
      BY <1>1, <1>2, <2>2, <2>3, <2>7, <3>2, RequestMoves
  <2>8. CASE to = "WAITING_EXTERNAL"
    <3>1. req' = [Moved(to) EXCEPT !.attempts = @ + 1]
      BY <2>1, <2>8
    <3>2. /\ req'.state = "WAITING_EXTERNAL" /\ req'.rev = req.rev + 1
          /\ req'.attempts = req.attempts + 1 /\ req'.by = req.by
      BY <2>5, <2>8, <3>1 DEF Requests
    <3>3. /\ \A g \in Holders : Flying(g) => g = h
          /\ \A g \in Holders : broker[g].at = "dispatch" => Flying(g)
      BY <2>3, <2>8 DEF BrokerCore, OneDispatchInFlight, Flying, FlightInv
    <3>4. req.state \in {"EXECUTING"} \cup TerminalRequest /\ req.state \notin TerminalRequest
      BY <2>1, <2>3, <2>8 DEF BrokerCore, FlightInv, Edges, TerminalRequest
    <3> USE DEF CallBecomes
    <3>5. RowInv'
      BY <1>2, <2>2, <2>6, <3>2 DEF BrokerCore, RowInv, InCall
    <3>6. FlightInv' /\ OneDispatchInFlight'
      BY <1>2, <3>2, <3>3 DEF BrokerCore, FlightInv, OneDispatchInFlight, Flying
    <3>7. AnswerInv' /\ SucceededWasApplied'
      BY <1>1, <1>2, <3>2 DEF BrokerCore, AnswerInv, SucceededWasApplied
    <3>8. RetryInv'
      BY <1>1, <1>2, <2>3, <2>6, <2>8, <3>2, <3>3 DEF BrokerCore, RetryInv
    <3>9. AuthorityInv' /\ DispatchedWasAuthorized'
      BY <1>1, <1>2, <3>2, <3>3, <3>4 DEF BrokerCore, AuthorityInv, DispatchedWasAuthorized
    <3> QED
      BY <3>5, <3>6, <3>7, <3>8, <3>9 DEF BrokerCore
  <2> QED
    BY <2>3, <2>7, <2>8
<1> QED
  BY <1>3, <1>4

(* A request that is created has no calls; the owner, the clock and a      *)
(* change of policy disturb none.                                          *)
LEMMA SurroundingsKeep ==
    ASSUME BrokerTypeOK, BrokerCore,
           create_request \/ OwnerApproves \/ ApprovalExpires \/ RequestExpires \/ PolicyChanges
    PROVE  BrokerCore'
<1>1. CASE create_request
  <2>1. /\ req.state = "NONE" /\ req'.state = "PENDING" /\ req'.attempts = 0
        /\ req'.by = "nobody" /\ req'.rev = 0
        /\ broker' = broker /\ sends' = sends /\ applied' = applied /\ ownerOk' = ownerOk
    BY <1>1 DEF create_request, NoRequest
  <2>2. MaxRetryAttempts \in Nat /\ sends = 0
    BY <2>1, BrokerAssumption DEF BrokerCore, RetryInv
  <2>3. RowInv'
    BY <2>1 DEF BrokerCore, RowInv, InCall
  <2>4. FlightInv' /\ OneDispatchInFlight'
    BY <2>1 DEF BrokerCore, FlightInv, OneDispatchInFlight, Flying, TerminalRequest
  <2>5. AnswerInv' /\ SucceededWasApplied'
    BY <2>1 DEF BrokerCore, AnswerInv, SucceededWasApplied
  <2>6. RetryInv'
    BY <2>1, <2>2 DEF BrokerCore, RetryInv
  <2>7. AuthorityInv' /\ DispatchedWasAuthorized'
    BY <2>1, <2>2, <2>3 DEF BrokerCore, AuthorityInv, DispatchedWasAuthorized, RowInv, InCall
  <2> QED
    BY <2>3, <2>4, <2>5, <2>6, <2>7 DEF BrokerCore
<1>2. CASE OwnerApproves \/ ApprovalExpires \/ RequestExpires \/ PolicyChanges
  <2>1. /\ req' = req /\ broker' = broker /\ sends' = sends /\ applied' = applied
        /\ ownerOk = "consumed" => ownerOk' = "consumed"
    BY <1>2 DEF OwnerApproves, ApprovalExpires, RequestExpires, PolicyChanges
  <2>2. AuthorityInv' /\ DispatchedWasAuthorized'
    BY <2>1 DEF BrokerCore, AuthorityInv, DispatchedWasAuthorized
  <2> QED
    BY <2>1, <2>2 DEF BrokerCore, RowInv, InCall, FlightInv, OneDispatchInFlight, Flying,
                      AnswerInv, SucceededWasApplied, RetryInv
<1> QED
  BY <1>1, <1>2

(* A step of the broker keeps its invariant.                               *)
LEMMA BrokerKeeps ==
    ASSUME BrokerInv, BrokerNext \/ BrokerFault
    PROVE  BrokerInv'
<1>1. BrokerTypeOK /\ BrokerCore
  BY DEF BrokerInv, BrokerCore
<1>2. BrokerTypeOK'
  BY <1>1, BrokerTypes
<1>3. ASSUME NEW h \in Holders, ReleaseRequest(h) \/ CrashCall(h) PROVE BrokerCore'
  <2>1. CallBecomes(h, NoCall) /\ NoCall.at = "idle"
    BY <1>1, <1>3, Becomes DEF ReleaseRequest, CrashCall, Return, NoCall
  <2>2. req' = req /\ sends' = sends /\ applied' = applied /\ ownerOk' = ownerOk
    BY <1>3 DEF ReleaseRequest, CrashCall
  <2> QED
    BY <1>1, <2>1, <2>2, CallEnds
<1>4. ASSUME NEW h \in Holders, BrokerStep(h) PROVE BrokerCore'
  BY <1>1, <1>3, <1>4, CallKeeps, ExpireOrDenyKeeps, ConsumeKeeps, AuthorizeKeeps, AcquireKeeps,
     DriveKeeps, DispatchKeeps, ReconcileKeeps, SettleKeeps DEF BrokerStep
<1>5. BrokerCore'
  BY <1>1, <1>3, <1>4, SurroundingsKeep DEF BrokerNext, BrokerFault
<1> QED
  BY <1>2, <1>5 DEF BrokerInv, BrokerCore

(* The broker's invariant speaks of nothing else but the types of leases   *)
(* and locks.                                                              *)
LEMMA BrokerUndisturbed ==
    ASSUME BrokerInv, UNCHANGED brokerVars, LocksTypeOK'
    PROVE  BrokerInv'
<1> USE DEF brokerVars
<1>1. BrokerTypeOK'
  BY DEF BrokerInv, BrokerTypeOK
<1>2. RowInv' /\ FlightInv' /\ OneDispatchInFlight' /\ AnswerInv' /\ SucceededWasApplied'
  BY DEF BrokerInv, RowInv, InCall, FlightInv, Flying, OneDispatchInFlight, AnswerInv, SucceededWasApplied
<1>3. RetryInv' /\ AuthorityInv' /\ DispatchedWasAuthorized'
  BY DEF BrokerInv, RetryInv, AuthorityInv, DispatchedWasAuthorized
<1> QED
  BY <1>1, <1>2, <1>3 DEF BrokerInv

-----------------------------------------------------------------------------
(***************************************************************************)
(* The queue's invariant, step by step.                                    *)
(***************************************************************************)

Rows == [state : CandidateStates, rev : Nat, holder : Holders \cup {FREE},
         head : SUBSET Candidates, alone : BOOLEAN]

PassSteps == AtCandidate \cup {"idle", "list", "order", "next", "leave"}

Passes == [at : PassSteps, todo : SUBSET Candidates, cur : Candidates \cup {0},
           rev : Nat, base : SUBSET Candidates, out : Outcomes, alone : BOOLEAN]

(* Only h's pass changes, and it becomes p.                                *)
PassBecomes(h, p) ==
    pass'[h] = p /\ \A g \in Holders \ {h} : pass'[g] = pass[g]

(* Only c's row changes, and it becomes r.                                 *)
RowBecomes(c, r) ==
    cand'[c] = r /\ \A d \in Candidates \ {c} : cand'[d] = cand[d]

(* INTEGRATED is final, and nothing but Mark makes a candidate INTEGRATED. *)
Settled ==
    /\ integrated' = integrated
    /\ \A c \in Candidates : cand[c].state = "INTEGRATED" => cand'[c].state = "INTEGRATED"
    /\ \A c \in Candidates : cand'[c].state = "INTEGRATED" =>
          cand[c].state = "INTEGRATED" /\ cand'[c].alone = cand[c].alone

(* An assignment to h's pass is such a change.                             *)
LEMMA PassSet ==
    ASSUME QueueTypeOK, NEW h \in Holders, NEW p \in Passes, pass' = [pass EXCEPT ![h] = p]
    PROVE  PassBecomes(h, p) /\ pass' \in [Holders -> Passes]
BY DEF QueueTypeOK, PassBecomes, Passes, PassSteps

(* An assignment to c's row is such a change.                              *)
LEMMA RowSet ==
    ASSUME QueueTypeOK, NEW c \in Candidates, NEW r \in Rows, cand' = [cand EXCEPT ![c] = r],
           r.state = "INTEGRATING" => r.holder # FREE
    PROVE  /\ RowBecomes(c, r) /\ cand' \in [Candidates -> Rows]
           /\ \A d \in Candidates : cand'[d].state = "INTEGRATING" => cand'[d].holder # FREE
<1>1. cand \in [Candidates -> Rows]
      /\ \A d \in Candidates : cand[d].state = "INTEGRATING" => cand[d].holder # FREE
  BY DEF QueueTypeOK, Rows, InState
<1>2. RowBecomes(c, r) /\ cand' \in [Candidates -> Rows]
  BY <1>1 DEF RowBecomes
<1> QED
  BY <1>1, <1>2 DEF RowBecomes

(* The rows and passes of a state of the right types.                      *)
LEMMA RowsAndPasses ==
    ASSUME QueueTypeOK
    PROVE  /\ cand \in [Candidates -> Rows] /\ pass \in [Holders -> Passes]
           /\ \A c \in Candidates : cand[c].state = "INTEGRATING" => cand[c].holder # FREE
           /\ NoPass \in Passes
BY DEF QueueTypeOK, Rows, Passes, PassSteps, InState, NoPass, Outcomes

(* A candidate that moves keeps its other columns.                         *)
LEMMA CandMovedTyped ==
    ASSUME QueueTypeOK, NEW c \in Candidates, NEW to \in CandidateStates
    PROVE  /\ CandMoved(c, to) \in Rows
           /\ CandMoved(c, to).state = to /\ CandMoved(c, to).rev = cand[c].rev + 1
           /\ CandMoved(c, to).holder = cand[c].holder /\ CandMoved(c, to).head = cand[c].head
           /\ CandMoved(c, to).alone = cand[c].alone
<1>1. ASSUME NEW r \in Rows, NEW n \in Nat
      PROVE  LET m == [r EXCEPT !.state = to, !.rev = n]
             IN  /\ m \in Rows /\ m.state = to /\ m.rev = n
                 /\ m.holder = r.holder /\ m.head = r.head /\ m.alone = r.alone
  <2> HIDE DEF CandidateStates
  <2> QED
    BY DEF Rows
<1>2. cand[c] \in Rows /\ cand[c].rev + 1 \in Nat
  BY RowsAndPasses DEF Rows
<1> QED
  BY <1>1, <1>2 DEF CandMoved

QueueTypeOK0 ==
    /\ cand \in [Candidates -> Rows] /\ pass \in [Holders -> Passes]
    /\ \A c \in Candidates : cand[c].state = "INTEGRATING" => cand[c].holder # FREE
    /\ worktree \subseteq Candidates
    /\ probed \subseteq Candidates \X Nat
    /\ integrated \in Seq(Candidates)

(* The same types in the names above.                                      *)
LEMMA TypesAgain ==
    /\ QueueTypeOK => QueueTypeOK0
    /\ QueueTypeOK0' => QueueTypeOK'
BY DEF QueueTypeOK, QueueTypeOK0, Rows, Passes, PassSteps, InState

(* While no candidate becomes INTEGRATED, what was integrated stays alone, *)
(* recorded and in order, and satisfied dependencies stay satisfied.       *)
LEMMA SettledKeeps ==
    ASSUME QueueTypeOK, Settled, HistoryInv, IntegratedAlone, DependencyFirst
    PROVE  /\ HistoryInv' /\ IntegratedAlone' /\ DependencyFirst'
           /\ \A c \in Candidates : _dependency_satisfied(c) => _dependency_satisfied(c)'
<1> USE QueueAssumption DEF Settled
<1>1. HistoryInv'
  BY DEF HistoryInv, InState
<1>2. IntegratedAlone'
  BY DEF IntegratedAlone, InState
<1>3. DependencyFirst'
  BY DEF DependencyFirst
<1>4. \A c \in Candidates : _dependency_satisfied(c) => _dependency_satisfied(c)'
  BY DEF _dependency_satisfied
<1> QED
  BY <1>1, <1>2, <1>3, <1>4

(* What an unchanged or a moving row means for that.                       *)
LEMMA RowSettled ==
    ASSUME QueueTypeOK, integrated' = integrated,
           \/ cand' = cand
           \/ \E c \in Candidates, r \in Rows :
                 RowBecomes(c, r) /\ cand[c].state # "INTEGRATED" /\ r.state # "INTEGRATED"
    PROVE  Settled
BY DEF Settled, RowBecomes

(* A pass that goes on by itself, its lock unchanged or given up.          *)
LEMMA PassMoves ==
    ASSUME QueueInv, Settled, NEW h \in Holders, NEW p \in Passes,
           PassBecomes(h, p), p.alone = pass[h].alone \/ p.alone = TRUE,
           StageOK(p),
           \A g \in Holders : lock'[TargetLock] = g => lock[TargetLock] = g
    PROVE  LockInv' /\ StageInv'
<1>1. QueueTypeOK0
  BY TypesAgain DEF QueueInv
<1>2. LockInv'
  BY DEF QueueInv, LockInv, PassBecomes
<1>3. \A c \in Candidates : _dependency_satisfied(c) => _dependency_satisfied(c)'
  BY SettledKeeps DEF QueueInv
<1>4. ASSUME NEW g \in Holders, NEW q \in Passes, StageOK(q), pass'[g] = q
      PROVE  StageOK(pass[g])'
  <2> DEFINE stages == {"prepare", "prepared", "merge", "merged", "test", "tested", "mark"}
  <2>1. q.at \in stages => q.cur \in Candidates
    BY <1>4 DEF StageOK, AtCandidate
  <2>2. q.at \in stages /\ _dependency_satisfied(q.cur) => _dependency_satisfied(q.cur)'
    BY <1>3, <2>1
  <2> QED
    BY <1>4, <2>1, <2>2 DEF StageOK
<1>5. \A g \in Holders : StageOK(pass[g])'
  <2> TAKE g \in Holders
  <2>1. CASE g = h
    BY <1>4, <2>1 DEF PassBecomes
  <2>2. CASE g # h
    BY <1>1, <1>4, <2>2 DEF PassBecomes, QueueInv, StageInv, QueueTypeOK0
  <2> QED
    BY <2>1, <2>2
<1> QED
  BY <1>2, <1>5 DEF StageInv

(* What is left to show of a step that integrates nothing.                 *)
LEMMA StepKeeps ==
    ASSUME QueueInv, Settled, QueueTypeOK0', LockInv', StageInv'
    PROVE  QueueInv'
BY SettledKeeps, TypesAgain DEF QueueInv

(* A step of one pass that leaves rows, locks and history alone.           *)
LEMMA PassStepKeeps ==
    ASSUME QueueInv, NEW h \in Holders, NEW p \in Passes,
           pass' = [pass EXCEPT ![h] = p], p.alone = pass[h].alone \/ p.alone = TRUE,
           StageOK(p),
           UNCHANGED <<lockVars, cand, probed, integrated>>, worktree' \subseteq Candidates
    PROVE  QueueInv'
<1>1. QueueTypeOK /\ QueueTypeOK0
  BY TypesAgain DEF QueueInv
<1>2. PassBecomes(h, p) /\ pass' \in [Holders -> Passes]
  BY <1>1, PassSet
<1>3. Settled
  BY <1>1, RowSettled
<1>4. LockInv' /\ StageInv'
  BY <1>2, <1>3, PassMoves DEF lockVars
<1>5. QueueTypeOK0'
  BY <1>1, <1>2 DEF QueueTypeOK0
<1> QED
  BY <1>3, <1>4, <1>5, StepKeeps

(* A row moves; the passes stay as they are.                               *)
LEMMA RowStepKeeps ==
    ASSUME QueueInv, NEW c \in Candidates, NEW r \in Rows,
           cand' = [cand EXCEPT ![c] = r],
           cand[c].state # "INTEGRATED", r.state # "INTEGRATED",
           r.state = "INTEGRATING" => r.holder # FREE,
           UNCHANGED <<lockVars, pass, worktree, integrated>>, probed' \subseteq Candidates \X Nat
    PROVE  QueueInv'
<1>1. QueueTypeOK /\ QueueTypeOK0
  BY TypesAgain DEF QueueInv
<1>2. /\ RowBecomes(c, r) /\ cand' \in [Candidates -> Rows]
      /\ \A d \in Candidates : cand'[d].state = "INTEGRATING" => cand'[d].holder # FREE
  BY <1>1, RowSet
<1>3. Settled
  BY <1>1, <1>2, RowSettled
<1>4. QueueTypeOK0'
  BY <1>1, <1>2 DEF QueueTypeOK0
<1>5. LockInv'
  BY DEF QueueInv, LockInv, lockVars
<1>6. StageInv'
  <2>1. \A d \in Candidates : _dependency_satisfied(d) => _dependency_satisfied(d)'
    BY <1>1, <1>3, SettledKeeps DEF QueueInv
  <2>2. \A h \in Holders : StageOK(pass[h])
    BY DEF QueueInv, StageInv
  <2>3. pass' = pass
    OBVIOUS
  <2> QED
    BY <2>1, <2>2, <2>3 DEF StageInv, StageOK, AtCandidate
<1> QED
  BY <1>3, <1>4, <1>5, <1>6, StepKeeps

(* A row and a pass move together, under the same locks.                   *)
LEMMA RowAndPassKeep ==
    ASSUME QueueInv, NEW c \in Candidates, NEW r \in Rows,
           cand' = [cand EXCEPT ![c] = r],
           cand[c].state # "INTEGRATED", r.state # "INTEGRATED",
           r.state = "INTEGRATING" => r.holder # FREE,
           NEW h \in Holders, NEW p \in Passes,
           pass' = [pass EXCEPT ![h] = p], p.alone = pass[h].alone, StageOK(p),
           UNCHANGED <<lockVars, worktree, probed, integrated>>
    PROVE  QueueInv'
<1>1. QueueTypeOK /\ QueueTypeOK0
  BY TypesAgain DEF QueueInv
<1>2. /\ RowBecomes(c, r) /\ cand' \in [Candidates -> Rows]
      /\ \A d \in Candidates : cand'[d].state = "INTEGRATING" => cand'[d].holder # FREE
  BY <1>1, RowSet
<1>3. PassBecomes(h, p) /\ pass' \in [Holders -> Passes]
  BY <1>1, PassSet
<1>4. Settled
  BY <1>1, <1>2, RowSettled
<1>5. LockInv' /\ StageInv'
  BY <1>3, <1>4, PassMoves DEF lockVars
<1>6. QueueTypeOK0'
  BY <1>1, <1>2, <1>3 DEF QueueTypeOK0
<1> QED
  BY <1>4, <1>5, <1>6, StepKeeps

(* What a step may set in a pass.                                          *)
LEMMA PassSets ==
    ASSUME NEW p \in Passes
    PROVE  /\ \A at \in PassSteps : [p EXCEPT !.at = at] \in Passes
           /\ \A at \in PassSteps, out \in Outcomes : [p EXCEPT !.at = at, !.out = out] \in Passes
           /\ \A at \in PassSteps, n \in Nat : [p EXCEPT !.at = at, !.rev = n] \in Passes
           /\ \A at \in PassSteps, S \in SUBSET Candidates :
                 [p EXCEPT !.at = at, !.todo = S] \in Passes
           /\ \A at \in PassSteps, S \in SUBSET Candidates :
                 [p EXCEPT !.at = at, !.base = S] \in Passes
           /\ \A S \in SUBSET Candidates : [p EXCEPT !.todo = S] \in Passes
           /\ \A at \in PassSteps : [p EXCEPT !.cur = 0, !.at = at] \in Passes
           /\ \A S \in SUBSET Candidates, out \in Outcomes, at \in PassSteps :
                 [p EXCEPT !.base = S, !.out = out, !.at = at] \in Passes
           /\ \A at \in PassSteps, S \in SUBSET Candidates, c \in Candidates \cup {0}, b \in BOOLEAN :
                 [p EXCEPT !.at = at, !.todo = S, !.cur = c, !.alone = b] \in Passes
           /\ \A b \in BOOLEAN : [p EXCEPT !.alone = b] \in Passes
<1> HIDE DEF PassSteps, Outcomes
<1> QED
  BY DEF Passes

(* Enqueueing and evaluating touch no candidate that is INTEGRATED.        *)
LEMMA EvaluateKeeps ==
    ASSUME QueueInv, NEW c \in Candidates, enqueue_candidate(c) \/ evaluate_candidate(c)
    PROVE  QueueInv'
<1>1. QueueTypeOK /\ cand \in [Candidates -> Rows] /\ probed \subseteq Candidates \X Nat
  BY TypesAgain DEF QueueInv, QueueTypeOK0
<1>2. CASE enqueue_candidate(c)
  <2> DEFINE r == [cand[c] EXCEPT !.state = "PENDING"]
  <2>1. r \in Rows /\ r.state = "PENDING"
    BY <1>1 DEF Rows, CandidateStates
  <2>2. /\ cand' = [cand EXCEPT ![c] = r] /\ cand[c].state = "NONE"
        /\ UNCHANGED <<lockVars, pass, worktree, probed, integrated>>
    BY <1>1, <1>2 DEF enqueue_candidate
  <2> HIDE DEF r
  <2> QED
    BY <1>1, <2>1, <2>2, RowStepKeeps
<1>3. CASE evaluate_candidate(c)
  <2>1. PICK to \in {"READY", "PENDING"} : cand' = [cand EXCEPT ![c] = CandMoved(c, to)]
    BY <1>3 DEF evaluate_candidate, Evaluated
  <2>2. CandMoved(c, to) \in Rows /\ CandMoved(c, to).state = to
    BY <1>1, CandMovedTyped DEF CandidateStates
  <2>3. /\ cand[c].state # "INTEGRATED"
        /\ UNCHANGED <<lockVars, pass, worktree, probed, integrated>>
    BY <1>3 DEF evaluate_candidate, Evaluable, InState
  <2> QED
    BY <1>1, <2>1, <2>2, <2>3, RowStepKeeps
<1> QED
  BY <1>2, <1>3

(* A reset puts back only a candidate that is still INTEGRATING.           *)
LEMMA ReconcileQueueKeeps ==
    ASSUME QueueInv, NEW c \in Candidates, ReconcileProbe(c) \/ \E rev \in Nat : ReconcileReset(c, rev)
    PROVE  QueueInv'
<1>1. QueueTypeOK /\ QueueTypeOK0 /\ cand \in [Candidates -> Rows]
      /\ probed \subseteq Candidates \X Nat
  BY TypesAgain DEF QueueInv, QueueTypeOK0
<1>2. probed' \subseteq Candidates \X Nat /\ UNCHANGED <<lockVars, pass, worktree, integrated>>
  BY <1>1 DEF ReconcileProbe, ReconcileReset, Rows
<1>3. CASE cand' = cand
  <2>1. Settled
    BY <1>1, <1>2, <1>3, RowSettled
  <2>2. QueueTypeOK0' /\ LockInv' /\ StageInv'
    BY <1>1, <1>2, <1>3 DEF QueueTypeOK0, QueueInv, LockInv, StageInv, StageOK,
                            _dependency_satisfied, lockVars
  <2> QED
    BY <2>1, <2>2, StepKeeps
<1>4. CASE cand[c].state = "INTEGRATING" /\ cand' = [cand EXCEPT ![c] = PutBack(c)]
  <2>1. CandMoved(c, "PENDING") \in Rows /\ CandMoved(c, "PENDING").state = "PENDING"
    BY <1>1, CandMovedTyped DEF CandidateStates
  <2>2. PutBack(c) \in Rows /\ PutBack(c).state = "PENDING"
    BY <2>1 DEF PutBack, Rows
  <2> QED
    BY <1>2, <1>4, <2>2, RowStepKeeps
<1> QED
  BY <1>3, <1>4 DEF ReconcileProbe, ReconcileReset, StillProbed

(* Whoever obtains the lock is alone, and nobody else is any longer.       *)
LEMMA ObtainKeeps ==
    ASSUME QueueInv, LocksTypeOK, NEW h \in Holders, NEW at \in {"list", "claim"}, NEW c \in Candidates \cup {0},
           Obtain(h, at, c), at = "claim" => c \in Candidates,
           UNCHANGED <<cand, worktree, probed, integrated>>
    PROVE  QueueInv'
<1> USE LocksAssumption, QueueAssumption
<1>1. QueueTypeOK /\ QueueTypeOK0
  BY TypesAgain DEF QueueInv
<1> DEFINE p == [pass[h] EXCEPT !.at = at, !.todo = @ \ {c}, !.cur = c, !.alone = TRUE]
<1>2. p \in Passes /\ p.at = at /\ p.cur = c /\ p.alone = TRUE
  <2>1. pass[h] \in Passes /\ pass[h].todo \ {c} \in SUBSET Candidates
    BY <1>1 DEF QueueTypeOK0, Passes
  <2>2. at \in PassSteps
    BY DEF PassSteps, AtCandidate
  <2>3. p \in Passes
    BY <2>1, <2>2, PassSets
  <2> QED
    BY <2>1, <2>3 DEF Passes
<1> HIDE DEF p
<1>3. \A g \in Holders : g # h => [pass[g] EXCEPT !.alone = FALSE] \in Passes
  BY <1>1, PassSets DEF QueueTypeOK0
<1>4. \A g \in Holders : pass'[g] = IF g = h THEN p ELSE [pass[g] EXCEPT !.alone = FALSE]
  BY DEF Obtain, p
<1>5. pass' = [g \in Holders |-> IF g = h THEN p ELSE [pass[g] EXCEPT !.alone = FALSE]]
  BY DEF Obtain, p
<1>6. pass' \in [Holders -> Passes]
  BY <1>2, <1>3, <1>5
<1>7. Settled
  BY <1>1, RowSettled
<1>8. QueueTypeOK0'
  BY <1>1, <1>6 DEF QueueTypeOK0
<1>9. LockInv'
  <2>1. lock'[TargetLock] = h
    BY DEF Obtain, LocksTypeOK
  <2> QED
    BY <1>2, <1>4, <2>1 DEF LockInv
<1>10. StageInv'
  <2>1. ASSUME NEW g \in Holders, g # h PROVE StageOK(pass[g])'
    <3>1. StageOK(pass[g]) /\ pass[g] \in Passes
      BY <1>1 DEF QueueInv, StageInv, QueueTypeOK0
    <3>2. /\ pass'[g].at = pass[g].at /\ pass'[g].cur = pass[g].cur
          /\ pass'[g].out = pass[g].out
      BY <1>4, <2>1, <3>1 DEF Passes
    <3> QED
      BY <3>1, <3>2 DEF StageOK, _dependency_satisfied
  <2>2. StageOK(pass[h])'
    BY <1>2, <1>4 DEF StageOK, AtCandidate
  <2> QED
    BY <2>1, <2>2 DEF StageInv
<1> QED
  BY <1>7, <1>8, <1>9, <1>10, StepKeeps

(* The start of a pass, its work list and its end.                         *)
LEMMA PassFrameKeeps ==
    ASSUME QueueInv, LocksTypeOK, NEW h \in Holders,
           \/ process_target(h) \/ ListTarget(h) \/ EvaluateNext(h) \/ integrate_candidate(h)
           \/ CrashPass(h)
    PROVE  QueueInv'
<1>0. QueueTypeOK /\ QueueTypeOK0 /\ pass[h] \in Passes /\ worktree \subseteq Candidates
      /\ NoPass \in Passes
  BY TypesAgain, RowsAndPasses DEF QueueInv, QueueTypeOK0
<1>1. CASE process_target(h)
  BY <1>1, ObtainKeeps DEF process_target
<1>2. CASE ListTarget(h)
  <2> DEFINE p == [pass[h] EXCEPT !.at = "order", !.todo = Evaluable]
  <2>1. p \in Passes
    BY <1>0, PassSets DEF Evaluable, InState, PassSteps
  <2>2. p.at = "order" /\ p.alone = pass[h].alone
    BY <1>0 DEF Passes
  <2>3. StageOK(p)
    BY <2>2 DEF StageOK, AtCandidate
  <2> HIDE DEF p
  <2>4. pass' = [pass EXCEPT ![h] = p] /\ UNCHANGED <<lockVars, cand, worktree, probed, integrated>>
    BY <1>2 DEF ListTarget, p
  <2> QED
    BY <1>0, <2>1, <2>2, <2>3, <2>4, PassStepKeeps
<1>3. CASE EvaluateNext(h)
  <2>1. PICK c \in pass[h].todo :
          /\ IF c \in Evaluable THEN Evaluated(c) ELSE UNCHANGED cand
          /\ pass' = [pass EXCEPT ![h] = [pass[h] EXCEPT !.todo = pass[h].todo \ {c}]]
    BY <1>3 DEF EvaluateNext
  <2> DEFINE p == [pass[h] EXCEPT !.todo = pass[h].todo \ {c}]
  <2>2. c \in Candidates /\ pass[h].todo \ {c} \in SUBSET Candidates
    BY <1>0 DEF Passes
  <2>3. p \in Passes
    BY <1>0, <2>2, PassSets
  <2>4. p.at = pass[h].at /\ p.alone = pass[h].alone /\ pass[h].at = "order"
    BY <1>0, <1>3 DEF Passes, EvaluateNext
  <2>5. StageOK(p)
    BY <2>4 DEF StageOK, AtCandidate
  <2> HIDE DEF p
  <2>6. pass' = [pass EXCEPT ![h] = p]
    BY <2>1, Zenon DEF p
  <2>7. UNCHANGED <<lockVars, worktree, probed, integrated>>
    BY <1>3 DEF EvaluateNext
  <2>8. CASE c \in Evaluable
    <3>1. PICK to \in {"READY", "PENDING"} : cand' = [cand EXCEPT ![c] = CandMoved(c, to)]
      BY <2>1, <2>8 DEF Evaluated
    <3>2. CandMoved(c, to) \in Rows /\ CandMoved(c, to).state = to
      BY <1>0, <2>2, CandMovedTyped DEF CandidateStates
    <3>3. cand[c].state # "INTEGRATED"
      BY <2>8 DEF Evaluable, InState
    <3> QED
      BY <2>2, <2>3, <2>4, <2>5, <2>6, <2>7, <3>1, <3>2, <3>3, RowAndPassKeep
  <2>9. CASE c \notin Evaluable
    BY <1>0, <2>1, <2>3, <2>4, <2>5, <2>6, <2>7, <2>9, PassStepKeeps
  <2> QED
    BY <2>8, <2>9
<1>4. CASE integrate_candidate(h)
  <2>1. PICK c \in pass[h].todo :
          IF _job_holds_current_lease(h) /\ Obtainable(TargetLock, h)
          THEN Obtain(h, "claim", c)
          ELSE Step(h, "leave") /\ UNCHANGED lock
    BY <1>4 DEF integrate_candidate
  <2>2. c \in Candidates
    BY <1>0 DEF Passes
  <2>3. UNCHANGED <<lease, cand, worktree, probed, integrated>>
    BY <1>4 DEF integrate_candidate
  <2>4. CASE Obtain(h, "claim", c)
    BY <2>2, <2>3, <2>4, ObtainKeeps
  <2>5. CASE Step(h, "leave") /\ UNCHANGED lock
    <3> DEFINE p == [pass[h] EXCEPT !.at = "leave"]
    <3>1. p \in Passes
      BY <1>0, PassSets DEF PassSteps
    <3>2. p.at = "leave" /\ p.alone = pass[h].alone
      BY <1>0 DEF Passes
    <3>3. StageOK(p)
      BY <3>2 DEF StageOK, AtCandidate
    <3> HIDE DEF p
    <3>4. pass' = [pass EXCEPT ![h] = p] /\ UNCHANGED lockVars
      BY <2>3, <2>5 DEF Step, p, lockVars
    <3> QED
      BY <1>0, <2>3, <3>1, <3>2, <3>3, <3>4, PassStepKeeps
  <2> QED
    BY <2>1, <2>4, <2>5
<1>5. CASE CrashPass(h)
  <2>1. StageOK(NoPass) /\ NoPass.alone = TRUE
    BY DEF StageOK, NoPass, AtCandidate
  <2> QED
    BY <1>0, <1>5, <2>1, PassStepKeeps DEF CrashPass
<1> QED
  BY <1>1, <1>2, <1>3, <1>4, <1>5

(* Order blocks READY candidates only.                                     *)
LEMMA OrderKeeps ==
    ASSUME QueueInv, NEW h \in Holders, Order(h)
    PROVE  QueueInv'
<1>0. QueueTypeOK /\ QueueTypeOK0 /\ pass[h] \in Passes
  BY TypesAgain DEF QueueInv, QueueTypeOK0
<1> DEFINE p == [pass[h] EXCEPT !.at = "next", !.todo = Orderable]
<1>1. p \in Passes
  BY <1>0, PassSets DEF Orderable, InState, PassSteps
<1>2. p.at = "next" /\ p.alone = pass[h].alone
  BY <1>0 DEF Passes
<1>3. StageOK(p)
  BY <1>2 DEF StageOK, AtCandidate
<1>4. pass' = [pass EXCEPT ![h] = p] /\ UNCHANGED <<lockVars, worktree, probed, integrated>>
  BY DEF Order
<1> HIDE DEF p
<1>5. \A c \in Cyclic : /\ c \in Candidates /\ cand[c].state = "READY"
                        /\ CandMoved(c, "BLOCKED") \in Rows
                        /\ CandMoved(c, "BLOCKED").state = "BLOCKED"
  BY <1>0, CandMovedTyped DEF Cyclic, InState, CandidateStates
<1>6. cand' = [c \in Candidates |-> IF c \in Cyclic THEN CandMoved(c, "BLOCKED") ELSE cand[c]]
  BY DEF Order
<1>7. /\ \A c \in Candidates : cand'[c] = IF c \in Cyclic THEN CandMoved(c, "BLOCKED") ELSE cand[c]
      /\ cand' \in [Candidates -> Rows]
  BY <1>0, <1>5, <1>6 DEF QueueTypeOK0
<1>8. \A c \in Candidates : cand'[c].state = "INTEGRATING" => cand'[c].holder # FREE
  BY <1>0, <1>5, <1>7 DEF QueueTypeOK0
<1>9. Settled
  BY <1>4, <1>5, <1>7 DEF Settled
<1>10. PassBecomes(h, p) /\ pass' \in [Holders -> Passes]
  BY <1>0, <1>1, <1>4, PassSet
<1>11. LockInv' /\ StageInv'
  BY <1>1, <1>2, <1>3, <1>4, <1>9, <1>10, PassMoves DEF lockVars
<1>12. QueueTypeOK0'
  BY <1>0, <1>4, <1>7, <1>8, <1>10 DEF QueueTypeOK0
<1> QED
  BY <1>9, <1>11, <1>12, StepKeeps

(* Who claims is the holder of the row from then on.                       *)
LEMMA ClaimKeeps ==
    ASSUME QueueInv, NEW h \in Holders, Claim(h)
    PROVE  QueueInv'
<1> USE LocksAssumption
<1> DEFINE c == pass[h].cur
<1>0. QueueTypeOK /\ QueueTypeOK0 /\ pass[h] \in Passes /\ worktree \subseteq Candidates
  BY TypesAgain DEF QueueInv, QueueTypeOK0
<1>1. c \in Candidates /\ cand[c] \in Rows
  BY <1>0 DEF QueueInv, StageInv, StageOK, AtCandidate, Claim, QueueTypeOK0
<1>2. UNCHANGED <<lockVars, worktree, probed, integrated>>
  BY DEF Claim
<1>3. CASE Fenced(TargetLock, h) /\ cand[c].state = "READY"
  <2> DEFINE m == CandMoved(c, "INTEGRATING")
             r == [m EXCEPT !.holder = h]
             p == [pass[h] EXCEPT !.at = "classify", !.rev = cand[c].rev + 1]
  <2>1. m \in Rows /\ m.state = "INTEGRATING"
    BY <1>0, <1>1, CandMovedTyped DEF CandidateStates
  <2> HIDE DEF m
  <2>2. r \in Rows /\ r.state = "INTEGRATING" /\ r.holder = h
    BY <2>1 DEF Rows
  <2>3. p \in Passes
    <3>1. cand[c].rev + 1 \in Nat /\ "classify" \in PassSteps
      BY <1>1 DEF Rows, PassSteps, AtCandidate
    <3> QED
      BY <1>0, <3>1, PassSets
  <2>4. p.at = "classify" /\ p.cur = c /\ p.alone = pass[h].alone
    BY <1>0 DEF Passes
  <2>5. StageOK(p)
    BY <1>1, <2>4 DEF StageOK
  <2>6. cand' = [cand EXCEPT ![c] = r] /\ pass' = [pass EXCEPT ![h] = p]
    BY <1>3 DEF Claim, m
  <2> HIDE DEF r, p, c
  <2> QED
    BY <1>1, <1>2, <1>3, <2>2, <2>3, <2>4, <2>5, <2>6, RowAndPassKeep
<1>4. CASE ~(Fenced(TargetLock, h) /\ cand[c].state = "READY")
  <2> DEFINE p == [pass[h] EXCEPT !.at = "done"]
  <2>1. p \in Passes
    BY <1>0, PassSets DEF PassSteps, AtCandidate
  <2>2. p.at = "done" /\ p.cur = c /\ p.alone = pass[h].alone
    BY <1>0 DEF Passes
  <2>3. StageOK(p)
    BY <1>1, <2>2 DEF StageOK
  <2>4. pass' = [pass EXCEPT ![h] = p] /\ UNCHANGED cand
    BY <1>4 DEF Claim, Step
  <2> HIDE DEF p, c
  <2> QED
    BY <1>0, <1>2, <2>1, <2>2, <2>3, <2>4, PassStepKeeps
<1> QED
  BY <1>3, <1>4

(* Only a candidate whose dependency is satisfied goes past Classify.      *)
LEMMA ClassifyKeeps ==
    ASSUME QueueInv, NEW h \in Holders, Classify(h)
    PROVE  QueueInv'
<1> DEFINE c == pass[h].cur
           base == _current_integration_base
<1>0. QueueTypeOK /\ QueueTypeOK0 /\ pass[h] \in Passes /\ worktree \subseteq Candidates
  BY TypesAgain DEF QueueInv, QueueTypeOK0
<1>1. c \in Candidates
  BY DEF QueueInv, StageInv, StageOK, AtCandidate, Classify
<1>2. base \in SUBSET Candidates
  <2>1. \A d \in Candidates : cand[d].head \in SUBSET Candidates
    BY <1>0 DEF QueueTypeOK0, Rows
  <2> QED
    BY <2>1 DEF _current_integration_base, InState
<1> HIDE DEF base
<1>3. PICK out \in {"clean", "FAILED", "STALE", "CONFLICTED"} :
        pass' = [pass EXCEPT ![h] = [@ EXCEPT
          !.base = base,
          !.out = IF _dependency_satisfied(c) THEN out ELSE "PENDING",
          !.at = IF _dependency_satisfied(c) /\ out = "clean" THEN "prepare" ELSE "mark"]]
  BY DEF Classify, base
<1> DEFINE o == IF _dependency_satisfied(c) THEN out ELSE "PENDING"
           at == IF _dependency_satisfied(c) /\ out = "clean" THEN "prepare" ELSE "mark"
           p == [pass[h] EXCEPT !.base = base, !.out = o, !.at = at]
<1>4. o \in Outcomes /\ at \in PassSteps
  BY DEF Outcomes, PassSteps, AtCandidate
<1>5. /\ at = "prepare" => _dependency_satisfied(c)
      /\ at \in {"prepare", "mark"}
      /\ at = "mark" => o \in {"PENDING", "FAILED", "STALE", "CONFLICTED"}
  OBVIOUS
<1>6. pass' = [pass EXCEPT ![h] = p]
  BY <1>3
<1> HIDE DEF o, at
<1>7. p \in Passes
  BY <1>0, <1>2, <1>4, PassSets
<1>8. p.at = at /\ p.cur = c /\ p.alone = pass[h].alone /\ p.out = o
  BY <1>0 DEF Passes
<1> HIDE DEF p, c
<1>9. StageOK(p)
  BY <1>1, <1>5, <1>8 DEF StageOK
<1>10. UNCHANGED <<lockVars, cand, worktree, probed, integrated>>
  BY DEF Classify
<1> QED
  BY <1>0, <1>6, <1>7, <1>8, <1>9, <1>10, PassStepKeeps

(* The worktree, the merge and its tests: outside every transaction, they  *)
(* move the pass and the worktree only.                                    *)
LEMMA WorktreeKeeps ==
    ASSUME QueueInv, NEW h \in Holders,
           _ensure_integration_worktree(h) \/ merge_no_ff(h) \/ _run_integration_tests(h)
    PROVE  QueueInv'
<1> DEFINE c == pass[h].cur
           Out == {"none", "INTEGRATED", "FAILED", "CONFLICTED"}
<1>0. QueueTypeOK /\ QueueTypeOK0 /\ pass[h] \in Passes /\ worktree \subseteq Candidates
      /\ pass[h].base \subseteq Candidates
  BY TypesAgain DEF QueueInv, QueueTypeOK0, Passes
<1>1. c \in Candidates /\ _dependency_satisfied(c)
  BY DEF QueueInv, StageInv, StageOK, AtCandidate, _ensure_integration_worktree, merge_no_ff,
         _run_integration_tests
<1>2. UNCHANGED <<lockVars, cand, probed, integrated>>
  BY DEF _ensure_integration_worktree, merge_no_ff, _run_integration_tests
<1>3. ASSUME NEW p \in Passes, pass' = [pass EXCEPT ![h] = p],
             p.at \in {"prepared", "merged", "mark", "tested"}, p.cur = c, p.alone = pass[h].alone,
             p.at = "mark" => p.out \in {"FAILED", "CONFLICTED"},
             p.at = "tested" => p.out \in {"INTEGRATED", "FAILED"},
             worktree' \subseteq Candidates
      PROVE  QueueInv'
  <2>1. StageOK(p)
    BY <1>1, <1>3 DEF StageOK
  <2> QED
    BY <1>2, <1>3, <2>1, PassStepKeeps
<1>4. \A at \in {"prepared", "merged", "mark", "tested"} : at \in PassSteps
  BY DEF PassSteps, AtCandidate
<1>5. {"INTEGRATED", "FAILED", "CONFLICTED"} \subseteq Outcomes
  BY DEF Outcomes
<1>6. ASSUME NEW at \in {"mark", "tested"}, NEW out \in {"INTEGRATED", "FAILED", "CONFLICTED"},
             pass' = [pass EXCEPT ![h] = [pass[h] EXCEPT !.at = at, !.out = out]],
             at = "mark" => out # "INTEGRATED", at = "tested" => out # "CONFLICTED",
             worktree' = worktree
      PROVE  QueueInv'
  <2> DEFINE p == [pass[h] EXCEPT !.at = at, !.out = out]
  <2>1. p \in Passes
    BY <1>0, <1>4, <1>5, PassSets
  <2>2. p.at = at /\ p.out = out /\ p.cur = c /\ p.alone = pass[h].alone
    BY <1>0 DEF Passes
  <2>3. pass' = [pass EXCEPT ![h] = p]
    BY <1>6
  <2> HIDE DEF p, c
  <2> QED
    BY <1>0, <1>3, <1>6, <2>1, <2>2, <2>3
<1>7. CASE worktree' = pass[h].base /\ Step(h, "prepared")
  <2> DEFINE p == [pass[h] EXCEPT !.at = "prepared"]
  <2>1. p \in Passes
    BY <1>0, <1>4, PassSets
  <2>2. p.at = "prepared" /\ p.cur = c /\ p.alone = pass[h].alone
    BY <1>0 DEF Passes
  <2>3. pass' = [pass EXCEPT ![h] = p]
    BY <1>7 DEF Step
  <2> HIDE DEF p, c
  <2> QED
    BY <1>0, <1>3, <1>7, <2>1, <2>2, <2>3
<1>8. CASE /\ worktree' = worktree \cup {c}
           /\ pass' = [pass EXCEPT ![h] = [pass[h] EXCEPT !.at = "merged", !.base = worktree \cup {c}]]
  <2> DEFINE head == worktree \cup {c}
             p == [pass[h] EXCEPT !.at = "merged", !.base = head]
  <2>1. head \in SUBSET Candidates
    BY <1>0, <1>1
  <2>2. p \in Passes
    <3> HIDE DEF head
    <3> QED
      BY <1>0, <1>4, <2>1, PassSets
  <2>3. p.at = "merged" /\ p.cur = c /\ p.alone = pass[h].alone
    BY <1>0 DEF Passes
  <2>4. pass' = [pass EXCEPT ![h] = p] /\ worktree' = head
    BY <1>8
  <2> HIDE DEF p, head, c
  <2> QED
    BY <1>3, <2>1, <2>2, <2>3, <2>4
<1> HIDE DEF c
<1>9. CASE _ensure_integration_worktree(h)
  BY <1>6, <1>7, <1>9 DEF _ensure_integration_worktree
<1>10. CASE merge_no_ff(h)
  BY <1>6, <1>8, <1>10 DEF merge_no_ff, c
<1>11. CASE _run_integration_tests(h)
  BY <1>6, <1>11 DEF _run_integration_tests
<1> QED
  BY <1>9, <1>10, <1>11

(* Recording keeps the row INTEGRATING and its holder.                     *)
LEMMA RecordKeeps ==
    ASSUME QueueInv, NEW h \in Holders, Record(h)
    PROVE  QueueInv'
<1> DEFINE c == pass[h].cur
           at == pass[h].at
<1>0. QueueTypeOK /\ QueueTypeOK0 /\ pass[h] \in Passes /\ worktree \subseteq Candidates
  BY TypesAgain DEF QueueInv, QueueTypeOK0
<1>1. at \in {"prepared", "merged", "tested"}
  BY DEF Record, AfterRecord
<1>2. /\ c \in Candidates /\ cand[c] \in Rows /\ _dependency_satisfied(c)
      /\ cand[c].state = "INTEGRATING" => cand[c].holder # FREE
      /\ at = "tested" => pass[h].out \in {"INTEGRATED", "FAILED"}
  BY <1>0, <1>1 DEF QueueInv, StageInv, StageOK, AtCandidate, QueueTypeOK0
<1>3. UNCHANGED <<lockVars, worktree, probed, integrated>>
  BY DEF Record
<1>4. CASE CanWrite(h, c)
  <2> DEFINE m == CandMoved(c, "INTEGRATING")
             r == [m EXCEPT !.head = IF pass[h].at = "merged" THEN pass[h].base ELSE @]
             p == [pass[h] EXCEPT !.at = AfterRecord[at], !.rev = pass[h].rev + 1]
  <2>1. m \in Rows /\ m.state = "INTEGRATING" /\ m.holder = cand[c].holder
    BY <1>0, <1>2, CandMovedTyped DEF CandidateStates
  <2> HIDE DEF m
  <2>2. (IF pass[h].at = "merged" THEN pass[h].base ELSE m.head) \in SUBSET Candidates
    BY <1>0, <2>1 DEF Rows, Passes
  <2>3. r \in Rows /\ r.state = "INTEGRATING" /\ r.holder = cand[c].holder
    BY <2>1, <2>2 DEF Rows
  <2>4. /\ AfterRecord[at] \in {"merge", "test", "mark"}
        /\ AfterRecord[at] = "mark" => at = "tested"
    BY <1>1 DEF AfterRecord
  <2>5. p \in Passes
    <3>1. pass[h].rev + 1 \in Nat /\ AfterRecord[at] \in PassSteps
      BY <1>0, <2>4 DEF Passes, PassSteps, AtCandidate
    <3> HIDE DEF at
    <3> QED
      BY <1>0, <3>1, PassSets
  <2>6. p.at = AfterRecord[at] /\ p.cur = c /\ p.alone = pass[h].alone /\ p.out = pass[h].out
    BY <1>0 DEF Passes
  <2>7. cand' = [cand EXCEPT ![c] = r] /\ pass' = [pass EXCEPT ![h] = p]
    BY <1>4 DEF Record, m
  <2> HIDE DEF p, r, c, at
  <2>8. StageOK(p)
    BY <1>2, <2>4, <2>6 DEF StageOK
  <2> QED
    BY <1>2, <1>3, <1>4, <2>3, <2>5, <2>6, <2>7, <2>8, RowAndPassKeep DEF CanWrite
<1>5. CASE ~CanWrite(h, c)
  <2> DEFINE p == [pass[h] EXCEPT !.at = "done"]
  <2>1. p \in Passes
    BY <1>0, PassSets DEF PassSteps, AtCandidate
  <2>2. p.at = "done" /\ p.cur = c /\ p.alone = pass[h].alone
    BY <1>0 DEF Passes
  <2>3. StageOK(p)
    BY <1>2, <2>2 DEF StageOK
  <2>4. pass' = [pass EXCEPT ![h] = p] /\ UNCHANGED cand
    BY <1>5 DEF Record, Step
  <2> HIDE DEF p, c, at
  <2> QED
    BY <1>0, <1>3, <2>1, <2>2, <2>3, <2>4, PassStepKeeps
<1> QED
  BY <1>4, <1>5

(* Mark: who may still write holds the lock, hence is alone, and what it   *)
(* integrates comes after its prerequisite.                                *)
LEMMA MarkKeeps ==
    ASSUME QueueInv, NEW h \in Holders, Mark(h)
    PROVE  QueueInv'
<1> USE QueueAssumption, LocksAssumption
<1> DEFINE c == pass[h].cur
           out == pass[h].out
           p == [pass[h] EXCEPT !.at = "done"]
           m == CandMoved(c, out)
           r == [m EXCEPT !.alone = pass[h].alone]
<1>0. QueueTypeOK /\ QueueTypeOK0 /\ pass[h] \in Passes /\ worktree \subseteq Candidates
  BY TypesAgain DEF QueueInv, QueueTypeOK0
<1>1. /\ c \in Candidates
      /\ out \in {"PENDING", "FAILED", "STALE", "CONFLICTED", "INTEGRATED"}
      /\ out = "INTEGRATED" => _dependency_satisfied(c)
  BY DEF QueueInv, StageInv, StageOK, AtCandidate, Mark
<1>2. UNCHANGED <<lockVars, worktree, probed>> /\ pass' = [pass EXCEPT ![h] = p]
  BY DEF Mark, Step
<1>3. p \in Passes
  BY <1>0, PassSets DEF PassSteps, AtCandidate
<1>4. p.at = "done" /\ p.cur = c /\ p.alone = pass[h].alone
  BY <1>0 DEF Passes
<1>5. StageOK(p)
  BY <1>1, <1>4 DEF StageOK
<1>6. CASE ~CanWrite(h, c)
  <2>1. UNCHANGED <<cand, integrated>>
    BY <1>6 DEF Mark
  <2> HIDE DEF p, c, out, m, r
  <2> QED
    BY <1>0, <1>2, <1>3, <1>4, <1>5, <2>1, PassStepKeeps
<1>7. CASE CanWrite(h, c)
  <2>1. out \in CandidateStates
    BY <1>1 DEF CandidateStates
  <2>2. m \in Rows /\ m.state = out
    BY <1>0, <1>1, <2>1, CandMovedTyped
  <2> HIDE DEF m
  <2>3. r \in Rows /\ r.state = out /\ r.alone = pass[h].alone
    BY <1>0, <2>2 DEF Rows, Passes
  <2>4. /\ cand' = [cand EXCEPT ![c] = r]
        /\ integrated' = IF out = "INTEGRATED" THEN Append(integrated, c) ELSE integrated
    BY <1>7 DEF Mark, m
  <2>5. cand[c].state = "INTEGRATING" /\ lock[TargetLock] = h
    BY <1>7 DEF CanWrite, Fenced
  <2>6. out # "INTEGRATING"
    BY <1>1
  <2> HIDE DEF p, c, out, r
  <2>7. CASE out # "INTEGRATED"
    BY <1>1, <1>2, <1>3, <1>4, <1>5, <2>3, <2>4, <2>5, <2>6, <2>7, RowAndPassKeep
  <2>8. CASE out = "INTEGRATED"
    <3>1. pass[h].alone = TRUE
      <4>1. pass[h].alone \in BOOLEAN
        BY <1>0 DEF Passes
      <4> QED
        BY <2>5, <4>1 DEF QueueInv, LockInv
    <3>2. /\ RowBecomes(c, r) /\ cand' \in [Candidates -> Rows]
          /\ \A d \in Candidates : cand'[d].state = "INTEGRATING" => cand'[d].holder # FREE
      BY <1>0, <1>1, <2>3, <2>4, <2>6, RowSet
    <3>3. PassBecomes(h, p) /\ pass' \in [Holders -> Passes]
      BY <1>0, <1>2, <1>3, PassSet
    <3>4. /\ integrated' = Append(integrated, c) /\ integrated \in Seq(Candidates)
          /\ integrated' \in Seq(Candidates)
      BY <1>0, <1>1, <2>4, <2>8 DEF QueueTypeOK0
    <3>5. /\ Len(integrated) \in Nat
          /\ DOMAIN integrated' = 1 .. Len(integrated) + 1
          /\ DOMAIN integrated = 1 .. Len(integrated)
          /\ \A i \in 1 .. Len(integrated) : integrated'[i] = integrated[i]
          /\ integrated'[Len(integrated) + 1] = c
      BY <3>4, <1>1
    <3>6. QueueTypeOK'
      <4>1. QueueTypeOK0'
        BY <1>0, <1>2, <3>2, <3>3, <3>4 DEF QueueTypeOK0
      <4> QED
        BY <4>1, TypesAgain
    <3>7. LockInv'
      BY <1>2, <1>4, <3>3 DEF QueueInv, LockInv, PassBecomes, lockVars
    <3>8. \A d \in Candidates : cand[d].state = "INTEGRATED" => d # c /\ cand'[d] = cand[d]
      BY <2>5, <3>2 DEF RowBecomes
    <3>9. \A d \in Candidates : _dependency_satisfied(d) => _dependency_satisfied(d)'
      BY <3>8 DEF _dependency_satisfied
    <3>10. StageInv'
      <4>1. ASSUME NEW g \in Holders, g # h PROVE StageOK(pass[g])'
        <5>1. StageOK(pass[g]) /\ pass'[g] = pass[g]
          BY <3>3, <4>1 DEF QueueInv, StageInv, PassBecomes
        <5> QED
          BY <3>9, <5>1 DEF StageOK, AtCandidate
      <4>2. StageOK(pass[h])'
        BY <1>1, <1>4, <3>3 DEF StageOK, PassBecomes
      <4> QED
        BY <4>1, <4>2 DEF StageInv
    <3>11. HistoryInv'
      <4> SUFFICES ASSUME NEW d \in Candidates, cand'[d].state = "INTEGRATED"
                   PROVE  \E i \in DOMAIN integrated' : integrated'[i] = d
        BY DEF HistoryInv, InState
      <4>1. CASE d = c
        BY <3>5, <4>1
      <4>2. CASE d # c
        <5>1. PICK i \in DOMAIN integrated : integrated[i] = d
          BY <3>2, <4>2 DEF QueueInv, HistoryInv, InState, RowBecomes
        <5> QED
          BY <3>5, <5>1
      <4> QED
        BY <4>1, <4>2
    <3>12. IntegratedAlone'
      BY <2>3, <3>1, <3>2 DEF QueueInv, IntegratedAlone, InState, RowBecomes
    <3>13. DependencyFirst'
      <4> SUFFICES ASSUME NEW j \in DOMAIN integrated', Dep[integrated'[j]] # 0
                   PROVE  \E i \in 1 .. j - 1 : integrated'[i] = Dep[integrated'[j]]
        BY DEF DependencyFirst
      <4>1. CASE j \in 1 .. Len(integrated)
        <5>1. PICK i \in 1 .. j - 1 : integrated[i] = Dep[integrated[j]]
          BY <3>5, <4>1 DEF QueueInv, DependencyFirst
        <5>2. i \in 1 .. Len(integrated)
          BY <3>5, <4>1
        <5> QED
          BY <3>5, <4>1, <5>1, <5>2
      <4>2. CASE j = Len(integrated) + 1
        <5>1. Dep[c] # 0
          BY <3>5, <4>2
        <5>2. Dep[c] \in Candidates /\ cand[Dep[c]].state = "INTEGRATED"
          BY <1>1, <2>8, <5>1 DEF _dependency_satisfied
        <5>3. PICK i \in DOMAIN integrated : integrated[i] = Dep[c]
          BY <5>2 DEF QueueInv, HistoryInv, InState
        <5> QED
          BY <3>5, <4>2, <5>3
      <4> QED
        BY <3>5, <4>1, <4>2
    <3> QED
      BY <3>6, <3>7, <3>10, <3>11, <3>12, <3>13 DEF QueueInv
  <2> QED
    BY <2>7, <2>8
<1> QED
  BY <1>6, <1>7

(* The lock is given up after a candidate and after a pass.                *)
LEMMA EndKeeps ==
    ASSUME QueueInv, LocksTypeOK, NEW h \in Holders, EndCandidate(h) \/ EndPass(h)
    PROVE  QueueInv'
<1> USE QueueAssumption, LocksAssumption
<1>0. QueueTypeOK /\ QueueTypeOK0 /\ pass[h] \in Passes /\ NoPass \in Passes
  BY TypesAgain, RowsAndPasses DEF QueueInv, QueueTypeOK0
<1>1. UNCHANGED <<lease, cand, worktree, probed, integrated>> /\ lock' = Released(TargetLock, h)
  BY DEF EndCandidate, EndPass
<1>2. Settled
  BY <1>0, <1>1, RowSettled
<1>3. \A g \in Holders : lock'[TargetLock] = g => lock[TargetLock] = g
  BY <1>1 DEF Released, LocksTypeOK
<1>4. PICK p \in Passes : /\ pass' = [pass EXCEPT ![h] = p]
                          /\ p.alone = pass[h].alone \/ p.alone = TRUE
                          /\ p.at \in {"leave", "next", "idle"}
  <2>1. CASE EndCandidate(h)
    <3> DEFINE at == IF cand[pass[h].cur].state \in {"CONFLICTED", "FAILED"} THEN "leave" ELSE "next"
               p == [pass[h] EXCEPT !.cur = 0, !.at = at]
    <3>1. at \in {"leave", "next"} /\ pass' = [pass EXCEPT ![h] = p]
      BY <2>1 DEF EndCandidate
    <3>2. at \in PassSteps
      BY DEF PassSteps
    <3> HIDE DEF at
    <3>3. p \in Passes
      BY <1>0, <3>2, PassSets
    <3>4. p.alone = pass[h].alone /\ p.at = at
      BY <1>0 DEF Passes
    <3> HIDE DEF p
    <3> QED
      BY <3>1, <3>3, <3>4
  <2>2. CASE EndPass(h)
    <3>1. pass' = [pass EXCEPT ![h] = NoPass] /\ NoPass.alone = TRUE /\ NoPass.at = "idle"
      BY <2>2 DEF EndPass, NoPass
    <3> QED
      BY <1>0, <3>1
  <2> QED
    BY <2>1, <2>2
<1>5. StageOK(p)
  BY <1>4 DEF StageOK, AtCandidate
<1>6. PassBecomes(h, p) /\ pass' \in [Holders -> Passes]
  BY <1>0, <1>4, PassSet
<1>7. LockInv' /\ StageInv'
  BY <1>2, <1>3, <1>4, <1>5, <1>6, PassMoves
<1>8. QueueTypeOK0'
  BY <1>0, <1>1, <1>6 DEF QueueTypeOK0
<1> QED
  BY <1>2, <1>7, <1>8, StepKeeps

(* Steps that leave the queue's own variables alone and give the lock to   *)
(* nobody: of the broker, of the leases, and a reclaimed lock.             *)
LEMMA QueueUndisturbed ==
    ASSUME QueueInv, UNCHANGED queueVars,
           \A g \in Holders : lock'[TargetLock] = g => lock[TargetLock] = g
    PROVE  QueueInv'
<1> USE DEF queueVars
<1>1. QueueTypeOK'
  BY DEF QueueInv, QueueTypeOK, InState
<1>2. LockInv'
  BY DEF QueueInv, LockInv
<1>3. StageInv'
  BY DEF QueueInv, StageInv, StageOK, _dependency_satisfied
<1>4. HistoryInv' /\ IntegratedAlone' /\ DependencyFirst'
  BY DEF QueueInv, HistoryInv, IntegratedAlone, DependencyFirst, InState
<1> QED
  BY <1>1, <1>2, <1>3, <1>4 DEF QueueInv

(* A step of the queue keeps its invariant.                                *)
LEMMA QueueKeeps ==
    ASSUME QueueInv, LocksTypeOK, QueueNext \/ QueueFault
    PROVE  QueueInv'
<1> USE QueueAssumption, LocksAssumption
<1>1. ASSUME NEW h \in Holders, QueueStep(h) PROVE QueueInv'
  BY <1>1, PassFrameKeeps, OrderKeeps, ClaimKeeps, ClassifyKeeps, WorktreeKeeps, RecordKeeps,
     MarkKeeps, EndKeeps DEF QueueStep
<1>2. ASSUME NEW c \in Candidates, enqueue_candidate(c) \/ evaluate_candidate(c) \/ ReconcileProbe(c)
      PROVE  QueueInv'
  BY <1>2, EvaluateKeeps, ReconcileQueueKeeps
<1>3. ASSUME NEW q \in probed, ReconcileReset(q[1], q[2]) PROVE QueueInv'
  <2>1. q[1] \in Candidates /\ q[2] \in Nat
    BY DEF QueueInv, QueueTypeOK
  <2> QED
    BY <1>3, <2>1, ReconcileQueueKeeps
<1>4. CASE Reclaim
  <2>1. \A g \in Holders : lock'[TargetLock] = g => lock[TargetLock] = g
    BY <1>4 DEF Reclaim, reclaim_stale_action_lock, LocksTypeOK
  <2> QED
    BY <1>4, <2>1, QueueUndisturbed DEF Reclaim
<1>5. ASSUME NEW h \in Holders, CrashPass(h) PROVE QueueInv'
  BY <1>5, PassFrameKeeps
<1> QED
  BY <1>1, <1>2, <1>3, <1>4, <1>5 DEF QueueNext, QueueFault

(* The queue's steps keep the types of leases and locks.                   *)
LEMMA QueueLocks ==
    ASSUME LocksTypeOK, QueueNext \/ QueueFault
    PROVE  LocksTypeOK'
<1>1. \/ UNCHANGED lockVars
      \/ \E h \in Holders : lock' = [lock EXCEPT ![TargetLock] = h] /\ lease' = lease
      \/ \E h \in Holders : lock' = Released(TargetLock, h) /\ lease' = lease
      \/ lock' = [lock EXCEPT ![TargetLock] = FREE] /\ lease' = lease
  <2>1. ASSUME NEW h \in Holders, QueueStep(h)
        PROVE  \/ UNCHANGED lockVars
               \/ lock' = [lock EXCEPT ![TargetLock] = h] /\ lease' = lease
               \/ lock' = Released(TargetLock, h) /\ lease' = lease
    <3>1. CASE process_target(h) \/ integrate_candidate(h)
      BY <3>1 DEF process_target, integrate_candidate, Obtain, lockVars
    <3>2. CASE EndCandidate(h) \/ EndPass(h)
      BY <3>2 DEF EndCandidate, EndPass
    <3>3. CASE ~(process_target(h) \/ integrate_candidate(h) \/ EndCandidate(h) \/ EndPass(h))
      BY <2>1, <3>3 DEF QueueStep, ListTarget, EvaluateNext, Order, Claim, Classify,
         _ensure_integration_worktree, Record, merge_no_ff, _run_integration_tests, Mark
    <3> QED
      BY <3>1, <3>2, <3>3
  <2>2. CASE QueueFault
    BY <2>2 DEF QueueFault, CrashPass
  <2>3. CASE \E c \in Candidates : enqueue_candidate(c) \/ evaluate_candidate(c) \/ ReconcileProbe(c)
    BY <2>3 DEF enqueue_candidate, evaluate_candidate, ReconcileProbe
  <2>4. CASE \E q \in probed : ReconcileReset(q[1], q[2])
    BY <2>4 DEF ReconcileReset
  <2>5. CASE Reclaim
    BY <2>5 DEF Reclaim, reclaim_stale_action_lock
  <2> QED
    BY <2>1, <2>2, <2>3, <2>4, <2>5 DEF QueueNext
<1> QED
  BY <1>1 DEF LocksTypeOK, lockVars, Released

-----------------------------------------------------------------------------
(***************************************************************************)
(* The theorems.                                                           *)
(***************************************************************************)

(* The initial states.                                                     *)
LEMMA InitInv == ActionsInit => IInv
<1> SUFFICES ASSUME ActionsInit PROVE IInv
  OBVIOUS
<1> USE LocksAssumption, BrokerAssumption, QueueAssumption
    DEF ActionsInit, LocksInit, BrokerInit, QueueInit
<1>1. BrokerTypeOK
  BY CallTyped DEF BrokerTypeOK, LocksTypeOK, Calls
<1>2. RowInv /\ FlightInv /\ OneDispatchInFlight /\ AnswerInv /\ SucceededWasApplied
  BY DEF RowInv, InCall, FlightInv, Flying, OneDispatchInFlight, AnswerInv, SucceededWasApplied,
         NoRequest, NoCall
<1>3. RetryInv /\ AuthorityInv /\ DispatchedWasAuthorized
  BY DEF RetryInv, AuthorityInv, DispatchedWasAuthorized, NoRequest, NoCall
<1>4. QueueTypeOK
  BY DEF QueueTypeOK, NewCandidate, NoPass, CandidateStates, AtCandidate, Outcomes, InState
<1>5. LockInv /\ StageInv
  BY DEF LockInv, StageInv, StageOK, NoPass, AtCandidate
<1>6. HistoryInv /\ IntegratedAlone /\ DependencyFirst
  BY DEF HistoryInv, IntegratedAlone, DependencyFirst, InState, NewCandidate
<1> QED
  BY <1>1, <1>2, <1>3, <1>4, <1>5, <1>6 DEF IInv, BrokerInv, QueueInv

(* The broker's steps obtain and release the request's lock only.          *)
LEMMA BrokerLocks ==
    ASSUME LocksTypeOK, BrokerNext \/ BrokerFault
    PROVE  lock'[TargetLock] = lock[TargetLock]
<1> USE BrokerAssumption, QueueAssumption, ActionsAssumption
<1>1. \/ lock' = lock
      \/ \E h \in Holders : lock' = [lock EXCEPT ![RequestLock] = h]
      \/ lock' = [lock EXCEPT ![RequestLock] = FREE]
  <2>1. ASSUME NEW h \in Holders, BrokerStep(h)
        PROVE  \/ lock' = lock
               \/ lock' = [lock EXCEPT ![RequestLock] = h]
               \/ lock' = [lock EXCEPT ![RequestLock] = FREE]
    BY <2>1 DEF BrokerStep, Call, _expire_or_deny, _consume_approval, Authorize, AcquireRequest,
       _drive, Refused, _dispatch, _reconcile_locked, _settle, ReleaseRequest, Released, lockVars
  <2> QED
    BY <2>1 DEF BrokerNext, BrokerFault, create_request, OwnerApproves, ApprovalExpires,
       RequestExpires, PolicyChanges, CrashCall, lockVars
<1> QED
  BY <1>1 DEF LocksTypeOK

(* Every step keeps the invariant.                                         *)
LEMMA Inductive == IInv /\ [ActionsNext]_actionVars => IInv'
<1> SUFFICES ASSUME IInv, [ActionsNext]_actionVars PROVE IInv'
  OBVIOUS
<1>1. BrokerInv /\ QueueInv /\ LocksTypeOK
  BY DEF IInv, BrokerInv, BrokerTypeOK
<1>2. CASE BrokerMoves
  <2>1. BrokerInv'
    BY <1>1, <1>2, BrokerKeeps DEF BrokerMoves
  <2>2. QueueInv'
    BY <1>1, <1>2, BrokerLocks, QueueUndisturbed DEF BrokerMoves
  <2> QED
    BY <2>1, <2>2 DEF IInv
<1>3. CASE QueueMoves
  <2>1. QueueInv'
    BY <1>1, <1>3, QueueKeeps DEF QueueMoves
  <2>2. BrokerInv'
    BY <1>1, <1>3, QueueLocks, BrokerUndisturbed DEF QueueMoves
  <2> QED
    BY <2>1, <2>2 DEF IInv
<1>4. CASE LeasesMove
  <2>1. LocksTypeOK' /\ lock' = lock
    BY <1>1, <1>4 DEF LeasesMove, LeaseChanges, LeaseExpires, LeaseRenewed, LeaseGone, LocksTypeOK
  <2>2. BrokerInv'
    BY <1>1, <1>4, <2>1, BrokerUndisturbed DEF LeasesMove
  <2>3. QueueInv'
    BY <1>1, <1>4, <2>1, QueueUndisturbed DEF LeasesMove
  <2> QED
    BY <2>2, <2>3 DEF IInv
<1>5. CASE UNCHANGED actionVars
  <2>1. UNCHANGED <<brokerVars, queueVars, lockVars>>
    BY <1>5 DEF actionVars
  <2>2. BrokerInv'
    BY <1>1, <2>1, BrokerUndisturbed DEF lockVars, LocksTypeOK
  <2>3. QueueInv'
    BY <1>1, <2>1, QueueUndisturbed DEF lockVars
  <2> QED
    BY <2>2, <2>3 DEF IInv
<1> QED
  BY <1>2, <1>3, <1>4, <1>5 DEF ActionsNext

(* What the runs check follows.                                            *)
LEMMA InvImplies ==
    IInv => ActionsInv /\ OneDispatchInFlight /\ IntegratedAlone /\ DependencyFirst
<1> SUFFICES ASSUME IInv PROVE ActionsInv /\ OneDispatchInFlight /\ IntegratedAlone /\ DependencyFirst
  OBVIOUS
<1>1. SendsWithinRetryBudget
  BY BrokerAssumption DEF IInv, BrokerInv, BrokerTypeOK, Requests, RetryInv, SendsWithinRetryBudget
<1> QED
  BY <1>1 DEF IInv, BrokerInv, QueueInv, ActionsInv, ActionsTypeOK

(* IInv is an invariant.                                                   *)
LEMMA IInvAlways == ActionsSpec => []IInv
BY InitInv, Inductive, PTL DEF ActionsSpec

(***************************************************************************)
(* SUCCEEDED stands only for an action that the provider carried out, no   *)
(* more than MAX_RETRY_ATTEMPTS + 1 provider calls are made, and none      *)
(* without authority: external_action_broker.py, _drive and _settle.       *)
(***************************************************************************)
THEOREM ActionsSafe == ActionsSpec => []ActionsInv
BY IInvAlways, InvImplies, PTL

(***************************************************************************)
(* At most one provider call of a request is under way, whatever leases    *)
(* run out and locks change hands: external_action_broker.py, _drive.      *)
(***************************************************************************)
THEOREM OneDispatch == ActionsSpec => []OneDispatchInFlight
BY IInvAlways, InvImplies, PTL

(***************************************************************************)
(* A candidate is INTEGRATED only by a holder nobody took the target from  *)
(* since its claim: merge_queue.py, integrate_candidate, and store.py,     *)
(* transition_integration_candidate_authoritative.                         *)
(***************************************************************************)
THEOREM QueueAlone == ActionsSpec => []IntegratedAlone
BY IInvAlways, InvImplies, PTL

(***************************************************************************)
(* A candidate is integrated after its prerequisite: merge_queue.py,       *)
(* _dependency_satisfied.                                                  *)
(***************************************************************************)
THEOREM QueueOrdered == ActionsSpec => []DependencyFirst
BY IInvAlways, InvImplies, PTL

=============================================================================
