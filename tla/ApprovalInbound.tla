--------------------------- MODULE ApprovalInbound ---------------------------
(***************************************************************************)
(* Owner decisions that arrive as chat callbacks (approval_core.py,        *)
(* approval_processor.py, telegram_approval_adapter.py), composed with the *)
(* task core they decide gates of.  A challenge is the one-time token of a *)
(* gate's buttons; pressing a button makes an update, which the host may   *)
(* deliver late, out of order and more than once.  Handling an update is   *)
(* one inbound transaction.  The owner's direct commands and the expiry of *)
(* TaskCore interleave with it.                                            *)
(*                                                                         *)
(* Update 0 does not exist, so the cursor starts at 1.  DETAILS callbacks  *)
(* and updates the adapter refuses change nothing; a locked database rolls *)
(* a transaction back; both are left out.  An approval's binding never     *)
(* changes, so no challenge is ever INVALIDATED.                           *)
(***************************************************************************)
EXTENDS TaskCore

CONSTANTS
    ChallengeTTL,     \* CHALLENGE_TTL_SECONDS, in ticks
    FutureSkew        \* FUTURE_SKEW_BOUND, in ticks

ASSUME InboundAssumption == ChallengeTTL \in Nat \ {0} /\ FutureSkew \in Nat

VARIABLES
    challenges,   \* approval_challenges, in order of creation
    sent,         \* the updates the host may deliver; update id = position
    log,          \* telegram_update_log: update id -> outcome
    cursor,       \* next_update_id
    verdict       \* history: gate number -> who decided it, and how

inboundVars == <<challenges, sent, log, cursor, verdict>>
allVars == <<coreVars, inboundVars>>

Consumed == {"CONSUMED_APPROVED", "CONSUMED_REJECTED"}
ChallengeStatus == {"ISSUED", "EXPIRED"} \cup Consumed

InboundInit ==
    /\ CoreInit
    /\ challenges = <<>>
    /\ sent = <<>>
    /\ log = <<>>
    /\ cursor = 1
    /\ verdict = <<>>

\* Types, and the offset the host polls from after a restart: it lies just past
\* the highest update that was handled, whatever the order of delivery.
InboundTypeOK ==
    /\ CoreTypeOK
    /\ \A c \in DOMAIN challenges :
         challenges[c] \in [ap : Nat, created : Nat, expires : Nat,
                            status : ChallengeStatus, by : Nat]
    /\ \A u \in DOMAIN sent :
         sent[u] \in [c : Nat, approve : BOOLEAN, date : Nat, owner : BOOLEAN]
    /\ DOMAIN log \subseteq DOMAIN sent
    /\ cursor = Max(DOMAIN log \cup {0}) + 1

MinOf(a, b) == IF a < b THEN a ELSE b

----------------------------------------------------------------------------

\* The caller's approval object was read while the gate was pending and may
\* be older than the row.  An overdue challenge that no callback has touched
\* still counts as active.
create_challenge(n) ==
    /\ now < approvals[n].expires
    /\ \A c \in DOMAIN challenges :
         challenges[c].ap = n => challenges[c].status # "ISSUED"
    /\ challenges' = Append(challenges,
         [ap |-> n, created |-> now, status |-> "ISSUED", by |-> 0,
          expires |-> MinOf(now + ChallengeTTL, approvals[n].expires)])
    /\ UNCHANGED <<coreVars, sent, log, cursor, verdict>>

Update(c, yes, date, owner) ==
    [c |-> c, approve |-> yes, date |-> date, owner |-> owner]

\* The owner presses a button of a challenge; the message date is the chat's.
Press(c) ==
    /\ \E yes \in BOOLEAN, date \in 0 .. now + FutureSkew + 1 :
         sent' = Append(sent, Update(c, yes, date, TRUE))
    /\ UNCHANGED <<coreVars, challenges, log, cursor, verdict>>

\* An update with a token nobody issued, or from another chat.
Stray ==
    /\ \E owner \in BOOLEAN : sent' = Append(sent, Update(0, TRUE, now, owner))
    /\ UNCHANGED <<coreVars, challenges, log, cursor, verdict>>

\* Below the cursor: a later update has been handled.
Overtaken(u) == u < cursor

\* Mutant of GateOf: a token decides the gate that is open now.
LatestGate(ch) == Len(approvals)

\* A token decides the gate it was issued for.
GateOf(ch) == ch.ap

\* Mutant of GatePending: a decided gate is decided again.
GateKnown(ch) == GateOf(ch) \in DOMAIN approvals

GatePending(ch) == approvals[GateOf(ch)].status = "pending"

\* What the transaction makes of update u, in the order of its checks.
CallbackOutcome(u) ==
    LET m == sent[u]
        ch == challenges[m.c]
    IN  IF u \in DOMAIN log THEN "DUPLICATE_UPDATE"
        ELSE IF Overtaken(u) THEN "STALE_UPDATE"
        ELSE IF ~m.owner THEN "WRONG_CHAT"
        ELSE IF m.c = 0 THEN "UNKNOWN_TOKEN"
        ELSE IF ch.status \in Consumed THEN "USED_TOKEN"
        ELSE IF ch.status = "EXPIRED" \/ ch.expires =< now THEN "EXPIRED_TOKEN"
        ELSE IF m.date < ch.created THEN "STALE_MESSAGE"
        ELSE IF m.date >= ch.expires THEN "EXPIRED_TOKEN"
        ELSE IF m.date > now + FutureSkew THEN "STALE_MESSAGE"
        ELSE IF ~GatePending(ch) THEN "APPROVAL_NOT_PENDING"
        ELSE IF Overdue(GateOf(ch)) THEN "EXPIRED_APPROVAL"
        ELSE IF m.approve THEN "APPROVED" ELSE "REJECTED"

ChallengeAfter(ch, u, outcome) ==
    CASE outcome = "EXPIRED_TOKEN" -> [ch EXCEPT !.status = "EXPIRED"]
      [] outcome = "APPROVED" ->
           [ch EXCEPT !.status = "CONSUMED_APPROVED", !.by = u]
      [] outcome = "REJECTED" ->
           [ch EXCEPT !.status = "CONSUMED_REJECTED", !.by = u]
      [] OTHER -> ch

GateAfter(outcome) ==
    CASE outcome = "APPROVED" -> "approved"
      [] outcome = "REJECTED" -> "rejected"
      [] OTHER -> "expired"

\* A decision is recorded together with its origin.
Decided(by) ==
    LET now_decided == {n \in DOMAIN approvals :
                          /\ approvals'[n].status # approvals[n].status
                          /\ approvals'[n].status \in {"approved", "rejected"}}
    IN  IF now_decided = {} THEN verdict
        ELSE LET n == CHOOSE m \in now_decided : TRUE
             IN  Append(verdict, [gate |-> n, by |-> by,
                                  approve |-> approvals'[n].status = "approved"])

\* Mutant of _advance_cursor: the offset of the update itself.
_advance_to(u) == IF cursor > u THEN cursor ELSE u

_advance_cursor(u) == IF cursor > u + 1 THEN cursor ELSE u + 1

process_callback(u) ==
    LET outcome == CallbackOutcome(u)
    IN  /\ u \in DOMAIN sent
        /\ outcome # "DUPLICATE_UPDATE"
        /\ log' = [v \in DOMAIN log \cup {u} |-> IF v = u THEN outcome ELSE log[v]]
        /\ cursor' = IF outcome = "STALE_UPDATE" THEN cursor ELSE _advance_cursor(u)
        /\ challenges' = IF sent[u].c = 0 THEN challenges
             ELSE [challenges EXCEPT ![sent[u].c] = ChallengeAfter(@, u, outcome)]
        /\ IF outcome \in {"APPROVED", "REJECTED", "EXPIRED_APPROVAL"}
           THEN SetStatus(GateOf(challenges[sent[u].c]), GateAfter(outcome))
           ELSE UNCHANGED approvals
        /\ task' = CASE outcome = "REJECTED" -> RejectedTask(task)
                     [] outcome = "EXPIRED_APPROVAL" -> ReleasedTask(task)
                     [] OTHER -> task
        /\ verdict' = Decided(u)
        /\ UNCHANGED <<now, active, handoff, run, ledger, disp, findings,
                       manual, late, sent>>

\* A command of the core, a decision of the owner among them.
CoreCommand ==
    /\ CoreNext
    /\ verdict' = Decided(0)
    /\ UNCHANGED <<challenges, sent, log, cursor>>

InboundNext ==
    \/ CoreCommand
    \/ \E n \in DOMAIN approvals : create_challenge(n)
    \/ Stray
    \/ \E c \in DOMAIN challenges : Press(c)
    \/ \E u \in DOMAIN sent : process_callback(u)

InboundSpec == InboundInit /\ [][InboundNext]_allVars

----------------------------------------------------------------------------
(* Properties.                                                             *)

\* The invariant of tasks and tokens: types and the cursor, and the task waits
\* for an open gate, and for its only one as long as nobody comes back to a
\* closed gate, whether commands or callbacks decide gates.
CoreInv == InboundTypeOK /\ GateMatchesApproval

\* Whatever mixture of commands, repeated, reordered and outdated callbacks
\* decides gates, each gate is decided at most once.
DecidedOnce ==
    \A i, j \in DOMAIN verdict : verdict[i].gate = verdict[j].gate => i = j

\* A consumed token and the decision it stands for agree: it was made by one
\* press of the owner's on this very token, within the token's life, about the
\* gate the token was issued for, and in the sense of the button. No gate is
\* decided twice.
CallbackDecidesItsGate ==
  /\ DecidedOnce
  /\ \A c \in DOMAIN challenges :
      LET ch == challenges[c]
      IN  ch.status \in Consumed =>
            /\ sent[ch.by].c = c
            /\ sent[ch.by].owner
            /\ sent[ch.by].date \in ch.created .. ch.expires - 1
            /\ sent[ch.by].approve = (ch.status = "CONSUMED_APPROVED")
            /\ \E i \in DOMAIN verdict :
                 verdict[i] = [gate |-> ch.ap, by |-> ch.by,
                               approve |-> sent[ch.by].approve]

\* The gates of the task core and of the callbacks together are OwnerGate: a
\* gate is decided before it expires or not at all, an approval is used once,
\* and the task stays in place from a request until the owner's word on a gate.
Gate == INSTANCE OwnerGate WITH
    Blocked <- "BLOCKED", Lifetime <- ApprovalTTL,
    clock <- now, gates <- approvals, parked <- Gated, home <- Underlying

GateRefines == Gate!GateSpec

=============================================================================
