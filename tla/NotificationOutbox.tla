------------------------- MODULE NotificationOutbox -------------------------
(***************************************************************************)
(* The outbound half of notifications.py: the outbox table, the passes of  *)
(* the delivery workers, and the insert the supervisor makes inside the    *)
(* transaction of the state change a notification reports.                 *)
(*                                                                         *)
(* A worker is one process with its single delivery thread.  It reads the  *)
(* clock, claims the oldest due row in one transaction, reads the row back *)
(* OUTSIDE that transaction, sends, and records the outcome by a           *)
(* compare-and-swap on the claim token.  It may die between any two of     *)
(* these steps, and any of its writes may find the database locked, which  *)
(* ends the pass and leaves the row as it was.                             *)
(*                                                                         *)
(* Times are kept as ages, so that the clock needs no bound: a SENDING   *)
(* row carries the age of claimed_at (capped at Lease, where it is         *)
(* expired), a FAILED row the time left to next_attempt_at.  A claim token *)
(* is a fresh uuid per claim; every claim also increments attempt_count,   *)
(* so the attempt's number stands for the token.                           *)
(***************************************************************************)
EXTENDS Integers, Sequences, FiniteSets

CONSTANTS
    Keys,          \* dedup keys of the notifications that may be enqueued
    Workers,       \* processes that run a delivery worker
    MaxAttempts,   \* NOTIFICATION_MAX_ATTEMPTS
    Lease,         \* NOTIFICATION_CLAIM_LEASE_SECONDS, in ticks
    BackoffInitial, BackoffMax,  \* NOTIFICATION_BACKOFF_*, in ticks
    RetryAfters    \* the Retry-After values a server may name, in ticks

ASSUME OutboxAssumption ==
    /\ MaxAttempts \in Nat \ {0}
    /\ Lease \in Nat \ {0}
    /\ BackoffInitial \in Nat \ {0}
    /\ BackoffMax \in Nat \ {0}
    /\ BackoffInitial =< BackoffMax
    /\ RetryAfters \subseteq Nat
    /\ Keys # {}
    /\ IsFiniteSet(Workers)

VARIABLES
    outbox,     \* the keys in the table, in insertion order (rowid)
    row,        \* key -> status, attempt_count, claim_token, age or delay
    worker,     \* worker -> where its pass is and what it holds
    sends,      \* history: requests made for each key
    accepted,   \* history: keys whose notification a transport accepted
    adopted     \* history: keys with a claim decided by a pass that did not make it

history == <<sends, accepted, adopted>>
outboxVars == <<outbox, row, worker, history>>

Statuses == {"PENDING", "SENDING", "SENT", "FAILED", "DISCARDED"}

\* What a pass learns from the transport: a TransportReceipt, or the
\* configuration error that factory and send may raise.
Receipts == {"accepted", "retryable", "permanent", "config"}

Timers == 0 .. (IF BackoffMax > Lease THEN BackoffMax ELSE Lease)

NewRow == [status |-> "PENDING", attempts |-> 0, token |-> 0, timer |-> 0]

\* claim is the token the pass made, token the one it goes on with.
NoWork == [pc |-> "idle", key |-> CHOOSE k \in Keys : TRUE, claim |-> 0,
           token |-> 0, attempts |-> 0, age |-> 0, receipt |-> "retryable"]

OutboxTypeOK ==
    /\ outbox \in Seq(Keys)
    /\ row \in [Keys -> [status : Statuses, attempts : Nat,
                         token : Nat, timer : Timers]]
    /\ worker \in [Workers ->
                     [pc : {"idle", "started", "claimed", "ready", "answered"},
                      key : Keys, claim : Nat, token : Nat, attempts : Nat,
                      age : 0 .. Lease, receipt : Receipts]]
    /\ sends \in [Keys -> Nat]
    /\ accepted \subseteq Keys
    /\ adopted \subseteq Keys

OutboxInit ==
    /\ outbox = <<>>
    /\ row = [k \in Keys |-> NewRow]
    /\ worker = [w \in Workers |-> NoWork]
    /\ sends = [k \in Keys |-> 0]
    /\ accepted = {}
    /\ adopted = {}

Stored == {outbox[i] : i \in DOMAIN outbox}

----------------------------------------------------------------------------
(* Row transitions.                                                        *)

\* Mutant of backoff_seconds: the server's Retry-After is taken as it is.
BackoffAsTold(attempt, retryAfter) ==
    IF retryAfter > 0 THEN retryAfter ELSE BackoffInitial

\* 5 * 2^(n-1), capped; a Retry-After is clamped and can only extend it.
backoff_seconds(attempt, retryAfter) ==
    LET least(a, b) == IF a \in 0 .. b THEN a ELSE b
        most(a, b) == IF a > b THEN a ELSE b
        base == least(BackoffInitial * 2^(attempt - 1), BackoffMax)
    IN  IF retryAfter > 0
        THEN most(base, least(most(retryAfter, BackoffInitial), BackoffMax))
        ELSE base

\* Mutant of Due: the cutoff is one tick short.
DueTooEarly(r) ==
    \/ r.status = "PENDING"
    \/ r.status = "FAILED" /\ r.timer = 0
    \/ r.status = "SENDING" /\ r.timer >= Lease - 1

\* A row the claim query returns.
Due(r) ==
    \/ r.status = "PENDING"
    \/ r.status = "FAILED" /\ r.timer = 0
    \/ r.status = "SENDING" /\ r.timer = Lease

\* Mutant of ClaimedRow: the ceiling is left to _finalize.
ClaimedPastCeiling(r, age) ==
    [status |-> "SENDING", attempts |-> r.attempts + 1,
     token |-> r.attempts + 1, timer |-> age]

\* The claim leaves a row at the ceiling DISCARDED, never SENDING.
ClaimedRow(r, age) ==
    IF r.attempts >= MaxAttempts
    THEN [r EXCEPT !.status = "DISCARDED", !.token = 0, !.timer = 0]
    ELSE [status |-> "SENDING", attempts |-> r.attempts + 1,
          token |-> r.attempts + 1, timer |-> age]

\* Every recording write is conditional on the claim it was made under.
Holds(r, token) == r.status = "SENDING" /\ r.token = token

\* Mutant of FinalRow: whatever is not to be retried counts as sent.
FinalRowOptimistic(r, w, retryAfter) ==
    IF ~Holds(r, w.token) THEN r
    ELSE [r EXCEPT !.token = 0,
            !.status = IF w.receipt = "retryable" THEN "FAILED" ELSE "SENT",
            !.timer = IF w.receipt = "retryable"
                      THEN backoff_seconds(w.attempts, retryAfter) ELSE 0]

\* The row after _finalize and the three compare-and-swap updates under it.
FinalRow(r, w, retryAfter) ==
    LET status == IF w.receipt = "accepted" /\ w.attempts =< MaxAttempts THEN "SENT"
                  ELSE IF w.receipt = "retryable" /\ w.attempts < MaxAttempts THEN "FAILED"
                  ELSE "DISCARDED"
        delay == IF status = "FAILED" THEN backoff_seconds(w.attempts, retryAfter) ELSE 0
    IN  IF Holds(r, w.token)
        THEN [r EXCEPT !.status = status, !.token = 0, !.timer = delay]
        ELSE r

----------------------------------------------------------------------------
(* The supervisor's side.                                                  *)

\* Inside the transaction of the reported change; a second event with the
\* same dedup key inserts nothing.
Enqueue(k) ==
    /\ k \notin Stored
    /\ outbox' = Append(outbox, k)
    /\ UNCHANGED <<row, worker, history>>

----------------------------------------------------------------------------
(* The worker's pass.                                                      *)

\* kick() or a direct send_due_once(): the pass reads its clock first.
Start(w) ==
    /\ worker[w].pc = "idle"
    /\ worker' = [worker EXCEPT ![w] = [NoWork EXCEPT !.pc = "started"]]
    /\ UNCHANGED <<outbox, row, history>>

DueKeys == {k \in Stored : Due(row[k])}

\* The oldest due row: created_at, then rowid.
OldestDue ==
    outbox[CHOOSE i \in DOMAIN outbox :
             /\ outbox[i] \in DueKeys
             /\ \A j \in 1 .. i - 1 : outbox[j] \notin DueKeys]

\* The claim transaction.  claimed_at is the clock the pass began with.
Claim(w) ==
    /\ worker[w].pc = "started"
    /\ IF DueKeys = {}
       THEN /\ worker' = [worker EXCEPT ![w] = NoWork]
            /\ row' = row
       ELSE LET k == OldestDue
                claimed == ClaimedRow(row[k], worker[w].age)
            IN  /\ row' = [row EXCEPT ![k] = claimed]
                /\ worker' =
                     [worker EXCEPT ![w] =
                        IF claimed.status = "DISCARDED" THEN NoWork
                        ELSE [worker[w] EXCEPT !.pc = "claimed", !.key = k,
                                               !.claim = claimed.token]]
    /\ UNCHANGED <<outbox, history>>

\* After COMMIT the row is selected again: the token and the count the pass
\* goes on with are whatever the row holds by then.
ReadBack(w) ==
    /\ worker[w].pc = "claimed"
    /\ LET r == row[worker[w].key] IN
       worker' = [worker EXCEPT ![w] =
                    [@ EXCEPT !.pc = "ready", !.token = r.token,
                              !.attempts = r.attempts]]
    /\ UNCHANGED <<outbox, row, history>>

\* A payload that does not match its hash, and a transport that cannot be
\* built, end the attempt before anything is sent.
Refuse(w) ==
    /\ worker[w].pc = "ready"
    /\ \E receipt \in {"config", "retryable"} :
         worker' = [worker EXCEPT ![w] =
                      [@ EXCEPT !.pc = "answered", !.receipt = receipt]]
    /\ UNCHANGED <<outbox, row, history>>

\* One request.  A request the server accepted may still end in a timeout.
Send(w) ==
    /\ worker[w].pc = "ready"
    /\ sends' = [sends EXCEPT ![worker[w].key] = @ + 1]
    /\ \E receipt \in Receipts :
         /\ worker' = [worker EXCEPT ![w] =
                         [@ EXCEPT !.pc = "answered", !.receipt = receipt]]
         /\ \/ accepted' = accepted \cup {worker[w].key}
               /\ receipt \in {"accepted", "retryable"}
            \/ accepted' = accepted
               /\ receipt # "accepted"
    /\ UNCHANGED <<outbox, row, adopted>>

Finalize(w) ==
    /\ worker[w].pc = "answered"
    /\ \E retryAfter \in RetryAfters :
         row' = [row EXCEPT ![worker[w].key] =
                   FinalRow(row[worker[w].key], worker[w], retryAfter)]
    /\ worker' = [worker EXCEPT ![w] = NoWork]
    /\ adopted' = IF Holds(row[worker[w].key], worker[w].token)
                     /\ worker[w].claim # worker[w].token
                  THEN adopted \cup {worker[w].key} ELSE adopted
    /\ UNCHANGED <<outbox, sends, accepted>>

\* A locked database, an exception that escapes the pass, or the death of
\* the process ends a pass wherever it is; the row keeps what it has.
Abort(w) ==
    /\ worker[w].pc # "idle"
    /\ worker' = [worker EXCEPT ![w] = NoWork]
    /\ UNCHANGED <<outbox, row, history>>

\* One tick of the clock ages claims and passes and shortens delays.
Tick ==
    LET aged(a) == IF a < Lease THEN a + 1 ELSE a
        older(r) == CASE r.status = "SENDING" -> [r EXCEPT !.timer = aged(@)]
                      [] r.status = "FAILED" /\ r.timer > 0 ->
                           [r EXCEPT !.timer = @ - 1]
                      [] OTHER -> r
    IN  /\ row' = [k \in Keys |-> older(row[k])]
        /\ worker' = [w \in Workers |->
                        IF worker[w].pc = "idle" THEN worker[w]
                        ELSE [worker[w] EXCEPT !.age = aged(@)]]
        /\ UNCHANGED <<outbox, history>>

OutboxNext ==
    \/ \E k \in Keys : Enqueue(k)
    \/ \E w \in Workers :
         \/ Start(w) \/ Claim(w) \/ ReadBack(w) \/ Refuse(w)
         \/ Send(w) \/ Finalize(w) \/ Abort(w)
    \/ Tick

OutboxSpec == OutboxInit /\ [][OutboxNext]_outboxVars

----------------------------------------------------------------------------
(* Properties.                                                             *)

\* The five-attempt bound holds for requests really made, across crashes,
\* expired claims and passes that read back somebody else's claim.
SendsWithinBudget ==
    \A k \in Keys : sends[k] =< MaxAttempts

\* SENT is only ever recorded for a notification a transport accepted, also
\* when the recording pass shares another pass's token.
SentWasAccepted ==
    \A k \in Keys : row[k].status = "SENT" => k \in accepted

\* The outbox's invariant: types, requests within the budget, and SENT only for
\* what was accepted.
OutboxInv == OutboxTypeOK /\ SendsWithinBudget /\ SentWasAccepted

\* A pass is at work on a row from its claim to its _finalize.
AtWork(w) == worker[w].pc \in {"claimed", "ready", "answered"}

\* Two passes within their lease work on one row only after the claim of the
\* first was decided by a third that had outlived its own: that one read the
\* row back late and went on with a token it had not made.
OneSenderPerLease ==
    \A v, w \in Workers :
      (/\ v # w /\ AtWork(v) /\ AtWork(w)
       /\ worker[v].key = worker[w].key) =>
        Lease \in {worker[v].age, worker[w].age} \/ worker[v].key \in adopted

=============================================================================
