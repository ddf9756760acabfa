---------------------- MODULE NotificationOutboxProofs ----------------------
(***************************************************************************)
(* The outbox keeps its budget, its record of what was sent and the        *)
(* exclusion of its claims, for every number of notifications and workers  *)
(* and every lease, ceiling and backoff.                                   *)
(***************************************************************************)
EXTENDS NotificationOutbox, FiniteSetTheorems, WellFoundedInduction, TLAPS

(***************************************************************************)
(* The inductive invariant.  BudgetInv: an attempt is counted when the row *)
(* is claimed, so the requests made and the passes that may still make     *)
(* theirs are within the row's count.                                      *)
(***************************************************************************)
Owing(k) == {w \in Workers : worker[w].pc \in {"claimed", "ready"} /\ worker[w].key = k}

BudgetInv ==
    \A k \in Keys :
       /\ row[k].attempts =< MaxAttempts
       /\ sends[k] + Cardinality(Owing(k)) =< row[k].attempts

(* ReceiptInv: a pass that was told "accepted" is the witness of it.       *)
ReceiptInv ==
    \A w \in Workers :
       worker[w].pc = "answered" /\ worker[w].receipt = "accepted" => worker[w].key \in accepted

(* ClaimInv: the claims of the passes at work on a row are its earlier     *)
(* attempts, each made once; and until somebody else decided a claim of    *)
(* the row, a pass within its lease still has it.                          *)
ClaimInv ==
    /\ \A k \in Keys : row[k].status = "SENDING" => row[k].token = row[k].attempts
    /\ \A w \in Workers : AtWork(w) =>
          /\ worker[w].claim =< row[worker[w].key].attempts
          /\ worker[w].age < Lease /\ worker[w].key \notin adopted =>
                /\ Holds(row[worker[w].key], worker[w].claim)
                /\ row[worker[w].key].timer = worker[w].age
    /\ \A v, w \in Workers :
          v # w /\ AtWork(v) /\ AtWork(w) /\ worker[v].key = worker[w].key
             => worker[v].claim # worker[w].claim

IInv == OutboxTypeOK /\ BudgetInv /\ ReceiptInv /\ SentWasAccepted /\ ClaimInv

Rows == [status : Statuses, attempts : Nat, token : Nat, timer : Timers]

Passes == [pc : {"idle", "started", "claimed", "ready", "answered"}, key : Keys,
           claim : Nat, token : Nat, attempts : Nat, age : 0 .. Lease, receipt : Receipts]

-----------------------------------------------------------------------------
(***************************************************************************)
(* What the model's operators return.                                      *)
(***************************************************************************)

(* The backoff fits the timer, whatever Retry-After the server named: it   *)
(* is clamped.                                                             *)
LEMMA BackoffBounded ==
    ASSUME NEW n, NEW ra \in RetryAfters
    PROVE  backoff_seconds(n, ra) \in 0 .. BackoffMax
<1> USE OutboxAssumption
<1> DEFINE least(a, b) == IF a \in 0 .. b THEN a ELSE b
           base == least(BackoffInitial * 2^(n - 1), BackoffMax)
<1>1. base \in 0 .. BackoffMax
  OBVIOUS
<1> QED
  BY <1>1 DEF backoff_seconds

(* A timer holds a lease and a backoff.                                    *)
LEMMA TimerRange == 0 .. BackoffMax \subseteq Timers /\ 0 .. Lease \subseteq Timers /\ Timers \subseteq Nat
BY OutboxAssumption DEF Timers

(* An idle pass is a pass.                                                 *)
LEMMA NoWorkTyped == NoWork \in Passes
BY OutboxAssumption DEF NoWork, Passes, Receipts

(* _finalize decides a row it holds, leaves any other as it is, never      *)
(* touches the count, and records SENT only for an accepted receipt.       *)
LEMMA FinalRowDecides ==
    ASSUME NEW r \in Rows, NEW w \in Passes, NEW ra \in RetryAfters
    PROVE  /\ FinalRow(r, w, ra) \in Rows
           /\ FinalRow(r, w, ra).attempts = r.attempts
           /\ ~Holds(r, w.token) => FinalRow(r, w, ra) = r
           /\ Holds(r, w.token) => FinalRow(r, w, ra).status \in {"SENT", "FAILED", "DISCARDED"}
           /\ FinalRow(r, w, ra).status = "SENT" => r.status = "SENT" \/ w.receipt = "accepted"
<1> DEFINE b == backoff_seconds(w.attempts, ra)
<1>1. b \in Timers /\ 0 \in Timers
  BY BackoffBounded, TimerRange, OutboxAssumption
<1> HIDE DEF b
<1>2. CASE ~Holds(r, w.token)
  <2>1. FinalRow(r, w, ra) = r
    BY <1>2 DEF FinalRow
  <2> QED
    BY <1>2, <2>1
<1>3. CASE Holds(r, w.token)
  <2> DEFINE st == IF w.receipt = "accepted" /\ w.attempts =< MaxAttempts THEN "SENT"
                   ELSE IF w.receipt = "retryable" /\ w.attempts < MaxAttempts THEN "FAILED"
                   ELSE "DISCARDED"
             d == IF st = "FAILED" THEN b ELSE 0
  <2>1. FinalRow(r, w, ra) = [r EXCEPT !.status = st, !.token = 0, !.timer = d]
    BY <1>3, Zenon DEF FinalRow, b
  <2>2. st \in {"SENT", "FAILED", "DISCARDED"} /\ (st = "SENT" => w.receipt = "accepted")
    OBVIOUS
  <2>3. d \in Timers
    BY <1>1
  <2> HIDE DEF st, d
  <2>4. FinalRow(r, w, ra) = [status |-> st, attempts |-> r.attempts, token |-> 0, timer |-> d]
    BY <2>1 DEF Rows
  <2> QED
    BY <1>3, <2>2, <2>3, <2>4 DEF Rows, Statuses
<1> QED
  BY <1>2, <1>3

(* The claim query finds a row of the table, and one that is due.          *)
LEMMA OldestDueIsDue ==
    ASSUME OutboxTypeOK, DueKeys # {}
    PROVE  OldestDue \in Keys /\ Due(row[OldestDue])
<1> DEFINE D == {i \in DOMAIN outbox : outbox[i] \in DueKeys}
           P(i) == outbox[i] \in DueKeys /\ \A j \in 1 .. i - 1 : outbox[j] \notin DueKeys
<1>1. DOMAIN outbox \subseteq Nat /\ \A i \in DOMAIN outbox : 1 .. i - 1 \subseteq DOMAIN outbox
  BY DEF OutboxTypeOK
<1>2. D # {} /\ D \subseteq Nat
  BY <1>1 DEF DueKeys, Stored
<1>3. PICK i \in D : \A j \in D : ~(<<j, i>> \in OpToRel(<, Nat))
  BY <1>2, WFMin, NatLessThanWellFounded
<1>4. \A j \in D : ~(j < i)
  BY <1>2, <1>3 DEF OpToRel
<1>5. P(i)
  BY <1>1, <1>2, <1>4
<1>6. \E x \in DOMAIN outbox : P(x)
  BY <1>5
<1>7. OldestDue \in DueKeys
  BY <1>6 DEF OldestDue
<1> QED
  BY <1>7 DEF DueKeys, Stored, OutboxTypeOK

-----------------------------------------------------------------------------
(***************************************************************************)
(* The passes that still owe their request.                                *)
(***************************************************************************)

(* Owing(k) is finite, so it has a size.                                   *)
LEMMA OwingFinite ==
    ASSUME NEW k
    PROVE  IsFiniteSet(Owing(k)) /\ Cardinality(Owing(k)) \in Nat
<1>1. Owing(k) \subseteq Workers
  BY DEF Owing
<1> QED
  BY <1>1, OutboxAssumption, FS_Subset, FS_CardinalityType

(* A step of one pass that does not become owing adds nobody.              *)
LEMMA OwingShrinks ==
    ASSUME OutboxTypeOK, OutboxTypeOK', NEW w \in Workers, NEW k \in Keys,
           \A v \in Workers \ {w} : worker'[v] = worker[v],
           w \in Owing(k)' => w \in Owing(k)
    PROVE  /\ Cardinality(Owing(k)') =< Cardinality(Owing(k))
           /\ w \in Owing(k) /\ w \notin Owing(k)' =>
                 Cardinality(Owing(k)') = Cardinality(Owing(k)) - 1
<1>1. CASE (w \in Owing(k)') = (w \in Owing(k))
  <2>1. Owing(k)' = Owing(k)
    BY <1>1 DEF Owing
  <2> QED
    BY <1>1, <2>1, OwingFinite
<1>2. CASE w \in Owing(k) /\ w \notin Owing(k)'
  <2>1. Owing(k)' = Owing(k) \ {w}
    BY <1>2 DEF Owing
  <2>2. IsFiniteSet(Owing(k)) /\ Cardinality(Owing(k)) \in Nat
    BY OwingFinite
  <2>3. Cardinality(Owing(k) \ {w}) = Cardinality(Owing(k)) - 1
    BY <1>2, <2>2, FS_RemoveElement
  <2> QED
    BY <1>2, <2>1, <2>2, <2>3
<1> QED
  BY <1>1, <1>2 DEF Owing

(* A claim adds the pass that made it, to its row only.                    *)
LEMMA OwingGrows ==
    ASSUME OutboxTypeOK, OutboxTypeOK', NEW w \in Workers, NEW k \in Keys,
           \A v \in Workers \ {w} : worker'[v] = worker[v],
           w \notin Owing(k), w \in Owing(k)'
    PROVE  Cardinality(Owing(k)') = Cardinality(Owing(k)) + 1
<1>1. Owing(k)' = Owing(k) \cup {w}
  BY DEF Owing
<1> QED
  BY <1>1, OwingFinite, FS_AddElement

-----------------------------------------------------------------------------
(***************************************************************************)
(* Types.                                                                  *)
(***************************************************************************)

(* The claim a pass makes on a due row is a row.                           *)
LEMMA ClaimedRowTyped ==
    ASSUME NEW r \in Rows, NEW age \in 0 .. Lease
    PROVE  /\ ClaimedRow(r, age) \in Rows
           /\ r.attempts >= MaxAttempts =>
                 ClaimedRow(r, age) = [status |-> "DISCARDED", attempts |-> r.attempts,
                                       token |-> 0, timer |-> 0]
           /\ ~(r.attempts >= MaxAttempts) =>
                 ClaimedRow(r, age) = [status |-> "SENDING", attempts |-> r.attempts + 1,
                                       token |-> r.attempts + 1, timer |-> age]
<1>1. age \in Timers /\ 0 \in Timers
  BY TimerRange, OutboxAssumption
<1>2. CASE r.attempts >= MaxAttempts
  <2>1. ClaimedRow(r, age) = [status |-> "DISCARDED", attempts |-> r.attempts, token |-> 0, timer |-> 0]
    BY <1>2 DEF ClaimedRow, Rows
  <2> QED
    BY <1>1, <1>2, <2>1 DEF Rows, Statuses
<1>3. CASE ~(r.attempts >= MaxAttempts)
  <2>1. ClaimedRow(r, age) = [status |-> "SENDING", attempts |-> r.attempts + 1,
                              token |-> r.attempts + 1, timer |-> age]
    BY <1>3 DEF ClaimedRow
  <2> QED
    BY <1>1, <1>3, <2>1 DEF Rows, Statuses
<1> QED
  BY <1>2, <1>3

Older(r) ==
    [r EXCEPT !.timer = IF r.status = "SENDING" /\ @ < Lease THEN @ + 1
                        ELSE IF r.status = "FAILED" /\ @ > 0 THEN @ - 1 ELSE @]

AgedPass(p) ==
    [p EXCEPT !.age = IF p.pc # "idle" /\ @ < Lease THEN @ + 1 ELSE @]

(* What one tick does to a row and to a pass.                              *)
LEMMA TickAges ==
    ASSUME OutboxTypeOK, Tick
    PROVE  /\ row' = [k \in Keys |-> Older(row[k])]
           /\ worker' = [w \in Workers |-> AgedPass(worker[w])]
           /\ \A r \in Rows : Older(r) \in Rows
           /\ \A q \in Passes : AgedPass(q) \in Passes
<1> DEFINE aged(a) == IF a < Lease THEN a + 1 ELSE a
           older(r) == CASE r.status = "SENDING" -> [r EXCEPT !.timer = aged(@)]
                         [] r.status = "FAILED" /\ r.timer > 0 -> [r EXCEPT !.timer = @ - 1]
                         [] OTHER -> r
<1>1. ASSUME NEW r \in Rows PROVE older(r) = Older(r) /\ Older(r) \in Rows
  <2>1. r.timer \in Nat /\ r.timer \in Timers /\ (r.timer < Lease => r.timer + 1 \in Timers)
           /\ (r.timer > 0 => r.timer - 1 \in Timers)
    BY OutboxAssumption DEF Rows, Timers
  <2>2. CASE r.status = "SENDING"
    BY <2>1, <2>2, OutboxAssumption DEF Older, Rows
  <2>3. CASE r.status = "FAILED" /\ r.timer > 0
    BY <2>1, <2>3, OutboxAssumption DEF Older, Rows
  <2>4. CASE r.status # "SENDING" /\ ~(r.status = "FAILED" /\ r.timer > 0)
    <3>1. older(r) = r
      BY <2>4
    <3> HIDE DEF older
    <3> QED
      BY <2>1, <2>4, <3>1 DEF Older, Rows
  <2> QED
    BY <2>2, <2>3, <2>4
<1>2. ASSUME NEW q \in Passes
      PROVE  /\ AgedPass(q) \in Passes
             /\ AgedPass(q) = IF q.pc = "idle" THEN q ELSE [q EXCEPT !.age = aged(@)]
  BY OutboxAssumption DEF AgedPass, Passes
<1>3. row \in [Keys -> Rows] /\ worker \in [Workers -> Passes]
  BY DEF OutboxTypeOK, Rows, Passes
<1>4. row' = [k \in Keys |-> older(row[k])]
  BY DEF Tick
<1>5. worker' = [w \in Workers |-> IF worker[w].pc = "idle" THEN worker[w]
                                   ELSE [worker[w] EXCEPT !.age = aged(@)]]
  BY DEF Tick
<1> HIDE DEF older, aged
<1>6. row' = [k \in Keys |-> Older(row[k])]
  BY <1>1, <1>3, <1>4
<1>7. worker' = [w \in Workers |-> AgedPass(worker[w])]
  BY <1>2, <1>3, <1>5
<1> QED
  BY <1>1, <1>2, <1>6, <1>7

(* Every step keeps the types.                                             *)
LEMMA Types ==
    ASSUME OutboxTypeOK, [OutboxNext]_outboxVars
    PROVE  OutboxTypeOK'
<1> DEFINE TypeOK == /\ outbox \in Seq(Keys)
                     /\ row \in [Keys -> Rows]
                     /\ worker \in [Workers -> Passes]
                     /\ sends \in [Keys -> Nat]
                     /\ accepted \subseteq Keys
                     /\ adopted \subseteq Keys
<1>0. TypeOK /\ (TypeOK' => OutboxTypeOK')
  BY DEF OutboxTypeOK, Rows, Passes
<1> SUFFICES TypeOK'
  BY <1>0
<1>1. ASSUME NEW k \in Keys, Enqueue(k) PROVE TypeOK'
  BY <1>0, <1>1 DEF Enqueue, history
<1>2. ASSUME NEW w \in Workers, Start(w) PROVE TypeOK'
  <2>1. [NoWork EXCEPT !.pc = "started"] \in Passes
    BY NoWorkTyped DEF Passes
  <2> QED
    BY <1>0, <1>2, <2>1 DEF Start, history
<1>3. ASSUME NEW w \in Workers, Claim(w) PROVE TypeOK'
  <2>1. CASE DueKeys = {}
    BY <1>0, <1>3, <2>1, NoWorkTyped DEF Claim, history
  <2>2. CASE DueKeys # {}
    <3> DEFINE k == OldestDue
               claimed == ClaimedRow(row[k], worker[w].age)
    <3>1. k \in Keys
      BY <2>2, OldestDueIsDue
    <3>2. worker[w] \in Passes /\ row[k] \in Rows
      BY <1>0, <3>1
    <3>3. claimed \in Rows
      BY <3>2, ClaimedRowTyped DEF Passes
    <3>4. /\ row' = [row EXCEPT ![k] = claimed]
          /\ worker' = [worker EXCEPT ![w] =
                          IF claimed.status = "DISCARDED" THEN NoWork
                          ELSE [worker[w] EXCEPT !.pc = "claimed", !.key = k, !.claim = claimed.token]]
          /\ UNCHANGED <<outbox, history>>
      BY <1>3, <2>2 DEF Claim
    <3> HIDE DEF claimed, k
    <3>5. [worker[w] EXCEPT !.pc = "claimed", !.key = k, !.claim = claimed.token] \in Passes
      BY <3>1, <3>2, <3>3 DEF Passes, Rows
    <3> QED
      BY <1>0, <3>1, <3>3, <3>4, <3>5, NoWorkTyped DEF history
  <2> QED
    BY <2>1, <2>2
<1>4. ASSUME NEW w \in Workers, ReadBack(w) PROVE TypeOK'
  <2>1. worker[w] \in Passes /\ row[worker[w].key] \in Rows
    BY <1>0 DEF Passes
  <2> DEFINE r == row[worker[w].key]
  <2>2. [worker[w] EXCEPT !.pc = "ready", !.token = r.token, !.attempts = r.attempts] \in Passes
    BY <2>1 DEF Passes, Rows
  <2> QED
    BY <1>0, <1>4, <2>2 DEF ReadBack, history
<1>5. ASSUME NEW w \in Workers, Refuse(w) PROVE TypeOK'
  <2>1. PICK receipt \in Receipts :
           worker' = [worker EXCEPT ![w] = [@ EXCEPT !.pc = "answered", !.receipt = receipt]]
    BY <1>5 DEF Refuse, Receipts
  <2>2. [worker[w] EXCEPT !.pc = "answered", !.receipt = receipt] \in Passes
    BY <1>0 DEF Passes
  <2> QED
    BY <1>0, <1>5, <2>1, <2>2 DEF Refuse, history
<1>6. ASSUME NEW w \in Workers, Send(w) PROVE TypeOK'
  <2>1. worker[w] \in Passes /\ worker[w].key \in Keys
    BY <1>0 DEF Passes
  <2>2. PICK receipt \in Receipts :
           worker' = [worker EXCEPT ![w] = [@ EXCEPT !.pc = "answered", !.receipt = receipt]]
    BY <1>6 DEF Send
  <2>3. [worker[w] EXCEPT !.pc = "answered", !.receipt = receipt] \in Passes
    BY <2>1 DEF Passes
  <2>4. accepted' \subseteq Keys /\ sends' \in [Keys -> Nat]
    BY <1>0, <1>6, <2>1 DEF Send
  <2> QED
    BY <1>0, <1>6, <2>2, <2>3, <2>4 DEF Send
<1>7. ASSUME NEW w \in Workers, Finalize(w) PROVE TypeOK'
  <2>1. worker[w] \in Passes /\ worker[w].key \in Keys /\ row[worker[w].key] \in Rows
    BY <1>0 DEF Passes
  <2>2. PICK ra \in RetryAfters :
           row' = [row EXCEPT ![worker[w].key] = FinalRow(row[worker[w].key], worker[w], ra)]
    BY <1>7 DEF Finalize
  <2>3. FinalRow(row[worker[w].key], worker[w], ra) \in Rows
    BY <2>1, FinalRowDecides
  <2> QED
    BY <1>0, <1>7, <2>1, <2>2, <2>3, NoWorkTyped DEF Finalize
<1>8. ASSUME NEW w \in Workers, Abort(w) PROVE TypeOK'
  BY <1>0, <1>8, NoWorkTyped DEF Abort, history
<1>9. ASSUME Tick PROVE TypeOK'
  <2>1. row' \in [Keys -> Rows]
    BY <1>0, <1>9, TickAges
  <2>2. worker' \in [Workers -> Passes]
    BY <1>0, <1>9, TickAges
  <2> QED
    BY <1>0, <1>9, <2>1, <2>2 DEF Tick, history
<1>10. CASE UNCHANGED outboxVars
  BY <1>0, <1>10 DEF outboxVars, history
<1> QED
  BY <1>1, <1>2, <1>3, <1>4, <1>5, <1>6, <1>7, <1>8, <1>9, <1>10 DEF OutboxNext

-----------------------------------------------------------------------------
(***************************************************************************)
(* Steps.                                                                  *)
(***************************************************************************)

(* A step of one pass that leaves the table alone and, if it stays at      *)
(* work, its claim: start, read back, refuse, send, abort, and a claim     *)
(* that finds nothing.                                                     *)
LEMMA PassStep ==
    ASSUME IInv, OutboxTypeOK', NEW w \in Workers,
           \A v \in Workers \ {w} : worker'[v] = worker[v],
           row' = row, adopted' = adopted, accepted \subseteq accepted',
           AtWork(w)' => /\ AtWork(w)
                         /\ worker'[w].key = worker[w].key
                         /\ worker'[w].claim = worker[w].claim
                         /\ worker'[w].age = worker[w].age
    PROVE  ClaimInv' /\ SentWasAccepted'
<1>1. SentWasAccepted'
  BY DEF IInv, SentWasAccepted
<1>2. ASSUME NEW v \in Workers, AtWork(v)'
      PROVE  /\ AtWork(v) /\ worker'[v].key = worker[v].key
             /\ worker'[v].claim = worker[v].claim /\ worker'[v].age = worker[v].age
  BY <1>2 DEF AtWork
<1>3. ClaimInv'
  BY <1>2 DEF IInv, ClaimInv, Holds
<1> QED
  BY <1>1, <1>3

(* A pass that starts, ends or goes on without a request keeps the budget. *)
LEMMA NoRequest ==
    ASSUME IInv, OutboxTypeOK', NEW w \in Workers,
           \A v \in Workers \ {w} : worker'[v] = worker[v],
           \A k \in Keys : row'[k].attempts = row[k].attempts,
           sends' = sends,
           \A k \in Keys : w \in Owing(k)' => w \in Owing(k)
    PROVE  BudgetInv'
<1> SUFFICES ASSUME NEW k \in Keys
             PROVE  /\ row'[k].attempts =< MaxAttempts
                    /\ sends'[k] + Cardinality(Owing(k)') =< row'[k].attempts
  BY DEF BudgetInv
<1>1. Cardinality(Owing(k)') =< Cardinality(Owing(k))
  BY OwingShrinks DEF IInv
<1>2. Cardinality(Owing(k)) \in Nat /\ Cardinality(Owing(k)') \in Nat
  <2>1. IsFiniteSet(Owing(k)')
    <3>1. Owing(k)' \subseteq Workers
      BY DEF Owing
    <3> QED
      BY <3>1, OutboxAssumption, FS_Subset
  <2> QED
    BY <2>1, OwingFinite, FS_CardinalityType
<1>3. row[k].attempts \in Nat /\ sends[k] \in Nat /\ MaxAttempts \in Nat
  BY OutboxAssumption DEF IInv, OutboxTypeOK
<1> QED
  BY <1>1, <1>2, <1>3 DEF IInv, BudgetInv

(* Enqueue inserts a row and disturbs no other.                            *)
LEMMA EnqueueStep ==
    ASSUME IInv, OutboxTypeOK', NEW k \in Keys, Enqueue(k)
    PROVE  IInv'
<1>1. UNCHANGED <<row, worker, sends, accepted, adopted>>
  BY DEF Enqueue, history
<1> QED
  BY <1>1 DEF IInv, BudgetInv, Owing, ReceiptInv, SentWasAccepted, ClaimInv, AtWork, Holds

(* The steps of a pass that change nothing but the pass.                   *)
LEMMA OwnSteps ==
    ASSUME IInv, OutboxTypeOK', NEW w \in Workers, Start(w) \/ ReadBack(w) \/ Refuse(w) \/ Abort(w)
    PROVE  IInv'
<1>0. worker \in [Workers -> Passes] /\ UNCHANGED <<outbox, row, sends, accepted, adopted>>
  BY DEF IInv, OutboxTypeOK, Passes, Start, ReadBack, Refuse, Abort, history
<1>1. /\ \A v \in Workers \ {w} : worker'[v] = worker[v]
      /\ worker'[w].pc \in {"claimed", "ready", "answered"} =>
            /\ AtWork(w)
            /\ worker'[w].key = worker[w].key
            /\ worker'[w].claim = worker[w].claim
            /\ worker'[w].age = worker[w].age
      /\ worker'[w].pc \in {"claimed", "ready"} => worker[w].pc = "claimed"
      /\ worker'[w].pc = "answered" => worker'[w].receipt # "accepted"
  <2>1. CASE Start(w)
    BY <1>0, <2>1 DEF Start, NoWork
  <2>2. CASE ReadBack(w)
    BY <1>0, <2>2 DEF ReadBack, Passes, AtWork
  <2>3. CASE Refuse(w)
    BY <1>0, <2>3 DEF Refuse, Passes, AtWork
  <2>4. CASE Abort(w)
    BY <1>0, <2>4 DEF Abort, NoWork
  <2> QED
    BY <2>1, <2>2, <2>3, <2>4
<1>2. ClaimInv' /\ SentWasAccepted'
  <2>1. AtWork(w)' => worker'[w].pc \in {"claimed", "ready", "answered"}
    BY DEF AtWork
  <2> QED
    BY <1>0, <1>1, <2>1, PassStep
<1>3. BudgetInv'
  <2>1. \A k \in Keys : w \in Owing(k)' => w \in Owing(k)
    BY <1>1 DEF Owing
  <2> QED
    BY <1>0, <1>1, <2>1, NoRequest
<1>4. ReceiptInv'
  BY <1>0, <1>1 DEF IInv, ReceiptInv
<1> QED
  BY <1>2, <1>3, <1>4 DEF IInv

(* A request uses up what its pass was owing.                              *)
LEMMA SendStep ==
    ASSUME IInv, OutboxTypeOK', NEW w \in Workers, Send(w)
    PROVE  IInv'
<1>0. /\ worker \in [Workers -> Passes] /\ worker[w].key \in Keys
      /\ sends \in [Keys -> Nat] /\ row \in [Keys -> Rows]
  BY DEF IInv, OutboxTypeOK, Passes, Rows
<1>1. PICK receipt \in Receipts :
        /\ worker' = [worker EXCEPT ![w] = [@ EXCEPT !.pc = "answered", !.receipt = receipt]]
        /\ receipt = "accepted" => worker[w].key \in accepted'
        /\ accepted \subseteq accepted'
  BY DEF Send
<1>2. /\ \A v \in Workers \ {w} : worker'[v] = worker[v]
      /\ worker'[w].pc = "answered" /\ worker'[w].receipt = receipt
      /\ worker'[w].key = worker[w].key /\ worker'[w].claim = worker[w].claim
      /\ worker'[w].age = worker[w].age
  BY <1>0, <1>1 DEF Passes
<1>3. ClaimInv' /\ SentWasAccepted'
  <2>1. AtWork(w) /\ row' = row /\ adopted' = adopted
    BY DEF Send, AtWork
  <2> QED
    BY <1>1, <1>2, <2>1, PassStep
<1>4. ReceiptInv'
  BY <1>1, <1>2 DEF IInv, ReceiptInv
<1>5. ASSUME NEW k \in Keys
      PROVE  /\ row'[k].attempts =< MaxAttempts
             /\ sends'[k] + Cardinality(Owing(k)') =< row'[k].attempts
  <2>1. w \notin Owing(k)'
    BY <1>2 DEF Owing
  <2>2. Cardinality(Owing(k)) \in Nat
    BY OwingFinite
  <2>3. sends[k] \in Nat /\ row[k].attempts \in Nat /\ row' = row
    BY <1>0 DEF Rows, Send
  <2>4. CASE k = worker[w].key
    <3>1. w \in Owing(k) /\ sends'[k] = sends[k] + 1
      BY <1>0, <2>4 DEF Send, Owing
    <3>2. Cardinality(Owing(k)') = Cardinality(Owing(k)) - 1
      BY <1>2, <2>1, <3>1, OwingShrinks DEF IInv
    <3> QED
      BY <2>2, <2>3, <3>1, <3>2 DEF IInv, BudgetInv
  <2>5. CASE k # worker[w].key
    <3>1. w \notin Owing(k) /\ sends'[k] = sends[k]
      BY <1>0, <2>5 DEF Send, Owing
    <3>2. Owing(k)' = Owing(k)
      BY <1>2, <2>1, <3>1 DEF Owing
    <3> QED
      BY <2>2, <2>3, <3>1, <3>2 DEF IInv, BudgetInv
  <2> QED
    BY <2>4, <2>5
<1>6. BudgetInv'
  BY <1>5 DEF BudgetInv
<1> QED
  BY <1>3, <1>4, <1>6 DEF IInv

(* A claim takes a row whose claim, if it has one, is out of its lease,    *)
(* under a number no pass at work on the row has.                          *)
LEMMA ClaimStep ==
    ASSUME IInv, OutboxTypeOK', NEW w \in Workers, Claim(w)
    PROVE  IInv'
<1>0. /\ worker \in [Workers -> Passes] /\ row \in [Keys -> Rows] /\ sends \in [Keys -> Nat]
      /\ UNCHANGED <<outbox, sends, accepted, adopted>>
  BY DEF IInv, OutboxTypeOK, Passes, Rows, Claim, history
<1> DEFINE k == OldestDue
           claimed == ClaimedRow(row[k], worker[w].age)
<1>1. CASE DueKeys = {} \/ (DueKeys # {} /\ row[k].attempts >= MaxAttempts)
  <2>1. worker' = [worker EXCEPT ![w] = NoWork]
    <3>1. CASE DueKeys = {}
      BY <3>1 DEF Claim
    <3>2. CASE DueKeys # {} /\ row[k].attempts >= MaxAttempts
      <4>1. row[k] \in Rows /\ worker[w].age \in 0 .. Lease
        BY <1>0, <3>2, OldestDueIsDue DEF IInv, Passes
      <4>2. claimed.status = "DISCARDED"
        BY <3>2, <4>1, ClaimedRowTyped
      <4> QED
        BY <3>2, <4>2 DEF Claim
    <3> QED
      BY <1>1, <3>1, <3>2
  <2>2. \A v \in Workers \ {w} : worker'[v] = worker[v]
    BY <1>0, <2>1
  <2>3. worker'[w].pc = "idle"
    BY <1>0, <2>1 DEF NoWork
  <2>4. \A j \in Keys : row'[j] = row[j] \/
           (Due(row[j]) /\ row'[j].status = "DISCARDED" /\ row'[j].attempts = row[j].attempts)
    <3>1. CASE DueKeys = {}
      BY <3>1 DEF Claim
    <3>2. CASE DueKeys # {} /\ row[k].attempts >= MaxAttempts
      <4>1. k \in Keys /\ Due(row[k]) /\ row[k] \in Rows /\ worker[w].age \in 0 .. Lease
        BY <1>0, <3>2, OldestDueIsDue DEF IInv, Passes
      <4>2. claimed.status = "DISCARDED" /\ claimed.attempts = row[k].attempts
        BY <3>2, <4>1, ClaimedRowTyped
      <4>3. row' = [row EXCEPT ![k] = claimed]
        BY <3>2 DEF Claim
      <4> HIDE DEF k, claimed
      <4> QED
        BY <1>0, <4>1, <4>2, <4>3
    <3> QED
      BY <1>1, <3>1, <3>2
  <2>5. BudgetInv'
    <3>1. \A j \in Keys : w \notin Owing(j)'
      BY <2>3 DEF Owing
    <3> QED
      BY <1>0, <2>2, <2>4, <3>1, NoRequest
  <2>6. ReceiptInv' /\ SentWasAccepted'
    BY <1>0, <2>2, <2>3, <2>4 DEF IInv, ReceiptInv, SentWasAccepted
  <2>7. ClaimInv'
    <3>1. ASSUME NEW v \in Workers, AtWork(v)'
          PROVE v # w /\ AtWork(v) /\ worker'[v] = worker[v] /\ worker[v].key \in Keys
                  /\ worker[v].age \in 0 .. Lease
      BY <1>0, <2>2, <2>3, <3>1 DEF AtWork, Passes
    <3>2. ASSUME NEW v \in Workers, AtWork(v)', worker[v].age < Lease, worker[v].key \notin adopted
          PROVE row'[worker[v].key] = row[worker[v].key]
      <4>1. Holds(row[worker[v].key], worker[v].claim) /\ row[worker[v].key].timer = worker[v].age
        BY <3>1, <3>2 DEF IInv, ClaimInv
      <4>2. ~Due(row[worker[v].key])
        BY <3>1, <3>2, <4>1, OutboxAssumption DEF Due, Holds
      <4> QED
        BY <2>4, <3>1, <3>2, <4>2
    <3> QED
      BY <1>0, <2>4, <3>1, <3>2 DEF IInv, ClaimInv, Holds
  <2> QED
    BY <2>5, <2>6, <2>7 DEF IInv
<1>2. CASE DueKeys # {} /\ ~(row[k].attempts >= MaxAttempts)
  <2>1. k \in Keys /\ Due(row[k]) /\ row[k] \in Rows /\ worker[w].age \in 0 .. Lease
    BY <1>0, <1>2, OldestDueIsDue DEF IInv, Passes
  <2>2. claimed = [status |-> "SENDING", attempts |-> row[k].attempts + 1,
                   token |-> row[k].attempts + 1, timer |-> worker[w].age]
    BY <1>2, <2>1, ClaimedRowTyped
  <2>3. row' = [row EXCEPT ![k] = claimed]
    BY <1>2 DEF Claim
  <2>4. worker' = [worker EXCEPT ![w] = [worker[w] EXCEPT !.pc = "claimed", !.key = k,
                                                          !.claim = claimed.token]]
    BY <1>2, <2>2 DEF Claim
  <2>5. worker[w].pc = "started"
    BY DEF Claim
  <2>6. row[k].attempts \in Nat /\ row[k].attempts < MaxAttempts /\ MaxAttempts \in Nat
    BY <1>2, <2>1, OutboxAssumption DEF Rows
  <2> HIDE DEF k, claimed
  <2>7. /\ \A v \in Workers \ {w} : worker'[v] = worker[v]
        /\ worker'[w].pc = "claimed" /\ worker'[w].key = k
        /\ worker'[w].claim = row[k].attempts + 1 /\ worker'[w].age = worker[w].age
    BY <1>0, <2>2, <2>4 DEF Passes
  <2>8. /\ row'[k].status = "SENDING" /\ row'[k].attempts = row[k].attempts + 1
        /\ row'[k].token = row[k].attempts + 1 /\ row'[k].timer = worker[w].age
        /\ \A j \in Keys \ {k} : row'[j] = row[j]
    BY <1>0, <2>1, <2>2, <2>3
  <2>9. ReceiptInv' /\ SentWasAccepted'
    BY <1>0, <2>7, <2>8 DEF IInv, ReceiptInv, SentWasAccepted
  <2>10. ASSUME NEW j \in Keys
         PROVE  /\ row'[j].attempts =< MaxAttempts
                /\ sends'[j] + Cardinality(Owing(j)') =< row'[j].attempts
    <3>1. w \notin Owing(j)
      BY <2>5 DEF Owing
    <3>2. Cardinality(Owing(j)) \in Nat /\ sends[j] \in Nat /\ sends' = sends
      BY <1>0, OwingFinite
    <3>3. CASE j = k
      <4>1. w \in Owing(j)'
        BY <2>7, <3>3 DEF Owing
      <4>2. Cardinality(Owing(j)') = Cardinality(Owing(j)) + 1
        BY <2>7, <3>1, <4>1, OwingGrows DEF IInv
      <4> QED
        BY <2>6, <2>8, <3>2, <3>3, <4>2 DEF IInv, BudgetInv
    <3>4. CASE j # k
      <4>1. Owing(j)' = Owing(j)
        BY <2>5, <2>7, <3>4 DEF Owing
      <4> QED
        BY <2>8, <3>2, <3>4, <4>1 DEF IInv, BudgetInv
    <3> QED
      BY <3>3, <3>4
  <2>11. BudgetInv'
    BY <2>10 DEF BudgetInv
  <2>12. ASSUME NEW v \in Workers, v # w, AtWork(v)'
         PROVE  /\ AtWork(v) /\ worker'[v] = worker[v]
                /\ worker[v].key \in Keys /\ worker[v].claim \in Nat
                /\ worker[v].claim =< row[worker[v].key].attempts
                /\ row[worker[v].key].attempts \in Nat
                /\ worker[v].age \in 0 .. Lease
    <3>1. worker'[v] = worker[v]
      BY <2>7, <2>12
    <3>2. AtWork(v)
      BY <2>12, <3>1 DEF AtWork
    <3>3. worker[v] \in Passes /\ worker[v].key \in Keys
      BY <1>0 DEF Passes
    <3> QED
      BY <1>0, <3>1, <3>2, <3>3 DEF IInv, ClaimInv, Passes, Rows
  <2>13. ASSUME NEW v \in Workers, v # w, AtWork(v)', worker[v].age < Lease,
                worker[v].key \notin adopted
         PROVE  worker[v].key # k
    <3>1. Holds(row[worker[v].key], worker[v].claim) /\ row[worker[v].key].timer = worker[v].age
      BY <2>12, <2>13 DEF IInv, ClaimInv
    <3> QED
      BY <2>1, <2>12, <2>13, <3>1, OutboxAssumption DEF Due, Holds
  <2>14. ClaimInv'
    <3>1. \A j \in Keys : row'[j].status = "SENDING" => row'[j].token = row'[j].attempts
      BY <2>8 DEF IInv, ClaimInv
    <3>2. ASSUME NEW v \in Workers, AtWork(v)'
          PROVE  /\ worker'[v].claim =< row'[worker'[v].key].attempts
                 /\ worker'[v].age < Lease /\ worker'[v].key \notin adopted' =>
                       /\ Holds(row'[worker'[v].key], worker'[v].claim)
                       /\ row'[worker'[v].key].timer = worker'[v].age
      <4>1. CASE v = w
        BY <2>6, <2>7, <2>8, <4>1 DEF Holds
      <4>2. CASE v # w
        <5>1. worker'[v].claim =< row'[worker'[v].key].attempts
          BY <2>8, <2>12, <3>2, <4>2
        <5>2. ASSUME worker[v].age < Lease, worker[v].key \notin adopted
              PROVE  /\ Holds(row[worker[v].key], worker[v].claim)
                     /\ row[worker[v].key].timer = worker[v].age
                     /\ row'[worker[v].key] = row[worker[v].key]
          BY <2>8, <2>12, <2>13, <3>2, <4>2, <5>2 DEF IInv, ClaimInv
        <5> QED
          BY <1>0, <2>12, <3>2, <4>2, <5>1, <5>2
      <4> QED
        BY <4>1, <4>2
    <3>3. ASSUME NEW u \in Workers, NEW v \in Workers, u # v, AtWork(u)', AtWork(v)',
                 worker'[u].key = worker'[v].key
          PROVE  worker'[u].claim # worker'[v].claim
      <4>1. CASE u = w
        BY <2>6, <2>7, <2>12, <3>3, <4>1
      <4>2. CASE v = w
        BY <2>6, <2>7, <2>12, <3>3, <4>2
      <4>3. CASE u # w /\ v # w
        BY <2>12, <3>3, <4>3 DEF IInv, ClaimInv
      <4> QED
        BY <4>1, <4>2, <4>3
    <3> QED
      BY <3>1, <3>2, <3>3 DEF ClaimInv, Holds
  <2> QED
    BY <2>9, <2>11, <2>14 DEF IInv
<1> QED
  BY <1>1, <1>2

(* _finalize decides a row only under the row's own token.  Either the     *)
(* pass made that claim, and no other pass within its lease has it, or the *)
(* key goes down as adopted.                                               *)
LEMMA FinalizeStep ==
    ASSUME IInv, OutboxTypeOK', NEW w \in Workers, Finalize(w)
    PROVE  IInv'
<1>0. /\ worker \in [Workers -> Passes] /\ row \in [Keys -> Rows] /\ sends \in [Keys -> Nat]
      /\ UNCHANGED <<outbox, sends, accepted>>
  BY DEF IInv, OutboxTypeOK, Passes, Rows, Finalize
<1> DEFINE k == worker[w].key
           held == Holds(row[k], worker[w].token)
<1>1. k \in Keys /\ worker[w] \in Passes /\ row[k] \in Rows /\ worker[w].pc = "answered"
  BY <1>0 DEF Passes, Finalize
<1>2. PICK ra \in RetryAfters : row' = [row EXCEPT ![k] = FinalRow(row[k], worker[w], ra)]
  BY DEF Finalize
<1> DEFINE final == FinalRow(row[k], worker[w], ra)
<1>3. /\ final.attempts = row[k].attempts
      /\ ~held => final = row[k]
      /\ held => final.status \in {"SENT", "FAILED", "DISCARDED"}
      /\ final.status = "SENT" => row[k].status = "SENT" \/ worker[w].receipt = "accepted"
  BY <1>1, FinalRowDecides
<1>4. /\ \A v \in Workers \ {w} : worker'[v] = worker[v]
      /\ worker'[w].pc = "idle"
  BY <1>0 DEF Finalize, NoWork
<1>5. adopted' = IF held /\ worker[w].claim # worker[w].token THEN adopted \cup {k} ELSE adopted
  BY DEF Finalize
<1>6. row'[k] = final /\ \A j \in Keys \ {k} : row'[j] = row[j]
  BY <1>0, <1>1, <1>2
<1> HIDE DEF k, held, final
<1>7. BudgetInv'
  <2>1. \A j \in Keys : w \notin Owing(j)'
    BY <1>4 DEF Owing
  <2>2. \A j \in Keys : row'[j].attempts = row[j].attempts
    BY <1>3, <1>6
  <2> QED
    BY <1>0, <1>4, <2>1, <2>2, NoRequest
<1>8. ReceiptInv'
  BY <1>0, <1>4 DEF IInv, ReceiptInv
<1>9. SentWasAccepted'
  BY <1>0, <1>1, <1>3, <1>6 DEF IInv, SentWasAccepted, ReceiptInv, k
<1>10. ASSUME NEW v \in Workers, AtWork(v)'
       PROVE  v # w /\ AtWork(v) /\ worker'[v] = worker[v] /\ worker[v].key \in Keys
  BY <1>0, <1>4, <1>10 DEF AtWork, Passes
<1>11. ASSUME NEW v \in Workers, AtWork(v)', worker[v].age < Lease, worker[v].key \notin adopted'
       PROVE  /\ Holds(row[worker[v].key], worker[v].claim)
              /\ row[worker[v].key].timer = worker[v].age
              /\ row'[worker[v].key] = row[worker[v].key]
  <2>1. worker[v].key \notin adopted
    BY <1>5, <1>11
  <2>2. /\ Holds(row[worker[v].key], worker[v].claim)
        /\ row[worker[v].key].timer = worker[v].age
    BY <1>10, <1>11, <2>1 DEF IInv, ClaimInv
  <2>3. worker[v].key = k => ~held
    <3> SUFFICES ASSUME worker[v].key = k, held PROVE FALSE
      OBVIOUS
    <3>1. worker[w].claim = worker[w].token
      BY <1>5, <1>11
    <3>2. worker[v].claim = worker[w].claim
      BY <2>2, <3>1 DEF held, Holds
    <3>3. AtWork(w)
      BY <1>1 DEF AtWork
    <3> QED
      BY <1>10, <1>11, <3>2, <3>3 DEF IInv, ClaimInv, k
  <2> QED
    BY <1>3, <1>6, <1>10, <1>11, <2>2, <2>3
<1>12. ClaimInv'
  <2>1. \A j \in Keys : row'[j].status = "SENDING" => row'[j].token = row'[j].attempts
    BY <1>1, <1>3, <1>6 DEF IInv, ClaimInv
  <2>2. \A v \in Workers : AtWork(v)' =>
           worker'[v].claim =< row'[worker'[v].key].attempts
    BY <1>3, <1>6, <1>10 DEF IInv, ClaimInv
  <2> QED
    BY <1>10, <1>11, <2>1, <2>2 DEF IInv, ClaimInv, Holds
<1> QED
  BY <1>7, <1>8, <1>9, <1>12 DEF IInv

(* A tick ages a claim and the pass that made it alike.                    *)
LEMMA TickStep ==
    ASSUME IInv, OutboxTypeOK', Tick
    PROVE  IInv'
<1>0. /\ worker \in [Workers -> Passes] /\ row \in [Keys -> Rows]
      /\ UNCHANGED <<outbox, sends, accepted, adopted>>
  BY DEF IInv, OutboxTypeOK, Passes, Rows, Tick, history
<1>1. /\ row' = [k \in Keys |-> Older(row[k])]
      /\ worker' = [w \in Workers |-> AgedPass(worker[w])]
  BY TickAges DEF IInv
<1>2. ASSUME NEW k \in Keys
      PROVE  /\ row'[k].status = row[k].status /\ row'[k].attempts = row[k].attempts
             /\ row'[k].token = row[k].token
             /\ row[k].status = "SENDING" =>
                   row'[k].timer = IF row[k].timer < Lease THEN row[k].timer + 1 ELSE row[k].timer
  <2>1. row[k] \in Rows /\ row'[k] = Older(row[k])
    BY <1>0, <1>1
  <2> QED
    BY <2>1 DEF Older, Rows
<1>3. ASSUME NEW w \in Workers
      PROVE  /\ worker'[w].pc = worker[w].pc /\ worker'[w].key = worker[w].key
             /\ worker'[w].claim = worker[w].claim /\ worker'[w].receipt = worker[w].receipt
             /\ worker[w].pc # "idle" =>
                   worker'[w].age = IF worker[w].age < Lease THEN worker[w].age + 1 ELSE worker[w].age
             /\ worker[w].key \in Keys /\ worker[w].age \in 0 .. Lease
  <2>1. worker[w] \in Passes /\ worker'[w] = AgedPass(worker[w])
    BY <1>0, <1>1
  <2> QED
    BY <2>1 DEF AgedPass, Passes
<1>4. ReceiptInv' /\ SentWasAccepted'
  BY <1>0, <1>2, <1>3 DEF IInv, ReceiptInv, SentWasAccepted
<1>5. BudgetInv'
  <2>1. \A k \in Keys : Owing(k)' = Owing(k)
    BY <1>3 DEF Owing
  <2> QED
    BY <1>0, <1>2, <2>1 DEF IInv, BudgetInv
<1>6. ASSUME NEW w \in Workers
      PROVE  /\ AtWork(w)' = AtWork(w)
             /\ AtWork(w)' => worker[w].pc # "idle"
  BY <1>3 DEF AtWork
<1>7. ASSUME NEW w \in Workers, AtWork(w), worker'[w].age < Lease, worker[w].key \notin adopted
      PROVE  /\ Holds(row'[worker[w].key], worker[w].claim)
             /\ row'[worker[w].key].timer = worker'[w].age
  <2>1. worker[w].age < Lease
    BY <1>3, <1>6, <1>7, OutboxAssumption
  <2>2. Holds(row[worker[w].key], worker[w].claim) /\ row[worker[w].key].timer = worker[w].age
    BY <1>7, <2>1 DEF IInv, ClaimInv
  <2> QED
    BY <1>2, <1>3, <1>6, <1>7, <2>1, <2>2 DEF Holds
<1>8. ClaimInv'
  <2>1. \A k \in Keys : row'[k].status = "SENDING" => row'[k].token = row'[k].attempts
    BY <1>2 DEF IInv, ClaimInv
  <2>2. \A w \in Workers : AtWork(w)' => worker'[w].claim =< row'[worker'[w].key].attempts
    BY <1>2, <1>3, <1>6 DEF IInv, ClaimInv
  <2>3. \A v, w \in Workers :
          v # w /\ AtWork(v)' /\ AtWork(w)' /\ worker'[v].key = worker'[w].key
             => worker'[v].claim # worker'[w].claim
    BY <1>3, <1>6 DEF IInv, ClaimInv
  <2>4. \A w \in Workers : AtWork(w)' /\ worker'[w].age < Lease /\ worker'[w].key \notin adopted' =>
                /\ Holds(row'[worker'[w].key], worker'[w].claim)
                /\ row'[worker'[w].key].timer = worker'[w].age
    BY <1>0, <1>3, <1>6, <1>7
  <2> QED
    BY <2>1, <2>2, <2>3, <2>4 DEF ClaimInv, Holds
<1> QED
  BY <1>4, <1>5, <1>8 DEF IInv

-----------------------------------------------------------------------------
(***************************************************************************)
(* The theorems.                                                           *)
(***************************************************************************)

(* IInv is inductive.                                                      *)
LEMMA Inductive == OutboxSpec => []IInv
<1>1. ASSUME OutboxInit PROVE IInv
  <2>0. 0 \in Timers
    BY TimerRange, OutboxAssumption
  <2>1. OutboxTypeOK
    BY <1>1, <2>0, NoWorkTyped DEF OutboxInit, OutboxTypeOK, NewRow, Statuses, Passes
  <2>2. \A w \in Workers : worker[w].pc = "idle"
    BY <1>1 DEF OutboxInit, NoWork
  <2>3. BudgetInv
    <3>1. \A k : Owing(k) = {}
      BY <2>2 DEF Owing
    <3>2. \A k \in Keys : row[k].attempts = 0 /\ sends[k] = 0
      BY <1>1 DEF OutboxInit, NewRow
    <3>3. Cardinality({}) = 0
      BY FS_EmptySet
    <3>4. \A k \in Keys : sends[k] + Cardinality(Owing(k)) = 0
      BY <3>1, <3>2, <3>3
    <3> QED
      BY <3>2, <3>4, OutboxAssumption DEF BudgetInv
  <2>4. ReceiptInv /\ SentWasAccepted /\ ClaimInv
    <3>1. \A k \in Keys : row[k].status = "PENDING"
      BY <1>1 DEF OutboxInit, NewRow
    <3> QED
      BY <2>2, <3>1 DEF ReceiptInv, SentWasAccepted, ClaimInv, AtWork
  <2> QED
    BY <2>1, <2>3, <2>4 DEF IInv
<1>2. ASSUME IInv, [OutboxNext]_outboxVars PROVE IInv'
  <2>0. OutboxTypeOK'
    BY <1>2, Types DEF IInv
  <2>1. ASSUME NEW k \in Keys, Enqueue(k) PROVE IInv'
    BY <1>2, <2>0, <2>1, EnqueueStep
  <2>2. ASSUME NEW w \in Workers, Start(w) \/ ReadBack(w) \/ Refuse(w) \/ Abort(w) PROVE IInv'
    BY <1>2, <2>0, <2>2, OwnSteps
  <2>3. ASSUME NEW w \in Workers, Claim(w) PROVE IInv'
    BY <1>2, <2>0, <2>3, ClaimStep
  <2>4. ASSUME NEW w \in Workers, Send(w) PROVE IInv'
    BY <1>2, <2>0, <2>4, SendStep
  <2>5. ASSUME NEW w \in Workers, Finalize(w) PROVE IInv'
    BY <1>2, <2>0, <2>5, FinalizeStep
  <2>6. ASSUME Tick PROVE IInv'
    BY <1>2, <2>0, <2>6, TickStep
  <2>7. CASE UNCHANGED outboxVars
    BY <1>2, <2>0, <2>7 DEF outboxVars, history, IInv, BudgetInv, Owing, ReceiptInv,
                            SentWasAccepted, ClaimInv, AtWork, Holds
  <2> QED
    BY <1>2, <2>1, <2>2, <2>3, <2>4, <2>5, <2>6, <2>7 DEF OutboxNext
<1> QED
  BY <1>1, <1>2, PTL DEF OutboxSpec

(* _claim counts before anything is sent and refuses a row at the ceiling, *)
(* so no row is ever sent more than MaxAttempts times, and SENT is only    *)
(* recorded for a notification a transport accepted.                       *)
THEOREM OutboxSafe == OutboxSpec => []OutboxInv
<1>1. ASSUME IInv PROVE OutboxInv
  <2>1. ASSUME NEW k \in Keys PROVE sends[k] =< MaxAttempts
    <3>1. /\ Cardinality(Owing(k)) \in Nat /\ sends[k] \in Nat
          /\ row[k].attempts \in Nat /\ MaxAttempts \in Nat
      BY <1>1, OwingFinite, OutboxAssumption DEF IInv, OutboxTypeOK
    <3> QED
      BY <1>1, <3>1 DEF IInv, BudgetInv
  <2> QED
    BY <1>1, <2>1 DEF IInv, OutboxInv, SendsWithinBudget
<1> QED
  BY <1>1, Inductive, PTL

(* The lease excludes a second sender unless a pass that outlived its own  *)
(* lease read back, and then decided, the claim of another.                *)
THEOREM LeaseExcludes == OutboxSpec => []OneSenderPerLease
<1>1. ASSUME IInv PROVE OneSenderPerLease
  <2> SUFFICES ASSUME NEW v \in Workers, NEW w \in Workers, v # w, AtWork(v), AtWork(w),
                      worker[v].key = worker[w].key,
                      worker[v].age # Lease, worker[w].age # Lease,
                      worker[v].key \notin adopted
               PROVE  FALSE
    BY DEF OneSenderPerLease
  <2>1. worker[v].age < Lease /\ worker[w].age < Lease
    BY <1>1, OutboxAssumption DEF IInv, OutboxTypeOK
  <2>2. worker[v].claim = worker[w].claim
    BY <1>1, <2>1 DEF IInv, ClaimInv, Holds
  <2> QED
    BY <1>1, <2>2 DEF IInv, ClaimInv
<1> QED
  BY <1>1, Inductive, PTL

=============================================================================
