------------------------- MODULE ExternalWaitsProofs -------------------------
(***************************************************************************)
(* What holds of the external waits for any number of rows, jobs, service  *)
(* processes and rows per pass: a waiting job has exactly one open row     *)
(* (WaitsSafe), and a CI wait never ends in SUCCESS unless each required   *)
(* check was SUCCESS while it was open (GreenSeen).                        *)
(*                                                                         *)
(* The invariant ties the line of due rows to the rows, the passes to the  *)
(* rows they were listed from, and what a pass has read to what the        *)
(* provider has shown since the row was entered.                           *)
(***************************************************************************)
EXTENDS ExternalWaits, FiniteSetTheorems, TLAPS

Reads ==
    [pr : {"none", "unknown"} \cup PrStates \cup ReadErrors,
     concl : [Required -> Conclusions]]

States ==
    {"none", "PENDING", "READY", "UNKNOWN", "STALE", "CLOSED", "SUCCESS", "FAILURE",
     "NO_CHECKS_CONFIGURED"} \cup ReadErrors

Whys == {"none", "WAIT_EVENT", "WAIT_DEADLINE"}

Rows ==
    [status : {"none", "open", "terminal"}, state : States,
     names : SUBSET Required, attempt : 0 .. Len(BACKOFF_MINUTES), check : Nat,
     left : 0 .. DeadlineMinutes, why : Whys]

Items ==
    [w : Waits, attempt : 0 .. Len(BACKOFF_MINUTES), names : SUBSET Required,
     late : BOOLEAN]

Outcomes ==
    [kind : {"none", "wake", "backoff"}, state : States,
     names : SUBSET Required, why : Whys]

Procs ==
    [at : {"stopped", "idle", "wait", "ci", "statuses"}, todo : Seq(Items),
     read : Reads, out : Outcomes]

Types ==
    /\ job \in [Jobs -> {"RUNNING", "WAITING_EXTERNAL", "QUEUED"}]
    /\ row \in [Waits -> Rows]
    /\ holder \in Instances
    /\ proc \in [Instances -> Procs]
    /\ pr \in PrStates
    /\ checks \in [Required -> Conclusions]
    /\ seen \in [Waits -> SUBSET Required]

\* The line holds each open row whose next_check_at has passed, once.
LineInv ==
    /\ line \in Seq(Waits)
    /\ IsInjective(line)
    /\ \A k \in DOMAIN line : Open(line[k]) /\ row[line[k]].check = 0
    /\ \A w \in Waits : Open(w) /\ row[w].check = 0 => w \in Range(line)

\* Open rows and waiting jobs correspond one to one.
OneOpen ==
    /\ \A w \in Waits : Open(w) => job[JobOf[w]] = "WAITING_EXTERNAL"
    /\ \A v, w \in Waits : Open(v) /\ Open(w) /\ JobOf[v] = JobOf[w] => v = w
    /\ \A j \in Jobs : job[j] = "WAITING_EXTERNAL" =>
         \E w \in Waits : JobOf[w] = j /\ Open(w)

\* A pass reads for the first row of its list, decides once, and its list
\* names rows that were entered.
PassInv(p) ==
    /\ p.at \in {"stopped", "idle"} => p.todo = <<>>
    /\ p.todo = <<>> => p.read = NoRead /\ p.out = NoOutcome
    /\ p.out # NoOutcome \/ p.at = "wait" => p.read = NoRead
    /\ \A k \in DOMAIN p.todo : row[p.todo[k].w].status # "none"

\* What a pass has read, and what it has concluded, was shown while the row
\* was open.
ShownTo(p) ==
    p.todo # <<>> /\ Open(p.todo[1].w) =>
      /\ \A c \in Required : p.read.concl[c] = "SUCCESS" => c \in seen[p.todo[1].w]
      /\ p.out.state = "SUCCESS" => Required \subseteq seen[p.todo[1].w]

SeenInv ==
    /\ \A w \in Waits : Open(w) =>
         \A c \in Required : checks[c] = "SUCCESS" => c \in seen[w]
    /\ \A w \in CiWaits : row[w].state = "SUCCESS" => Required \subseteq seen[w]
    /\ \A i \in Instances : ShownTo(proc[i])

IInv ==
    /\ Types
    /\ LineInv
    /\ OneOpen
    /\ \A i \in Instances : PassInv(proc[i])
    /\ SeenInv

----------------------------------------------------------------------------
(* The line of due rows, the lists taken from it, and the decisions.       *)

\* Cap is the smaller of two numbers.
LEMMA CapTyped ==
  ASSUME NEW n \in Nat, NEW most \in Nat
  PROVE  /\ Cap(n, most) \in 0 .. most
         /\ Cap(n, most) =< n
         /\ n > 0 /\ most > 0 => Cap(n, most) > 0
BY DEF Cap

\* Taking a row out of the line leaves every other row in it, once.
LEMMA DropLine ==
  ASSUME line \in Seq(Waits), IsInjective(line), NEW w \in Waits, Drop(w)
  PROVE  /\ line' \in Seq(Waits)
         /\ IsInjective(line')
         /\ \A k \in DOMAIN line' : line'[k] # w /\ line'[k] \in Range(line)
         /\ \A v \in Range(line) : v # w => v \in Range(line')
<1>1. CASE w \notin Range(line)
  BY <1>1 DEF Drop, Range
<1>2. CASE w \in Range(line)
  <2> DEFINE k == CHOOSE n \in DOMAIN line : line[n] = w
  <2>1. k \in 1 .. Len(line) /\ line[k] = w
    BY <1>2 DEF Range
  <2>2. line' = SubSeq(line, 1, k - 1) \o SubSeq(line, k + 1, Len(line))
    BY <1>2 DEF Drop, RemoveAt
  <2> HIDE DEF k
  <2>3. /\ line' \in Seq(Waits)
        /\ Len(line') = Len(line) - 1
        /\ \A n \in 1 .. Len(line) - 1 :
             line'[n] = IF n < k THEN line[n] ELSE line[n + 1]
    <3> DEFINE a == SubSeq(line, 1, k - 1)
               b == SubSeq(line, k + 1, Len(line))
    <3>1. /\ a \in Seq(Waits)
          /\ Len(a) = k - 1
          /\ \A n \in 1 .. k - 1 : a[n] = line[n]
      BY <2>1
    <3>2. /\ b \in Seq(Waits)
          /\ Len(b) = Len(line) - k
          /\ \A n \in 1 .. Len(line) - k : b[n] = line[n + k]
      BY <2>1
    <3> HIDE DEF a, b
    <3>3. line' = a \o b
      BY <2>2 DEF a, b
    <3>4. /\ a \o b \in Seq(Waits)
          /\ Len(a \o b) = Len(line) - 1
      <4>1. a \o b \in Seq(Waits) /\ Len(a \o b) = Len(a) + Len(b)
        BY <3>1, <3>2
      <4>2. Len(line) \in Nat
        OBVIOUS
      <4> QED
        BY <4>1, <4>2, <3>1, <3>2, <2>1
    <3>5. ASSUME NEW n \in 1 .. Len(line) - 1
          PROVE  (a \o b)[n] = IF n < k THEN line[n] ELSE line[n + 1]
      <4>1. CASE n < k
        BY <4>1, <3>1, <3>2, <2>1
      <4>2. CASE ~(n < k)
        <5>1. (a \o b)[n] = b[n - Len(a)]
          BY <4>2, <3>1, <3>2, <2>1
        <5>2. n - Len(a) \in 1 .. Len(line) - k /\ n - Len(a) + k = n + 1
          BY <4>2, <3>1, <2>1
        <5> QED
          BY <4>2, <5>1, <5>2, <3>2
      <4> QED
        BY <4>1, <4>2
    <3> QED
      BY <3>3, <3>4, <3>5
  <2>4. DOMAIN line' = 1 .. Len(line) - 1 /\ DOMAIN line = 1 .. Len(line)
    BY <2>3
  <2>5. IsInjective(line')
    <3> SUFFICES ASSUME NEW m \in 1 .. Len(line) - 1, NEW n \in 1 .. Len(line) - 1,
                        line'[m] = line'[n]
                 PROVE  m = n
      BY <2>4 DEF IsInjective
    <3> DEFINE At(h) == IF h < k THEN h ELSE h + 1
    <3>1. /\ At(m) \in DOMAIN line /\ line'[m] = line[At(m)]
          /\ At(n) \in DOMAIN line /\ line'[n] = line[At(n)]
      BY <2>1, <2>3, <2>4
    <3>2. At(m) = At(n)
      BY <3>1 DEF IsInjective
    <3> QED
      BY <3>2, <2>1
  <2>6. \A n \in DOMAIN line' : line'[n] # w /\ line'[n] \in Range(line)
    BY <2>1, <2>3, <2>4 DEF IsInjective, Range
  <2>7. ASSUME NEW v \in Range(line), v # w
        PROVE  v \in Range(line')
    <3>1. PICK n \in 1 .. Len(line) : line[n] = v
      BY <2>4 DEF Range
    <3>2. n # k
      BY <3>1, <2>1, <2>7
    <3>3. CASE n < k
      BY <3>1, <3>3, <2>1, <2>3, <2>4 DEF Range
    <3>4. CASE n > k
      <4>1. n - 1 \in DOMAIN line' /\ line'[n - 1] = line[n]
        BY <3>4, <2>1, <2>3, <2>4
      <4> QED
        BY <3>1, <4>1 DEF Range
    <3> QED
      BY <3>2, <3>3, <3>4, <2>1
  <2> QED
    BY <2>3, <2>5, <2>6, <2>7
<1> QED
  BY <1>1, <1>2

\* A list has only open rows, and copies them as they are.
LEMMA ListTyped ==
  ASSUME Types, LineInv, NEW kinds, NEW ws \in list_due_external_waits(kinds)
  PROVE  /\ Snapshot(ws) \in Seq(Items)
         /\ \A k \in DOMAIN Snapshot(ws) : row[Snapshot(ws)[k].w].status # "none"
<1> DEFINE mine == (Range(line) \cup DeadlineOnly) \cap kinds
           n == Cap(MaxItems, Cardinality(mine))
<1>1. mine \subseteq Waits /\ \A w \in mine : Open(w)
  BY DEF LineInv, Range, DeadlineOnly
<1>2. n \in Nat
  <2>1. IsFiniteSet(mine)
    BY <1>1, FS_Subset, WaitsAssumption
  <2> HIDE DEF mine
  <2>2. Cardinality(mine) \in Nat
    BY <2>1, FS_CardinalityType
  <2> QED
    BY <2>2, WaitsAssumption DEF Cap
<1>3. ws \in [1 .. n -> mine]
  BY DEF list_due_external_waits, Injection
<1> HIDE DEF n, mine
<1>4. DOMAIN Snapshot(ws) = 1 .. n
  BY <1>3 DEF Snapshot
<1>5. ASSUME NEW k \in 1 .. n
      PROVE  Snapshot(ws)[k] \in Items /\ row[Snapshot(ws)[k].w].status = "open"
  <2>1. ws[k] \in Waits /\ Open(ws[k])
    BY <1>1, <1>3
  <2>2. Snapshot(ws)[k] = [w |-> ws[k], attempt |-> row[ws[k]].attempt,
                           names |-> row[ws[k]].names, late |-> row[ws[k]].left = 0]
    BY <1>3 DEF Snapshot
  <2> QED
    BY <2>1, <2>2 DEF Types, Rows, Items, Open
<1>6. Snapshot(ws) \in Seq(Items)
  <2>1. Snapshot(ws) \in [1 .. n -> Items]
    BY <1>4, <1>5 DEF Snapshot
  <2> QED
    BY <2>1, <1>2
<1> QED
  BY <1>4, <1>5, <1>6

\* The general checker concludes nothing about required checks.
LEMMA WaitDecision ==
  ASSUME NEW item \in Items, NEW obs \in [usable : BOOLEAN, state : {"PENDING", "READY"}]
  PROVE  /\ _process_wait(item, obs) \in Outcomes
         /\ _process_wait(item, obs).kind # "none"
         /\ _process_wait(item, obs).state # "SUCCESS"
<1>1. obs.state \in {"PENDING", "READY"}
  OBVIOUS
<1>2. _process_wait(item, obs) \in
        {Wake("WAIT_DEADLINE", "none", {}), Wake("WAIT_EVENT", "READY", {}),
         Backoff(obs.state, {})}
  BY Zenon DEF _process_wait
<1> QED
  BY <1>1, <1>2 DEF Wake, Backoff, Outcomes, States, Whys

\* A decision of SUCCESS rests on every required check read as SUCCESS.
LEMMA CiDecision ==
  ASSUME NEW item \in Items, NEW read \in Reads
  PROVE  /\ _process_ci_wait(item, read) \in Outcomes
         /\ _process_ci_wait(item, read).state = "SUCCESS" =>
              \A c \in Required : read.concl[c] = "SUCCESS"
<1> DEFINE agg == aggregate_ci_state(read.concl)
           names == Names(read.concl)
<1>1. agg \in {"NO_CHECKS_CONFIGURED", "FAILURE", "UNKNOWN", "PENDING", "SUCCESS"}
  BY Zenon DEF aggregate_ci_state
<1>2. names \in SUBSET Required
  BY DEF Names
<1>3. agg = "SUCCESS" => \A c \in Required : read.concl[c] = "SUCCESS"
  <2>1. \A c \in Required : read.concl[c] \in {"absent", "none", "SUCCESS", "FAILURE"}
    BY DEF Reads, Conclusions
  <2> QED
    BY <2>1 DEF aggregate_ci_state
<1>4. _process_ci_wait(item, read) \in
        {Wake("WAIT_DEADLINE", "none", {}), Backoff("UNKNOWN", names),
         Wake("WAIT_EVENT", "STALE", names), Wake("WAIT_EVENT", "CLOSED", names),
         Wake("WAIT_EVENT", agg, names), Backoff(agg, names)}
        \cup {Backoff(p, names) : p \in ReadErrors}
  <2>1. CASE read.pr \in ReadErrors
    BY <2>1, Zenon DEF _process_ci_wait
  <2>2. CASE read.pr \notin ReadErrors
    BY <2>2, Zenon DEF _process_ci_wait
  <2> QED
    BY <2>1, <2>2
<1> HIDE DEF agg, names
<1> QED
  BY <1>1, <1>2, <1>3, <1>4
  DEF Wake, Backoff, Outcomes, States, Whys, ReadErrors

----------------------------------------------------------------------------
(* Steps of a pass that write nothing to the store.                        *)

\* A step that changes one pass keeps the invariant if that pass does.
LEMMA ProcStep ==
  ASSUME IInv, NEW i \in Instances, NEW p \in Procs,
         proc' = [proc EXCEPT ![i] = p], PassInv(p), ShownTo(p),
         holder' \in Instances,
         UNCHANGED <<job, row, line, pr, checks, seen>>
  PROVE  IInv'
<1>1. \A h \in Instances : proc'[h] = IF h = i THEN p ELSE proc[h]
  BY DEF IInv, Types
<1>2. Types'
  BY DEF IInv, Types
<1>3. LineInv' /\ OneOpen'
  BY DEF IInv, LineInv, OneOpen, Open
<1>4. \A h \in Instances : PassInv(proc[h])'
  BY <1>1 DEF IInv, PassInv
<1>5. SeenInv'
  BY <1>1 DEF IInv, SeenInv, ShownTo, Open
<1> QED
  BY <1>2, <1>3, <1>4, <1>5 DEF IInv

\* A pass with nothing on its list.
LEMMA RestingTyped ==
  ASSUME NEW at \in {"stopped", "idle"},
         NEW p, p = [at |-> at, todo |-> <<>>, read |-> NoRead, out |-> NoOutcome]
  PROVE  p \in Procs /\ PassInv(p) /\ ShownTo(p)
<1>1. NoRead \in Reads /\ NoOutcome \in Outcomes
  BY DEF NoRead, NoOutcome, Reads, Outcomes, Conclusions, States, Whys
<1>2. <<>> \in Seq(Items)
  OBVIOUS
<1>3. p \in Procs
  BY <1>1, <1>2 DEF Procs
<1>4. PassInv(p)
  <2>1. p.todo = <<>> /\ p.read = NoRead /\ p.out = NoOutcome /\ DOMAIN p.todo = {}
    OBVIOUS
  <2> QED
    BY <2>1 DEF PassInv
<1>5. ShownTo(p)
  BY DEF ShownTo
<1> QED
  BY <1>3, <1>4, <1>5

\* A pass that begins on a list.
LEMMA ListedTyped ==
  ASSUME IInv, NEW kinds, NEW ws \in list_due_external_waits(kinds),
         NEW at \in {"wait", "ci"},
         NEW p, p = [at |-> at, todo |-> Snapshot(ws), read |-> NoRead, out |-> NoOutcome]
  PROVE  p \in Procs /\ PassInv(p) /\ ShownTo(p)
<1>1. NoRead \in Reads /\ NoOutcome \in Outcomes
  BY DEF NoRead, NoOutcome, Reads, Outcomes, Conclusions, States, Whys
<1>2. /\ Snapshot(ws) \in Seq(Items)
      /\ \A k \in DOMAIN Snapshot(ws) : row[Snapshot(ws)[k].w].status # "none"
  BY ListTyped DEF IInv
<1>3. p \in Procs
  BY <1>1, <1>2 DEF Procs
<1>4. PassInv(p)
  BY <1>2 DEF PassInv
<1>5. ShownTo(p)
  BY DEF ShownTo, NoRead, NoOutcome
<1> QED
  BY <1>3, <1>4, <1>5

\* Going on to the next row of the list.
LEMMA NextTyped ==
  ASSUME IInv, NEW i \in Instances, proc[i].todo # <<>>,
         NEW p, p = [at |-> proc[i].at, todo |-> Tail(proc[i].todo),
                     read |-> NoRead, out |-> NoOutcome]
  PROVE  /\ p \in Procs
         /\ PassInv(p)
         /\ \A k \in DOMAIN p.todo :
              k + 1 \in DOMAIN proc[i].todo /\ p.todo[k] = proc[i].todo[k + 1]
<1>1. proc[i] \in Procs /\ PassInv(proc[i])
  BY DEF IInv, Types
<1>2. NoRead \in Reads /\ NoOutcome \in Outcomes
  BY DEF NoRead, NoOutcome, Reads, Outcomes, Conclusions, States, Whys
<1>3. proc[i].todo \in Seq(Items) /\ proc[i].at \notin {"stopped", "idle"}
  BY <1>1 DEF Procs, PassInv
<1>4. Tail(proc[i].todo) \in Seq(Items)
  BY <1>3
<1>5. \A k \in DOMAIN Tail(proc[i].todo) :
        k + 1 \in DOMAIN proc[i].todo /\ Tail(proc[i].todo)[k] = proc[i].todo[k + 1]
  BY <1>3
<1>6. p \in Procs
  BY <1>1, <1>2, <1>4 DEF Procs
<1>7. PassInv(p)
  BY <1>1, <1>3, <1>5 DEF PassInv
<1> QED
  BY <1>5, <1>6, <1>7

\* A pass begins on the list of due rows, if the instance is still held.
LEMMA StartPassStep ==
  ASSUME IInv, NEW i \in Instances, StartPass(i)
  PROVE  IInv'
<1>0. holder' \in Instances
  BY DEF IInv, Types, StartPass
<1>1. CASE holder # i
  <2>1. Stopped \in Procs /\ PassInv(Stopped) /\ ShownTo(Stopped)
    BY RestingTyped DEF Stopped
  <2> QED
    BY <1>0, <1>1, <2>1, ProcStep DEF StartPass
<1>2. CASE holder = i
  <2>1. PICK ws \in list_due_external_waits(Waits) :
          Go(i, "wait", Snapshot(ws), NoRead, NoOutcome)
    BY <1>2 DEF StartPass
  <2> DEFINE p == [at |-> "wait", todo |-> Snapshot(ws), read |-> NoRead,
                   out |-> NoOutcome]
  <2>2. p \in Procs /\ PassInv(p) /\ ShownTo(p)
    BY ListedTyped
  <2> QED
    BY <1>0, <2>1, <2>2, ProcStep DEF StartPass, Go
<1> QED
  BY <1>1, <1>2

\* The CI checker lists its rows when the general one is through.
LEMMA check_due_ci_waitsStep ==
  ASSUME IInv, NEW i \in Instances, check_due_ci_waits(i)
  PROVE  IInv'
<1>0. holder' \in Instances
  BY DEF IInv, Types, check_due_ci_waits
<1>1. PICK ws \in list_due_external_waits(CiWaits) :
        Go(i, "ci", Snapshot(ws), NoRead, NoOutcome)
  BY DEF check_due_ci_waits
<1> DEFINE p == [at |-> "ci", todo |-> Snapshot(ws), read |-> NoRead, out |-> NoOutcome]
<1>2. p \in Procs /\ PassInv(p) /\ ShownTo(p)
  BY ListedTyped
<1> QED
  BY <1>0, <1>1, <1>2, ProcStep DEF check_due_ci_waits, Go

\* The pass ends, the process dies, or one takes the instance over.
LEMMA RestStep ==
  ASSUME IInv, NEW i \in Instances, EndPass(i) \/ Boot(i) \/ Crash(i)
  PROVE  IInv'
<1>1. PICK at \in {"stopped", "idle"} :
        /\ proc' = [proc EXCEPT ![i] = [Stopped EXCEPT !.at = at]]
        /\ holder' \in Instances
        /\ UNCHANGED <<job, row, line, pr, checks, seen>>
  <2>0. holder \in Instances /\ Stopped = [Stopped EXCEPT !.at = "stopped"]
    BY DEF IInv, Types, Stopped
  <2>1. CASE EndPass(i)
    <3>1. CASE holder # i
      BY <2>0, <2>1, <3>1 DEF EndPass
    <3>2. CASE holder = i
      BY <2>0, <2>1, <3>2 DEF EndPass
    <3> QED
      BY <3>1, <3>2
  <2>2. CASE Boot(i)
    BY <2>2 DEF Boot
  <2>3. CASE Crash(i)
    BY <2>0, <2>3 DEF Crash
  <2> QED
    BY <2>1, <2>2, <2>3
<1> DEFINE p == [Stopped EXCEPT !.at = at]
<1>2. p \in Procs /\ PassInv(p) /\ ShownTo(p)
  <2>1. p = [at |-> at, todo |-> <<>>, read |-> NoRead, out |-> NoOutcome]
    BY DEF Stopped
  <2> HIDE DEF p
  <2> QED
    BY <2>1, RestingTyped
<1> HIDE DEF p
<1> QED
  BY <1>1, <1>2, ProcStep DEF p

\* A row of kind ci is left to the CI checker.
LEMMA PassOverStep ==
  ASSUME IInv, NEW i \in Instances, PassOver(i)
  PROVE  IInv'
<1>0. holder' \in Instances
  BY DEF IInv, Types, PassOver
<1> DEFINE p == [at |-> proc[i].at, todo |-> Tail(proc[i].todo),
                 read |-> NoRead, out |-> NoOutcome]
<1>1. proc' = [proc EXCEPT ![i] = p]
  BY DEF PassOver, NextItem, Go
<1>2. p \in Procs /\ PassInv(p)
  BY NextTyped DEF PassOver, Working
<1>3. ShownTo(p)
  BY DEF ShownTo, NoRead, NoOutcome
<1> QED
  BY <1>0, <1>1, <1>2, <1>3, ProcStep DEF PassOver

\* An observation of the general checker.
LEMMA ObserveStep ==
  ASSUME IInv, NEW i \in Instances, Observe(i)
  PROVE  IInv'
<1>0. holder' \in Instances
  BY DEF IInv, Types, Observe
<1>1. proc[i] \in Procs /\ PassInv(proc[i]) /\ proc[i].at = "wait" /\ proc[i].todo # <<>>
  BY DEF Observe, Working, IInv, Types
<1>2. Head(proc[i].todo) \in Items
  BY <1>1 DEF Procs
<1>3. PICK obs \in [usable : BOOLEAN, state : {"PENDING", "READY"}] :
        Decide(i, "wait", _process_wait(Head(proc[i].todo), obs))
  BY DEF Observe
<1> DEFINE out == _process_wait(Head(proc[i].todo), obs)
           p == [at |-> "wait", todo |-> proc[i].todo, read |-> NoRead, out |-> out]
<1>4. out \in Outcomes /\ out.state # "SUCCESS"
  BY <1>2, WaitDecision
<1> HIDE DEF out
<1>5. proc' = [proc EXCEPT ![i] = p]
  BY <1>3 DEF Decide, Go, out
<1>6. p \in Procs
  BY <1>1, <1>4 DEF Procs, NoRead, Reads, Conclusions
<1>7. PassInv(p)
  BY <1>1 DEF PassInv
<1>8. ShownTo(p)
  BY <1>4 DEF ShownTo, NoRead
<1> QED
  BY <1>0, <1>5, <1>6, <1>7, <1>8, ProcStep DEF Observe

\* The pull request is read, or the read fails or is left out.
LEMMA ReadPrStep ==
  ASSUME IInv, NEW i \in Instances, ReadPr(i)
  PROVE  IInv'
<1>0. holder' \in Instances
  BY DEF IInv, Types, ReadPr
<1>1. proc[i] \in Procs /\ PassInv(proc[i]) /\ proc[i].todo # <<>> /\ pr \in PrStates
  BY DEF ReadPr, Working, IInv, Types
<1>2. Head(proc[i].todo) \in Items
  BY <1>1 DEF Procs
<1>3. NoOutcome \in Outcomes /\ NoRead \in Reads
  BY DEF NoOutcome, NoRead, Outcomes, States, Whys, Reads, Conclusions
<1>4. ASSUME NEW q \in PrStates \cup ReadErrors \cup {"unknown"}
      PROVE  /\ [NoRead EXCEPT !.pr = q] \in Reads
             /\ [NoRead EXCEPT !.pr = q].concl = NoRead.concl
  BY DEF NoRead, Reads, Conclusions
<1>5. CASE Go(i, "ci", proc[i].todo, [NoRead EXCEPT !.pr = pr], NoOutcome)
  <2> DEFINE read == [NoRead EXCEPT !.pr = pr]
             p == [at |-> "ci", todo |-> proc[i].todo, read |-> read, out |-> NoOutcome]
  <2>1. read \in Reads /\ read.concl = NoRead.concl
    BY <1>1, <1>4
  <2> HIDE DEF read
  <2>2. proc' = [proc EXCEPT ![i] = p]
    BY <1>5 DEF Go, read
  <2>3. p \in Procs
    BY <1>1, <1>3, <2>1 DEF Procs
  <2>4. PassInv(p)
    BY <1>1 DEF PassInv
  <2>5. ShownTo(p)
    BY <2>1 DEF ShownTo, NoRead, NoOutcome
  <2> QED
    BY <1>0, <2>2, <2>3, <2>4, <2>5, ProcStep DEF ReadPr
<1>6. ASSUME NEW q \in ReadErrors \cup {"unknown"},
             Decide(i, "ci", _process_ci_wait(Head(proc[i].todo), [NoRead EXCEPT !.pr = q]))
      PROVE  IInv'
  <2> DEFINE read == [NoRead EXCEPT !.pr = q]
             out == _process_ci_wait(Head(proc[i].todo), read)
             p == [at |-> "ci", todo |-> proc[i].todo, read |-> NoRead, out |-> out]
  <2>1. read \in Reads /\ read.concl = NoRead.concl
    BY <1>4
  <2> HIDE DEF read
  <2>2. out \in Outcomes /\ out.state # "SUCCESS"
    BY <1>2, <2>1, CiDecision DEF NoRead, Required
  <2> HIDE DEF out
  <2>3. proc' = [proc EXCEPT ![i] = p]
    BY <1>6 DEF Decide, Go, out, read
  <2>4. p \in Procs
    BY <1>1, <1>3, <2>2 DEF Procs
  <2>5. PassInv(p)
    BY <1>1 DEF PassInv
  <2>6. ShownTo(p)
    BY <2>2 DEF ShownTo, NoRead
  <2> QED
    BY <1>0, <2>3, <2>4, <2>5, <2>6, ProcStep DEF ReadPr
<1> QED
  BY <1>5, <1>6 DEF ReadPr

\* One more answer of the provider, read while the row is open, was shown to it.
LEMMA WithCheckShown ==
  ASSUME IInv, NEW i \in Instances, NEW c \in Required, proc[i].todo # <<>>
  PROVE  /\ WithCheck(proc[i].read, c) \in Reads
         /\ Open(proc[i].todo[1].w) =>
              \A d \in Required : WithCheck(proc[i].read, c).concl[d] = "SUCCESS" =>
                d \in seen[proc[i].todo[1].w]
<1>1. proc[i] \in Procs /\ ShownTo(proc[i]) /\ checks \in [Required -> Conclusions]
  BY DEF IInv, Types, SeenInv
<1>2. proc[i].read \in Reads /\ proc[i].todo[1].w \in Waits
  <2>1. proc[i].read \in Reads /\ proc[i].todo \in Seq(Items)
    BY <1>1 DEF Procs
  <2>2. proc[i].todo[1] \in Items
    BY <2>1
  <2> QED
    BY <2>1, <2>2 DEF Items
<1>3. \A d \in Required :
        WithCheck(proc[i].read, c).concl[d] =
          IF d = c THEN checks[c] ELSE proc[i].read.concl[d]
  BY <1>2 DEF WithCheck, Reads
<1>4. WithCheck(proc[i].read, c) \in Reads
  BY <1>1, <1>2 DEF WithCheck, Reads
<1>5. Open(proc[i].todo[1].w) =>
        \A d \in Required : checks[d] = "SUCCESS" => d \in seen[proc[i].todo[1].w]
  BY <1>2 DEF IInv, SeenInv
<1> QED
  BY <1>1, <1>3, <1>4, <1>5 DEF ShownTo

\* The check runs are read.
LEMMA ReadRunsStep ==
  ASSUME IInv, NEW i \in Instances, ReadRuns(i)
  PROVE  IInv'
<1>0. holder' \in Instances
  BY DEF IInv, Types, ReadRuns
<1>1. proc[i] \in Procs /\ PassInv(proc[i]) /\ proc[i].todo # <<>>
  BY DEF ReadRuns, Working, IInv, Types
<1>2. NoOutcome \in Outcomes
  BY DEF NoOutcome, Outcomes, States, Whys
<1> DEFINE read == WithCheck(proc[i].read, "run")
           p == [at |-> "statuses", todo |-> proc[i].todo, read |-> read, out |-> NoOutcome]
<1>3. /\ read \in Reads
      /\ Open(proc[i].todo[1].w) =>
           \A d \in Required : read.concl[d] = "SUCCESS" => d \in seen[proc[i].todo[1].w]
  BY <1>1, WithCheckShown DEF Required
<1> HIDE DEF read
<1>4. proc' = [proc EXCEPT ![i] = p]
  BY DEF ReadRuns, Go, read
<1>5. p \in Procs
  BY <1>1, <1>2, <1>3 DEF Procs
<1>6. PassInv(p)
  BY <1>1 DEF PassInv
<1>7. ShownTo(p)
  BY <1>3 DEF ShownTo, NoOutcome
<1> QED
  BY <1>0, <1>4, <1>5, <1>6, <1>7, ProcStep DEF ReadRuns

\* The status contexts are read, and the row decided.
LEMMA ReadStatusesStep ==
  ASSUME IInv, NEW i \in Instances, ReadStatuses(i)
  PROVE  IInv'
<1>0. holder' \in Instances
  BY DEF IInv, Types, ReadStatuses
<1>1. /\ proc[i] \in Procs /\ PassInv(proc[i]) /\ proc[i].todo # <<>>
      /\ ShownTo(proc[i])
  BY DEF ReadStatuses, Working, IInv, Types, SeenInv
<1>2. Head(proc[i].todo) \in Items /\ proc[i].read \in Reads /\ NoRead \in Reads
  BY <1>1 DEF Procs, NoRead, Reads, Conclusions
<1>3. PICK r \in {WithCheck(proc[i].read, "ctx")} \cup
                 {[proc[i].read EXCEPT !.pr = q] : q \in ReadErrors} :
        Decide(i, "ci", _process_ci_wait(Head(proc[i].todo), r))
  BY DEF ReadStatuses
<1>4. /\ r \in Reads
      /\ Open(proc[i].todo[1].w) =>
           \A d \in Required : r.concl[d] = "SUCCESS" => d \in seen[proc[i].todo[1].w]
  <2>1. CASE r = WithCheck(proc[i].read, "ctx")
    BY <1>1, <2>1, WithCheckShown DEF Required
  <2>2. ASSUME NEW q \in ReadErrors, r = [proc[i].read EXCEPT !.pr = q]
        PROVE  r \in Reads /\ r.concl = proc[i].read.concl
    BY <1>2, <2>2 DEF Reads
  <2> QED
    BY <1>1, <2>1, <2>2 DEF ShownTo
<1> DEFINE out == _process_ci_wait(Head(proc[i].todo), r)
           p == [at |-> "ci", todo |-> proc[i].todo, read |-> NoRead, out |-> out]
<1>5. out \in Outcomes /\ (out.state = "SUCCESS" => \A c \in Required : r.concl[c] = "SUCCESS")
  BY <1>2, <1>4, CiDecision
<1> HIDE DEF out
<1>6. proc' = [proc EXCEPT ![i] = p]
  BY <1>3 DEF Decide, Go, out
<1>7. p \in Procs
  BY <1>1, <1>2, <1>5 DEF Procs
<1>8. PassInv(p)
  BY <1>1 DEF PassInv
<1>9. ShownTo(p)
  BY <1>4, <1>5 DEF ShownTo, NoRead
<1> QED
  BY <1>0, <1>6, <1>7, <1>8, <1>9, ProcStep DEF ReadStatuses

----------------------------------------------------------------------------
(* Steps that write rows.                                                  *)

\* A row that is written is taken out of the line; if it stays open its next
\* check lies ahead.
LEMMA LineAfterWrite ==
  ASSUME Types, LineInv, NEW w \in Waits, NEW r \in Rows,
         row' = [row EXCEPT ![w] = r], Drop(w),
         r.status = "open" => r.check # 0
  PROVE  LineInv'
<1>1. \A v \in Waits : row'[v] = IF v = w THEN r ELSE row[v]
  BY DEF Types
<1>2. /\ line' \in Seq(Waits)
      /\ IsInjective(line')
      /\ \A k \in DOMAIN line' : line'[k] # w /\ line'[k] \in Range(line)
      /\ \A v \in Range(line) : v # w => v \in Range(line')
  BY DropLine DEF LineInv
<1>3. \A v \in Range(line) : v \in Waits /\ Open(v) /\ row[v].check = 0
  BY DEF LineInv, Range
<1>4. ASSUME NEW k \in DOMAIN line'
      PROVE  row'[line'[k]].status = "open" /\ row'[line'[k]].check = 0
  BY <1>1, <1>2, <1>3 DEF Open
<1>5. ASSUME NEW v \in Waits, Open(v)', row'[v].check = 0
      PROVE  v \in Range(line)'
  <2>1. v # w
    BY <1>1, <1>5 DEF Open
  <2>2. Open(v) /\ row[v].check = 0
    BY <1>1, <1>5, <2>1 DEF Open
  <2> QED
    BY <2>1, <2>2, <1>2 DEF LineInv
<1> QED
  BY <1>2, <1>4, <1>5 DEF LineInv, Open

\* After the write the pass holds nothing for the next row, and no other pass
\* loses what it was shown: a row that is finished does not open again.
LEMMA PassesAfterWrite ==
  ASSUME IInv, NEW i \in Instances, NEW w \in Waits, NEW r \in Rows, NEW p \in Procs,
         row' = [row EXCEPT ![w] = r],
         proc' = [proc EXCEPT ![i] = p],
         PassInv(p), p.read = NoRead, p.out = NoOutcome,
         r.status # "none",
         r.status = "open" => Open(w),
         w \in CiWaits /\ r.state = "SUCCESS" => Required \subseteq seen[w],
         UNCHANGED <<checks, seen>>
  PROVE  /\ \A h \in Instances : PassInv(proc[h])'
         /\ SeenInv'
<1>1. \A v \in Waits : row'[v] = IF v = w THEN r ELSE row[v]
  BY DEF IInv, Types
<1>2. \A h \in Instances : proc'[h] = IF h = i THEN p ELSE proc[h]
  BY DEF IInv, Types
<1>3. \A v \in Waits : Open(v)' => Open(v)
  BY <1>1 DEF Open
<1>4. \A h \in Instances : \A k \in DOMAIN proc'[h].todo : proc'[h].todo[k].w \in Waits
  <2> TAKE h \in Instances
  <2>1. proc'[h].todo \in Seq(Items)
    BY <1>2 DEF IInv, Types, Procs
  <2>2. \A k \in DOMAIN proc'[h].todo : proc'[h].todo[k] \in Items
    BY <2>1
  <2> QED
    BY <2>2 DEF Items
<1>5. ASSUME NEW h \in Instances
      PROVE  PassInv(proc[h])'
  <2>1. PassInv(proc'[h])
    BY <1>2 DEF IInv
  <2>2. \A k \in DOMAIN proc'[h].todo : row'[proc'[h].todo[k].w].status # "none"
    BY <1>1, <1>4, <2>1 DEF PassInv
  <2> QED
    BY <2>1, <2>2 DEF PassInv
<1>6. ASSUME NEW h \in Instances
      PROVE  ShownTo(proc[h])'
  <2>1. CASE h = i
    BY <1>2, <2>1 DEF ShownTo, NoRead, NoOutcome
  <2>2. CASE h # i
    <3>1. ShownTo(proc[h]) /\ proc'[h] = proc[h]
      BY <1>2, <2>2 DEF IInv, SeenInv
    <3>2. proc'[h].todo # <<>> => proc'[h].todo[1].w \in Waits
      <4>1. proc'[h].todo \in Seq(Items)
        BY <1>2 DEF IInv, Types, Procs
      <4>2. proc'[h].todo # <<>> => 1 \in DOMAIN proc'[h].todo
        BY <4>1
      <4> QED
        BY <4>2, <1>4
    <3> QED
      BY <3>1, <3>2, <1>3 DEF ShownTo
  <2> QED
    BY <2>1, <2>2
<1>7. SeenInv'
  <2>1. \A v \in Waits : Open(v)' =>
          \A c \in Required : checks'[c] = "SUCCESS" => c \in seen'[v]
    BY <1>3 DEF IInv, SeenInv
  <2>2. \A v \in CiWaits : row'[v].state = "SUCCESS" => Required \subseteq seen'[v]
    BY <1>1, WaitsAssumption DEF IInv, SeenInv
  <2> QED
    BY <2>1, <2>2, <1>6 DEF SeenInv
<1> QED
  BY <1>5, <1>7

\* A pass with an outcome works on a row that was entered; a conclusion of
\* SUCCESS about an open row was shown to it.
LEMMA Working1 ==
  ASSUME IInv, NEW i \in Instances, proc[i].out.kind # "none"
  PROVE  /\ proc[i].todo # <<>>
         /\ Head(proc[i].todo) \in Items
         /\ proc[i].out \in Outcomes
         /\ row[Head(proc[i].todo).w].status # "none"
         /\ Open(Head(proc[i].todo).w) /\ proc[i].out.state = "SUCCESS" =>
              Required \subseteq seen[Head(proc[i].todo).w]
<1>1. proc[i] \in Procs /\ PassInv(proc[i]) /\ ShownTo(proc[i])
  BY DEF IInv, Types, SeenInv
<1>2. proc[i].todo # <<>>
  BY <1>1 DEF PassInv, NoOutcome
<1>3. proc[i].todo \in Seq(Items) /\ proc[i].out \in Outcomes
  BY <1>1 DEF Procs
<1>4. 1 \in DOMAIN proc[i].todo /\ Head(proc[i].todo) = proc[i].todo[1]
  BY <1>2, <1>3
<1>5. proc[i].todo[1] \in Items
  BY <1>3, <1>4
<1> QED
  BY <1>1, <1>2, <1>3, <1>4, <1>5 DEF PassInv, ShownTo

\* What entering a wait, a check that backs off, and one that ends the wait
\* make of a row.
RowEntered(old, d) == [old EXCEPT !.status = "open", !.check = 1, !.left = d]

RowBackedOff(old, n, c, s, ns) ==
    [old EXCEPT !.attempt = n, !.check = c, !.state = s, !.names = ns]

RowFinished(old, y, s, ns) ==
    [old EXCEPT !.status = "terminal", !.why = y, !.names = ns,
                !.check = 0, !.left = 0, !.attempt = 0, !.state = s]

\* Each of them is a row again, with the fields the invariant speaks of.
LEMMA RowEnteredTyped ==
  ASSUME NEW old \in Rows, NEW d \in 0 .. DeadlineMinutes
  PROVE  /\ RowEntered(old, d) \in Rows
         /\ RowEntered(old, d).status = "open" /\ RowEntered(old, d).check = 1
         /\ RowEntered(old, d).state = old.state
BY DEF Rows, RowEntered

\* A row after a check that backs off.
LEMMA RowBackedOffTyped ==
  ASSUME NEW old \in Rows, NEW n \in 0 .. Len(BACKOFF_MINUTES), NEW c \in Nat,
         NEW s \in States, NEW ns \in SUBSET Required
  PROVE  /\ RowBackedOff(old, n, c, s, ns) \in Rows
         /\ RowBackedOff(old, n, c, s, ns).status = old.status
         /\ RowBackedOff(old, n, c, s, ns).check = c
         /\ RowBackedOff(old, n, c, s, ns).state = s
BY DEF Rows, RowBackedOff

\* A row whose wait is over.
LEMMA RowFinishedTyped ==
  ASSUME NEW old \in Rows, NEW y \in Whys, NEW s \in States, NEW ns \in SUBSET Required
  PROVE  /\ RowFinished(old, y, s, ns) \in Rows
         /\ RowFinished(old, y, s, ns).status = "terminal"
         /\ RowFinished(old, y, s, ns).state = s
<1>1. 0 \in 0 .. Len(BACKOFF_MINUTES) /\ 0 \in 0 .. DeadlineMinutes
  BY WaitsAssumption
<1> QED
  BY <1>1 DEF Rows, RowFinished

\* The write of a check that backs off; the CI checker may find itself fenced.
LEMMA BackoffWriteStep ==
  ASSUME IInv, NEW i \in Instances, BackoffWrite(i)
  PROVE  IInv'
<1> DEFINE item == Head(proc[i].todo)
           w == item.w
           attempt == item.attempt + 1
           out == proc[i].out
           p == [at |-> proc[i].at, todo |-> Tail(proc[i].todo),
                 read |-> NoRead, out |-> NoOutcome]
<1>1. /\ proc[i].todo # <<>> /\ item \in Items /\ out \in Outcomes
      /\ row[w].status # "none"
      /\ Open(w) /\ out.state = "SUCCESS" => Required \subseteq seen[w]
  BY Working1 DEF BackoffWrite
<1>2. w \in Waits /\ row[w] \in Rows
  BY <1>1 DEF Items, IInv, Types
<1>3. proc' = [proc EXCEPT ![i] = p] /\ p \in Procs /\ PassInv(p)
  BY <1>1, NextTyped DEF BackoffWrite, NextItem, Go
<1>4. holder' \in Instances /\ UNCHANGED <<job, holder, pr, checks, seen>>
  BY DEF BackoffWrite, IInv, Types
<1>5. CASE ~MayUpdate(i, w)
  <2>1. UNCHANGED <<row, line>>
    BY <1>5 DEF BackoffWrite
  <2>2. ShownTo(p)
    BY DEF ShownTo, NoRead, NoOutcome
  <2> QED
    BY <1>3, <1>4, <2>1, <2>2, ProcStep
<1>6. CASE MayUpdate(i, w)
  <2> DEFINE r == RowBackedOff(row[w], Cap(attempt, Len(BACKOFF_MINUTES)),
                               next_check_delay(attempt, out.state),
                               out.state, out.names)
  <2>1. row' = [row EXCEPT ![w] = r] /\ Drop(w)
    BY <1>6 DEF BackoffWrite, RowBackedOff
  <2>2. Cap(attempt, Len(BACKOFF_MINUTES)) \in 1 .. Len(BACKOFF_MINUTES)
    <3>1. Len(BACKOFF_MINUTES) \in Nat \ {0}
      BY WaitsAssumption
    <3>2. attempt \in Nat \ {0}
      BY <1>1, <3>1 DEF Items
    <3> QED
      BY <3>1, <3>2 DEF Cap
  <2>3. next_check_delay(attempt, out.state) \in Nat \ {0}
    <3>1. BACKOFF_MINUTES[Cap(attempt, Len(BACKOFF_MINUTES))] \in Nat \ {0}
      BY <2>2, WaitsAssumption
    <3> QED
      BY <3>1, WaitsAssumption DEF next_check_delay
  <2> HIDE DEF attempt
  <2>4. /\ r \in Rows
        /\ r.status = row[w].status /\ r.check # 0 /\ r.state = out.state
    <3>1. out.state \in States /\ out.names \in SUBSET Required
      BY <1>1 DEF Outcomes
    <3>2. Cap(attempt, Len(BACKOFF_MINUTES)) \in 0 .. Len(BACKOFF_MINUTES)
      BY <2>2
    <3> HIDE DEF w, out
    <3>3. next_check_delay(attempt, out.state) \in Nat
      BY <2>3
    <3> QED
      BY <1>2, <2>3, <3>1, <3>2, <3>3, RowBackedOffTyped
  <2> HIDE DEF r
  <2>5. \A v \in Waits : Open(v)' <=> Open(v)
    BY <1>2, <2>1, <2>4 DEF Open, IInv, Types
  <2>6. Types'
    BY <1>3, <1>4, <2>1, <2>4, <1>2 DEF IInv, Types
  <2>7. LineInv'
    BY <1>2, <2>1, <2>4, LineAfterWrite DEF IInv
  <2>8. OneOpen'
    BY <1>4, <2>5 DEF IInv, OneOpen
  <2>9. (\A h \in Instances : PassInv(proc[h])') /\ SeenInv'
    <3>1. w \in CiWaits => Open(w)
      BY <1>6 DEF MayUpdate
    <3> HIDE DEF p, w, out
    <3>2. p.read = NoRead /\ p.out = NoOutcome
      BY DEF p
    <3>3. r.status # "none" /\ (r.status = "open" => Open(w))
      BY <1>1, <2>4 DEF Open
    <3>4. w \in CiWaits /\ r.state = "SUCCESS" => Required \subseteq seen[w]
      BY <1>1, <2>4, <3>1
    <3> QED
      BY <1>2, <1>3, <1>4, <2>1, <2>4, <3>2, <3>3, <3>4, PassesAfterWrite
  <2> QED
    BY <2>6, <2>7, <2>8, <2>9 DEF IInv
<1> QED
  BY <1>5, <1>6

\* The write that ends a wait and wakes its job, or is refused.
LEMMA complete_wait_and_requeueStep ==
  ASSUME IInv, NEW i \in Instances, complete_wait_and_requeue(i)
  PROVE  IInv'
<1> DEFINE item == Head(proc[i].todo)
           w == item.w
           out == proc[i].out
           p == [at |-> proc[i].at, todo |-> Tail(proc[i].todo),
                 read |-> NoRead, out |-> NoOutcome]
<1>1. /\ proc[i].todo # <<>> /\ item \in Items /\ out \in Outcomes
      /\ Open(w) /\ out.state = "SUCCESS" => Required \subseteq seen[w]
  BY Working1 DEF complete_wait_and_requeue
<1>2. w \in Waits /\ row[w] \in Rows
  BY <1>1 DEF Items, IInv, Types
<1>3. proc' = [proc EXCEPT ![i] = p] /\ p \in Procs /\ PassInv(p)
  BY <1>1, NextTyped DEF complete_wait_and_requeue, NextItem, Go
<1>4. holder' \in Instances /\ UNCHANGED <<holder, pr, checks, seen>>
  BY DEF complete_wait_and_requeue, IInv, Types
<1>5. CASE ~MayComplete(i, w)
  <2>1. UNCHANGED <<row, job, line>>
    BY <1>5 DEF complete_wait_and_requeue
  <2>2. ShownTo(p)
    BY DEF ShownTo, NoRead, NoOutcome
  <2> QED
    BY <1>3, <1>4, <2>1, <2>2, ProcStep
<1>6. CASE MayComplete(i, w)
  <2> DEFINE s == IF out.state = "none" THEN row[w].state ELSE out.state
             r == RowFinished(row[w], out.why, s, out.names)
  <2>1. /\ row' = [row EXCEPT ![w] = r] /\ Drop(w)
        /\ job' = [job EXCEPT ![JobOf[w]] = "QUEUED"]
    BY <1>6 DEF complete_wait_and_requeue, RowFinished
  <2>2. Open(w) /\ JobOf[w] \in Jobs
    BY <1>2, <1>6 DEF MayComplete, Jobs
  <2>3. /\ r \in Rows
        /\ r.status = "terminal"
        /\ r.state = IF out.state = "none" THEN row[w].state ELSE out.state
    <3>1. out.state \in States /\ out.names \in SUBSET Required /\ out.why \in Whys
      BY <1>1 DEF Outcomes
    <3>2. s \in States
      BY <3>1, <1>2 DEF Rows
    <3> HIDE DEF w, out, s
    <3>3. r \in Rows /\ r.status = "terminal" /\ r.state = s
      BY <1>2, <3>1, <3>2, RowFinishedTyped
    <3> QED
      BY <3>3 DEF s
  <2> HIDE DEF r
  <2>4. \A v \in Waits : Open(v)' <=> Open(v) /\ v # w
    BY <1>2, <2>1, <2>3 DEF Open, IInv, Types
  <2>5. Types'
    BY <1>3, <1>4, <2>1, <2>2, <2>3, <1>2 DEF IInv, Types
  <2>6. LineInv'
    BY <1>2, <2>1, <2>3, LineAfterWrite DEF IInv
  <2>7. OneOpen'
    <3>1. \A j \in Jobs : job'[j] = IF j = JobOf[w] THEN "QUEUED" ELSE job[j]
      BY <2>1, <2>2 DEF IInv, Types
    <3>2. \A v \in Waits : JobOf[v] \in Jobs
      BY DEF Jobs
    <3> HIDE DEF w
    <3> QED
      BY <1>2, <2>2, <2>4, <3>1, <3>2 DEF IInv, OneOpen
  <2>8. (\A h \in Instances : PassInv(proc[h])') /\ SeenInv'
    <3> HIDE DEF p, w, out
    <3>1. p.read = NoRead /\ p.out = NoOutcome
      BY DEF p
    <3>2. r.status # "none" /\ (r.status = "open" => Open(w))
      BY <2>3
    <3>3. w \in CiWaits /\ r.state = "SUCCESS" => Required \subseteq seen[w]
      BY <1>1, <2>2, <2>3 DEF IInv, SeenInv
    <3> QED
      BY <1>2, <1>3, <1>4, <2>1, <2>3, <3>1, <3>2, <3>3, PassesAfterWrite
  <2> QED
    BY <2>5, <2>6, <2>7, <2>8 DEF IInv
<1> QED
  BY <1>5, <1>6

----------------------------------------------------------------------------
(* Entering a wait, time, the provider and the woken job.                  *)

\* A running job enters a wait.
LEMMA EnterStep ==
  ASSUME IInv, NEW w \in Waits, transition_to_waiting_external(w)
  PROVE  IInv'
<1> DEFINE r == RowEntered(NoRow, DeadlineMinutes)
<1>1. /\ row[w].status = "none"
      /\ job[JobOf[w]] = "RUNNING"
      /\ row' = [row EXCEPT ![w] = r]
      /\ job' = [job EXCEPT ![JobOf[w]] = "WAITING_EXTERNAL"]
      /\ seen' = [seen EXCEPT ![w] = {c \in Required : checks[c] = "SUCCESS"}]
      /\ UNCHANGED <<line, holder, proc, pr, checks>>
  BY DEF transition_to_waiting_external, RowEntered
<1>2. r.status = "open" /\ r.check = 1 /\ r.state = "none" /\ r \in Rows
  <2>1. 0 \in 0 .. Len(BACKOFF_MINUTES) /\ 0 \in 0 .. DeadlineMinutes
        /\ DeadlineMinutes \in 0 .. DeadlineMinutes
    BY WaitsAssumption
  <2>2. NoRow \in Rows /\ NoRow.state = "none"
    BY <2>1 DEF NoRow, Rows, States, Whys
  <2> QED
    BY <2>1, <2>2, RowEnteredTyped
<1> HIDE DEF r
<1>3. \A v \in Waits : row'[v] = IF v = w THEN r ELSE row[v]
  BY <1>1 DEF IInv, Types
<1>4. \A v \in Waits : JobOf[v] \in Jobs
  BY DEF Jobs
<1>5. \A v \in Waits : Open(v)' <=> Open(v) \/ v = w
  BY <1>2, <1>3 DEF Open
<1>6. \A v \in Waits : seen'[v] = IF v = w THEN {c \in Required : checks[c] = "SUCCESS"}
                                  ELSE seen[v]
  BY <1>1 DEF IInv, Types
<1>7. Types'
  BY <1>1, <1>2, <1>4 DEF IInv, Types
<1>8. LineInv'
  <2>1. \A k \in DOMAIN line : line[k] \in Waits /\ Open(line[k]) /\ row[line[k]].check = 0
    BY DEF IInv, LineInv
  <2>2. \A k \in DOMAIN line : row'[line[k]].status = "open" /\ row'[line[k]].check = 0
    BY <2>1, <1>1, <1>3 DEF Open
  <2>3. \A v \in Waits : Open(v)' /\ row'[v].check = 0 => v \in Range(line)
    BY <1>2, <1>3, <1>5 DEF IInv, LineInv
  <2> QED
    BY <1>1, <2>2, <2>3 DEF IInv, LineInv, Open
<1>9. OneOpen'
  <2>1. \A j \in Jobs : job'[j] = IF j = JobOf[w] THEN "WAITING_EXTERNAL" ELSE job[j]
    BY <1>1, <1>4 DEF IInv, Types
  <2>2. \A v \in Waits : Open(v) => JobOf[v] # JobOf[w]
    BY <1>1 DEF IInv, OneOpen
  <2> QED
    BY <1>4, <1>5, <2>1, <2>2 DEF IInv, OneOpen
<1>10. \A h \in Instances : /\ proc[h] \in Procs /\ PassInv(proc[h]) /\ ShownTo(proc[h])
                            /\ \A k \in DOMAIN proc[h].todo : proc[h].todo[k] \in Items
  <2> TAKE h \in Instances
  <2>1. proc[h] \in Procs /\ PassInv(proc[h]) /\ ShownTo(proc[h])
    BY DEF IInv, Types, SeenInv
  <2>2. proc[h].todo \in Seq(Items)
    BY <2>1 DEF Procs
  <2> QED
    BY <2>1, <2>2
<1>11. ASSUME NEW h \in Instances
       PROVE  /\ PassInv(proc[h])'
              /\ proc[h].todo # <<>> =>
                   proc[h].todo[1].w \in Waits /\ proc[h].todo[1].w # w
  <2>1. \A k \in DOMAIN proc[h].todo : proc[h].todo[k].w \in Waits /\ proc[h].todo[k].w # w
    BY <1>1, <1>10 DEF PassInv, Items
  <2>2. PassInv(proc[h])'
    BY <1>1, <1>3, <1>10, <2>1 DEF PassInv
  <2>3. proc[h].todo # <<>> => 1 \in DOMAIN proc[h].todo
    BY <1>10 DEF Procs
  <2> QED
    BY <2>1, <2>2, <2>3
<1>12. SeenInv'
  <2>1. \A h \in Instances : ShownTo(proc[h])'
    BY <1>1, <1>5, <1>6, <1>10, <1>11 DEF ShownTo
  <2>2. \A v \in Waits : Open(v)' =>
          \A c \in Required : checks'[c] = "SUCCESS" => c \in seen'[v]
    <3> SUFFICES ASSUME NEW v \in Waits, Open(v) \/ v = w,
                        NEW c \in Required, checks[c] = "SUCCESS"
                 PROVE  c \in seen'[v]
      BY <1>1, <1>5
    <3>1. CASE v = w
      BY <1>6, <3>1
    <3>2. CASE v # w
      BY <1>6, <3>2 DEF IInv, SeenInv
    <3> QED
      BY <3>1, <3>2
  <2>3. \A v \in CiWaits : row'[v].state = "SUCCESS" => Required \subseteq seen'[v]
    BY <1>2, <1>3, <1>6, WaitsAssumption DEF IInv, SeenInv
  <2> QED
    BY <2>1, <2>2, <2>3 DEF SeenInv
<1> QED
  BY <1>7, <1>8, <1>9, <1>11, <1>12 DEF IInv

\* A woken job is claimed.
LEMMA ClaimWokenStep ==
  ASSUME IInv, NEW j \in Jobs, ClaimWoken(j)
  PROVE  IInv'
<1>1. /\ job[j] = "QUEUED" /\ job' = [job EXCEPT ![j] = "RUNNING"]
      /\ UNCHANGED <<row, line, holder, proc, pr, checks, seen>>
  BY DEF ClaimWoken
<1>2. Types'
  BY <1>1 DEF IInv, Types
<1>3. LineInv' /\ SeenInv' /\ \A h \in Instances : PassInv(proc[h])'
  BY <1>1 DEF IInv, LineInv, SeenInv, ShownTo, PassInv, Open
<1>4. OneOpen'
  <2>1. \A h \in Jobs : job'[h] = IF h = j THEN "RUNNING" ELSE job[h]
    BY <1>1 DEF IInv, Types
  <2>2. \A v \in Waits : JobOf[v] \in Jobs
    BY DEF Jobs
  <2> QED
    BY <1>1, <2>1, <2>2 DEF IInv, OneOpen, Open
<1> QED
  BY <1>2, <1>3, <1>4 DEF IInv

\* A minute that passes brings the rows nearer to their check and deadline.
RowTicked(old) == [old EXCEPT !.check = Less(@), !.left = Less(@)]

\* A row after a minute.
LEMMA RowTickedTyped ==
  ASSUME NEW old \in Rows
  PROVE  /\ RowTicked(old) \in Rows
         /\ RowTicked(old).status = old.status
         /\ RowTicked(old).state = old.state
         /\ RowTicked(old).check = 0 <=> old.check \in {0, 1}
<1>1. Less(old.check) \in Nat /\ (Less(old.check) = 0 <=> old.check \in {0, 1})
  BY DEF Rows, Less
<1>2. Less(old.left) \in 0 .. DeadlineMinutes
  BY WaitsAssumption DEF Rows, Less
<1>3. RowTicked(old) = [old EXCEPT !.check = Less(old.check), !.left = Less(old.left)]
  BY Zenon DEF RowTicked
<1> DEFINE c == Less(old.check)
           l == Less(old.left)
<1> HIDE DEF c, l
<1>4. /\ [old EXCEPT !.check = c, !.left = l].status = old.status
      /\ [old EXCEPT !.check = c, !.left = l].state = old.state
      /\ [old EXCEPT !.check = c, !.left = l].check = c
      /\ c \in Nat /\ l \in 0 .. DeadlineMinutes =>
           [old EXCEPT !.check = c, !.left = l] \in Rows
  BY DEF Rows
<1> QED
  BY <1>1, <1>2, <1>3, <1>4 DEF c, l

\* Rows that become due join the line behind those that are in it.
LEMMA LineAfterTick ==
  ASSUME line \in Seq(Waits), IsInjective(line),
         NEW newly \in SUBSET Waits, \A w \in newly : w \notin Range(line),
         NEW s \in SetToSeqs(newly), line' = line \o s
  PROVE  /\ line' \in Seq(Waits)
         /\ IsInjective(line')
         /\ \A w : w \in Range(line') <=> w \in Range(line) \/ w \in newly
<1> DEFINE n == Cardinality(newly)
<1>1. IsFiniteSet(newly) /\ n \in Nat
  BY WaitsAssumption, FS_Subset, FS_CardinalityType
<1>2. s \in Injection(1 .. n, newly)
  BY DEF SetToSeqs, Injection, IsInjective
<1>3. s \in Surjection(1 .. n, newly)
  <2>1. IsFiniteSet(1 .. n) /\ Cardinality(1 .. n) = n
    BY <1>1, FS_Interval
  <2> QED
    BY <1>1, <1>2, <2>1, FS_Injection
<1> HIDE DEF n
<1>4. s \in [1 .. n -> newly] /\ (\A a, b \in 1 .. n : s[a] = s[b] => a = b)
      /\ \A w \in newly : \E a \in 1 .. n : s[a] = w
  BY <1>2, <1>3 DEF Injection, IsInjective, Surjection
<1>5. s \in Seq(Waits) /\ Len(s) = n
  <2>1. s \in [1 .. n -> Waits]
    BY <1>4
  <2> QED
    BY <2>1, <1>1
<1> DEFINE L == Len(line)
<1>6. L \in Nat /\ DOMAIN line = 1 .. L
  OBVIOUS
<1>7. /\ line' \in Seq(Waits)
      /\ DOMAIN line' = 1 .. L + n
      /\ \A k \in 1 .. L : line'[k] = line[k]
      /\ \A k \in L + 1 .. L + n : line'[k] = s[k - L]
  BY <1>1, <1>5, <1>6
<1> HIDE DEF L
<1>8. IsInjective(line')
  <2> SUFFICES ASSUME NEW a \in 1 .. L + n, NEW b \in 1 .. L + n, line'[a] = line'[b]
               PROVE  a = b
    BY <1>7 DEF IsInjective
  <2>1. CASE a \in 1 .. L /\ b \in 1 .. L
    BY <2>1, <1>6, <1>7 DEF IsInjective
  <2>2. CASE a \in L + 1 .. L + n /\ b \in L + 1 .. L + n
    <3>1. a - L \in 1 .. n /\ b - L \in 1 .. n
      BY <2>2, <1>1, <1>6
    <3>2. a - L = b - L
      BY <2>2, <3>1, <1>4, <1>7
    <3> QED
      BY <3>2, <1>6
  <2>3. \A x \in 1 .. L, y \in L + 1 .. L + n : line'[x] # line'[y]
    <3> TAKE x \in 1 .. L, y \in L + 1 .. L + n
    <3>1. y - L \in 1 .. n
      BY <1>1, <1>6
    <3>2. line'[y] \in newly
      <4>1. line'[y] = s[y - L]
        BY <1>7
      <4> QED
        BY <4>1, <3>1, <1>4
    <3>3. line'[x] \in Range(line)
      BY <1>6, <1>7 DEF Range
    <3> QED
      BY <3>2, <3>3
  <2>4. \A x \in 1 .. L + n : x \in 1 .. L \/ x \in L + 1 .. L + n
    BY <1>1, <1>6
  <2> QED
    BY <2>1, <2>2, <2>3, <2>4
<1>9. ASSUME NEW w, w \in Range(line')
      PROVE  w \in Range(line) \/ w \in newly
  <2>1. PICK k \in 1 .. L + n : line'[k] = w
    BY <1>7, <1>9 DEF Range
  <2>2. CASE k \in 1 .. L
    BY <2>1, <2>2, <1>6, <1>7 DEF Range
  <2>3. CASE k \in L + 1 .. L + n
    <3>1. k - L \in 1 .. n
      BY <2>3, <1>1, <1>6
    <3> QED
      BY <2>1, <2>3, <3>1, <1>4, <1>7
  <2> QED
    BY <2>2, <2>3, <1>1, <1>6
<1>10. ASSUME NEW w, w \in Range(line)
       PROVE  w \in Range(line')
  <2>1. PICK k \in 1 .. L : line[k] = w
    BY <1>6, <1>10 DEF Range
  <2>2. k \in DOMAIN line' /\ line'[k] = w
    BY <2>1, <1>1, <1>6, <1>7
  <2> QED
    BY <2>2 DEF Range
<1>11. ASSUME NEW w \in newly
       PROVE  w \in Range(line')
  <2>1. PICK a \in 1 .. n : s[a] = w
    BY <1>4
  <2>2. L + a \in L + 1 .. L + n /\ L + a - L = a /\ L + a \in 1 .. L + n
    BY <1>1, <1>6
  <2> DEFINE k == L + a
  <2>3. k \in L + 1 .. L + n /\ k \in 1 .. L + n /\ k - L = a
    BY <2>2, <1>1, <1>6
  <2> HIDE DEF k
  <2>4. line'[k] = w
    BY <2>1, <2>3, <1>7
  <2> QED
    BY <2>3, <2>4, <1>7 DEF Range
<1> QED
  BY <1>7, <1>8, <1>9, <1>10, <1>11

\* A minute passes.
LEMMA TickStep ==
  ASSUME IInv, Tick
  PROVE  IInv'
<1> DEFINE newly == {w \in Waits : Open(w) /\ row[w].check = 1}
<1>1. /\ row' = [w \in Waits |-> IF Open(w) THEN RowTicked(row[w]) ELSE row[w]]
      /\ UNCHANGED <<job, holder, proc, pr, checks, seen>>
  BY DEF Tick, RowTicked
<1>2. PICK s \in SetToSeqs(newly) : line' = line \o s
  BY DEF Tick
<1>3. \A w \in Waits : row[w] \in Rows
  BY DEF IInv, Types
<1>4. \A w \in Waits :
        /\ row'[w] \in Rows
        /\ row'[w].status = row[w].status
        /\ row'[w].state = row[w].state
        /\ Open(w) => (row'[w].check = 0 <=> row[w].check \in {0, 1})
  BY <1>1, <1>3, RowTickedTyped
<1>5. \A w \in Waits : Open(w)' <=> Open(w)
  BY <1>4 DEF Open
<1>6. Types'
  BY <1>1, <1>4 DEF IInv, Types
<1>7. /\ line' \in Seq(Waits)
      /\ IsInjective(line')
      /\ \A w : w \in Range(line') <=> w \in Range(line) \/ w \in newly
  <2>1. \A w \in newly : w \notin Range(line)
    BY DEF IInv, LineInv, Range
  <2>2. newly \in SUBSET Waits
    OBVIOUS
  <2> HIDE DEF newly
  <2> QED
    BY <1>2, <2>1, <2>2, LineAfterTick DEF IInv, LineInv
<1>8. LineInv'
  <2>1. \A w \in Range(line) : w \in Waits /\ Open(w) /\ row[w].check = 0
    BY DEF IInv, LineInv, Range
  <2>2. ASSUME NEW k \in DOMAIN line'
        PROVE  row'[line'[k]].status = "open" /\ row'[line'[k]].check = 0
    <3>1. line'[k] \in Range(line')
      BY DEF Range
    <3>2. line'[k] \in Waits /\ Open(line'[k]) /\ row[line'[k]].check \in {0, 1}
      BY <3>1, <1>7, <2>1
    <3> QED
      BY <3>2, <1>4 DEF Open
  <2>3. ASSUME NEW w \in Waits, Open(w)', row'[w].check = 0
        PROVE  w \in Range(line')
    <3>1. Open(w) /\ row[w].check \in {0, 1}
      BY <2>3, <1>4, <1>5
    <3> QED
      BY <3>1, <1>7 DEF IInv, LineInv
  <2> QED
    BY <1>7, <2>2, <2>3 DEF LineInv, Open
<1>9. OneOpen'
  BY <1>1, <1>5 DEF IInv, OneOpen
<1>10. ASSUME NEW h \in Instances
       PROVE  PassInv(proc[h])' /\ ShownTo(proc[h])'
  <2>1. PassInv(proc[h]) /\ ShownTo(proc[h]) /\ proc[h].todo \in Seq(Items)
    BY DEF IInv, Types, SeenInv, Procs
  <2>2. \A k \in DOMAIN proc[h].todo : proc[h].todo[k].w \in Waits
    <3>1. \A k \in DOMAIN proc[h].todo : proc[h].todo[k] \in Items
      BY <2>1
    <3> QED
      BY <3>1 DEF Items
  <2>3. proc[h].todo # <<>> => 1 \in DOMAIN proc[h].todo
    BY <2>1
  <2>4. PassInv(proc[h])'
    BY <1>1, <1>4, <2>1, <2>2 DEF PassInv
  <2>5. ShownTo(proc[h])'
    BY <1>1, <1>5, <2>1, <2>2, <2>3 DEF ShownTo
  <2> QED
    BY <2>4, <2>5
<1>11. SeenInv'
  BY <1>1, <1>4, <1>5, <1>10, WaitsAssumption DEF IInv, SeenInv
<1> QED
  BY <1>6, <1>8, <1>9, <1>10, <1>11 DEF IInv

\* The provider changes, and open rows are shown the change.
LEMMA ProviderChangesStep ==
  ASSUME IInv, ProviderChanges
  PROVE  IInv'
<1>1. UNCHANGED <<job, row, line, holder, proc>>
  BY DEF ProviderChanges
<1>2. pr' \in PrStates /\ checks' \in [Required -> Conclusions]
  BY DEF ProviderChanges, IInv, Types
<1>3. \A w \in Waits : seen'[w] =
        IF Open(w) THEN seen[w] \cup {c \in Required : checks'[c] = "SUCCESS"} ELSE seen[w]
  BY DEF ProviderChanges
<1>4. seen' \in [Waits -> SUBSET Required]
  <2>1. seen' = [w \in Waits |->
          IF Open(w) THEN seen[w] \cup {c \in Required : checks'[c] = "SUCCESS"} ELSE seen[w]]
    BY DEF ProviderChanges
  <2> QED
    BY <2>1 DEF IInv, Types
<1>5. \A w \in Waits : \A c \in seen[w] : c \in seen'[w]
  BY <1>3
<1>6. Types' /\ LineInv' /\ OneOpen' /\ \A h \in Instances : PassInv(proc[h])'
  BY <1>1, <1>2, <1>4 DEF IInv, Types, LineInv, OneOpen, PassInv, Open
<1>7. ASSUME NEW w \in Waits, Open(w), NEW c \in Required, checks'[c] = "SUCCESS"
      PROVE  c \in seen'[w]
  BY <1>3, <1>7
<1>8. \A w \in CiWaits : row'[w].state = "SUCCESS" => Required \subseteq seen'[w]
  BY <1>1, <1>5, WaitsAssumption DEF IInv, SeenInv
<1>9. ASSUME NEW h \in Instances
      PROVE  ShownTo(proc[h])'
  <2>1. ShownTo(proc[h]) /\ proc[h].todo \in Seq(Items)
    BY DEF IInv, Types, SeenInv, Procs
  <2>2. proc[h].todo # <<>> => proc[h].todo[1] \in Items
    BY <2>1
  <2>3. proc[h].todo # <<>> => proc[h].todo[1].w \in Waits
    BY <2>2 DEF Items
  <2> QED
    BY <1>1, <1>5, <2>1, <2>3 DEF ShownTo, Open
<1>10. SeenInv'
  BY <1>1, <1>7, <1>8, <1>9 DEF SeenInv, Open
<1> QED
  BY <1>6, <1>10 DEF IInv

----------------------------------------------------------------------------
(* The theorems.                                                           *)

\* The invariant holds at first.
LEMMA InitHolds ==
  ASSUME WaitsInit
  PROVE  IInv
<1>1. /\ job = [j \in Jobs |-> "RUNNING"]
      /\ row = [w \in Waits |-> NoRow]
      /\ line = <<>>
      /\ holder \in Instances
      /\ pr = "open"
      /\ checks = [c \in Required |-> "absent"]
      /\ seen = [w \in Waits |-> {}]
      /\ proc = [i \in Instances |->
           IF i = holder THEN [Stopped EXCEPT !.at = "idle"] ELSE Stopped]
  BY DEF WaitsInit
<1>2. NoRow \in Rows /\ NoRow.status = "none" /\ NoRow.state = "none"
  <2>1. 0 \in 0 .. Len(BACKOFF_MINUTES) /\ 0 \in 0 .. DeadlineMinutes
    BY WaitsAssumption
  <2> QED
    BY <2>1 DEF NoRow, Rows, States, Whys
<1>3. \A w \in Waits : ~Open(w)
  BY <1>1, <1>2 DEF Open
<1>4. ASSUME NEW i \in Instances
      PROVE  proc[i] \in Procs /\ PassInv(proc[i]) /\ ShownTo(proc[i])
  <2>1. PICK at \in {"stopped", "idle"} :
          proc[i] = [at |-> at, todo |-> <<>>, read |-> NoRead, out |-> NoOutcome]
    BY <1>1 DEF Stopped
  <2> QED
    BY <2>1, RestingTyped
<1>5. Types
  BY <1>1, <1>2, <1>4 DEF Types, PrStates, Conclusions
<1>6. LineInv
  <2>1. <<>> \in Seq(Waits) /\ DOMAIN <<>> = {}
    OBVIOUS
  <2> QED
    BY <1>1, <1>3, <2>1 DEF LineInv, IsInjective
<1>7. OneOpen
  BY <1>1, <1>3 DEF OneOpen
<1>8. SeenInv
  BY <1>1, <1>2, <1>3, <1>4, WaitsAssumption DEF SeenInv
<1> QED
  BY <1>4, <1>5, <1>6, <1>7, <1>8 DEF IInv

\* Every step keeps it.
LEMMA NextHolds ==
  ASSUME IInv, [WaitsNext]_waitVars
  PROVE  IInv'
<1>1. CASE UNCHANGED waitVars
  BY <1>1 DEF waitVars, IInv, Types, LineInv, OneOpen, PassInv, SeenInv, ShownTo, Open
<1>2. ASSUME NEW i \in Instances, PassStep(i)
      PROVE  IInv'
  BY <1>2, StartPassStep, PassOverStep, ObserveStep, check_due_ci_waitsStep, ReadPrStep,
     ReadRunsStep, ReadStatusesStep, BackoffWriteStep, complete_wait_and_requeueStep,
     RestStep
  DEF PassStep
<1>3. ASSUME NEW i \in Instances, Boot(i) \/ Crash(i)
      PROVE  IInv'
  BY <1>3, RestStep
<1> QED
  BY <1>1, <1>2, <1>3, EnterStep, ClaimWokenStep, TickStep, ProviderChangesStep
  DEF WaitsNext

\* The line of due rows is a line of rows, and no longer than there are rows.
LEMMA LineBounded ==
  ASSUME LineInv
  PROVE  Len(line) =< Cardinality(Waits)
<1>1. line \in [1 .. Len(line) -> Waits] /\ Len(line) \in Nat
  BY DEF LineInv
<1>2. line \in Injection(1 .. Len(line), Waits)
  BY <1>1 DEF LineInv, Injection
<1>3. Cardinality(1 .. Len(line)) =< Cardinality(Waits)
  BY <1>2, FS_Injection, WaitsAssumption
<1>4. Cardinality(1 .. Len(line)) = Len(line)
  <2> DEFINE n == Len(line)
  <2>1. n \in Nat
    BY <1>1
  <2> HIDE DEF n
  <2>2. Cardinality(1 .. n) = IF 1 > n THEN 0 ELSE n - 1 + 1
    BY <2>1, FS_Interval
  <2>3. Cardinality(1 .. n) = n
    BY <2>1, <2>2
  <2> QED
    BY <2>3 DEF n
<1> QED
  BY <1>3, <1>4

\* The invariant says what the run checks.
LEMMA WaitsInvFollows ==
  ASSUME IInv
  PROVE  WaitsInv
<1>1. WaitsTypeOK
  BY LineBounded DEF IInv, Types, LineInv, Rows, WaitsTypeOK
<1>2. ASSUME NEW j \in Jobs
      PROVE  Cardinality({w \in Waits : JobOf[w] = j /\ Open(w)}) =
               IF job[j] = "WAITING_EXTERNAL" THEN 1 ELSE 0
  <2> DEFINE S == {w \in Waits : JobOf[w] = j /\ Open(w)}
  <2>1. CASE job[j] = "WAITING_EXTERNAL"
    <3>1. PICK w \in Waits : JobOf[w] = j /\ Open(w)
      BY <2>1 DEF IInv, OneOpen
    <3>2. S = {w}
      BY <3>1 DEF IInv, OneOpen
    <3> QED
      BY <2>1, <3>2, FS_Singleton
  <2>2. CASE job[j] # "WAITING_EXTERNAL"
    <3>1. S = {}
      BY <2>2 DEF IInv, OneOpen
    <3> QED
      BY <2>2, <3>1, FS_EmptySet
  <2> QED
    BY <2>1, <2>2
<1> QED
  BY <1>1, <1>2 DEF WaitsInv, WaitingHasOneOpenRow

\* The inductive invariant holds of every behaviour of the waits.
THEOREM WaitsInductive == WaitsSpec => []IInv
<1>1. WaitsInit => IInv
  BY InitHolds
<1>2. IInv /\ [WaitsNext]_waitVars => IInv'
  BY NextHolds
<1> QED
  BY <1>1, <1>2, PTL DEF WaitsSpec

\* A waiting job has exactly one open row and no other job has one, whichever
\* processes finish late what they began (enter_wait,
\* complete_wait_and_requeue).
THEOREM WaitsSafe == WaitsSpec => []WaitsInv
<1>1. IInv => WaitsInv
  BY WaitsInvFollows
<1> QED
  BY <1>1, WaitsInductive, PTL

\* A CI wait ends in SUCCESS only if every required check was SUCCESS at some
\* moment while the wait was open (_process_ci_wait, aggregate_ci_state).
THEOREM GreenSeen == WaitsSpec => []GreenWasSeen
<1>1. IInv => GreenWasSeen
  BY DEF IInv, SeenInv, GreenWasSeen
<1> QED
  BY <1>1, WaitsInductive, PTL

=============================================================================
