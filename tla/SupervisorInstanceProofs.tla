----------------------- MODULE SupervisorInstanceProofs -----------------------
(***************************************************************************)
(* SupervisorInstance keeps one active supervisor, for every number of     *)
(* processes, hosts, pids and passes.                                      *)
(***************************************************************************)
EXTENDS SupervisorInstance, TLAPS

(***************************************************************************)
(* The inductive invariant.  IdentInv: what /proc and the boot id of a     *)
(* host say of a living service process is its identity.                   *)
(***************************************************************************)
IdentInv ==
    /\ \A p \in Procs : Alive(p) =>
          /\ me[p] \in Identities
          /\ proc[me[p].host][me[p].pid] = me[p].ticks
          /\ boot[me[p].host] = me[p].boot
    /\ \A p, q \in Procs :
          (Alive(p) /\ Alive(q) /\ me[p].host = me[q].host /\ me[p].pid = me[q].pid) => p = q

(* Names(r): r is a row some process wrote, and as long as that process    *)
(* lives r tells its identity.                                             *)
Names(r) ==
    /\ r \in Rows
    /\ r.host_id \in {r.host, NULL}
    /\ pc[r.instance] \in WorkPhases \cup {"closing", "gone"}
    /\ Alive(r.instance) =>
          /\ me[r.instance].host = r.host /\ me[r.instance].boot = r.boot
          /\ me[r.instance].pid = r.pid /\ me[r.instance].ticks = r.ticks

RowInv ==
    row # NULL => Names(row) /\ (row.status = INSTANCE_ACTIVE => pc[row.instance] # "closing")

(* Seen(p): the row an acquiring process remembers is the current one if   *)
(* it has its revision, and what it concluded about its owner stays true.  *)
Seen(p) ==
    /\ acq[p].host_id # NULL => Alive(p) /\ acq[p].host_id = me[p].host
    /\ pc[p] \in {"alive", "ticks", "cas"} =>
          /\ acq[p].seen # NULL => Names(acq[p].seen)
          /\ Revision(acq[p].seen) <= Revision(row)
          /\ Revision(acq[p].seen) = Revision(row) => acq[p].seen = row
    /\ pc[p] \in {"alive", "ticks"} => acq[p].seen # NULL
    /\ pc[p] = "cas" /\ acq[p].seen # NULL /\ acq[p].seen.status = INSTANCE_ACTIVE
          => pc[acq[p].seen.instance] = "gone"

SeenInv == \A p \in Procs : Seen(p)

(* LoopInv: the counters stay below their limits until the loop stops.     *)
LoopInv ==
    \A p \in Procs :
       /\ pc[p] \in {"pass", "fence", "waits", "ci", "beat", "recheck"}
             => loop[p].passes < MaxPasses
       /\ loop[p].errs >= MAX_CONSECUTIVE_ERRORS => loop[p].stop
       /\ pc[p] = "pass" => loop[p].errs < MAX_CONSECUTIVE_ERRORS
       /\ acq[p].tries < MAX_ACQUIRE_ATTEMPTS

TypeInv == InstanceTypeOK /\ IdentInv /\ LoopInv
Safe == RowInv /\ SeenInv /\ HolderOwnsRow
IInv == TypeInv /\ Safe

-----------------------------------------------------------------------------
(***************************************************************************)
(* Types.  The steps fall into a few shapes: the process ends, a step of   *)
(* acquire() that changes its phase and its locals, a step of the loop.    *)
(***************************************************************************)
Codes == {NULL, EXIT_OK, EXIT_FAILED, EXIT_INIT_ERROR, EXIT_OWNER_CONFLICT}

(* Ends keeps TypeInv: the pid it frees is the process's own.              *)
LEMMA EndsTypes ==
    ASSUME TypeInv, NEW p \in Procs, Alive(p), NEW c \in Codes, Ends(p, c), row' = row
    PROVE  TypeInv'
<1> USE SupervisorInstanceAssumption
<1>1. me[p] \in Identities
  BY DEF TypeInv, IdentInv
<1>2. InstanceTypeOK'
  <2>1. proc' \in [Hosts -> [Pids -> Nat \cup {NULL}]]
    BY <1>1 DEF TypeInv, InstanceTypeOK, Ends, Identities
  <2>2. flock' \in [Hosts -> Procs \cup {NULL}]
    BY <1>1 DEF TypeInv, InstanceTypeOK, Ends, Identities
  <2>3. InitAcq \in Acqs /\ InitLoop \in Loops
    BY DEF InitAcq, InitLoop, Acqs, Loops, Health
  <2> QED
    BY <2>1, <2>2, <2>3 DEF TypeInv, InstanceTypeOK, Ends, Goto, Phases, Codes
<1>3. IdentInv'
  BY <1>1 DEF TypeInv, InstanceTypeOK, IdentInv, Ends, Goto, Alive, Identities
<1>4. LoopInv'
  BY DEF TypeInv, InstanceTypeOK, LoopInv, Ends, Goto, InitAcq, InitLoop
<1> QED
  BY <1>2, <1>3, <1>4 DEF TypeInv

(* A process that moves between living phases, on a host that stays as it  *)
(* is, keeps its identity.                                                 *)
LEMMA MoveIdent ==
    ASSUME TypeInv, NEW p \in Procs, Alive(p), NEW to \in Phases \ {"unborn", "gone"},
           Goto(p, to), UNCHANGED <<host, me>>
    PROVE  IdentInv' /\ pc' \in [Procs -> Phases]
BY DEF TypeInv, InstanceTypeOK, IdentInv, Goto, Alive, host

(* A loop step keeps TypeInv if what it writes is a loop record within     *)
(* the limits of its next phase.                                           *)
LEMMA LoopStepTypes ==
    ASSUME TypeInv, NEW p \in Procs,
           NEW from \in LoopPhases, NEW to \in LoopPhases \cup {"finalize"}, NEW l \in Loops,
           LoopStep(p, from, to, l),
           to \in {"pass", "fence", "waits", "ci", "beat", "recheck"} => l.passes < MaxPasses,
           l.errs >= MAX_CONSECUTIVE_ERRORS => l.stop,
           to = "pass" => l.errs < MAX_CONSECUTIVE_ERRORS
    PROVE  TypeInv'
<1>1. Alive(p)
  BY DEF LoopStep, LoopPhases, Alive
<1>2. to \in Phases \ {"unborn", "gone"}
  BY DEF Phases, WorkPhases, LoopPhases
<1>3. IdentInv' /\ pc' \in [Procs -> Phases]
  BY <1>1, <1>2, MoveIdent DEF LoopStep
<1>4. InstanceTypeOK'
  BY <1>3 DEF TypeInv, InstanceTypeOK, LoopStep, host
<1>5. LoopInv'
  BY DEF TypeInv, InstanceTypeOK, LoopInv, LoopStep, Goto, LoopPhases
<1> QED
  BY <1>3, <1>4, <1>5 DEF TypeInv

(* The steps of a host keep TypeInv: a new process takes an unused pid.    *)
LEMMA HostTypes ==
    ASSUME TypeInv, NEW h \in Hosts
    PROVE  /\ \A x \in Pids : (OtherStarts(h, x) \/ OtherExits(h, x)) => TypeInv'
           /\ \A p \in Procs, x \in Pids : Start(p, h, x) => TypeInv'
           /\ Reboot(h) => TypeInv'
<1> USE SupervisorInstanceAssumption
<1>1. ASSUME NEW x \in Pids, OtherStarts(h, x) PROVE TypeInv'
  <2>1. InstanceTypeOK'
    BY <1>1 DEF TypeInv, InstanceTypeOK, OtherStarts, Spawned
  <2>2. IdentInv'
    BY <1>1 DEF TypeInv, InstanceTypeOK, IdentInv, OtherStarts, Spawned, Alive, Identities
  <2>3. LoopInv'
    BY <1>1 DEF TypeInv, LoopInv, OtherStarts
  <2> QED
    BY <2>1, <2>2, <2>3 DEF TypeInv
<1>2. ASSUME NEW x \in Pids, OtherExits(h, x) PROVE TypeInv'
  <2>1. InstanceTypeOK'
    BY <1>2 DEF TypeInv, InstanceTypeOK, OtherExits
  <2>2. IdentInv'
    BY <1>2 DEF TypeInv, InstanceTypeOK, IdentInv, OtherExits, Alive, Identities
  <2>3. LoopInv'
    BY <1>2 DEF TypeInv, LoopInv, OtherExits
  <2> QED
    BY <2>1, <2>2, <2>3 DEF TypeInv
<1>3. ASSUME NEW p \in Procs, NEW x \in Pids, Start(p, h, x) PROVE TypeInv'
  <2>1. [host |-> h, pid |-> x, ticks |-> now[h], boot |-> boot[h]] \in Identities
    BY DEF TypeInv, InstanceTypeOK, Identities
  <2>2. InstanceTypeOK'
    BY <1>3, <2>1 DEF TypeInv, InstanceTypeOK, Start, Spawned, Goto, Phases, AcquirePhases
  <2>3. IdentInv'
    BY <1>3, <2>1 DEF TypeInv, InstanceTypeOK, IdentInv, Start, Spawned, Goto, Alive, Identities
  <2>4. LoopInv'
    BY <1>3 DEF TypeInv, InstanceTypeOK, LoopInv, Start, Goto
  <2> QED
    BY <2>2, <2>3, <2>4 DEF TypeInv
<1>4. ASSUME Reboot(h) PROVE TypeInv'
  <2>1. InitAcq \in Acqs /\ InitLoop \in Loops
    BY DEF InitAcq, InitLoop, Acqs, Loops, Health
  <2>2. InstanceTypeOK'
    BY <1>4, <2>1 DEF TypeInv, InstanceTypeOK, Reboot, Phases
  <2>3. IdentInv'
    BY <1>4 DEF TypeInv, InstanceTypeOK, IdentInv, Reboot, Alive, Identities
  <2>4. LoopInv'
    BY <1>4 DEF TypeInv, InstanceTypeOK, LoopInv, Reboot, InitAcq, InitLoop
  <2> QED
    BY <2>2, <2>3, <2>4 DEF TypeInv
<1> QED
  BY <1>1, <1>2, <1>3, <1>4

(* A step that leaves the loop record alone keeps TypeInv if the row, the  *)
(* lock and the locals it writes are typed and the attempts are within     *)
(* their limit.                                                            *)
LEMMA MoveTypes ==
    ASSUME TypeInv, NEW p \in Procs, Alive(p), NEW to \in Phases \ {"unborn", "gone"},
           Goto(p, to), UNCHANGED <<host, me, loop, exit>>,
           row' \in Rows \cup {NULL}, flock' \in [Hosts -> Procs \cup {NULL}],
           NEW a \in Acqs, acq' = [acq EXCEPT ![p] = a],
           a.tries < MAX_ACQUIRE_ATTEMPTS,
           to \in {"fence", "waits", "ci", "beat", "recheck"} => loop[p].passes < MaxPasses,
           to # "pass"
    PROVE  TypeInv'
<1>1. IdentInv' /\ pc' \in [Procs -> Phases]
  BY MoveIdent
<1>2. InstanceTypeOK'
  BY <1>1 DEF TypeInv, InstanceTypeOK, host
<1>3. LoopInv'
  BY DEF TypeInv, InstanceTypeOK, LoopInv, Goto
<1> QED
  BY <1>1, <1>2, <1>3 DEF TypeInv

(* Every step of acquire() and of the reconciliation keeps TypeInv.        *)
LEMMA AcquireTypes ==
    ASSUME TypeInv, NEW p \in Procs, AcquireStep(p)
    PROVE  TypeInv'
<1> USE SupervisorInstanceAssumption
<1> DEFINE Quits == \E c \in Codes : Alive(p) /\ Ends(p, c) /\ row' = row
<1>a. Quits => TypeInv'
  BY EndsTypes
<1>b. /\ row \in Rows \cup {NULL}
      /\ flock \in [Hosts -> Procs \cup {NULL}]
      /\ acq \in [Procs -> Acqs] /\ acq[p] \in Acqs
      /\ Alive(p) => me[p] \in Identities
      /\ acq[p].tries < MAX_ACQUIRE_ATTEMPTS
      /\ acq = [acq EXCEPT ![p] = acq[p]]
  BY DEF TypeInv, InstanceTypeOK, IdentInv, LoopInv
<1>c. {"begin", "read", "alive", "ticks", "cas", "reconcile", "enter"}
        \subseteq Phases \ {"unborn", "gone"}
  BY DEF Phases, AcquirePhases, WorkPhases, LoopPhases
<1> HIDE DEF Quits
<1>1. CASE TakeLock(p)
  <2>1. CASE Goto(p, "begin") /\ UNCHANGED <<row, host, me, acq, loop, exit>>
    <3>1. flock' \in [Hosts -> Procs \cup {NULL}]
      BY <1>1, <1>b, <2>1 DEF TakeLock, Alive, Identities, Ends, host
    <3> QED
      BY <1>1, <1>b, <1>c, <2>1, <3>1, MoveTypes DEF TakeLock, Alive
  <2> QED
    BY <1>1, <1>a, <2>1 DEF TakeLock, Quits, Codes, Alive
<1>2. CASE BeginAcquire(p)
  <2>1. ASSUME NEW id \in {me[p].host, NULL}, acq' = [acq EXCEPT ![p].host_id = id],
               Goto(p, "read"), UNCHANGED <<row, host, flock, me, loop, exit>>
        PROVE  TypeInv'
    <3>1. PICK a \in Acqs : a.tries < MAX_ACQUIRE_ATTEMPTS /\ acq' = [acq EXCEPT ![p] = a]
      <4> DEFINE a == [acq[p] EXCEPT !.host_id = id]
      <4>1. a \in Acqs /\ a.tries = acq[p].tries
        BY <1>2, <1>b, <2>1 DEF BeginAcquire, Alive, Acqs, Identities
      <4>2. acq' = [acq EXCEPT ![p] = a]
        BY <1>b, <2>1
      <4> HIDE DEF a
      <4> QED
        BY <1>b, <4>1, <4>2
    <3>2. /\ Alive(p) /\ Goto(p, "read") /\ UNCHANGED <<host, me, loop, exit>>
          /\ row' \in Rows \cup {NULL} /\ flock' \in [Hosts -> Procs \cup {NULL}]
      BY <1>2, <1>b, <2>1 DEF BeginAcquire, Alive
    <3>3. "read" \in Phases \ {"unborn", "gone"}
      BY <1>c
    <3> QED
      BY <3>1, <3>2, <3>3, MoveTypes
  <2> QED
    BY <1>2, <1>a, <2>1 DEF BeginAcquire, Quits, Codes, Alive
<1>3. CASE ReadOwner(p)
  <2>1. [acq[p] EXCEPT !.seen = row] \in Acqs
    BY <1>b DEF Acqs
  <2>2. [acq[p] EXCEPT !.seen = row].tries = acq[p].tries
    BY <1>b DEF Acqs
  <2>3. acq' = [acq EXCEPT ![p] = [acq[p] EXCEPT !.seen = row]]
    BY <1>3, <1>b DEF ReadOwner
  <2>4. PICK a \in Acqs : a.tries < MAX_ACQUIRE_ATTEMPTS /\ acq' = [acq EXCEPT ![p] = a]
    BY <1>b, <2>1, <2>2, <2>3
  <2>5. PICK to \in {"cas", "alive"} : Goto(p, to)
    BY <1>3 DEF ReadOwner
  <2>6. /\ Alive(p) /\ UNCHANGED <<host, me, loop, exit>>
        /\ row' \in Rows \cup {NULL} /\ flock' \in [Hosts -> Procs \cup {NULL}]
    BY <1>3, <1>b DEF ReadOwner, Alive
  <2>7. /\ to \in Phases \ {"unborn", "gone"}
        /\ to \notin {"fence", "waits", "ci", "beat", "recheck"} /\ to # "pass"
    BY <1>c, <2>5
  <2> QED
    BY <2>4, <2>5, <2>6, <2>7, MoveTypes
<1>4. ASSUME NEW t, NEW a, Judge(p, a, t), pc[p] \in {"alive", "ticks"} PROVE TypeInv'
  <2>1. CASE Goto(p, "cas") /\ UNCHANGED <<row, host, flock, me, acq, loop, exit>>
    BY <1>4, <1>b, <1>c, <2>1, MoveTypes DEF Alive
  <2> QED
    BY <1>4, <1>a, <2>1 DEF Judge, Quits, Codes, Alive
<1>5. CASE ProbePid(p)
  <2>1. CASE Goto(p, "ticks") /\ UNCHANGED <<row, host, flock, me, acq, loop, exit>>
    BY <1>5, <1>b, <1>c, <2>1, MoveTypes DEF ProbePid, Alive
  <2> QED
    BY <1>5, <1>4, <2>1 DEF ProbePid
<1>6. CASE ProbeTicks(p)
  BY <1>6, <1>4 DEF ProbeTicks
<1>7. CASE Cas(p)
  <2>1. CASE RevisionUnchanged(p) /\ row' = BuildRow(p, Revision(row) + 1) /\ Goto(p, "reconcile")
             /\ acq' = [acq EXCEPT ![p] = InitAcq] /\ UNCHANGED <<host, flock, me, loop, exit>>
    <3>1. row' \in Rows
      BY <1>7, <1>b, <2>1 DEF Cas, Alive, BuildRow, Revision, Rows, Identities, Acqs
    <3>2. InitAcq \in Acqs /\ InitAcq.tries < MAX_ACQUIRE_ATTEMPTS
      BY DEF InitAcq, Acqs
    <3> QED
      BY <1>7, <1>b, <1>c, <2>1, <3>1, <3>2, MoveTypes DEF Cas, Alive
  <2>2. CASE /\ acq[p].tries + 1 < MAX_ACQUIRE_ATTEMPTS
             /\ acq' = [acq EXCEPT ![p].tries = @ + 1]
             /\ Goto(p, "read") /\ UNCHANGED <<row, host, flock, me, loop, exit>>
    <3>1. PICK a \in Acqs : a.tries < MAX_ACQUIRE_ATTEMPTS /\ acq' = [acq EXCEPT ![p] = a]
      <4> DEFINE a == [acq[p] EXCEPT !.tries = acq[p].tries + 1]
      <4>1. a \in Acqs /\ a.tries = acq[p].tries + 1
        BY <1>b, <2>2 DEF Acqs
      <4>2. acq' = [acq EXCEPT ![p] = a]
        BY <1>b, <2>2
      <4> HIDE DEF a
      <4> QED
        BY <2>2, <4>1, <4>2
    <3>2. /\ Alive(p) /\ Goto(p, "read") /\ UNCHANGED <<host, me, loop, exit>>
          /\ row' \in Rows \cup {NULL} /\ flock' \in [Hosts -> Procs \cup {NULL}]
      BY <1>7, <1>b, <2>2 DEF Cas, Alive
    <3>3. "read" \in Phases \ {"unborn", "gone"}
      BY <1>c
    <3> QED
      BY <3>1, <3>2, <3>3, MoveTypes
  <2> QED
    BY <1>7, <1>a, <2>1, <2>2 DEF Cas, Quits, Codes, Alive
<1>8. CASE Reconcile(p)
  <2>1. CASE Goto(p, "enter") /\ UNCHANGED <<row, host, flock, me, acq, loop, exit>>
    BY <1>8, <1>b, <1>c, <2>1, MoveTypes DEF Reconcile, Alive
  <2> QED
    BY <1>8, <1>a, <2>1 DEF Reconcile, Quits, Codes, Alive
<1> QED
  BY <1>1, <1>2, <1>3, <1>5, <1>6, <1>7, <1>8 DEF AcquireStep

(* What the bookkeeping of the loop writes, field by field.                *)
LEMMA LoopOps ==
    ASSUME NEW l \in Loops
    PROVE  /\ mark_failed(l) \in Loops /\ mark_failed(l).stop
           /\ mark_failed(l).passes = l.passes /\ mark_failed(l).errs = l.errs
           /\ _record_error(l) \in Loops /\ _record_error(l).stop = l.stop
           /\ _record_error(l).passes = l.passes /\ _record_error(l).errs = l.errs
           /\ request_shutdown(l) \in Loops /\ request_shutdown(l).stop
           /\ request_shutdown(l).passes = l.passes /\ request_shutdown(l).errs = l.errs
BY DEF Loops, Health, mark_failed, _record_error, request_shutdown

(* A scheduler error is counted, and the count that reaches the limit      *)
(* stops the loop.                                                         *)
LEMMA SchedulerErrorOp ==
    ASSUME NEW l \in Loops, l.errs < MAX_CONSECUTIVE_ERRORS
    PROVE  /\ _record_scheduler_error(l) \in Loops
           /\ _record_scheduler_error(l).passes = l.passes
           /\ _record_scheduler_error(l).errs >= MAX_CONSECUTIVE_ERRORS
                 => _record_scheduler_error(l).stop
<1> USE SupervisorInstanceAssumption
<1> DEFINE counted == [_record_error(l) EXCEPT !.errs = @ + 1]
<1>1. counted \in Loops /\ counted.passes = l.passes
  BY LoopOps DEF Loops
<1>2. _record_scheduler_error(l)
        = IF counted.errs >= MAX_CONSECUTIVE_ERRORS THEN mark_failed(counted) ELSE counted
  BY DEF _record_scheduler_error
<1>3. mark_failed(counted) \in Loops /\ mark_failed(counted).stop
      /\ mark_failed(counted).passes = counted.passes
  BY <1>1, LoopOps
<1> HIDE DEF counted
<1> QED
  BY <1>1, <1>2, <1>3

(* A heartbeat or a release writes a row with the same owner and the next  *)
(* revision.                                                               *)
LEMMA UpdatedRowOp ==
    ASSUME NEW r0 \in Rows, NEW st \in {INSTANCE_ACTIVE, INSTANCE_RELEASED}
    PROVE  LET r == Updated(r0, st)
           IN  /\ r \in Rows /\ r.status = st /\ r.revision = r0.revision + 1
               /\ r.instance = r0.instance /\ r.host = r0.host /\ r.boot = r0.boot
               /\ r.host_id = r0.host_id /\ r.pid = r0.pid /\ r.ticks = r0.ticks
<1> DEFINE n == r0.revision + 1
           a == [r0 EXCEPT !.status = st]
<1>1. n \in Nat \ {0}
  BY DEF Rows
<1>2. a \in Rows /\ a.status = st
      /\ a.instance = r0.instance /\ a.host = r0.host /\ a.boot = r0.boot
      /\ a.host_id = r0.host_id /\ a.pid = r0.pid /\ a.ticks = r0.ticks
  BY DEF Rows
<1>3. Updated(r0, st) = [a EXCEPT !.revision = n]
  BY DEF Updated
<1> HIDE DEF a, n
<1>4. LET r == [a EXCEPT !.revision = n]
      IN  /\ r \in Rows /\ r.status = a.status /\ r.revision = n
          /\ r.instance = a.instance /\ r.host = a.host /\ r.boot = a.boot
          /\ r.host_id = a.host_id /\ r.pid = a.pid /\ r.ticks = a.ticks
  BY <1>1, <1>2 DEF Rows
<1> QED
  BY <1>2, <1>3, <1>4 DEF n

(* Every step of the loop keeps TypeInv.                                   *)
LEMMA LoopTypes ==
    ASSUME TypeInv, NEW p \in Procs, RunLoopStep(p)
    PROVE  TypeInv'
<1> USE SupervisorInstanceAssumption
<1>a. /\ row \in Rows \cup {NULL} /\ flock \in [Hosts -> Procs \cup {NULL}]
      /\ loop[p] \in Loops /\ loop \in [Procs -> Loops]
      /\ acq[p] \in Acqs /\ acq = [acq EXCEPT ![p] = acq[p]]
      /\ acq[p].tries < MAX_ACQUIRE_ATTEMPTS
  BY DEF TypeInv, InstanceTypeOK, LoopInv
<1>b. /\ pc[p] \in {"pass", "fence", "waits", "ci", "beat", "recheck"}
            => loop[p].passes < MaxPasses
      /\ loop[p].errs >= MAX_CONSECUTIVE_ERRORS => loop[p].stop
      /\ pc[p] = "pass" => loop[p].errs < MAX_CONSECUTIVE_ERRORS
  BY DEF TypeInv, LoopInv
<1>c. /\ loop[p].passes \in Nat /\ loop[p].errs \in Nat /\ loop[p].stop \in BOOLEAN
      /\ loop[p].passes <= MaxPasses
  BY <1>a DEF Loops
<1>1. CASE EnterLoop(p)
  <2>1. PICK l \in Loops : /\ LoopStep(p, "enter", "loop", l)
                           /\ l.errs = loop[p].errs /\ l.stop = loop[p].stop
    BY <1>1, <1>a DEF EnterLoop, Loops, Health
  <2> QED
    BY <1>b, <2>1, LoopStepTypes DEF LoopPhases
<1>2. CASE BeginPass(p)
  <2>1. PICK l \in Loops : /\ LoopStep(p, "loop", "pass", l)
                           /\ l.errs = loop[p].errs /\ l.stop = loop[p].stop
                           /\ l.passes = loop[p].passes
    BY <1>2, <1>a DEF BeginPass, Loops
  <2>2. ~loop[p].stop /\ loop[p].passes < MaxPasses
    BY <1>2 DEF BeginPass, _should_continue
  <2> QED
    BY <1>b, <1>c, <2>1, <2>2, LoopStepTypes DEF LoopPhases
<1>3. CASE LeaveLoop(p)
  BY <1>3, <1>a, <1>b, LoopStepTypes DEF LeaveLoop, LoopPhases
<1>4. CASE RunPass(p)
  <2>1. pc[p] = "pass"
    BY <1>4 DEF RunPass, LoopStep
  <2>2. PICK l \in Loops : /\ LoopStep(p, "pass", "fence", l)
                           /\ l.errs >= MAX_CONSECUTIVE_ERRORS => l.stop
                           /\ l.passes = loop[p].passes
    BY <1>4, <1>a, <1>b, <2>1, SchedulerErrorOp DEF RunPass, Loops
  <2> QED
    BY <1>b, <2>1, <2>2, LoopStepTypes DEF LoopPhases
<1>5. CASE CheckFence(p)
  <2>1. pc[p] = "fence"
    BY <1>5 DEF CheckFence, LoopStep
  <2>2. PICK l \in Loops, to \in {"waits", "beat"} :
               /\ LoopStep(p, "fence", to, l)
               /\ l.errs >= MAX_CONSECUTIVE_ERRORS => l.stop
               /\ l.passes = loop[p].passes
    BY <1>5, <1>a, <1>b, LoopOps DEF CheckFence
  <2> QED
    BY <1>b, <2>1, <2>2, LoopStepTypes DEF LoopPhases
<1>6. CASE CheckWaits(p)
  <2>1. pc[p] \in {"waits", "ci"}
    BY <1>6 DEF CheckWaits, LoopStep
  <2>2. PICK l \in Loops, from \in {"waits", "ci"}, to \in {"ci", "beat"} :
               /\ LoopStep(p, from, to, l)
               /\ l.errs >= MAX_CONSECUTIVE_ERRORS => l.stop
               /\ l.passes = loop[p].passes
    BY <1>6, <1>a, <1>b, LoopOps DEF CheckWaits
  <2> QED
    BY <1>b, <2>1, <2>2, LoopStepTypes DEF LoopPhases
<1>7. CASE Heartbeat(p)
  <2>1. pc[p] = "beat"
    BY <1>7 DEF Heartbeat, LoopStep
  <2>2. CASE /\ OwnsRow(p) /\ row' = Updated(row, row.status) /\ Goto(p, "recheck")
             /\ UNCHANGED <<host, flock, me, acq, loop, exit>>
    <3>1. row' \in Rows
      <4>1. row \in Rows /\ row.status \in {INSTANCE_ACTIVE, INSTANCE_RELEASED}
        BY <1>a, <2>2 DEF OwnsRow, Rows
      <4> QED
        BY <2>2, <4>1, UpdatedRowOp
    <3>2. "recheck" \in Phases \ {"unborn", "gone"}
      BY DEF Phases, WorkPhases, LoopPhases
    <3> QED
      BY <1>a, <1>b, <2>1, <2>2, <3>1, <3>2, MoveTypes DEF Alive
  <2>3. ASSUME NEW l \in Loops, LoopStep(p, "beat", "recheck", l),
               l.errs >= MAX_CONSECUTIVE_ERRORS => l.stop, l.passes = loop[p].passes
        PROVE  TypeInv'
    BY <1>b, <2>1, <2>3, LoopStepTypes DEF LoopPhases
  <2>4. \/ OwnsRow(p) /\ row' = Updated(row, row.status) /\ Goto(p, "recheck")
             /\ UNCHANGED <<host, flock, me, acq, loop, exit>>
        \/ \E l \in {loop[p], mark_failed(loop[p]), mark_failed(_record_error(loop[p]))} :
              LoopStep(p, "beat", "recheck", l)
    BY <1>7 DEF Heartbeat
  <2>5. \A l \in {loop[p], mark_failed(loop[p]), mark_failed(_record_error(loop[p]))} :
           l \in Loops /\ l.passes = loop[p].passes
             /\ (l.errs >= MAX_CONSECUTIVE_ERRORS => l.stop)
    BY <1>a, <1>b, LoopOps
  <2> QED
    BY <2>2, <2>3, <2>4, <2>5
<1>8. CASE Recheck(p)
  <2>1. pc[p] = "recheck"
    BY <1>8 DEF Recheck, LoopStep
  <2>2. ASSUME NEW k \in {loop[p], mark_failed(loop[p])},
               LoopStep(p, "recheck", "loop", [k EXCEPT !.passes = @ + 1])
        PROVE  TypeInv'
    <3>1. k \in Loops /\ k.passes = loop[p].passes
            /\ (k.errs >= MAX_CONSECUTIVE_ERRORS => k.stop)
      BY <1>a, <1>b, LoopOps
    <3>2. PICK l \in Loops : /\ LoopStep(p, "recheck", "loop", l)
                             /\ l.errs = k.errs /\ l.stop = k.stop
      BY <1>b, <1>c, <2>1, <2>2, <3>1 DEF Loops
    <3> QED
      BY <3>1, <3>2, LoopStepTypes DEF LoopPhases
  <2> QED
    BY <1>8, <2>2 DEF Recheck
<1>9. CASE Finalize(p)
  <2>1. pc[p] = "finalize" /\ Goto(p, "closing") /\ UNCHANGED <<host, flock, me, acq, exit>>
    BY <1>9 DEF Finalize
  <2>2. IdentInv' /\ pc' \in [Procs -> Phases]
    BY <2>1, MoveIdent DEF Alive, Phases
  <2>3. row' \in Rows \cup {NULL}
    BY <1>9, <1>a, UpdatedRowOp DEF Finalize, OwnsRow
  <2>4. loop' \in [Procs -> Loops]
    BY <1>9, <1>a DEF Finalize, FinalHealth, Loops, Health
  <2>5. InstanceTypeOK'
    BY <2>1, <2>2, <2>3, <2>4 DEF TypeInv, InstanceTypeOK, host
  <2>6. LoopInv'
    BY <1>9, <2>1 DEF TypeInv, InstanceTypeOK, LoopInv, Finalize, Goto, Loops
  <2> QED
    BY <2>2, <2>5, <2>6 DEF TypeInv
<1>10. CASE Exit(p)
  BY <1>10, EndsTypes DEF Exit, Codes, Alive
<1> QED
  BY <1>1, <1>2, <1>3, <1>4, <1>5, <1>6, <1>7, <1>8, <1>9, <1>10 DEF RunLoopStep

(* TypeInv is inductive.                                                   *)
LEMMA TypeInductive == TypeInv /\ [Next]_vars => TypeInv'
<1> SUFFICES ASSUME TypeInv, [Next]_vars PROVE TypeInv'
  OBVIOUS
<1>1. ASSUME NEW p \in Procs, Signal(p) PROVE TypeInv'
  <2>1. loop' \in [Procs -> Loops]
    BY <1>1, LoopOps DEF TypeInv, InstanceTypeOK, Signal
  <2>2. InstanceTypeOK'
    BY <1>1, <2>1 DEF TypeInv, InstanceTypeOK, Signal, host
  <2>3. IdentInv'
    BY <1>1 DEF TypeInv, IdentInv, Signal, host, Alive
  <2>4. LoopInv'
    BY <1>1, LoopOps DEF TypeInv, InstanceTypeOK, LoopInv, Signal
  <2> QED
    BY <2>2, <2>3, <2>4 DEF TypeInv
<1>2. ASSUME NEW p \in Procs, Crash(p) PROVE TypeInv'
  BY <1>2, EndsTypes DEF Crash, Codes
<1>3. CASE UNCHANGED vars
  BY <1>3 DEF vars, TypeInv, InstanceTypeOK, IdentInv, LoopInv, Alive
<1> QED
  BY <1>1, <1>2, <1>3, HostTypes, AcquireTypes, LoopTypes DEF Next

-----------------------------------------------------------------------------
(***************************************************************************)
(* One active supervisor.  A step leaves a process as it is, ends it, or   *)
(* is a step of that process; a process that has owned the row never goes  *)
(* back, and the row never goes back to an earlier revision.               *)
(***************************************************************************)
Keeps(q) == pc'[q] = pc[q] /\ me'[q] = me[q] /\ acq'[q] = acq[q]
Dies(q) == pc'[q] = "gone" /\ acq'[q] = InitAcq
Owned == WorkPhases \cup {"closing", "gone"}

Forward(q) ==
    /\ pc[q] \in Owned => pc'[q] \in Owned /\ (pc'[q] = "gone" \/ me'[q] = me[q])
    /\ pc[q] = "gone" => pc'[q] = "gone"

RowGrows == row' = row \/ (row' \in Rows /\ row'.revision = Revision(row) + 1)

(* A row that names its writer still names it after a step.                *)
LEMMA NamesKept ==
    ASSUME NEW r, Names(r), \A q \in Procs : Forward(q)
    PROVE  Names(r)'
BY DEF Names, Forward, Owned, Alive, Rows, WorkPhases, LoopPhases

(* What an acquiring process remembers survives the steps of the others.   *)
LEMMA SeenKept ==
    ASSUME TypeInv, \A q \in Procs : Forward(q), RowGrows,
           NEW p \in Procs, Seen(p), Keeps(p) \/ Dies(p)
    PROVE  Seen(p)'
<1> USE SupervisorInstanceAssumption
<1>1. CASE Dies(p)
  BY <1>1 DEF Dies, Seen, InitAcq
<1>2. CASE Keeps(p)
  <2>1. PICK r : r = acq[p].seen
    OBVIOUS
  <2>2. r \in Rows \cup {NULL} /\ row \in Rows \cup {NULL}
    BY <2>1 DEF TypeInv, InstanceTypeOK, Acqs
  <2>3. acq'[p].seen = r /\ acq'[p].host_id = acq[p].host_id /\ pc'[p] = pc[p] /\ me'[p] = me[p]
    BY <1>2, <2>1 DEF Keeps
  <2>4. ASSUME pc[p] \in {"alive", "ticks", "cas"}
        PROVE  /\ r # NULL => Names(r)'
               /\ Revision(r) <= Revision(row)'
               /\ Revision(r) = Revision(row)' => r = row'
    <3>1. r # NULL => Names(r)
      BY <2>1, <2>4 DEF Seen
    <3>2. Revision(r) \in Nat /\ Revision(row) \in Nat
          /\ (row' # row => Revision(row)' = Revision(row) + 1)
      BY <2>2, NullAssumption DEF Revision, RowGrows, Rows
    <3>3. Revision(r) <= Revision(row) /\ (Revision(r) = Revision(row) => r = row)
      BY <2>1, <2>4 DEF Seen
    <3>4. row' = row => Revision(row)' = Revision(row)
      BY DEF Revision
    <3>5. r # NULL => Names(r)'
      BY <3>1, NamesKept
    <3> QED
      BY <3>2, <3>3, <3>4, <3>5
  <2>5. pc[p] = "cas" /\ r # NULL /\ r.status = INSTANCE_ACTIVE => pc'[r.instance] = "gone"
    BY <2>1, <2>2 DEF Seen, Forward, Rows
  <2>6. /\ acq'[p].host_id # NULL => Alive(p)' /\ acq'[p].host_id = me'[p].host
        /\ pc'[p] \in {"alive", "ticks"} => r # NULL
    BY <2>1, <2>3 DEF Seen, Alive
  <2>7. Names(acq[p].seen)' <=> Names(r)'
    BY <2>3 DEF Names, Alive
  <2>8. Revision(acq[p].seen)' = Revision(r)
    BY <2>3 DEF Revision
  <2> QED
    BY <2>3, <2>4, <2>5, <2>6, <2>7, <2>8 DEF Seen
<1> QED
  BY <1>1, <1>2

(* Steps that write neither the row nor a living process's memory.         *)
LEMMA QuietSafe ==
    ASSUME TypeInv, Safe, row' = row, \A q \in Procs : Keeps(q) \/ Dies(q)
    PROVE  Safe'
<1>1. \A q \in Procs : Forward(q)
  BY DEF Keeps, Dies, Forward, Owned
<1>2. RowGrows
  BY DEF RowGrows
<1>3. SeenInv'
  BY <1>1, <1>2, SeenKept DEF Safe, SeenInv
<1>4. RowInv'
  <2>1. PICK r : r = row
    OBVIOUS
  <2>2. r # NULL => Names(r)'
    BY <1>1, <2>1, NamesKept DEF Safe, RowInv
  <2>3. Names(row)' <=> Names(r)'
    BY <2>1 DEF Names, Alive
  <2>4. row # NULL => row.instance \in Procs
    BY DEF Safe, RowInv, Names, Rows
  <2> QED
    BY <2>1, <2>2, <2>3, <2>4 DEF Safe, RowInv, Keeps, Dies
<1>5. HolderOwnsRow'
  BY DEF Safe, HolderOwnsRow, Keeps, Dies, Working, OwnsRow, WorkPhases, LoopPhases
<1> QED
  BY <1>3, <1>4, <1>5 DEF Safe

(* A step of p that does not write the row: it may not make p work.        *)
LEMMA MoveSafe ==
    ASSUME TypeInv, Safe, row' = row, NEW p \in Procs,
           \A q \in Procs \ {p} : Keeps(q), Forward(p), Seen(p)',
           Working(p)' => Working(p), pc'[p] # "closing"
    PROVE  Safe'
<1>1. \A q \in Procs : Forward(q)
  BY DEF Keeps, Forward, Owned
<1>2. RowGrows
  BY DEF RowGrows
<1>3. SeenInv'
  BY <1>1, <1>2, SeenKept DEF Safe, SeenInv
<1>4. RowInv'
  <2>1. PICK r : r = row
    OBVIOUS
  <2>2. r # NULL => Names(r)'
    BY <1>1, <2>1, NamesKept DEF Safe, RowInv
  <2>3. Names(row)' <=> Names(r)'
    BY <2>1 DEF Names, Alive
  <2>4. row # NULL => row.instance \in Procs
    BY DEF Safe, RowInv, Names, Rows
  <2> QED
    BY <2>1, <2>2, <2>3, <2>4 DEF Safe, RowInv, Keeps
<1>5. HolderOwnsRow'
  BY DEF Safe, HolderOwnsRow, Keeps, Working, OwnsRow
<1> QED
  BY <1>3, <1>4, <1>5 DEF Safe

(* What a dead verdict rests on: with sound evidence the process that      *)
(* wrote the remembered row no longer exists.                              *)
LEMMA DeadIsGone ==
    ASSUME TypeInv, EvidenceSound = TRUE, NEW p \in Procs, Seen(p),
           NEW a, NEW t, pc[p] \in {"alive", "ticks"},
           \/ a \in PidReadings(p, acq[p].seen.pid) /\ a # "yes" /\ t = NULL
           \/ a = "yes" /\ t \in TicksReadings(p, acq[p].seen.pid),
           classify_owner_liveness(acq[p].seen, p, a, t) = "dead"
    PROVE  pc[acq[p].seen.instance] = "gone"
<1> USE SupervisorInstanceAssumption
<1>1. PICK r : r = acq[p].seen
  OBVIOUS
<1>2. Names(r) /\ Alive(p)
  BY <1>1 DEF Seen, Alive
<1>3. r.instance \in Procs /\ r.host_id \in {r.host, NULL} /\ r.ticks \in Nat
  BY <1>2 DEF Names, Rows
<1>4. SUFFICES ASSUME Alive(r.instance) PROVE FALSE
  BY <1>1, <1>2 DEF Names, Alive, WorkPhases, LoopPhases
<1>5. /\ proc[r.host][r.pid] = r.ticks
      /\ boot[r.host] = r.boot
  BY <1>2, <1>3, <1>4 DEF Names, TypeInv, IdentInv
<1>6. boot[me[p].host] = me[p].boot /\ acq[p].host_id \in {me[p].host, NULL}
  BY <1>2 DEF TypeInv, IdentInv, Seen
<1>7. CASE ~SameBoot(r, p)
  <2>1. r.host_id # NULL /\ acq[p].host_id # NULL /\ r.host_id = acq[p].host_id
    BY <1>1, <1>7 DEF classify_owner_liveness
  <2> QED
    BY <1>3, <1>5, <1>6, <1>7, <2>1 DEF SameBoot
<1>8. CASE SameBoot(r, p)
  <2>1. a \in {"yes", "no", "unreadable"}
    BY DEF PidReadings
  <2>2. a = "no" => proc[r.host][r.pid] = NULL
    BY <1>1, <1>8 DEF PidReadings, SameBoot
  <2>3. a = "yes" => t = NULL \/ t = r.ticks
    BY <1>1, <1>5, <1>8 DEF TicksReadings, SameBoot
  <2>4. a # "unreadable" /\ (a = "yes" => t # NULL /\ t # r.ticks)
    BY <1>1, <1>8 DEF classify_owner_liveness
  <2> QED
    BY <1>3, <1>5, <2>1, <2>2, <2>3, <2>4
<1> QED
  BY <1>7, <1>8

(* The end of a process and the steps of the hosts are quiet; a start      *)
(* moves one process to its first phase.                                   *)
LEMMA HostSafe ==
    ASSUME TypeInv, Safe
    PROVE  /\ \A p \in Procs, c \in Codes : Alive(p) /\ Ends(p, c) /\ row' = row => Safe'
           /\ \A h \in Hosts, x \in Pids : (OtherStarts(h, x) \/ OtherExits(h, x)) => Safe'
           /\ \A h \in Hosts : Reboot(h) => Safe'
           /\ \A p \in Procs, h \in Hosts, x \in Pids : Start(p, h, x) => Safe'
<1>1. ASSUME NEW p \in Procs, NEW c \in Codes, Alive(p), Ends(p, c), row' = row PROVE Safe'
  <2>1. \A q \in Procs : Keeps(q) \/ Dies(q)
    BY <1>1 DEF TypeInv, InstanceTypeOK, Ends, Goto, Keeps, Dies
  <2> QED
    BY <1>1, <2>1, QuietSafe
<1>2. ASSUME NEW h \in Hosts, NEW x \in Pids, OtherStarts(h, x) \/ OtherExits(h, x) PROVE Safe'
  BY <1>2, QuietSafe DEF OtherStarts, OtherExits, Keeps
<1>3. ASSUME NEW h \in Hosts, Reboot(h) PROVE Safe'
  <2>1. \A q \in Procs : Keeps(q) \/ Dies(q)
    BY <1>3 DEF Reboot, Keeps, Dies
  <2> QED
    BY <1>3, <2>1, QuietSafe DEF Reboot
<1>4. ASSUME NEW p \in Procs, NEW h \in Hosts, NEW x \in Pids, Start(p, h, x) PROVE Safe'
  <2>1. pc[p] = "unborn" /\ pc'[p] = "lock" /\ acq' = acq /\ row' = row
    BY <1>4 DEF Start, Goto, TypeInv, InstanceTypeOK
  <2>2. \A q \in Procs \ {p} : Keeps(q)
    BY <1>4 DEF Start, Goto, Keeps, TypeInv, InstanceTypeOK
  <2>3. Forward(p)
    BY <2>1 DEF Forward, Owned, WorkPhases, LoopPhases
  <2>4. acq[p].host_id = NULL
    BY <2>1 DEF Safe, SeenInv, Seen, Alive
  <2>5. Seen(p)'
    BY <2>1, <2>4 DEF Seen
  <2> QED
    BY <2>1, <2>2, <2>3, <2>5, MoveSafe DEF Working, WorkPhases, LoopPhases
<1> QED
  BY <1>1, <1>2, <1>3, <1>4

(* A step of p that moves it to another phase of main() and leaves its     *)
(* identity and its row alone.                                             *)
Moves(p, to) ==
    /\ Goto(p, to)
    /\ row' = row /\ me' = me
    /\ \A q \in Procs \ {p} : acq'[q] = acq[q]

LEMMA MovesSafe ==
    ASSUME TypeInv, Safe, NEW p \in Procs, NEW to, Moves(p, to), Seen(p)',
           to \notin {"closing", "gone"}, pc[p] # "gone",
           to \in WorkPhases <=> pc[p] \in WorkPhases, pc[p] # "closing"
    PROVE  Safe'
<1>1. pc'[p] = to /\ \A q \in Procs \ {p} : Keeps(q)
  BY DEF TypeInv, InstanceTypeOK, Moves, Goto, Keeps
<1>2. Forward(p)
  BY <1>1 DEF Forward, Owned, Moves
<1> QED
  BY <1>1, <1>2, MoveSafe DEF Moves, Working

(* Every step of acquire() that does not swap the row keeps Safe.          *)
LEMMA AcquireSafe ==
    ASSUME TypeInv, Safe, EvidenceSound = TRUE, NEW p \in Procs,
           TakeLock(p) \/ BeginAcquire(p) \/ ReadOwner(p) \/ ProbePid(p) \/ ProbeTicks(p)
    PROVE  Safe'
<1> USE SupervisorInstanceAssumption
<1> DEFINE Quits == \E c \in Codes : Alive(p) /\ Ends(p, c) /\ row' = row
<1>a. Quits => Safe'
  BY HostSafe
<1>b. Seen(p) /\ acq \in [Procs -> Acqs] /\ pc \in [Procs -> Phases]
  BY DEF Safe, SeenInv, TypeInv, InstanceTypeOK
<1>c. {"lock", "begin", "read", "alive", "ticks", "cas"} \cap (WorkPhases \cup {"closing", "gone"}) = {}
  BY DEF WorkPhases, LoopPhases
<1> HIDE DEF Quits
<1>1. CASE TakeLock(p)
  <2>1. CASE Goto(p, "begin") /\ UNCHANGED <<row, host, me, acq, loop, exit>>
    <3>1. Moves(p, "begin") /\ pc[p] = "lock"
      BY <1>1, <2>1 DEF Moves, TakeLock
    <3>2. Seen(p)'
      BY <1>b, <2>1, <3>1 DEF Seen, Goto, Alive
    <3> QED
      BY <1>c, <3>1, <3>2, MovesSafe
  <2> QED
    BY <1>1, <1>a, <2>1 DEF TakeLock, Quits, Codes, Alive
<1>2. CASE BeginAcquire(p)
  <2>1. ASSUME NEW id \in {me[p].host, NULL}, acq' = [acq EXCEPT ![p].host_id = id],
               Goto(p, "read"), UNCHANGED <<row, host, flock, me, loop, exit>>
        PROVE  Safe'
    <3>1. Moves(p, "read") /\ pc[p] = "begin"
      BY <1>2, <1>b, <2>1 DEF Moves, BeginAcquire
    <3>2. acq'[p].host_id = id /\ pc'[p] = "read" /\ me'[p] = me[p]
      BY <1>b, <2>1 DEF Goto, Acqs
    <3>3. Seen(p)'
      BY <2>1, <3>2 DEF Seen, Alive
    <3> QED
      BY <1>c, <3>1, <3>3, MovesSafe
  <2> QED
    BY <1>2, <1>a, <2>1 DEF BeginAcquire, Quits, Codes, Alive
<1>3. CASE ReadOwner(p)
  <2>1. PICK to \in {"cas", "alive"} : Goto(p, to) /\ (to = "alive" <=> ~(row = NULL \/ row.status = INSTANCE_RELEASED))
    BY <1>3 DEF ReadOwner
  <2>2. Moves(p, to) /\ pc[p] = "read"
    BY <1>3, <1>b, <2>1 DEF Moves, ReadOwner
  <2>3. acq'[p].seen = row /\ acq'[p].host_id = acq[p].host_id /\ pc'[p] = to
        /\ row' = row /\ me' = me
    BY <1>3, <1>b, <2>1 DEF ReadOwner, Goto, Acqs
  <2>4. Seen(p)'
    <3>1. acq'[p].host_id # NULL => Alive(p)' /\ acq'[p].host_id = me'[p].host
      BY <1>b, <2>1, <2>3 DEF Seen, Alive
    <3>2. row # NULL => Names(row)'
      <4>1. PICK r : r = row
        OBVIOUS
      <4>2. \A q \in Procs : Forward(q)
        BY <1>b, <1>c, <2>1, <2>2, <2>3 DEF Forward, Owned, Goto
      <4>3. r # NULL => Names(r)'
        BY <4>1, <4>2, NamesKept DEF Safe, RowInv
      <4> QED
        BY <2>3, <4>1, <4>3 DEF Names, Alive
    <3>3. row # NULL => (Names(acq[p].seen)' <=> Names(row)')
      BY <2>3 DEF Names, Alive
    <3>4. Revision(acq[p].seen)' = Revision(row)' /\ Revision(row)' = Revision(row)
      BY <2>3 DEF Revision
    <3>5. Revision(row) \in Nat
      BY DEF Revision, TypeInv, InstanceTypeOK, Rows
    <3>6. to = "cas" /\ row # NULL => row.status # INSTANCE_ACTIVE
      BY <2>1 DEF INSTANCE_ACTIVE, INSTANCE_RELEASED
    <3> QED
      BY <2>1, <2>3, <3>1, <3>2, <3>3, <3>4, <3>5, <3>6 DEF Seen
  <2> QED
    BY <1>c, <2>2, <2>4, MovesSafe
<1>4. ASSUME NEW t, NEW a, Judge(p, a, t), pc[p] \in {"alive", "ticks"},
             \/ a \in PidReadings(p, acq[p].seen.pid) /\ a # "yes" /\ t = NULL
             \/ a = "yes" /\ t \in TicksReadings(p, acq[p].seen.pid)
      PROVE  Safe'
  <2>1. CASE /\ classify_owner_liveness(acq[p].seen, p, a, t) = "dead"
             /\ Goto(p, "cas") /\ UNCHANGED <<row, host, flock, me, acq, loop, exit>>
    <3>1. Moves(p, "cas")
      BY <2>1 DEF Moves
    <3>2. pc[acq[p].seen.instance] = "gone"
      BY <1>4, <1>b, <2>1, DeadIsGone
    <3>3. Seen(p)'
      <4>1. PICK r : r = acq[p].seen
        OBVIOUS
      <4>2. r # NULL /\ Names(r) /\ Revision(r) <= Revision(row)
            /\ (Revision(r) = Revision(row) => r = row)
        BY <1>4, <1>b, <4>1 DEF Seen
      <4>3. \A q \in Procs : Forward(q)
        BY <1>4, <1>b, <1>c, <2>1 DEF Forward, Owned, Goto
      <4>4. Names(r)'
        BY <4>2, <4>3, NamesKept
      <4>5. pc'[r.instance] = "gone"
        BY <3>2, <4>1, <4>2, <4>3 DEF Forward, Names, Rows
      <4>6. pc'[p] = "cas" /\ acq' = acq /\ row' = row /\ me' = me
        BY <1>b, <2>1 DEF Goto
      <4>7. (Names(acq[p].seen)' <=> Names(r)') /\ Revision(acq[p].seen)' = Revision(r)
            /\ Revision(row)' = Revision(row)
        BY <4>1, <4>6 DEF Names, Alive, Revision
      <4> QED
        BY <1>4, <1>b, <4>1, <4>2, <4>4, <4>5, <4>6, <4>7 DEF Seen, Alive
    <3> QED
      BY <1>4, <1>c, <3>1, <3>3, MovesSafe
  <2> QED
    BY <1>4, <1>a, <2>1 DEF Judge, Quits, Codes, Alive
<1>5. CASE ProbePid(p)
  <2>1. CASE Goto(p, "ticks") /\ UNCHANGED <<row, host, flock, me, acq, loop, exit>>
    <3>1. Moves(p, "ticks") /\ pc[p] = "alive"
      BY <1>5, <2>1 DEF Moves, ProbePid
    <3>2. Seen(p)'
      <4>1. PICK r : r = acq[p].seen
        OBVIOUS
      <4>2. r # NULL /\ Names(r) /\ Revision(r) <= Revision(row)
            /\ (Revision(r) = Revision(row) => r = row)
        BY <1>b, <3>1, <4>1 DEF Seen
      <4>3. \A q \in Procs : Forward(q)
        BY <1>b, <1>c, <2>1, <3>1 DEF Forward, Owned, Goto
      <4>4. Names(r)'
        BY <4>2, <4>3, NamesKept
      <4>5. pc'[p] = "ticks" /\ acq' = acq /\ row' = row /\ me' = me
        BY <1>b, <2>1 DEF Goto
      <4>6. (Names(acq[p].seen)' <=> Names(r)') /\ Revision(acq[p].seen)' = Revision(r)
            /\ Revision(row)' = Revision(row)
        BY <4>1, <4>5 DEF Names, Alive, Revision
      <4> QED
        BY <1>b, <3>1, <4>1, <4>2, <4>4, <4>5, <4>6 DEF Seen, Alive
    <3> QED
      BY <1>c, <3>1, <3>2, MovesSafe
  <2> QED
    BY <1>5, <1>4, <2>1 DEF ProbePid
<1>6. CASE ProbeTicks(p)
  BY <1>6, <1>4 DEF ProbeTicks
<1> QED
  BY <1>1, <1>2, <1>3, <1>5, <1>6

(* The swap: the row is the remembered one, so nobody works on the store   *)
(* when p becomes its owner.  A lost swap reads again or refuses.          *)
LEMMA CasSafe ==
    ASSUME TypeInv, Safe, NEW p \in Procs, Cas(p)
    PROVE  Safe'
<1> USE SupervisorInstanceAssumption
<1>a. Seen(p) /\ acq \in [Procs -> Acqs] /\ pc \in [Procs -> Phases] /\ pc[p] = "cas"
      /\ me[p] \in Identities /\ row \in Rows \cup {NULL}
  BY DEF Safe, SeenInv, TypeInv, InstanceTypeOK, IdentInv, Cas, Alive
<1>1. CASE /\ RevisionUnchanged(p)
           /\ row' = BuildRow(p, Revision(row) + 1)
           /\ Goto(p, "reconcile")
           /\ acq' = [acq EXCEPT ![p] = InitAcq]
           /\ UNCHANGED <<host, flock, me, loop, exit>>
  <2>1. \A q \in Procs : ~Working(q)
    <3>1. acq[p].seen = row
      BY <1>a, <1>1 DEF Seen, RevisionUnchanged
    <3>2. row # NULL /\ row.status = INSTANCE_ACTIVE => pc[row.instance] = "gone"
      BY <1>a, <3>1 DEF Seen
    <3> QED
      BY <3>2 DEF Safe, HolderOwnsRow, Working, OwnsRow, WorkPhases, LoopPhases
  <2>2. pc'[p] = "reconcile" /\ me' = me /\ \A q \in Procs \ {p} : Keeps(q)
    BY <1>a, <1>1 DEF Goto, Keeps
  <2>3. \A q \in Procs : Forward(q)
    BY <1>a, <2>2 DEF Keeps, Forward, Owned, WorkPhases, LoopPhases
  <2>4. row' \in Rows /\ row'.revision = Revision(row) + 1
    BY <1>a, <1>1 DEF BuildRow, Revision, Rows, Identities, Acqs
  <2>5. RowGrows
    BY <2>4 DEF RowGrows
  <2>6. Seen(p)'
    BY <1>a, <1>1, <2>2 DEF Seen, InitAcq
  <2>7. SeenInv'
    BY <2>2, <2>3, <2>5, <2>6, SeenKept DEF Safe, SeenInv
  <2>8. row' # NULL /\ row'.instance = p /\ row'.status = INSTANCE_ACTIVE
    BY <1>1, <2>4, NullAssumption DEF BuildRow
  <2>9. Names(row)'
    <3>1. row'.host_id \in {row'.host, NULL}
      BY <1>a, <1>1 DEF Seen, BuildRow
    <3>2. row'.host = me[p].host /\ row'.boot = me[p].boot /\ row'.pid = me[p].pid
          /\ row'.ticks = me[p].ticks
      BY <1>1 DEF BuildRow
    <3> QED
      BY <2>2, <2>4, <2>8, <3>1, <3>2 DEF Names, WorkPhases
  <2>10. RowInv'
    BY <2>2, <2>8, <2>9 DEF RowInv
  <2>11. HolderOwnsRow'
    BY <2>1, <2>2, <2>8 DEF HolderOwnsRow, Working, OwnsRow, Keeps
  <2> QED
    BY <2>7, <2>10, <2>11 DEF Safe
<1>2. CASE /\ acq' = [acq EXCEPT ![p].tries = @ + 1]
           /\ Goto(p, "read")
           /\ UNCHANGED <<row, host, flock, me, loop, exit>>
  <2>1. Moves(p, "read")
    BY <1>a, <1>2 DEF Moves
  <2>2. acq'[p].host_id = acq[p].host_id /\ pc'[p] = "read" /\ me'[p] = me[p]
    BY <1>a, <1>2 DEF Goto, Acqs
  <2>3. Seen(p)'
    BY <1>a, <2>2 DEF Seen, Alive
  <2> QED
    BY <1>a, <2>1, <2>3, MovesSafe DEF WorkPhases, LoopPhases
<1> QED
  BY <1>1, <1>2, HostSafe DEF Cas, Codes, Alive

(* The owner's own writes of its row: a heartbeat, and the release with    *)
(* which it stops working.                                                 *)
LEMMA OwnWriteSafe ==
    ASSUME TypeInv, Safe, NEW p \in Procs, Working(p), NEW to \in {"recheck", "closing"},
           NEW st, st = IF to = "closing" THEN INSTANCE_RELEASED ELSE row.status,
           Goto(p, to), me' = me, acq' = acq, row' = Updated(row, st)
    PROVE  Safe'
<1> USE SupervisorInstanceAssumption
<1>1. row \in Rows /\ row.instance = p /\ row.status = INSTANCE_ACTIVE /\ Names(row)
  BY DEF Safe, HolderOwnsRow, RowInv, Names, OwnsRow
<1>2. /\ row' \in Rows /\ row'.status = st /\ row'.revision = row.revision + 1
      /\ row'.instance = p /\ row'.host = row.host /\ row'.boot = row.boot
      /\ row'.host_id = row.host_id /\ row'.pid = row.pid /\ row'.ticks = row.ticks
  <2>1. st \in {INSTANCE_ACTIVE, INSTANCE_RELEASED}
    BY <1>1
  <2> QED
    BY <1>1, <2>1, UpdatedRowOp
<1>3. pc'[p] = to /\ pc[p] \in WorkPhases /\ \A q \in Procs \ {p} : Keeps(q)
  BY DEF TypeInv, InstanceTypeOK, Goto, Keeps, Working
<1>4. \A q \in Procs : Forward(q)
  BY <1>3 DEF Keeps, Forward, Owned, WorkPhases, LoopPhases
<1>5. RowGrows
  BY <1>1, <1>2, NullAssumption DEF RowGrows, Revision
<1>6. Seen(p)'
  BY <1>3 DEF Safe, SeenInv, Seen, Alive, Working, WorkPhases, LoopPhases
<1>7. SeenInv'
  BY <1>3, <1>4, <1>5, <1>6, SeenKept DEF Safe, SeenInv
<1>8. RowInv'
  <2>1. Names(row)'
    BY <1>1, <1>2, <1>3 DEF Names, Alive, WorkPhases, LoopPhases
  <2>2. st = INSTANCE_ACTIVE => to # "closing"
    BY DEF INSTANCE_ACTIVE, INSTANCE_RELEASED
  <2> QED
    BY <1>2, <1>3, <2>1, <2>2 DEF RowInv
<1>9. HolderOwnsRow'
  <2>1. \A q \in Procs \ {p} : ~Working(q)
    BY <1>1 DEF Safe, HolderOwnsRow, OwnsRow
  <2>2. to = "recheck" => row'.status = INSTANCE_ACTIVE
    BY <1>1, <1>2
  <2> QED
    BY <1>2, <1>3, <2>1, <2>2, NullAssumption
    DEF HolderOwnsRow, Working, OwnsRow, Keeps, WorkPhases, LoopPhases
<1> QED
  BY <1>7, <1>8, <1>9 DEF Safe

(* Every step of the loop keeps Safe.                                      *)
LEMMA LoopSafe ==
    ASSUME TypeInv, Safe, NEW p \in Procs, RunLoopStep(p) \/ Reconcile(p) \/ Signal(p)
    PROVE  Safe'
<1>1. ASSUME NEW to, Goto(p, to), pc[p] \in WorkPhases, to \in WorkPhases, row' = row,
             me' = me, acq' = acq
      PROVE  Safe'
  <2>1. Moves(p, to)
    BY <1>1 DEF Moves
  <2>2. pc'[p] = to
    BY <1>1 DEF Goto, TypeInv, InstanceTypeOK
  <2>3. Seen(p)'
    BY <1>1, <2>2 DEF Safe, SeenInv, Seen, Alive, WorkPhases, LoopPhases
  <2> QED
    BY <1>1, <2>1, <2>3, MovesSafe DEF WorkPhases, LoopPhases
<1>2. ASSUME NEW from, NEW to, NEW l, LoopStep(p, from, to, l),
             from \in WorkPhases, to \in WorkPhases
      PROVE  Safe'
  BY <1>1, <1>2 DEF LoopStep
<1>3. CASE EnterLoop(p) \/ BeginPass(p) \/ LeaveLoop(p) \/ RunPass(p) \/ CheckFence(p)
             \/ CheckWaits(p) \/ Recheck(p)
  <2>1. \E from, to, l : LoopStep(p, from, to, l) /\ from \in WorkPhases /\ to \in WorkPhases
    BY <1>3, Zenon DEF EnterLoop, BeginPass, LeaveLoop, RunPass, CheckFence, CheckWaits, Recheck,
                WorkPhases, LoopPhases
  <2> QED
    BY <1>2, <2>1
<1>4. CASE Heartbeat(p)
  <2>1. CASE OwnsRow(p) /\ pc[p] = "beat" /\ row' = Updated(row, row.status)
             /\ Goto(p, "recheck") /\ me' = me /\ acq' = acq
    BY <2>1, OwnWriteSafe DEF Working, WorkPhases, LoopPhases
  <2>2. CASE \E l : LoopStep(p, "beat", "recheck", l)
    BY <1>2, <2>2 DEF WorkPhases, LoopPhases
  <2> QED
    BY <1>4, <2>1, <2>2 DEF Heartbeat
<1>5. CASE Finalize(p)
  <2>1. Working(p) /\ OwnsRow(p)
    BY <1>5 DEF Finalize, Working, WorkPhases, Safe, HolderOwnsRow
  <2>2. Goto(p, "closing") /\ me' = me /\ acq' = acq /\ row' = Updated(row, INSTANCE_RELEASED)
    BY <1>5, <2>1 DEF Finalize
  <2> QED
    BY <2>1, <2>2, OwnWriteSafe
<1>6. CASE Exit(p)
  BY <1>6, HostSafe DEF Exit, Codes, Alive
<1>7. CASE Reconcile(p)
  <2>1. CASE Goto(p, "enter") /\ UNCHANGED <<row, host, flock, me, acq, loop, exit>>
    BY <1>1, <1>7, <2>1 DEF Reconcile, WorkPhases, LoopPhases
  <2> QED
    BY <1>7, <2>1, HostSafe DEF Reconcile, Codes, Alive
<1>8. CASE Signal(p)
  BY <1>8, QuietSafe DEF Signal, Keeps
<1> QED
  BY <1>3, <1>4, <1>5, <1>6, <1>7, <1>8 DEF RunLoopStep

(* With sound evidence Safe is inductive relative to TypeInv.              *)
LEMMA SafeInductive ==
    ASSUME EvidenceSound = TRUE
    PROVE  TypeInv /\ Safe /\ [Next]_vars => Safe'
<1> SUFFICES ASSUME TypeInv, Safe, [Next]_vars PROVE Safe'
  OBVIOUS
<1>1. ASSUME NEW p \in Procs, AcquireStep(p) \/ RunLoopStep(p) \/ Signal(p) \/ Crash(p)
      PROVE  Safe'
  BY <1>1, AcquireSafe, CasSafe, LoopSafe, HostSafe DEF AcquireStep, Crash, Codes
<1>2. CASE UNCHANGED vars
  BY <1>2, QuietSafe DEF vars, Keeps
<1> QED
  BY <1>1, <1>2, HostSafe DEF Next

(* No process exists and the table is empty at the start.                  *)
LEMMA InitIInv == Init => IInv
<1> SUFFICES ASSUME Init PROVE IInv
  OBVIOUS
<1> USE SupervisorInstanceAssumption
<1>1. InitAcq \in Acqs /\ InitLoop \in Loops
  BY DEF InitAcq, InitLoop, Acqs, Loops, Health
<1>2. InstanceTypeOK
  BY <1>1 DEF Init, InstanceTypeOK, Phases
<1>3. IdentInv /\ LoopInv
  BY DEF Init, IdentInv, LoopInv, Alive, InitAcq, InitLoop
<1>4. Safe
  BY DEF Init, Safe, RowInv, SeenInv, Seen, HolderOwnsRow, Working, InitAcq, WorkPhases, LoopPhases
<1> QED
  BY <1>2, <1>3, <1>4 DEF IInv, TypeInv

-----------------------------------------------------------------------------
(***************************************************************************)
(* What a replaced process still does, whatever the evidence that replaced *)
(* it.  Fenced(p): a process that began a pass without the row never owns  *)
(* the row again and has begun one such pass only; it never comes to the   *)
(* waits, and from its fence on it is told to stop and failed, unless the  *)
(* owner asked it to stop.                                                 *)
(***************************************************************************)
Stopped(l) == l.stop /\ (l.signalled \/ l.health = "FAILED")

Fenced(p) ==
    /\ loop[p].stale <= 1
    /\ loop[p].stale > 0 =>
          /\ ~OwnsRow(p)
          /\ pc[p] \in {"pass", "fence", "beat", "recheck", "loop", "finalize", "closing"}
          /\ pc[p] \in {"pass", "fence"} \/ Stopped(loop[p])

FencedInv == \A p \in Procs : Fenced(p)

(* Only the swap gives the row to another process.                         *)
LEMMA OwnerGains ==
    ASSUME TypeInv, [Next]_vars, NEW q \in Procs, OwnsRow(q)', ~OwnsRow(q)
    PROVE  pc[q] = "cas" /\ loop' = loop
<1> USE SupervisorInstanceAssumption
<1>1. row' # row
  BY DEF OwnsRow
<1>2. PICK p \in Procs : Cas(p) \/ Heartbeat(p) \/ Finalize(p)
  BY <1>1 DEF Next, vars, AcquireStep, RunLoopStep, Signal, Crash, Start, OtherStarts,
     OtherExits, Reboot, TakeLock, BeginAcquire, ReadOwner, ProbePid, ProbeTicks, Judge,
     Reconcile, EnterLoop, BeginPass, LeaveLoop, RunPass, CheckFence, CheckWaits, Recheck,
     LoopStep, Exit
<1>3. CASE Cas(p)
  <2>1. row' = BuildRow(p, Revision(row) + 1) /\ pc[p] = "cas" /\ loop' = loop
    BY <1>1, <1>3 DEF Cas
  <2>2. row'.instance = p
    BY <2>1 DEF BuildRow
  <2> QED
    BY <2>1, <2>2 DEF OwnsRow
<1>4. CASE Heartbeat(p) \/ Finalize(p)
  <2>1. PICK st : row' = Updated(row, st) /\ OwnsRow(p)
    BY <1>1, <1>4 DEF Heartbeat, Finalize, LoopStep
  <2>2. row \in Rows
    BY <2>1 DEF TypeInv, InstanceTypeOK, OwnsRow
  <2>3. row'.instance = row.instance
    BY <2>1, <2>2 DEF Updated, Rows
  <2> QED
    BY <2>1, <2>3 DEF OwnsRow
<1> QED
  BY <1>2, <1>3, <1>4

(* A process that goes on as it was stays fenced.                          *)
LEMMA FencedKept ==
    ASSUME TypeInv, FencedInv, [Next]_vars, NEW q \in Procs,
           loop'[q] = loop[q], pc'[q] = pc[q]
    PROVE  Fenced(q)'
<1>1. loop[q].stale \in Nat
  BY DEF TypeInv, InstanceTypeOK, Loops
<1>2. CASE loop[q].stale > 0
  <2>1. ~OwnsRow(q) /\ pc[q] # "cas"
    BY <1>2 DEF FencedInv, Fenced
  <2>2. ~OwnsRow(q)'
    BY <2>1, OwnerGains
  <2> QED
    BY <1>2, <2>2 DEF FencedInv, Fenced, Stopped
<1> QED
  BY <1>1, <1>2 DEF FencedInv, Fenced

(* No process is stale before it has begun a pass.                         *)
LEMMA FreshFenced ==
    ASSUME NEW q \in Procs, loop'[q].stale = 0
    PROVE  Fenced(q)'
BY DEF Fenced

(* What the bookkeeping of the loop does to a stale process.               *)
LEMMA StopOps ==
    ASSUME NEW l \in Loops
    PROVE  /\ mark_failed(l).stale = l.stale /\ Stopped(mark_failed(l))
           /\ _record_error(l).stale = l.stale
           /\ request_shutdown(l).stale = l.stale /\ Stopped(request_shutdown(l))
BY DEF Loops, mark_failed, _record_error, request_shutdown, Stopped

(* A step of the loop keeps its process fenced if a stale one goes where a *)
(* stale one may be.                                                       *)
LEMMA LoopStepFenced ==
    ASSUME TypeInv, FencedInv, [Next]_vars, NEW p \in Procs,
           NEW from \in LoopPhases, NEW to, NEW l, LoopStep(p, from, to, l),
           l.stale = loop[p].stale,
           l.stale > 0 =>
              /\ to \in {"fence", "beat", "recheck", "loop", "finalize"}
              /\ to = "fence" \/ Stopped(l)
    PROVE  Fenced(p)'
<1>1. loop'[p] = l /\ pc'[p] = to /\ pc[p] = from /\ loop[p].stale \in Nat
  BY DEF LoopStep, Goto, TypeInv, InstanceTypeOK, Loops
<1>2. CASE l.stale > 0
  <2>1. ~OwnsRow(p) /\ l.stale <= 1
    BY <1>2 DEF FencedInv, Fenced
  <2>2. ~OwnsRow(p)'
    BY <1>1, <2>1, OwnerGains DEF LoopPhases
  <2> QED
    BY <1>1, <1>2, <2>1, <2>2 DEF Fenced
<1> QED
  BY <1>1, <1>2, FreshFenced

(* Every step of the loop keeps its process fenced.                        *)
LEMMA LoopFenced ==
    ASSUME TypeInv, FencedInv, [Next]_vars, NEW p \in Procs, RunLoopStep(p) \/ Signal(p)
    PROVE  Fenced(p)'
<1>a. loop \in [Procs -> Loops] /\ loop[p] \in Loops /\ loop[p].stale \in Nat
  BY DEF TypeInv, InstanceTypeOK, Loops
<1>b. Fenced(p)
  BY DEF FencedInv
<1>1. CASE EnterLoop(p)
  <2>1. pc[p] = "enter" /\ loop'[p].stale = loop[p].stale
    BY <1>1, <1>a DEF EnterLoop, LoopStep, Loops
  <2> QED
    BY <1>a, <1>b, <2>1, FreshFenced DEF Fenced
<1>2. CASE BeginPass(p)
  <2>1. pc[p] = "loop" /\ ~loop[p].stop /\ pc'[p] = "pass" /\ row' = row
    BY <1>2 DEF BeginPass, _should_continue, LoopStep, Goto, TypeInv, InstanceTypeOK
  <2>2. loop[p].stale = 0
    BY <1>a, <1>b, <2>1 DEF Fenced, Stopped
  <2>3. loop'[p].stale = IF OwnsRow(p) THEN 0 ELSE 1
    BY <1>2, <1>a, <2>2 DEF BeginPass, LoopStep, Loops
  <2> QED
    BY <2>1, <2>3 DEF Fenced, OwnsRow
<1>3. CASE LeaveLoop(p)
  <2>1. pc[p] = "loop" /\ LoopStep(p, "loop", "finalize", loop[p])
    BY <1>3 DEF LeaveLoop, LoopStep
  <2> QED
    BY <1>b, <2>1, LoopStepFenced DEF Fenced, LoopPhases
<1>4. CASE RunPass(p)
  <2>1. CASE LoopStep(p, "pass", "fence", [loop[p] EXCEPT !.errs = 0])
    <3>1. [loop[p] EXCEPT !.errs = 0].stale = loop[p].stale
      BY <1>a DEF Loops
    <3> QED
      BY <2>1, <3>1, LoopStepFenced DEF LoopPhases
  <2>2. CASE LoopStep(p, "pass", "fence", _record_scheduler_error(loop[p]))
    <3>1. _record_scheduler_error(loop[p]).stale = loop[p].stale
      BY <1>a DEF Loops, _record_scheduler_error, _record_error, mark_failed
    <3> QED
      BY <2>2, <3>1, LoopStepFenced DEF LoopPhases
  <2> QED
    BY <1>4, <2>1, <2>2 DEF RunPass
<1>5. CASE CheckFence(p)
  <2>1. CASE TRUE \in FenceReadings(p) /\ LoopStep(p, "fence", "waits", loop[p])
    <3>1. OwnsRow(p)
      BY <2>1, Zenon DEF FenceReadings
    <3>2. loop[p].stale = 0
      BY <1>a, <1>b, <3>1 DEF Fenced
    <3> QED
      BY <2>1, <3>2, LoopStepFenced DEF LoopPhases
  <2>2. CASE LoopStep(p, "fence", "beat", mark_failed(loop[p]))
    BY <1>a, <2>2, StopOps, LoopStepFenced DEF LoopPhases
  <2> QED
    BY <1>5, <2>1, <2>2 DEF CheckFence
<1>6. CASE CheckWaits(p)
  <2>1. PICK l \in {loop[p], _record_error(loop[p])}, from \in {"waits", "ci"}, to \in {"ci", "beat"} :
            LoopStep(p, from, to, l)
    BY <1>6 DEF CheckWaits
  <2>2. pc[p] \in {"waits", "ci"} /\ l.stale = loop[p].stale
    BY <1>a, <2>1, StopOps DEF LoopStep
  <2>3. l.stale = 0
    BY <1>a, <1>b, <2>2 DEF Fenced
  <2>4. from \in LoopPhases /\ LoopStep(p, from, to, l) /\ ~(l.stale > 0)
    BY <2>1, <2>3 DEF LoopPhases
  <2> QED
    BY <2>2, <2>4, LoopStepFenced
<1>7. CASE Heartbeat(p)
  <2>1. pc[p] = "beat"
    BY <1>7 DEF Heartbeat, LoopStep
  <2>2. CASE OwnsRow(p) /\ loop' = loop
    <3>1. loop'[p].stale = 0
      BY <1>a, <1>b, <2>2 DEF Fenced
    <3> QED
      BY <3>1, FreshFenced
  <2>3. CASE \E l \in {mark_failed(loop[p]), mark_failed(_record_error(loop[p]))} :
                LoopStep(p, "beat", "recheck", l)
    <3>1. _record_error(loop[p]) \in Loops
      BY <1>a, LoopOps
    <3> QED
      BY <1>a, <2>3, <3>1, StopOps, LoopStepFenced DEF LoopPhases
  <2>4. CASE LoopStep(p, "beat", "recheck", loop[p])
    BY <1>b, <2>1, <2>4, LoopStepFenced DEF Fenced, LoopPhases
  <2> QED
    BY <1>7, <2>2, <2>3, <2>4 DEF Heartbeat
<1>8. CASE Recheck(p)
  <2> DEFINE n(l) == [l EXCEPT !.passes = @ + 1]
  <2>1. pc[p] = "recheck"
    BY <1>8 DEF Recheck, LoopStep
  <2>2. \A l \in Loops : n(l).stale = l.stale /\ (Stopped(l) => Stopped(n(l)))
    BY DEF Loops, Stopped
  <2>3. CASE LoopStep(p, "recheck", "loop", n(loop[p]))
    <3>1. loop[p].stale > 0 => Stopped(loop[p])
      BY <1>b, <2>1 DEF Fenced
    <3> QED
      BY <1>a, <2>2, <2>3, <3>1, LoopStepFenced DEF LoopPhases
  <2>4. CASE LoopStep(p, "recheck", "loop", n(mark_failed(loop[p])))
    <3>1. n(mark_failed(loop[p])).stale = loop[p].stale /\ Stopped(n(mark_failed(loop[p])))
      BY <1>a, <2>2, LoopOps, StopOps
    <3> QED
      BY <2>4, <3>1, LoopStepFenced DEF LoopPhases
  <2> QED
    BY <1>8, <2>3, <2>4 DEF Recheck
<1>9. CASE Finalize(p)
  <2>1. pc[p] = "finalize" /\ pc'[p] = "closing"
    BY <1>9 DEF Finalize, Goto, TypeInv, InstanceTypeOK
  <2>2. loop'[p] = [loop[p] EXCEPT !.health = FinalHealth(loop[p])]
    BY <1>9, <1>a DEF Finalize
  <2>3. loop'[p].stale = loop[p].stale /\ (Stopped(loop[p]) => Stopped(loop'[p]))
    BY <1>a, <2>2 DEF FinalHealth, Stopped, Loops
  <2>4. CASE loop[p].stale > 0
    <3>1. ~OwnsRow(p)' /\ Stopped(loop[p])
      BY <1>b, <2>1, <2>4, OwnerGains DEF Fenced
    <3> QED
      BY <1>b, <2>1, <2>3, <3>1 DEF Fenced, Stopped
  <2> QED
    BY <1>a, <2>3, <2>4, FreshFenced
<1>10. CASE Exit(p)
  <2>1. loop'[p] = InitLoop
    BY <1>10, <1>a DEF Exit, Ends
  <2> QED
    BY <2>1, FreshFenced DEF InitLoop
<1>11. CASE Signal(p)
  <2>1. loop'[p] = request_shutdown(loop[p]) /\ pc'[p] = pc[p]
    BY <1>11, <1>a DEF Signal
  <2>2. loop'[p].stale = loop[p].stale /\ Stopped(loop'[p])
    BY <1>a, <2>1, StopOps
  <2>3. CASE loop[p].stale > 0
    <3>1. ~OwnsRow(p)'
      BY <1>b, <2>3, OwnerGains DEF Fenced
    <3> QED
      BY <1>b, <2>1, <2>2, <2>3, <3>1 DEF Fenced, Stopped
  <2> QED
    BY <1>a, <2>2, <2>3, FreshFenced
<1> QED
  BY <1>1, <1>2, <1>3, <1>4, <1>5, <1>6, <1>7, <1>8, <1>9, <1>10, <1>11 DEF RunLoopStep

(* FencedInv is inductive, whatever the evidence.                          *)
LEMMA FencedInductive == TypeInv /\ FencedInv /\ [Next]_vars => FencedInv'
<1> SUFFICES ASSUME TypeInv, FencedInv, [Next]_vars PROVE FencedInv'
  OBVIOUS
<1>a. pc \in [Procs -> Phases] /\ loop \in [Procs -> Loops]
  BY DEF TypeInv, InstanceTypeOK
<1>1. ASSUME NEW p \in Procs, AcquireStep(p) \/ RunLoopStep(p) \/ Signal(p) \/ Crash(p)
             \/ \E h \in Hosts, x \in Pids : Start(p, h, x)
      PROVE  FencedInv'
  <2>1. ASSUME NEW q \in Procs \ {p} PROVE Fenced(q)'
    <3>1. loop'[q] = loop[q] /\ pc'[q] = pc[q]
      BY <1>1, <1>a DEF AcquireStep, RunLoopStep, Signal, Crash, Start, TakeLock, BeginAcquire,
         ReadOwner, ProbePid, ProbeTicks, Judge, Cas, Reconcile, EnterLoop, BeginPass, LeaveLoop,
         RunPass, CheckFence, CheckWaits, Heartbeat, Recheck, Finalize, LoopStep, Exit, Ends, Goto
    <3> QED
      BY <3>1, FencedKept
  <2>2. CASE AcquireStep(p) \/ Crash(p) \/ \E h \in Hosts, x \in Pids : Start(p, h, x)
    <3>1. \/ loop'[p] = InitLoop
          \/ loop' = loop /\ pc[p] \in AcquirePhases \cup {"reconcile", "unborn"}
      BY <2>2, <1>a DEF AcquireStep, Crash, Start, TakeLock, BeginAcquire, ReadOwner, ProbePid,
         ProbeTicks, Judge, Cas, Reconcile, Ends, AcquirePhases
    <3>2. loop'[p].stale = 0
      <4>1. loop[p].stale \in Nat /\ Fenced(p)
        BY <1>a DEF FencedInv, Loops
      <4> QED
        BY <3>1, <4>1 DEF Fenced, InitLoop, AcquirePhases
    <3>3. Fenced(p)'
      BY <3>2, FreshFenced
    <3> QED
      BY <2>1, <3>3 DEF FencedInv
  <2>3. CASE RunLoopStep(p) \/ Signal(p)
    BY <2>1, <2>3, LoopFenced DEF FencedInv
  <2> QED
    BY <1>1, <2>2, <2>3
<1>2. CASE UNCHANGED <<pc, loop>>
  BY <1>2, FencedKept DEF FencedInv
<1>3. ASSUME NEW h \in Hosts, Reboot(h) PROVE FencedInv'
  <2>1. ASSUME NEW q \in Procs PROVE Fenced(q)'
    <3>1. loop'[q] = InitLoop \/ (loop'[q] = loop[q] /\ pc'[q] = pc[q])
      BY <1>3 DEF Reboot
    <3> QED
      BY <3>1, FencedKept, FreshFenced DEF InitLoop
  <2> QED
    BY <2>1 DEF FencedInv
<1> QED
  BY <1>1, <1>2, <1>3 DEF Next, vars, OtherStarts, OtherExits

LEMMA FencedCorrect == InstanceSpec => [](TypeInv /\ FencedInv)
<1>1. Init => TypeInv /\ FencedInv
  BY InitIInv DEF IInv, Init, FencedInv, Fenced, InitLoop
<1>2. TypeInv /\ FencedInv /\ [Next]_vars => (TypeInv /\ FencedInv)'
  BY TypeInductive, FencedInductive
<1> QED
  BY <1>1, <1>2, PTL DEF InstanceSpec

-----------------------------------------------------------------------------
(***************************************************************************)
(* Theorems.                                                               *)
(***************************************************************************)

(* The row, the locals of acquire() and the fields of the runtime keep     *)
(* their types, and the loop's counters their limits, whatever the         *)
(* evidence says.                                                          *)
THEOREM InstanceTypeCorrect == InstanceSpec => []InstanceTypeOK
<1>1. Init => TypeInv
  BY InitIInv DEF IInv
<1>2. TypeInv => InstanceTypeOK
  BY DEF TypeInv
<1> QED
  BY <1>1, <1>2, TypeInductive, PTL DEF InstanceSpec

(* When /proc shows the processes of its host, IInv always holds.          *)
LEMMA IInvCorrect ==
    ASSUME EvidenceSound = TRUE
    PROVE  InstanceSpec => []IInv
<1>1. IInv /\ [Next]_vars => IInv'
  BY TypeInductive, SafeInductive DEF IInv
<1> QED
  BY <1>1, InitIInv, PTL DEF InstanceSpec

(* The working process is always the ACTIVE owner of the row.              *)
THEOREM HolderOwnsRowCorrect ==
    ASSUME EvidenceSound = TRUE
    PROVE  InstanceSpec => []HolderOwnsRow
<1>1. IInv => HolderOwnsRow
  BY DEF IInv, Safe
<1> QED
  BY <1>1, IInvCorrect, PTL

(* At most one service process works on the store: both would own the one  *)
(* row of supervisor_instances.                                            *)
THEOREM SingleActiveCorrect ==
    ASSUME EvidenceSound = TRUE
    PROVE  InstanceSpec => []SingleActive
<1>1. IInv => SingleActive
  BY DEF IInv, Safe, HolderOwnsRow, SingleActive, OwnsRow
<1> QED
  BY <1>1, IInvCorrect, PTL

(* Only the swap changes the owner of the row, and it replaces an ACTIVE   *)
(* owner only when that process is gone: the verdict of                    *)
(* classify_owner_liveness is still true at the compare-and-swap.          *)
THEOREM NoLiveOwnerEvictedCorrect ==
    ASSUME EvidenceSound = TRUE
    PROVE  InstanceSpec => NoLiveOwnerEvicted
<1> DEFINE Evicts == row # NULL /\ row.status = INSTANCE_ACTIVE /\ row'.instance # row.instance
<1>1. ASSUME IInv, [Next]_vars, Evicts PROVE ~Alive(row.instance)
  <2>1. row' # row
    BY <1>1
  <2>2. PICK p \in Procs : Cas(p) \/ Heartbeat(p) \/ Finalize(p)
    BY <1>1, <2>1 DEF Next, vars, AcquireStep, RunLoopStep, Signal, Crash, Start, OtherStarts,
       OtherExits, Reboot, TakeLock, BeginAcquire, ReadOwner, ProbePid, ProbeTicks, Judge,
       Reconcile, EnterLoop, BeginPass, LeaveLoop, RunPass, CheckFence, CheckWaits, Recheck,
       LoopStep, Exit
  <2>3. row \in Rows /\ Seen(p)
    BY <1>1 DEF IInv, Safe, RowInv, SeenInv, Names
  <2>4. ASSUME NEW st, row' = Updated(row, st) PROVE FALSE
    <3>1. row'.instance = row.instance
      BY <2>3, <2>4 DEF Updated, Rows
    <3> QED
      BY <1>1, <3>1
  <2>5. CASE Cas(p)
    <3>1. pc[p] = "cas" /\ RevisionUnchanged(p)
      BY <2>1, <2>5 DEF Cas
    <3>2. acq[p].seen = row
      BY <2>3, <3>1 DEF Seen, RevisionUnchanged
    <3> QED
      BY <1>1, <2>3, <3>1, <3>2 DEF Seen, Alive
  <2>6. CASE Heartbeat(p) \/ Finalize(p)
    BY <2>1, <2>4, <2>6 DEF Heartbeat, Finalize, LoopStep
  <2> QED
    BY <2>2, <2>5, <2>6
<1>2. IInv /\ [Next]_vars => [Evicts => ~Alive(row.instance)]_vars
  BY <1>1
<1> QED
  BY <1>2, IInvCorrect, PTL DEF InstanceSpec, NoLiveOwnerEvicted
(* A process replaced while it lived begins at most one more pass, even    *)
(* where the evidence misleads: its fences meet a row that is never its    *)
(* own again, and stop it (_run_one_iteration).                            *)
THEOREM StaleStops == InstanceSpec => []StaleRunsAtMostOnePass
<1>1. FencedInv => StaleRunsAtMostOnePass
  BY DEF FencedInv, Fenced, StaleRunsAtMostOnePass
<1> QED
  BY <1>1, FencedCorrect, PTL

(* A process that ran a pass after it was replaced, and was not asked to   *)
(* stop, exits with EXIT_FAILED: nothing after its fence turns the mark of *)
(* mark_failed into another health.                                        *)
THEOREM EvictedFails == InstanceSpec => EvictedExitsFailed
<1> DEFINE Bad(p) == loop[p].stale > 0 /\ ~loop[p].signalled /\ Exit(p)
<1>1. ASSUME TypeInv, FencedInv, NEW p \in Procs, Bad(p) PROVE exit'[p] = EXIT_FAILED
  <2>1. pc[p] = "closing" /\ Fenced(p)
    BY <1>1 DEF Exit, FencedInv
  <2>2. loop[p].health = "FAILED"
    BY <1>1, <2>1 DEF Fenced, Stopped
  <2> QED
    BY <1>1, <2>2 DEF Exit, Ends, TypeInv, InstanceTypeOK
<1>2. TypeInv /\ FencedInv => [\A p \in Procs : Bad(p) => exit'[p] = EXIT_FAILED]_vars
  BY <1>1
<1> QED
  BY <1>2, FencedCorrect, PTL DEF EvictedExitsFailed
=============================================================================
