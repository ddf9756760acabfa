--------------------------- MODULE SupervisorInstance ---------------------------
(***************************************************************************)
(* The single active supervisor: the supervisor_instances row with its     *)
(* revision compare-and-swap (store.py), the acquisition that decides from *)
(* process evidence whether the recorded owner is gone, and the background *)
(* loop of the process that won (background_runtime.py, argent_service.py).*)
(*                                                                         *)
(* A service process is named by its instance id, a fresh uuid, so a       *)
(* restarted service is another element of Procs.  A process lives on a    *)
(* host and is known there by its pid and its start ticks; reboots give    *)
(* the host a new boot id, and pids are used again.  Job work is one step: *)
(* Scheduler says what happens inside a pass.                              *)
(***************************************************************************)
EXTENDS Naturals, FiniteSets

CONSTANTS
    Procs,              \* instance ids, one for each start of the service
    Hosts,              \* machine ids
    Pids,               \* pids of a host
    NULL,               \* Python's None
    Locked,             \* processes whose state_dir holds the common lock file
    EvidenceSound,      \* /proc of a host shows every process of that host
    MAX_ACQUIRE_ATTEMPTS,
    MAX_CONSECUTIVE_ERRORS,
    HeartbeatEvery,     \* heartbeat_every_passes
    MaxPasses,          \* max_passes
    MaxBoots,           \* bound: reboots of a host
    MaxTicks            \* bound: process starts of a boot

ASSUME SupervisorInstanceAssumption ==
    /\ NULL \notin Procs \cup Hosts \cup Pids \cup Nat
    /\ Locked \subseteq Procs
    /\ EvidenceSound \in BOOLEAN
    /\ MAX_ACQUIRE_ATTEMPTS \in Nat \ {0} /\ MAX_CONSECUTIVE_ERRORS \in Nat \ {0}
    /\ HeartbeatEvery \in Nat \ {0} /\ MaxPasses \in Nat
    /\ MaxBoots \in Nat /\ MaxTicks \in Nat

VARIABLES
    row,    \* supervisor_instances, singleton_id = 'primary', or NULL
    boot,   \* host -> number of its current boot
    now,    \* host -> start ticks of the next process of this boot
    proc,   \* host -> pid -> start ticks of the process with this pid, or NULL
    flock,  \* host -> holder of supervisor.lock, or NULL
    pc,     \* process -> where main() is
    me,     \* process -> its identity while it lives, or NULL
    acq,    \* process -> the locals of acquire()
    loop,   \* process -> the fields of its SupervisorRuntime
    exit    \* process -> exit code, or NULL

host == <<boot, now, proc>>
vars == <<row, boot, now, proc, flock, pc, me, acq, loop, exit>>

INSTANCE_ACTIVE == "ACTIVE"
INSTANCE_RELEASED == "RELEASED"

EXIT_OK == 0
EXIT_FAILED == 1
EXIT_INIT_ERROR == 2
EXIT_OWNER_CONFLICT == 3

Health == {"STARTING", "READY", "DEGRADED", "STOPPING", "FAILED"}

(***************************************************************************)
(* The phases of main().  From "reconcile" to "finalize" the process       *)
(* works: it holds the store as the single active supervisor.              *)
(***************************************************************************)
LoopPhases == {"enter", "loop", "pass", "fence", "waits", "ci", "beat", "recheck"}
WorkPhases == {"reconcile", "finalize"} \cup LoopPhases
AcquirePhases == {"lock", "begin", "read", "alive", "ticks", "cas"}
Phases == {"unborn", "closing", "gone"} \cup AcquirePhases \cup WorkPhases

Alive(p) == pc[p] \notin {"unborn", "gone"}
Working(p) == pc[p] \in WorkPhases
OwnsRow(p) == row # NULL /\ row.instance = p

InitAcq == [host_id |-> NULL, seen |-> NULL, tries |-> 0]

(* stale counts the passes begun after another process had replaced us.    *)
InitLoop == [health |-> "STARTING", stop |-> FALSE, signalled |-> FALSE,
             passes |-> 0, errs |-> 0, stale |-> 0]

Init ==
    /\ row = NULL
    /\ boot = [h \in Hosts |-> 0]
    /\ now = [h \in Hosts |-> 0]
    /\ proc = [h \in Hosts |-> [x \in Pids |-> NULL]]
    /\ flock = [h \in Hosts |-> NULL]
    /\ pc = [p \in Procs |-> "unborn"]
    /\ me = [p \in Procs |-> NULL]
    /\ acq = [p \in Procs |-> InitAcq]
    /\ loop = [p \in Procs |-> InitLoop]
    /\ exit = [p \in Procs |-> NULL]

-----------------------------------------------------------------------------
(***************************************************************************)
(* Hosts.                                                                  *)
(***************************************************************************)

(* The kernel gives a new process an unused pid; no pid is used twice in   *)
(* one clock tick.                                                         *)
Spawned(h, x) ==
    /\ proc[h][x] = NULL
    /\ now[h] < MaxTicks
    /\ proc' = [proc EXCEPT ![h][x] = now[h]]
    /\ now' = [now EXCEPT ![h] = @ + 1]
    /\ UNCHANGED boot

OtherStarts(h, x) ==
    /\ Spawned(h, x)
    /\ UNCHANGED <<row, flock, pc, me, acq, loop, exit>>

OtherExits(h, x) ==
    /\ proc[h][x] # NULL
    /\ \A p \in Procs : Alive(p) => <<me[p].host, me[p].pid>> # <<h, x>>
    /\ proc' = [proc EXCEPT ![h][x] = NULL]
    /\ UNCHANGED <<row, boot, now, flock, pc, me, acq, loop, exit>>

(* The host goes down with all its processes; the row is durable.          *)
Reboot(h) ==
    LET down(p) == Alive(p) /\ me[p].host = h
    IN  /\ boot[h] < MaxBoots
        /\ boot' = [boot EXCEPT ![h] = @ + 1]
        /\ now' = [now EXCEPT ![h] = 0]
        /\ proc' = [proc EXCEPT ![h] = [x \in Pids |-> NULL]]
        /\ flock' = [flock EXCEPT ![h] = NULL]
        /\ pc' = [p \in Procs |-> IF down(p) THEN "gone" ELSE pc[p]]
        /\ acq' = [p \in Procs |-> IF down(p) THEN InitAcq ELSE acq[p]]
        /\ loop' = [p \in Procs |-> IF down(p) THEN InitLoop ELSE loop[p]]
        /\ me' = [p \in Procs |-> IF down(p) THEN NULL ELSE me[p]]
        /\ UNCHANGED <<row, exit>>

-----------------------------------------------------------------------------
(***************************************************************************)
(* Process steps that every phase shares.                                  *)
(***************************************************************************)
Goto(p, to) == pc' = [pc EXCEPT ![p] = to]

(* The process ends: its pid and, as main()'s finally and the kernel       *)
(* do, its lock are free; its memory is lost.                              *)
Ends(p, code) ==
    /\ Goto(p, "gone")
    /\ proc' = [proc EXCEPT ![me[p].host][me[p].pid] = NULL]
    /\ flock' = [flock EXCEPT ![me[p].host] = IF @ = p THEN NULL ELSE @]
    /\ acq' = [acq EXCEPT ![p] = InitAcq]
    /\ loop' = [loop EXCEPT ![p] = InitLoop]
    /\ me' = [me EXCEPT ![p] = NULL]
    /\ exit' = [exit EXCEPT ![p] = code]
    /\ UNCHANGED <<boot, now>>

Start(p, h, x) ==
    /\ pc[p] = "unborn"
    /\ Spawned(h, x)
    /\ me' = [me EXCEPT ![p] = [host |-> h, pid |-> x, ticks |-> now[h], boot |-> boot[h]]]
    /\ Goto(p, "lock")
    /\ UNCHANGED <<row, flock, acq, loop, exit>>

(* A kill, or an exception that leaves main(), at any step.                *)
Crash(p) ==
    /\ Alive(p)
    /\ Ends(p, NULL)
    /\ UNCHANGED row

(* _acquire_lock: non-blocking; a process outside Locked gets a handle     *)
(* that excludes nobody.                                                   *)
TakeLock(p) ==
    /\ pc[p] = "lock"
    /\ \/ /\ p \notin Locked
          /\ Goto(p, "begin")
          /\ UNCHANGED <<row, host, flock, me, acq, loop, exit>>
       \/ /\ p \in Locked /\ flock[me[p].host] = NULL
          /\ flock' = [flock EXCEPT ![me[p].host] = p]
          /\ Goto(p, "begin")
          /\ UNCHANGED <<row, host, me, acq, loop, exit>>
       \/ /\ p \in Locked /\ flock[me[p].host] # NULL
          /\ Ends(p, EXIT_OWNER_CONFLICT)
          /\ UNCHANGED row

-----------------------------------------------------------------------------
(***************************************************************************)
(* SupervisorInstance.acquire.  An unreadable boot id or own start ticks   *)
(* refuses at once; an unreadable machine id is kept as NULL.              *)
(***************************************************************************)
BeginAcquire(p) ==
    /\ pc[p] = "begin"
    /\ \/ /\ \E id \in {me[p].host, NULL} : acq' = [acq EXCEPT ![p].host_id = id]
          /\ Goto(p, "read")
          /\ UNCHANGED <<row, host, flock, me, loop, exit>>
       \/ /\ Ends(p, EXIT_OWNER_CONFLICT)
          /\ UNCHANGED row

(* get_supervisor_instance: no owner or a released one needs no evidence.  *)
ReadOwner(p) ==
    /\ pc[p] = "read"
    /\ acq' = [acq EXCEPT ![p].seen = row]
    /\ Goto(p, IF row = NULL \/ row.status = INSTANCE_RELEASED THEN "cas" ELSE "alive")
    /\ UNCHANGED <<row, host, flock, me, loop, exit>>

(* Boot ids are unique over hosts and boots.                               *)
SameBoot(owner, p) == owner.host = me[p].host /\ owner.boot = me[p].boot

(* Mutant: a different boot is dead whatever the host.                     *)
ClassifyAnyHost(owner, p, pid_alive, live_start_ticks) ==
    IF ~SameBoot(owner, p) \/ pid_alive = "no" THEN "dead"
    ELSE IF pid_alive = "unreadable" \/ live_start_ticks = NULL THEN "unknown"
    ELSE IF live_start_ticks = owner.ticks THEN "live" ELSE "dead"

classify_owner_liveness(owner, p, pid_alive, live_start_ticks) ==
    CASE ~SameBoot(owner, p) ->
            IF owner.host_id = NULL \/ acq[p].host_id = NULL THEN "unknown"
            ELSE IF owner.host_id # acq[p].host_id THEN "unknown" ELSE "dead"
      [] SameBoot(owner, p) /\ pid_alive = "unreadable" -> "unknown"
      [] SameBoot(owner, p) /\ pid_alive = "no" -> "dead"
      [] SameBoot(owner, p) /\ pid_alive = "yes" ->
            IF live_start_ticks = NULL THEN "unknown"
            ELSE IF live_start_ticks = owner.ticks THEN "live" ELSE "dead"

(* Mutant: only a proven live owner refuses.                               *)
JudgeOptimistic(p, pid_alive, live_start_ticks) ==
    \/ /\ classify_owner_liveness(acq[p].seen, p, pid_alive, live_start_ticks) # "live"
       /\ Goto(p, "cas")
       /\ UNCHANGED <<row, host, flock, me, acq, loop, exit>>
    \/ /\ classify_owner_liveness(acq[p].seen, p, pid_alive, live_start_ticks) = "live"
       /\ Ends(p, EXIT_OWNER_CONFLICT)
       /\ UNCHANGED row

(* Only a dead owner is replaced; a live or unknown one refuses.           *)
Judge(p, pid_alive, live_start_ticks) ==
    \/ /\ classify_owner_liveness(acq[p].seen, p, pid_alive, live_start_ticks) = "dead"
       /\ Goto(p, "cas")
       /\ UNCHANGED <<row, host, flock, me, acq, loop, exit>>
    \/ /\ classify_owner_liveness(acq[p].seen, p, pid_alive, live_start_ticks) # "dead"
       /\ Ends(p, EXIT_OWNER_CONFLICT)
       /\ UNCHANGED row

(* What /proc of p's host says of pid x: nothing, or what is there.        *)
PidReadings(p, x) ==
    {"unreadable"} \cup
    IF EvidenceSound THEN {IF proc[me[p].host][x] = NULL THEN "no" ELSE "yes"}
                     ELSE {"yes", "no"}

TicksReadings(p, x) ==
    {NULL} \cup IF EvidenceSound THEN {proc[me[p].host][x]} ELSE 0 .. MaxTicks

ProbePid(p) ==
    /\ pc[p] = "alive"
    /\ \E a \in PidReadings(p, acq[p].seen.pid) :
          \/ /\ a = "yes"
             /\ Goto(p, "ticks")
             /\ UNCHANGED <<row, host, flock, me, acq, loop, exit>>
          \/ a # "yes" /\ Judge(p, a, NULL)

ProbeTicks(p) ==
    /\ pc[p] = "ticks"
    /\ \E t \in TicksReadings(p, acq[p].seen.pid) : Judge(p, "yes", t)

(* _build_row: the identity that later supervisors judge us by.            *)
BuildRow(p, revision) ==
    [instance |-> p, host |-> me[p].host, boot |-> me[p].boot, host_id |-> acq[p].host_id,
     pid |-> me[p].pid, ticks |-> me[p].ticks, status |-> INSTANCE_ACTIVE,
     revision |-> revision]

Revision(r) == IF r = NULL THEN 0 ELSE r.revision

(* Mutant: the row is replaced whatever it has become.                     *)
RevisionIgnored(p) == TRUE

(* cas_supervisor_instance: the row is replaced only if it is the revision *)
(* that was read (a row's revision is at least 1).                         *)
RevisionUnchanged(p) == Revision(row) = Revision(acq[p].seen)

Cas(p) ==
    /\ pc[p] = "cas"
    /\ \/ /\ RevisionUnchanged(p)
          /\ row' = BuildRow(p, Revision(row) + 1)
          /\ Goto(p, "reconcile")
          /\ acq' = [acq EXCEPT ![p] = InitAcq]
          /\ UNCHANGED <<host, flock, me, loop, exit>>
       \/ /\ ~RevisionUnchanged(p)
          /\ acq[p].tries + 1 < MAX_ACQUIRE_ATTEMPTS
          /\ acq' = [acq EXCEPT ![p].tries = @ + 1]
          /\ Goto(p, "read")
          /\ UNCHANGED <<row, host, flock, me, loop, exit>>
       \/ /\ ~RevisionUnchanged(p)
          /\ acq[p].tries + 1 >= MAX_ACQUIRE_ATTEMPTS
          /\ Ends(p, EXIT_OWNER_CONFLICT)
          /\ UNCHANGED row

(* reconcile_after_restart; when it raises, main() exits and leaves the    *)
(* row ACTIVE.                                                             *)
Reconcile(p) ==
    /\ pc[p] = "reconcile"
    /\ \/ /\ Goto(p, "enter")
          /\ UNCHANGED <<row, host, flock, me, acq, loop, exit>>
       \/ /\ Ends(p, EXIT_INIT_ERROR)
          /\ UNCHANGED row

-----------------------------------------------------------------------------
(***************************************************************************)
(* SupervisorRuntime.  The signal handler runs between any two steps once  *)
(* it is installed.                                                        *)
(***************************************************************************)
mark_failed(l) == [l EXCEPT !.health = "FAILED", !.stop = TRUE]

_record_error(l) ==
    [l EXCEPT !.health = IF l.health = "STOPPING" THEN "STOPPING" ELSE "DEGRADED"]

_record_scheduler_error(l) ==
    LET counted == [_record_error(l) EXCEPT !.errs = @ + 1]
    IN  IF counted.errs >= MAX_CONSECUTIVE_ERRORS THEN mark_failed(counted) ELSE counted

request_shutdown(l) == [l EXCEPT !.health = "STOPPING", !.stop = TRUE, !.signalled = TRUE]

Signal(p) ==
    /\ pc[p] \in LoopPhases \cup {"finalize", "closing"}
    /\ loop' = [loop EXCEPT ![p] = request_shutdown(@)]
    /\ UNCHANGED <<row, host, flock, pc, me, acq, exit>>

(* A step of the loop that writes memory only.                             *)
LoopStep(p, from, to, l) ==
    /\ pc[p] = from
    /\ Goto(p, to)
    /\ loop' = [loop EXCEPT ![p] = l]
    /\ UNCHANGED <<row, host, flock, me, acq, exit>>

EnterLoop(p) ==
    LoopStep(p, "enter", "loop",
             [loop[p] EXCEPT !.health = IF @ = "STARTING" THEN "READY" ELSE @])

_should_continue(p) == ~loop[p].stop /\ loop[p].passes < MaxPasses

BeginPass(p) ==
    /\ _should_continue(p)
    /\ LoopStep(p, "loop", "pass",
                [loop[p] EXCEPT !.stale = IF OwnsRow(p) THEN @ ELSE @ + 1])

LeaveLoop(p) ==
    /\ ~_should_continue(p)
    /\ LoopStep(p, "loop", "finalize", loop[p])

(* scheduler.run_pass returns or raises.                                   *)
RunPass(p) ==
    \/ LoopStep(p, "pass", "fence", [loop[p] EXCEPT !.errs = 0])
    \/ LoopStep(p, "pass", "fence", _record_scheduler_error(loop[p]))

(* Mutant: the fence is taken for held.                                    *)
FenceAssumed(p) == {TRUE}

(* _fence_held: a failed read counts as lost.                              *)
FenceReadings(p) == {OwnsRow(p), FALSE}

CheckFence(p) ==
    \/ TRUE \in FenceReadings(p) /\ LoopStep(p, "fence", "waits", loop[p])
    \/ FALSE \in FenceReadings(p) /\ LoopStep(p, "fence", "beat", mark_failed(loop[p]))

(* check_due_waits and check_due_ci_waits return or raise.                 *)
CheckWaits(p) ==
    \/ \E l \in {loop[p], _record_error(loop[p])} : LoopStep(p, "waits", "ci", l)
    \/ \E l \in {loop[p], _record_error(loop[p])} : LoopStep(p, "ci", "beat", l)

(* update_supervisor_instance, fenced by the instance id.                  *)
Updated(r, status) == [r EXCEPT !.status = status, !.revision = r.revision + 1]

Heartbeat(p) ==
    \/ /\ pc[p] = "beat"
       /\ loop[p].passes % HeartbeatEvery = 0 /\ OwnsRow(p)
       /\ row' = Updated(row, row.status)
       /\ Goto(p, "recheck")
       /\ UNCHANGED <<host, flock, me, acq, loop, exit>>
    \/ /\ loop[p].passes % HeartbeatEvery = 0 /\ ~OwnsRow(p)
       /\ LoopStep(p, "beat", "recheck", mark_failed(loop[p]))
    \/ /\ loop[p].passes % HeartbeatEvery = 0
       /\ LoopStep(p, "beat", "recheck", mark_failed(_record_error(loop[p])))
    \/ /\ loop[p].passes % HeartbeatEvery # 0
       /\ LoopStep(p, "beat", "recheck", loop[p])

(* The fence after the pass, the pass count, the sleep.                    *)
Recheck(p) ==
    LET next(l) == [l EXCEPT !.passes = @ + 1]
    IN  \/ /\ loop[p].stop \/ TRUE \in FenceReadings(p)
           /\ LoopStep(p, "recheck", "loop", next(loop[p]))
        \/ /\ ~loop[p].stop /\ FALSE \in FenceReadings(p)
           /\ LoopStep(p, "recheck", "loop", next(mark_failed(loop[p])))

(* Mutant: every loop that ends was stopped.                               *)
FinalHealthStopping(l) == "STOPPING"

FinalHealth(l) == IF l.health = "FAILED" THEN "FAILED" ELSE "STOPPING"

(* _finalize: the last health, and the release, fenced by the instance id. *)
Finalize(p) ==
    /\ pc[p] = "finalize"
    /\ loop' = [loop EXCEPT ![p].health = FinalHealth(loop[p])]
    /\ row' = IF OwnsRow(p) THEN Updated(row, INSTANCE_RELEASED) ELSE row
    /\ Goto(p, "closing")
    /\ UNCHANGED <<host, flock, me, acq, exit>>

Exit(p) ==
    /\ pc[p] = "closing"
    /\ Ends(p, IF loop[p].health = "FAILED" THEN EXIT_FAILED ELSE EXIT_OK)
    /\ UNCHANGED row

-----------------------------------------------------------------------------
AcquireStep(p) ==
    TakeLock(p) \/ BeginAcquire(p) \/ ReadOwner(p) \/ ProbePid(p) \/ ProbeTicks(p)
        \/ Cas(p) \/ Reconcile(p)

RunLoopStep(p) ==
    EnterLoop(p) \/ BeginPass(p) \/ LeaveLoop(p) \/ RunPass(p) \/ CheckFence(p)
        \/ CheckWaits(p) \/ Heartbeat(p) \/ Recheck(p) \/ Finalize(p) \/ Exit(p)

Next ==
    \/ \E p \in Procs : AcquireStep(p) \/ RunLoopStep(p) \/ Signal(p) \/ Crash(p)
    \/ \E p \in Procs, h \in Hosts, x \in Pids : Start(p, h, x)
    \/ \E h \in Hosts, x \in Pids : OtherStarts(h, x) \/ OtherExits(h, x)
    \/ \E h \in Hosts : Reboot(h)

InstanceSpec == Init /\ [][Next]_vars

-----------------------------------------------------------------------------
(***************************************************************************)
(* Types.                                                                  *)
(***************************************************************************)
Identities == [host : Hosts, pid : Pids, ticks : Nat, boot : Nat]

Rows ==
    [instance : Procs, host : Hosts, boot : Nat, host_id : Hosts \cup {NULL},
     pid : Pids, ticks : Nat, status : {INSTANCE_ACTIVE, INSTANCE_RELEASED},
     revision : Nat \ {0}]

ASSUME NullAssumption == NULL \notin Rows

Loops ==
    [health : Health, stop : BOOLEAN, signalled : BOOLEAN, passes : 0 .. MaxPasses,
     errs : 0 .. MAX_CONSECUTIVE_ERRORS, stale : Nat]

Acqs ==
    [host_id : Hosts \cup {NULL}, seen : Rows \cup {NULL}, tries : 0 .. MAX_ACQUIRE_ATTEMPTS]

(* Every variable has the shape of the columns, locals and fields it       *)
(* models; in particular the pass and error counts never pass the limits   *)
(* at which _should_continue and _record_scheduler_error end the loop.     *)
InstanceTypeOK ==
    /\ row \in Rows \cup {NULL}
    /\ boot \in [Hosts -> Nat]
    /\ now \in [Hosts -> Nat]
    /\ proc \in [Hosts -> [Pids -> Nat \cup {NULL}]]
    /\ flock \in [Hosts -> Procs \cup {NULL}]
    /\ pc \in [Procs -> Phases]
    /\ me \in [Procs -> Identities \cup {NULL}]
    /\ acq \in [Procs -> Acqs]
    /\ loop \in [Procs -> Loops]
    /\ exit \in [Procs -> {NULL, EXIT_OK, EXIT_FAILED, EXIT_INIT_ERROR, EXIT_OWNER_CONFLICT}]

-----------------------------------------------------------------------------
(***************************************************************************)
(* Properties.                                                             *)
(***************************************************************************)

(* Two live service processes never both work on the store: whatever the   *)
(* order of their reads of the row, their looks at /proc and their         *)
(* compare-and-swaps, across reboots, reused pids and hosts that share the *)
(* database (acquire, cas_supervisor_instance).                            *)
SingleActive ==
    \A p, q \in Procs : Working(p) /\ Working(q) => p = q

(* The process that works is the one the row names, and the row says       *)
(* ACTIVE: its own heartbeats and fences can never find somebody else      *)
(* there, and no release of an earlier owner reaches its row.              *)
HolderOwnsRow ==
    \A p \in Procs : Working(p) => OwnsRow(p) /\ row.status = INSTANCE_ACTIVE

(* An ACTIVE row passes to another instance only when the process it names *)
(* no longer exists: evidence of death read before the compare-and-swap is *)
(* still true when the swap succeeds (classify_owner_liveness: "unknown"   *)
(* never authorizes a takeover).                                           *)
NoLiveOwnerEvicted ==
    [][(row # NULL /\ row.status = INSTANCE_ACTIVE /\ row'.instance # row.instance)
         => ~Alive(row.instance)]_vars

(* A process that was replaced while it lived begins at most one more      *)
(* scheduler pass: the fence before the waits, the heartbeat or the fence  *)
(* after the pass stops it (_run_one_iteration).                           *)
StaleRunsAtMostOnePass == \A p \in Procs : loop[p].stale <= 1

(* A process that ran a pass after it was replaced, and was not asked to   *)
(* stop, exits with EXIT_FAILED (mark_failed, _finalize, main).            *)
EvictedExitsFailed ==
    [][\A p \in Procs : (loop[p].stale > 0 /\ ~loop[p].signalled /\ Exit(p))
         => exit'[p] = EXIT_FAILED]_vars
=============================================================================
