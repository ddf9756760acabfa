------------------------------ MODULE Admission ------------------------------
(***************************************************************************)
(* Which jobs may have an agent at the same time, and what becomes of a    *)
(* job whose tests were ended by the host.  One service process makes one  *)
(* pass at a time: a claim makes the job RUNNING at once, then the         *)
(* structural policy (concurrency_policy.decide) and the resource governor *)
(* gate it, unconsumed terminal evidence is recovered from, reconcile      *)
(* plans, and both gates and a last admission precede every spawn and      *)
(* every sandbox run.  Agents run detached and end between any two steps;  *)
(* the sandbox runs within the pass and leaves the terminal evidence       *)
(* (resource_failure, resource_recovery); the host changes under the       *)
(* passes; a crash or a lease that lapses drops the pass and leaves the    *)
(* job RUNNING, to be taken over by evidence.                              *)
(*                                                                         *)
(* The gates look at RUNNING rows.  An agent may outlive the row that      *)
(* counted for it: its job is put off or given up, or its scope could not  *)
(* be proven gone.  It is then astray, even when its job comes back.       *)
(*                                                                         *)
(* Memory is counted in half GiB.  Horizons (next_eligible_at) and owner   *)
(* gates are left out: a queued job may be claimed at any time.  Epochs    *)
(* are JobStore's, the launch Scheduler's, the ledger TaskCore's.          *)
(***************************************************************************)
EXTENDS Integers, FiniteSets, Sequences, SequencesExt, FiniteSetsExt

CONSTANTS
    Jobs,
    NULL,
    Portfolios,             \* the sets of jobs a run starts with: job |-> declared facts
    HostStates,             \* what the host snapshot may show
    Calm,                   \* the snapshot of a host that is at rest
    max_light,
    max_writers_global,
    max_resource_retries,
    max_resource_defers,
    MAX_DISPATCH_ATTEMPTS_PER_STEP,
    MAX_ACTION_RETRIES,
    Files,                  \* the files the repositories hold, as [repo, path]
    MaxFaults               \* bound: crashes, lapsed leases, host changes, failed launches

ASSUME JobsAssumption == IsFiniteSet(Jobs) /\ NULL \notin Jobs
ASSUME PolicyAssumption ==
    {max_light, max_writers_global, max_resource_retries, max_resource_defers,
     MAX_DISPATCH_ATTEMPTS_PER_STEP, MAX_ACTION_RETRIES, MaxFaults} \subseteq Nat

VARIABLES
    facts,      \* per job: class, roles of its dispatches, footprint, dependency, action scope
    job,        \* per job: its row and how far its current dispatch is
    agent,      \* per job: the detached agent of the dispatch, or how it ended
    held,       \* the jobs whose lease the service process holds and that is current
    evidence,   \* per job: the terminal evidence no recovery has consumed yet
    pass,       \* the pass of the service process
    host,       \* the host as a snapshot shows it
    faults

vars == <<facts, job, agent, held, evidence, pass, host, faults>>

WRITE_ROLES == {"implementer", "qa"}
_WRITER_CLASSES == {"MEDIUM", "HEAVY", "EXCLUSIVE"}
ResourceClass == {"LIGHT"} \cup _WRITER_CLASSES

\* What is declared of a job.  A role is a role of the task's workflow.
Declarations ==
    [class : ResourceClass, roles : Seq(STRING), repo : STRING \cup {NULL},
     worktree : STRING \cup {NULL}, branch : STRING \cup {NULL}, target : STRING \cup {NULL},
     roots : SUBSET Seq(STRING), depends_on : Jobs \cup STRING \cup {NULL},
     action : {"NONE", "REPO_GLOBAL", "GLOBAL"}]

\* What a snapshot tells.  known: memory, swap, disk and active jobs could be read;
\* load_known: so could load and processors.
Snapshots ==
    [known : BOOLEAN, load_known : BOOLEAN, total : {Calm.total}, avail : 0 .. Calm.total,
     swap : 0 .. 100, disk_low : BOOLEAN, loaded : BOOLEAN]

\* The memory of the host does not change, and no more of it is free than there is.
ASSUME HostAssumption == Calm.total \in Nat /\ HostStates \cup {Calm} \subseteq Snapshots
ASSUME FilesAssumption == Files \subseteq [repo : STRING, path : Seq(STRING)]

Idle == [pc |-> "idle", job |-> NULL]
At(pc) == pass.pc = pc
Goto(pc) == pass' = [pass EXCEPT !.pc = pc]

----------------------------------------------------------------------------
(* Declared footprints.  A path root is a sequence of segments.            *)

\* One segment of a declared root; NULL once the root has left the repository.
Descend(path, seg) ==
    IF path = NULL \/ seg = "." THEN path
    ELSE IF seg # ".." THEN Append(path, seg)
    ELSE IF path = <<>> THEN NULL ELSE Front(path)

_validate_rel_root(raw) == LET p == FoldLeft(Descend, <<>>, raw)
                           IN  IF p = <<>> THEN NULL ELSE p

\* What is declared can be validated: a root stays a path, or it is refused.
ASSUME DeclaredAssumption ==
    /\ Portfolios \subseteq [Jobs -> Declarations]
    /\ \A p \in Portfolios, j \in Jobs : \A raw \in p[j].roots :
        _validate_rel_root(raw) \in (Seq(STRING) \ {<<>>}) \cup {NULL}

\* A single refused root refuses the declaration, and the footprint stays unknown.
serialize_footprint_paths(raws) ==
    LET norms == {_validate_rel_root(r) : r \in raws}
    IN  IF NULL \in norms THEN {} ELSE norms

_is_prefix(p, q) == p # <<>> /\ IsPrefix(p, q)

\* Mutant: only equal roots conflict.
PathsEqual(A, B) == A \cap B # {}

path_roots_conflict(A, B) == \E a \in A, b \in B : _is_prefix(a, b) \/ _is_prefix(b, a)

Same(x, y) == x # NULL /\ x = y

footprint_overlap(a, b) ==
    IF NULL \in {a.repo, b.repo} THEN "UNKNOWN"
    ELSE IF a.repo # b.repo THEN "DISJOINT"
    ELSE IF Same(a.branch, b.branch) \/ Same(a.target, b.target) THEN "OVERLAP"
    ELSE IF {} \in {a.roots, b.roots} THEN "UNKNOWN"
    ELSE IF path_roots_conflict(a.roots, b.roots) THEN "OVERLAP" ELSE "DISJOINT"

----------------------------------------------------------------------------
(* The structural policy.                                                  *)

is_writer(f, role) == role \in WRITE_ROLES \/ f.class \in _WRITER_CLASSES

\* Mutant: only the jobs this service process holds are active.
ActiveHeld(j) == {k \in held \ {j} : job[k].state = "RUNNING"}

\* list_active_job_facts and the active-jobs reader of the host snapshot.
Active(j) == {k \in Jobs \ {j} : job[k].state = "RUNNING"}

\* The terminal of a prerequisite; MISSING when there is no such job.
get_dependency_terminal(d) ==
    IF d \notin Jobs THEN "MISSING"
    ELSE IF job[d].state \in {"DONE", "FAILED", "BLOCKED"} THEN job[d].state ELSE NULL

DependencyOf(j) == IF facts[j].depends_on = NULL THEN "DONE"
                   ELSE get_dependency_terminal(facts[j].depends_on)

\* Mutant: only the candidate's own scope is looked at.
ActionConflictOneSided(f, g) ==
    f.action = "GLOBAL" \/ (f.action = "REPO_GLOBAL" /\ Same(f.repo, g.repo))

ActionConflict(f, g) ==
    LET scopes == {f.action, g.action} IN
    \/ "GLOBAL" \in scopes
    \/ ("REPO_GLOBAL" \in scopes /\ Same(f.repo, g.repo))

WriterConflict(f, g) ==
    Same(f.worktree, g.worktree) \/ footprint_overlap(f, g) # "DISJOINT"

\* The two serialize: by an action scope, or as writers.
Conflict(j, k) ==
    \/ ActionConflict(facts[j], facts[k])
    \/ /\ is_writer(facts[j], job[j].role) /\ is_writer(facts[k], job[k].role)
       /\ WriterConflict(facts[j], facts[k])

decide(j) ==
    LET dep == DependencyOf(j) IN
    IF dep = "MISSING" THEN "BLOCK"
    ELSE IF dep # "DONE" THEN "DEFER"
    ELSE IF \E k \in Active(j) : Conflict(j, k) THEN "SERIALIZE" ELSE "ALLOW_PARALLEL"

----------------------------------------------------------------------------
(* The resource governor.                                                  *)

memory_max(class) ==
    IF class = "LIGHT" THEN 2 ELSE IF class = "MEDIUM" THEN 5
    ELSE IF class = "HEAVY" THEN 8 ELSE 11

required_host_reserve(total) == Max({3, total \div 5})

_missing_critical(class) == ~host.known \/ (class \in _WRITER_CLASSES /\ ~host.load_known)

\* Mutant: the ceilings of the active jobs are not set aside.
ReservedNothing(j) == 0

\* Those of the jobs whose class is one of the classes.
Of(jobs, classes) == {k \in jobs : facts[k].class \in classes}

\* The ceilings of the jobs together.
Reserved(jobs) ==
    LET all(class) == memory_max(class) * Cardinality(Of(jobs, {class}))
    IN  all("LIGHT") + all("MEDIUM") + all("HEAVY") + all("EXCLUSIVE")

_active_reserved_bytes(j) == Reserved(Active(j))

Count(j, classes) == Cardinality(Of(Active(j), classes))

ConcurrencyLimited(j) ==
    LET c == facts[j].class IN
    \/ c = "EXCLUSIVE" /\ Active(j) # {}
    \/ Count(j, {"EXCLUSIVE"}) > 0
    \/ c \in _WRITER_CLASSES /\ Count(j, _WRITER_CLASSES) >= max_writers_global
    \/ c = "LIGHT" /\ Count(j, {"LIGHT"}) >= max_light

\* The verdict of _decide.  No caller estimates temporary data, names temporary
\* paths or prefers external CI.
_decide(j) ==
    LET c == facts[j].class
        writer == c \in _WRITER_CLASSES
    IN  IF _missing_critical(c) THEN (IF writer THEN "DENY_LOCAL" ELSE "DEFER")
        ELSE IF ConcurrencyLimited(j) \/ (writer /\ host.swap >= 70) THEN "DEFER"
        ELSE IF host.disk_low THEN "DENY_LOCAL"
        ELSE IF \/ host.avail - _active_reserved_bytes(j) - memory_max(c)
                       < required_host_reserve(host.total)
                \/ writer /\ host.loaded
             THEN "DEFER" ELSE "ALLOW"

----------------------------------------------------------------------------
(* Why an agent ended, and what follows.                                   *)

TerminationClass ==
    {"NORMAL_EXIT", "NONZERO_EXIT", "TIMEOUT", "OOM_KILL", "MEMORY_LIMIT",
     "SCOPE_CLEANUP_UNVERIFIED", "UNKNOWN_TERMINATION"}

Evidence == [exit_code : {0, 137, NULL}, timed_out : BOOLEAN, oom : BOOLEAN, limit : BOOLEAN]

classify_termination(ev) ==
    IF ev.timed_out THEN "TIMEOUT"
    ELSE IF ev.oom THEN "OOM_KILL"
    ELSE IF ev.limit THEN "MEMORY_LIMIT"
    ELSE IF ev.exit_code = 0 THEN "NORMAL_EXIT"
    ELSE IF ev.exit_code # NULL THEN "NONZERO_EXIT"
    ELSE "UNKNOWN_TERMINATION"

\* Mutant: an agent that vanished is taken for one that ran too long.
FailureOfVanished(tc) ==
    IF tc = "NORMAL_EXIT" THEN "NORMAL_EXIT"
    ELSE IF tc = "NONZERO_EXIT" THEN "CODE_OR_PROCESS_FAILURE"
    ELSE IF tc = "OOM_KILL" THEN "RESOURCE_OOM"
    ELSE IF tc = "MEMORY_LIMIT" THEN "RESOURCE_MEMORY_LIMIT"
    ELSE "RESOURCE_TIMEOUT"

failure_class_from_termination(tc) ==
    IF tc = "NORMAL_EXIT" THEN "NORMAL_EXIT"
    ELSE IF tc = "NONZERO_EXIT" THEN "CODE_OR_PROCESS_FAILURE"
    ELSE IF tc = "TIMEOUT" THEN "RESOURCE_TIMEOUT"
    ELSE IF tc = "OOM_KILL" THEN "RESOURCE_OOM"
    ELSE IF tc = "MEMORY_LIMIT" THEN "RESOURCE_MEMORY_LIMIT"
    ELSE IF tc = "SCOPE_CLEANUP_UNVERIFIED" THEN "SCOPE_CLEANUP_UNVERIFIED"
    ELSE "UNKNOWN_TERMINATION"

is_resource_failure(fc) == fc \notin {"NORMAL_EXIT", "CODE_OR_PROCESS_FAILURE"}

_ALLOWED_RECOVERY_PAIRS ==
    [NORMAL_EXIT |-> {"COMPLETE"},
     CODE_OR_PROCESS_FAILURE |-> {"FAIL_NONRESOURCE"},
     RESOURCE_OOM |-> {"BLOCK_RESOURCE", "PREFER_EXTERNAL"},
     RESOURCE_MEMORY_LIMIT |-> {"BLOCK_RESOURCE", "DEFER_RESOURCE"},
     RESOURCE_TIMEOUT |-> {"RETRY_BOUNDED", "DEFER_RESOURCE", "BLOCK_RESOURCE"},
     SCOPE_CLEANUP_UNVERIFIED |-> {"QUARANTINE_LOST"},
     UNKNOWN_TERMINATION |-> {"QUARANTINE_LOST"}]

\* Mutant: a lost process is retried as a timeout is.
RecoveryRetries(fc, attempt) ==
    IF fc \notin {"RESOURCE_OOM", "RESOURCE_MEMORY_LIMIT"} /\ attempt < max_resource_retries
    THEN "RETRY_BOUNDED" ELSE "BLOCK_RESOURCE"

\* Mutant: the retry after the last is granted too.
RecoveryOneMore(fc, attempt) ==
    IF fc \in {"RESOURCE_OOM", "RESOURCE_MEMORY_LIMIT"} THEN "BLOCK_RESOURCE"
    ELSE IF fc = "RESOURCE_TIMEOUT" THEN
        IF attempt =< max_resource_retries THEN "RETRY_BOUNDED" ELSE "BLOCK_RESOURCE"
    ELSE "QUARANTINE_LOST"

\* Under the default policy: no memory-limit deferral, no external runner.
decide_recovery(fc, attempt) ==
    IF fc = "NORMAL_EXIT" THEN "COMPLETE"
    ELSE IF fc = "CODE_OR_PROCESS_FAILURE" THEN "FAIL_NONRESOURCE"
    ELSE IF fc \in {"RESOURCE_OOM", "RESOURCE_MEMORY_LIMIT"} THEN "BLOCK_RESOURCE"
    ELSE IF fc = "RESOURCE_TIMEOUT" THEN
        IF attempt < max_resource_retries THEN "RETRY_BOUNDED"
        ELSE IF attempt < max_resource_defers THEN "DEFER_RESOURCE" ELSE "BLOCK_RESOURCE"
    ELSE "QUARANTINE_LOST"

\* The row commit_recovery_decision writes.
Recovered(r, decision) ==
    IF decision \in {"RETRY_BOUNDED", "DEFER_RESOURCE"}
    THEN [r EXCEPT !.state = "QUEUED", !.attempt = @ + 1]
    ELSE IF decision \in {"BLOCK_RESOURCE", "PREFER_EXTERNAL"} THEN [r EXCEPT !.state = "BLOCKED"]
    ELSE [r EXCEPT !.state = "LOST"]

----------------------------------------------------------------------------
\* phase: nothing spawned yet, SPAWN_RUN failed, an agent spawned, or its patch
\* applied and its tests not yet green.
Fresh == [state |-> "QUEUED", role |-> NULL, step |-> 1, phase |-> "spawn",
          tries |-> 1, runs |-> 0, attempt |-> 0]

Declared(f) == [f EXCEPT !.roots = serialize_footprint_paths(@)]

Init ==
    /\ \E p \in Portfolios : facts = [j \in Jobs |-> Declared(p[j])]
    /\ job = [j \in Jobs |-> IF facts[j].roles = <<>> THEN [Fresh EXCEPT !.state = "DONE"] ELSE Fresh]
    /\ agent = [j \in Jobs |-> "none"]
    /\ held = {}
    /\ evidence = [j \in Jobs |-> NULL]
    /\ pass = Idle
    /\ host = Calm
    /\ faults = 0

Put(j, r) == job' = [job EXCEPT ![j] = r]
PutAgent(j, a) == agent' = [agent EXCEPT ![j] = a]
PutEvidence(j, tc) == evidence' = [evidence EXCEPT ![j] = tc]

Fault == faults < MaxFaults /\ faults' = faults + 1

\* The agent of a job that is no longer counted for it.
Astray(j) == PutAgent(j, IF agent[j] = "live" THEN "stray" ELSE agent[j])

\* A refused job leaves RUNNING without a lease and the pass ends.
Refuse(j, r, state) ==
    Put(j, [r EXCEPT !.state = state]) /\ Astray(j) /\ held' = held \ {j} /\ pass' = Idle

(* run_pass: a job is claimed, one this service holds goes on, or one whose  *)
(* lease lapsed is taken over.                                              *)

Claim(j) ==
    /\ At("idle") /\ job[j].state = "QUEUED" /\ DependencyOf(j) = "DONE"
    /\ Put(j, [job[j] EXCEPT !.state = "RUNNING"])
    /\ held' = held \cup {j}
    /\ pass' = [pc |-> "claimed", job |-> j]
    /\ UNCHANGED <<facts, agent, evidence, host, faults>>

\* The scan for a claimable job blocks one whose prerequisite does not exist.
_block_missing_dependency(j) ==
    /\ At("idle") /\ job[j].state = "QUEUED" /\ DependencyOf(j) = "MISSING"
    /\ Put(j, [job[j] EXCEPT !.state = "BLOCKED"])
    /\ UNCHANGED <<facts, agent, held, evidence, pass, host, faults>>

Continue(j) ==
    /\ At("idle") /\ job[j].state = "RUNNING" /\ j \in held
    /\ pass' = [pc |-> "held", job |-> j]
    /\ UNCHANGED <<facts, job, agent, held, evidence, host, faults>>

\* Whoever held the job is gone.  Its process is found alive (the job is left alone),
\* unreadable (LOST) or dead, and then the worktree decides: diverged (BLOCKED), of
\* another writer (LOST), or clean, and the job is gated as a claimed one is.  A
\* registration of unknown identity is misread, so an agent may be alive in each case.
\* An unfinished APPLY_PATCH_SET refuses the takeover for ever.
_try_recover_takeover(j) ==
    /\ At("idle") /\ job[j].state = "RUNNING" /\ j \notin held
    /\ \/ \E state \in {"LOST", "BLOCKED"} : Refuse(j, job[j], state)
       \/ /\ held' = held \cup {j} /\ Astray(j) /\ UNCHANGED job
          /\ pass' = [pc |-> "claimed", job |-> j]
    /\ UNCHANGED <<facts, evidence, host, faults>>

\* What each gate of the pass leads to.
AfterGate == [claimed |-> "admit", admit |-> "held", spawning |-> "spawnadmit", spawnadmit |-> "launch"]

Pass(j) == pass.job = j

_concurrency_gate(j) ==
    /\ Pass(j) /\ pass.pc \in {"claimed", "spawning"}
    /\ IF decide(j) = "ALLOW_PARALLEL"
       THEN Goto(AfterGate[pass.pc]) /\ UNCHANGED <<job, agent, held>>
       ELSE Refuse(j, job[j], IF decide(j) = "BLOCK" THEN "BLOCKED" ELSE "QUEUED")
    /\ UNCHANGED <<facts, evidence, host, faults>>

_resource_gate(j) ==
    /\ Pass(j) /\ pass.pc \in {"admit", "spawnadmit"}
    /\ IF _decide(j) = "ALLOW"
       THEN Goto(AfterGate[pass.pc]) /\ UNCHANGED <<job, agent, held>>
       ELSE Refuse(j, job[j], "QUEUED")
    /\ UNCHANGED <<facts, evidence, host, faults>>

\* Evidence is recovered from before anything else a held job does, and at once
\* after the run that left it.  A pairing the store refuses raises out of the pass.
classify_and_recover(j) ==
    LET fc == failure_class_from_termination(evidence[j])
        decision == decide_recovery(fc, job[j].attempt)
    IN  /\ Pass(j) /\ pass.pc \in {"held", "tested"}
        /\ IF evidence[j] = NULL \/ ~is_resource_failure(fc)
           THEN /\ pass' = IF At("held") THEN [pass EXCEPT !.pc = "reconcile"] ELSE Idle
                /\ UNCHANGED <<job, evidence>>
           ELSE IF decision \notin _ALLOWED_RECOVERY_PAIRS[fc]
           THEN Goto("raised") /\ UNCHANGED <<job, evidence>>
           ELSE Put(j, Recovered(job[j], decision)) /\ PutEvidence(j, NULL) /\ pass' = Idle
        /\ UNCHANGED <<facts, agent, held, host, faults>>

\* The job after its dispatch is consumed, and after its run is marked failed.
Consumed(j) ==
    IF job[j].step = Len(facts[j].roles) THEN [job[j] EXCEPT !.state = "DONE"]
    ELSE [Fresh EXCEPT !.state = "RUNNING", !.role = job[j].role, !.step = job[j].step + 1,
                       !.attempt = job[j].attempt]

RunFailed(j) ==
    IF job[j].tries >= MAX_DISPATCH_ATTEMPTS_PER_STEP THEN [job[j] EXCEPT !.state = "FAILED"]
    ELSE [job[j] EXCEPT !.phase = "spawn", !.tries = @ + 1, !.runs = 0]

\* What the plan makes of a dispatch by its agent.  Of an implementer that
\* vanished nobody knows what it wrote, any other is tried again.
Observed(j) ==
    IF agent[j] \in {"live", "stray"} THEN job[j]
    ELSE IF agent[j] = "ok" THEN
        IF job[j].role \in WRITE_ROLES THEN [job[j] EXCEPT !.phase = "tests"] ELSE Consumed(j)
    ELSE IF agent[j] = "vanished" /\ job[j].role = "implementer"
    THEN [job[j] EXCEPT !.state = "BLOCKED"]
    ELSE RunFailed(j)

\* An observation that is unknown or in conflict, a result that changed, or facts that
\* keep changing: the job backs off without a lease, or ends once its retries are spent.
\* Its agent is not asked.
_adapter_backoff(j) == \E state \in {"QUEUED", "ERROR"} : Refuse(j, job[j], state)

\* Reconcile records the role of the frontier.  A spawn that failed is never
\* planned again: after enough confirmations that no run exists the job is blocked.
Reconcile(j) ==
    LET role == facts[j].roles[job[j].step]
        act == Goto("spawning") /\ UNCHANGED <<agent, held>>
    IN
    /\ Pass(j) /\ At("reconcile")
    /\ \/ job[j].phase = "spawn" /\ Put(j, [job[j] EXCEPT !.role = role]) /\ act
       \/ /\ job[j].phase = "tests"
          /\ IF job[j].runs < MAX_ACTION_RETRIES THEN act /\ UNCHANGED job
             ELSE Refuse(j, job[j], "ERROR")
       \/ job[j].phase = "stuck" /\ Refuse(j, job[j], "BLOCKED")
       \/ job[j].phase = "run" /\ Put(j, Observed(j)) /\ pass' = Idle /\ UNCHANGED <<agent, held>>
       \/ _adapter_backoff(j)
    /\ UNCHANGED <<facts, evidence, host, faults>>

\* The row when the action it began cannot be carried out.
ActionFailed(r) == IF r.phase = "spawn" THEN [r EXCEPT !.phase = "stuck"]
                   ELSE [r EXCEPT !.runs = @ + 1]

\* The action itself asks the governor once more.
_fresh_admission(j) ==
    /\ Pass(j) /\ At("launch")
    /\ IF _decide(j) = "ALLOW" THEN Goto("admitted") /\ UNCHANGED <<job, agent, held>>
       ELSE Refuse(j, ActionFailed(job[j]), "QUEUED")
    /\ UNCHANGED <<facts, evidence, host, faults>>

_spawn_scoped(j) ==
    /\ Pass(j) /\ At("admitted") /\ job[j].phase = "spawn"
    /\ Put(j, [job[j] EXCEPT !.phase = "run"])
    /\ PutAgent(j, "live")
    /\ pass' = Idle
    /\ UNCHANGED <<facts, held, evidence, host, faults>>

\* The scope cannot be made (requeued), or not be proven gone again: the job is
\* quarantined, and what was started in the scope may still run.
SpawnFails(j) ==
    /\ Pass(j) /\ At("admitted") /\ job[j].phase = "spawn" /\ Fault
    /\ \/ Refuse(j, ActionFailed(job[j]), "QUEUED")
       \/ /\ Put(j, [ActionFailed(job[j]) EXCEPT !.state = "LOST"])
          /\ \E a \in {agent[j], "stray"} : PutAgent(j, a)
          /\ held' = held \ {j} /\ pass' = Idle
    /\ UNCHANGED <<facts, evidence, host>>

\* The sandbox runs to its end within the pass.
_run_sandbox_scoped(j) ==
    /\ Pass(j) /\ At("admitted") /\ job[j].phase = "tests"
    /\ \E tc \in {classify_termination(ev) : ev \in Evidence} \cup {"SCOPE_CLEANUP_UNVERIFIED"} :
        IF tc = "NORMAL_EXIT"
        THEN Put(j, Consumed(j)) /\ pass' = Idle /\ UNCHANGED evidence
        ELSE /\ Put(j, ActionFailed(job[j]))
             /\ PutEvidence(j, IF is_resource_failure(failure_class_from_termination(tc)) THEN tc ELSE NULL)
             /\ Goto("tested")
    /\ UNCHANGED <<facts, agent, held, host, faults>>

Running(j) == Pass(j) /\ At("admitted") /\ job[j].phase = "tests"

\* An exception ends the pass, a crash the service: the next one has another owner id
\* and holds nothing.  A sandbox in its scope may go on.
Crash ==
    /\ ~At("raised") /\ Fault
    /\ pass' = Idle
    /\ held' \in {{}, held}
    /\ \/ UNCHANGED agent
       \/ \E j \in Jobs : Running(j) /\ PutAgent(j, "stray")
    /\ UNCHANGED <<facts, job, evidence, host>>

\* A lease lapses between two passes of its job, or in one, whose writes are then
\* fenced off (that it lapsed during a sandbox run is noticed after it).
LeaseLapses(j) ==
    /\ j \in held /\ job[j].state = "RUNNING" /\ ~At("raised") /\ ~Running(j) /\ Fault
    /\ held' = held \ {j}
    /\ pass' = IF Pass(j) THEN Idle ELSE pass
    /\ UNCHANGED <<facts, job, agent, evidence, host>>

AgentEnds(j) ==
    /\ agent[j] \in {"live", "stray"}
    /\ \E end \in {"ok", "failed", "vanished"} : PutAgent(j, end)
    /\ UNCHANGED <<facts, job, held, evidence, pass, host, faults>>

HostChanges ==
    /\ Fault
    /\ host' \in HostStates \ {host}
    /\ UNCHANGED <<facts, job, agent, held, evidence, pass>>

HostRecovers ==
    /\ host # Calm /\ host' = Calm
    /\ UNCHANGED <<facts, job, agent, held, evidence, pass, faults>>

Take(j) ==
    Claim(j) \/ _block_missing_dependency(j) \/ Continue(j) \/ _try_recover_takeover(j)

Step(j) ==
    \/ _concurrency_gate(j) \/ _resource_gate(j) \/ classify_and_recover(j) \/ Reconcile(j)
    \/ _fresh_admission(j) \/ _spawn_scoped(j) \/ SpawnFails(j) \/ _run_sandbox_scoped(j)

Next ==
    \/ \E j \in Jobs : Take(j) \/ Step(j) \/ LeaseLapses(j) \/ AgentEnds(j)
    \/ Crash \/ HostChanges \/ HostRecovers

Spec == Init /\ [][Next]_vars

----------------------------------------------------------------------------
\* Live: the agents whose row has counted for them since their start.
Live == {j \in Jobs : agent[j] = "live"}
Stray == {j \in Jobs : agent[j] = "stray"}
Testing == {j \in Jobs : Running(j)}

Terminal == {"DONE", "FAILED", "BLOCKED", "LOST", "ERROR"}

\* Types of the state; the host never costs a job more attempts than the policy
\* grants (decide_recovery, commit_recovery_decision).
AdmissionTypeOK ==
    /\ \A j \in Jobs :
        /\ job[j].state \in {"QUEUED", "RUNNING"} \cup Terminal
        /\ job[j].state # "DONE" => job[j].step \in 1 .. Len(facts[j].roles)
        /\ job[j].phase \in {"spawn", "stuck", "run", "tests"}
        /\ job[j].attempt \in 0 .. Max({max_resource_retries, max_resource_defers})
        /\ agent[j] \in {"none", "live", "stray", "ok", "failed", "vanished"}
        /\ evidence[j] \in TerminationClass \cup {NULL}
        /\ facts[j].class \in ResourceClass
    /\ faults \in 0 .. MaxFaults

\* The files of the repositories a job may write, as its footprint declares them:
\* everything, everything of one repository, or what lies below its roots.
Writes(f) ==
    {x \in Files : f.repo # NULL =>
        x.repo = f.repo /\ (f.roots # {} => \E r \in f.roots : IsPrefix(r, x.path))}

\* No two of the agents that may write have a file, a worktree or a branch in common.
WritersDisjoint(agents) ==
    \A j, k \in agents :
        (j # k /\ job[j].role \in WRITE_ROLES /\ job[k].role \in WRITE_ROLES) =>
            /\ Writes(facts[j]) \cap Writes(facts[k]) = {}
            /\ ~Same(facts[j].worktree, facts[k].worktree)
            /\ (facts[j].repo = facts[k].repo => ~Same(facts[j].branch, facts[k].branch))

\* A globally serialized job works alone among them, a repository-wide one alone in
\* its repository.
GlobalAlone(agents) ==
    \A j, k \in agents :
        j # k => /\ facts[j].action # "GLOBAL"
                 /\ (facts[j].action = "REPO_GLOBAL" => ~Same(facts[j].repo, facts[k].repo))

\* That many fill the class slots at most, and if each used all its scope allows the
\* host reserve would still be free.
Fits(busy) ==
    /\ Cardinality(Of(busy, _WRITER_CLASSES)) =< max_writers_global
    /\ Cardinality(Of(busy, {"LIGHT"})) =< max_light
    /\ (Of(busy, {"EXCLUSIVE"}) # {} => Cardinality(busy) = 1)
    /\ (busy # {} => Reserved(busy) + required_host_reserve(Calm.total) =< Calm.total)

\* The agents that never went astray and the sandbox fit the host together
\* (ResourceGovernor._decide at the claim, before the action and within it).
WithinTheHost == Fits(Live \cup Testing)

\* The decision for terminal evidence is always one the store accepts
\* (assert_valid_recovery_pair), so no evidence makes every later pass fail.
RecoveryAccepted == ~At("raised")

\* Agents in conflict never work together while their rows count for them: neither
\* two writers nor a job next to a globally serialized one (concurrency_policy.decide
\* at the claim and again at the spawn), in whatever order their jobs are claimed,
\* crash, are taken over and come to their write role.
ConflictsExcluded == WritersDisjoint(Live) /\ GlobalAlone(Live)

\* An agent astray counts again as soon as its row is RUNNING, also of a job whose
\* holder is gone: nothing in conflict is started beside it (list_active_job_facts
\* at the spawn).
StartsApart ==
    [][\A j, k \in Jobs :
        (/\ agent'[j] = "live" /\ agent[j] # "live"
         /\ k \in (Live \cup Stray) \ {j} /\ job[k].state = "RUNNING")
            => WritersDisjoint({j, k}) /\ GlobalAlone({j, k})]_vars

\* The invariant of admission: types and attempt limits, the host's capacity, and
\* decisions the store accepts.
AdmissionInv == AdmissionTypeOK /\ WithinTheHost /\ RecoveryAccepted

\* Nothing is started for a job while evidence of its last process is unconsumed,
\* whoever takes the job over, and evidence that the host killed or lost the process
\* is only ever consumed by an end of the job (classify_and_recover runs before
\* reconcile in every pass).  Within one boot: that of an earlier one is historical.
EvidenceSettledFirst ==
    [][\A j \in Jobs :
        evidence[j] # NULL =>
            /\ (agent'[j] = "live" => agent[j] = "live")
            /\ j \notin Testing'
            /\ (evidence[j] # "TIMEOUT" =>
                    evidence'[j] = evidence[j] \/ job'[j].state \in {"BLOCKED", "LOST"})]_vars
=============================================================================
