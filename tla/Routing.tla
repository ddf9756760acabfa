------------------------------- MODULE Routing -------------------------------
(***************************************************************************)
(* Which model works on the next dispatch of a job.  The supervisor builds *)
(* a request from the ledger (the role's attempts, controlled tests,       *)
(* verdicts, controlled findings, observed outages), model_router.route    *)
(* answers with a level and a model, and the answer feeds the ledger it is *)
(* built from: levels are kept, outages and failures are recorded, the     *)
(* first dispatch that applies a patch becomes the job's writer, of which  *)
(* every later review must be independent.                                 *)
(*                                                                         *)
(* The job stays leased, but for the backoff of an outage.  Of the lead's  *)
(* decisions accept and rework are kept; the others route nothing more.    *)
(* Whether a rework cycle has a reviewer is chosen when it begins.         *)
(***************************************************************************)
EXTENDS Integers, Sequences, FiniteSets

CONSTANTS
    NULL,
    Risks,          \* the risk classes of the tasks
    MAX_DISPATCH_ATTEMPTS_PER_STEP,
    MAX_RUNTIME_UNKNOWN,
    MaxCycles,      \* bound: rework cycles
    MaxFailures,    \* bound: failed runs
    MaxFacts        \* bound: test runs, reviews and findings the owner's side adds

ASSUME RoutingAssumption ==
    /\ Risks \subseteq {"LOW", "NORMAL", "HIGH"}
    /\ MAX_DISPATCH_ATTEMPTS_PER_STEP \in Nat \ {0}
    /\ MAX_RUNTIME_UNKNOWN \in Nat \ {0}

VARIABLES
    risk,       \* risk class of the task
    job,        \* open, or how it was closed
    flow,       \* cycle, its sequence of roles, position and attempt
    dispatch,   \* the dispatch that is out, or NULL
    level,      \* per role: the highest level any of its dispatches had
    failed,     \* per role: the attempt numbers that ended as a code failure
    disturbed,  \* the roles that met a provider or transport failure
    outage,     \* the models whose last observation is a provider failure that has not expired
    tests,      \* the last two controlled test results
    verdicts,   \* the last two verdicts, and whether any was a reject
    findings,   \* controlled findings: one open, one resolved, one severe
    writer,     \* the dispatch bound as the writer, its model, its lease still the current one
    applied,    \* the models whose patches are in the workspace
    facts, failures, blamed     \* counters; history: something spoke against the code

vars == <<risk, job, flow, dispatch, level, failed, disturbed, outage, tests, verdicts,
          findings, writer, applied, facts, failures, blamed>>

Roles == {"lead", "analyst", "implementer", "qa", "reviewer"}
WRITE_ROLES == {"implementer", "qa"}
Models == {"flash", "pro", "sol"}

\* NULL is neither a model nor a writer's binding.
ASSUME NullAssumption ==
    NULL \notin Models \cup [id : Nat \X Nat \X Nat, model : Models, current : BOOLEAN]

----------------------------------------------------------------------------
(* The registry and the routing policy, as far as routing reads them.      *)

model_tiers == [flash |-> 0, pro |-> 1, sol |-> 2]
capability_tags ==
    [flash |-> {"COORDINATION", "SIMPLE_ANALYSIS", "CODE_IMPLEMENTATION"},
     pro   |-> {"SIMPLE_ANALYSIS", "REPOSITORY_REASONING", "CODE_IMPLEMENTATION"},
     sol   |-> {"COORDINATION", "CODE_REVIEW", "SECURITY_REVIEW", "ROOT_CAUSE_ANALYSIS",
                "REPOSITORY_REASONING"}]
reasoning_level == [flash |-> "MEDIUM", pro |-> "MEDIUM", sol |-> "HIGH"]

max_automatic_level == 3
owner_level == 4
Higher == [a \in 0 .. owner_level + 1 |-> [b \in 0 .. owner_level + 1 |-> IF a >= b THEN a ELSE b]]
Lower == [a \in 0 .. owner_level + 1 |-> [b \in 0 .. owner_level + 1 |-> IF a =< b THEN a ELSE b]]
min_tier_for_level(l) == Lower[l][2]
reasoning_default(l) == IF l < 2 THEN "MEDIUM" ELSE "HIGH"

_max_reason(a, b) == IF "HIGH" \in {a, b} THEN "HIGH" ELSE "MEDIUM"

Profile(caps, reason, entry, models) ==
    [caps |-> caps, reason |-> reason, entry |-> entry, models |-> models]

\* The profile of a role, with its entry level for the task's risk.
profile_for_role(role) ==
    IF role = "lead" THEN Profile({"COORDINATION"}, "HIGH", 2, {"sol"})
    ELSE IF role = "analyst"
    THEN Profile({"SIMPLE_ANALYSIS", "REPOSITORY_REASONING"}, "MEDIUM", 1, {"pro", "sol"})
    ELSE IF role \in WRITE_ROLES
    THEN Profile({"CODE_IMPLEMENTATION"}, "MEDIUM", IF risk = "LOW" THEN 0 ELSE 1, Models)
    ELSE Profile({"CODE_REVIEW", "REPOSITORY_REASONING"}, "HIGH", 2, {"sol"})

----------------------------------------------------------------------------
(* Evidence and triggers.                                                  *)

_verdicts_contradict(vs) == vs = <<"approve", "reject">>
_tests_contradict(ts) == ts = <<"passed", "failed">>

security_relevant(role) == risk = "HIGH" \/ level[role] >= 2 \/ findings.severe

detect_triggers(role) ==
    {t \in {"REPEATED_FIX_FAILURE", "TESTS_STILL_RED", "ROOT_CAUSE_UNPROVEN",
            "REVIEWER_REJECTED_CANDIDATE", "CONTRADICTORY_EVIDENCE", "SECURITY_COMPLEXITY",
            "PROVIDER_FAILURE"} :
        \/ t = "REPEATED_FIX_FAILURE" /\ Cardinality(failed[role]) >= 2
        \/ t = "TESTS_STILL_RED" /\ tests # <<>> /\ tests[Len(tests)] = "failed"
        \/ t = "ROOT_CAUSE_UNPROVEN" /\ findings.open /\ ~findings.confirmed
        \/ t = "REVIEWER_REJECTED_CANDIDATE" /\ verdicts.rejected
        \/ t = "CONTRADICTORY_EVIDENCE" /\ _tests_contradict(tests)
        \/ t = "CONTRADICTORY_EVIDENCE" /\ _verdicts_contradict(verdicts.last)
        \/ t = "SECURITY_COMPLEXITY" /\ security_relevant(role)
        \/ t = "PROVIDER_FAILURE" /\ role \in disturbed}

HardRootCause(triggers) ==
    {"REPEATED_FIX_FAILURE", "TESTS_STILL_RED", "ROOT_CAUSE_UNPROVEN"} \subseteq triggers

\* What the role is asked for once its escalation profile applies: the
\* requirements are replaced, the allowed models narrowed.
EscalatedProfile(role, triggers) ==
    LET base == profile_for_role(role)
        To(caps) == Profile(caps, "HIGH", Higher[base.entry][2], base.models \cap {"sol"})
        security == "SECURITY_COMPLEXITY" \in triggers
    IN  IF security /\ role = "reviewer" THEN To({"SECURITY_REVIEW", "REPOSITORY_REASONING"})
        ELSE IF security /\ role = "analyst" THEN To({"REPOSITORY_REASONING"})
        ELSE IF HardRootCause(triggers) /\ role \in WRITE_ROLES
        THEN To({"ROOT_CAUSE_ANALYSIS", "REPOSITORY_REASONING"})
        ELSE base

Escalators == {"REVIEWER_REJECTED_CANDIDATE", "CONTRADICTORY_EVIDENCE"}

\* Mutant: an outage counts as a reason to escalate.
LevelsOfAnyFailure(l, current, triggers, role) ==
    LET floor == IF HardRootCause(triggers)
                    \/ ("SECURITY_COMPLEXITY" \in triggers /\ role \notin WRITE_ROLES) THEN 2 ELSE 0
    IN  Higher[l][floor] + (IF triggers \cap (Escalators \cup {"PROVIDER_FAILURE"}) # {} THEN 1 ELSE 0)

\* No trigger source sets the other one-step codes.
_apply_trigger_levels(l, current, triggers, role) ==
    LET floor == IF HardRootCause(triggers)
                    \/ ("SECURITY_COMPLEXITY" \in triggers /\ role \notin WRITE_ROLES) THEN 2 ELSE 0
        step == IF triggers \cap Escalators # {} \/ (HardRootCause(triggers) /\ current >= 2)
                THEN 1 ELSE 0
    IN  Higher[l][floor] + step

----------------------------------------------------------------------------
(* Candidates and choice.                                                  *)

satisfies_floor(m, p) ==
    p.caps \subseteq capability_tags[m] /\ (p.reason = "HIGH" => reasoning_level[m] = "HIGH")

\* A review without a writer to be independent of is never granted.
_independence_ok(m, role) == role = "reviewer" => writer # NULL /\ m # writer.model

_reasoning_level_supported(m, reason) == reason = "HIGH" => reasoning_level[m] = "HIGH"

_eligible_candidates(role, p, l) ==
    {m \in p.models :
        /\ model_tiers[m] >= min_tier_for_level(l)
        /\ satisfies_floor(m, p)
        /\ _reasoning_level_supported(m,
             IF l < 2 THEN "MEDIUM" ELSE _max_reason(reasoning_default(l), p.reason))
        /\ _independence_ok(m, role)}

\* _rank_all orders by tier, and no two models share one.
Lowest(ms) == IF "flash" \in ms THEN "flash" ELSE IF "pro" \in ms THEN "pro" ELSE "sol"

\* Mutant: with its first choice out, any model that answers will do.
SelectAnyone(candidates, out) ==
    IF candidates = {} THEN NULL
    ELSE IF Lowest(candidates) \notin out THEN Lowest(candidates)
    ELSE IF Models \ out = {} THEN NULL ELSE Lowest(Models \ out)

_select(candidates, out) == IF candidates \ out = {} THEN NULL ELSE Lowest(candidates \ out)

Answer(code, m, l) == [code |-> code, model |-> m, level |-> l]

\* Mutant: the owner level is routed like any other.
PastTheOwner(l) == l > owner_level

NeedsOwner(l) == l > max_automatic_level

\* The level a role is routed at: never below one it had, raised by the evidence.
Level(role, triggers) ==
    LET current == Lower[level[role]][owner_level]
        entry == EscalatedProfile(role, triggers).entry
    IN  Lower[_apply_trigger_levels(Higher[entry][current], current, triggers, role)][owner_level]

route(role, triggers, out) ==
    LET l == Level(role, triggers)
        candidates == _eligible_candidates(role, EscalatedProfile(role, triggers), l)
        m == _select(candidates, out)
    IN  IF NeedsOwner(l) THEN Answer("OWNER_GATE", NULL, l)
        ELSE IF m # NULL THEN Answer("ROUTED", m, l)
        ELSE Answer(IF candidates = {} THEN "NO_ELIGIBLE_CANDIDATE" ELSE "NO_VALID_FALLBACK", NULL, l)

----------------------------------------------------------------------------
(* The job.                                                                *)

StandardSequence == <<"lead", "analyst", "lead", "implementer", "qa", "reviewer", "lead">>
ReworkSequences == {<<"lead", "implementer", "qa", "reviewer", "lead">>,
                    <<"lead", "implementer", "qa", "lead">>}

Role == flow.seq[flow.pos]
Here == <<flow.cycle, flow.pos, flow.attempt>>
Last2(s, e) == IF Len(s) < 2 THEN Append(s, e) ELSE <<s[2], e>>

Init ==
    /\ risk \in Risks
    /\ job = "open"
    /\ flow = [cycle |-> 0, seq |-> StandardSequence, pos |-> 1, attempt |-> 1]
    /\ dispatch = NULL
    /\ level = [r \in Roles |-> 0]
    /\ failed = [r \in Roles |-> {}]
    /\ disturbed = {}
    /\ outage = {}
    /\ tests = <<>>
    /\ verdicts = [last |-> <<>>, rejected |-> FALSE]
    /\ findings = [open |-> FALSE, confirmed |-> FALSE, severe |-> FALSE]
    /\ writer = NULL
    /\ applied = {}
    /\ facts = 0 /\ failures = 0 /\ blamed = FALSE

ledgerVars == <<tests, verdicts, findings>>
LeaseLapses(w) == IF w = NULL THEN NULL ELSE [w EXCEPT !.current = FALSE]

\* The plan of a CREATE_DISPATCH has set retry_count to 0 when the action runs.
_decide_no_active == 0

\* The lease is given back; whoever claims the job next has a later epoch.
_provider_unavailable_backoff ==
    LET retry == _decide_no_active + 1 IN
    /\ job' = IF retry >= MAX_RUNTIME_UNKNOWN THEN "ERROR" ELSE "open"
    /\ writer' = LeaseLapses(writer)
    /\ UNCHANGED <<dispatch, level>>

_perform_create_dispatch ==
    /\ job = "open" /\ dispatch = NULL
    /\ \E triggers \in {detect_triggers(Role)} :
       \E a \in {route(Role, triggers, outage)} :
       \/ /\ a.code = "ROUTED"
          /\ dispatch' = [role |-> Role, model |-> a.model, level |-> a.level]
          /\ level' = [level EXCEPT ![Role] = Higher[@][a.level]]
          /\ UNCHANGED <<job, writer>>
       \/ a.code = "NO_VALID_FALLBACK" /\ _provider_unavailable_backoff
       \/ /\ a.code \in {"OWNER_GATE", "NO_ELIGIBLE_CANDIDATE"}
          /\ job' = "BLOCKED" /\ UNCHANGED <<dispatch, level, writer>>
    /\ UNCHANGED <<risk, flow, failed, disturbed, outage, ledgerVars, applied, facts, failures, blamed>>

classify_attempt(code) == IF code = "MODEL_UNAVAILABLE" THEN "PROVIDER"
                          ELSE IF code = "RATE_LIMIT" THEN "TRANSIENT" ELSE "CAPABILITY"

\* The run failed: by the provider's doing or, without a bounded code, by its own.
_perform_mark_run_failed(code) ==
    LET outcome == classify_attempt(code) IN
    /\ job = "open" /\ dispatch # NULL /\ failures < MaxFailures
    /\ failures' = failures + 1
    /\ dispatch' = NULL
    /\ failed' = IF outcome = "CAPABILITY" THEN [failed EXCEPT ![Role] = @ \cup {flow.attempt}] ELSE failed
    /\ disturbed' = IF outcome = "CAPABILITY" THEN disturbed ELSE disturbed \cup {Role}
    /\ outage' = IF outcome = "PROVIDER" THEN outage \cup {dispatch.model} ELSE outage
    /\ blamed' = (blamed \/ code = NULL)
    /\ IF flow.attempt >= MAX_DISPATCH_ATTEMPTS_PER_STEP
       THEN job' = "FAILED" /\ UNCHANGED flow
       ELSE flow' = [flow EXCEPT !.attempt = @ + 1] /\ UNCHANGED job
    /\ UNCHANGED <<risk, level, ledgerVars, writer, applied, facts>>

\* A consumed result: SUCCESS is observed of the model and the frontier moves.
Consume ==
    /\ dispatch' = NULL
    /\ outage' = outage \ {dispatch.model}
    /\ IF flow.pos = Len(flow.seq)
       THEN job' = "DONE" /\ UNCHANGED flow
       ELSE flow' = [flow EXCEPT !.pos = @ + 1, !.attempt = 1] /\ UNCHANGED job

\* The lead accepts, or opens a rework cycle; the analyst reports.
ConsumeReport ==
    /\ job = "open" /\ dispatch # NULL /\ Role \in {"lead", "analyst"}
    /\ Consume
    /\ UNCHANGED <<risk, level, failed, disturbed, ledgerVars, writer, applied, facts, failures, blamed>>

ConsumeRework ==
    /\ job = "open" /\ dispatch # NULL /\ Role = "lead" /\ flow.cycle < MaxCycles
    /\ dispatch' = NULL
    /\ outage' = outage \ {dispatch.model}
    /\ \E seq \in ReworkSequences :
        flow' = [cycle |-> flow.cycle + 1, seq |-> seq, pos |-> 1, attempt |-> 1]
    /\ UNCHANGED <<risk, job, level, failed, disturbed, ledgerVars, writer, applied, facts, failures, blamed>>

AddVerdict(v) ==
    /\ verdicts' = [last |-> Last2(verdicts.last, v), rejected |-> verdicts.rejected \/ v = "reject"]
    /\ blamed' = (blamed \/ v = "reject")

ConsumeReview ==
    /\ job = "open" /\ dispatch # NULL /\ Role = "reviewer"
    /\ \E v \in {"approve", "reject"} : AddVerdict(v)
    /\ Consume
    /\ UNCHANGED <<risk, level, failed, disturbed, tests, findings, writer, applied, facts, failures>>

\* Mutant: any dispatch of the bound lease may write.
GuardOfTheLease(w) == w.current

writer_guard_for(w) == w.current /\ w.id = Here

\* A writer's result: its patch, if it has one, is applied under the binding the
\* first patch made, its sandbox tests pass and are recorded, and it is consumed.
\* A refused patch or red tests use up the action's retries.
ConsumeWork(patch, green) ==
    LET bound == IF patch /\ writer = NULL
                 THEN [id |-> Here, model |-> dispatch.model, current |-> TRUE] ELSE writer
        done == (patch => writer_guard_for(bound)) /\ green
    IN  /\ job = "open" /\ dispatch # NULL /\ Role \in WRITE_ROLES
        /\ writer' = bound
        /\ applied' = IF patch /\ writer_guard_for(bound) THEN applied \cup {dispatch.model} ELSE applied
        /\ IF done THEN Consume /\ tests' = Last2(tests, "passed")
           ELSE job' = "ERROR" /\ UNCHANGED <<dispatch, outage, flow, tests>>
        /\ UNCHANGED <<risk, level, failed, disturbed, verdicts, findings, facts, failures, blamed>>

\* What the Core's commands record on behalf of the role whose run is started:
\* a red test run, a finding or its resolution.  Green runs and verdicts are
\* recorded with the results.
RecordFact ==
    /\ job = "open" /\ facts < MaxFacts /\ facts' = facts + 1
    /\ \/ Role \in WRITE_ROLES /\ tests' = Last2(tests, "failed") /\ UNCHANGED findings
       \/ /\ Role \in {"reviewer", "qa"} /\ ~findings.open
          /\ \E severe \in BOOLEAN : findings' = [findings EXCEPT !.open = TRUE, !.severe = @ \/ severe]
          /\ UNCHANGED tests
       \/ /\ Role \in {"reviewer", "qa"} /\ findings.open
          /\ findings' = [findings EXCEPT !.open = FALSE, !.confirmed = TRUE]
          /\ UNCHANGED tests
    /\ blamed' = TRUE
    /\ UNCHANGED <<risk, job, flow, dispatch, level, failed, disturbed, outage, verdicts, writer, applied, failures>>

\* Mutant: only a later success makes a model available again.
NeverExpires == FALSE /\ UNCHANGED vars

\* AVAILABILITY_OBSERVATION_TTL_SECONDS after an outage was observed.
ObservationExpires ==
    /\ \E m \in outage : outage' = outage \ {m}
    /\ UNCHANGED <<risk, job, flow, dispatch, level, failed, disturbed, ledgerVars, writer, applied, facts, failures, blamed>>

AgentEnds ==
    \/ \E code \in {"MODEL_UNAVAILABLE", "RATE_LIMIT", NULL} : _perform_mark_run_failed(code)
    \/ ConsumeReport \/ ConsumeRework \/ ConsumeReview
    \/ \E patch, green \in BOOLEAN : ConsumeWork(patch, green)

Progress == _perform_create_dispatch \/ AgentEnds \/ ObservationExpires

Next == Progress \/ RecordFact

\* The scheduler comes back to an open job, an agent ends, time passes.
Fairness == WF_vars(Progress)

Spec == Init /\ [][Next]_vars /\ Fairness

----------------------------------------------------------------------------
\* Types of the state; no dispatch is made above the automatic levels, whatever
\* the evidence adds up to (max_automatic_level: beyond it the owner is asked).
RoutingTypeOK ==
    /\ job \in {"open", "DONE", "FAILED", "BLOCKED", "ERROR"}
    /\ flow.pos \in 1 .. Len(flow.seq) /\ flow.attempt \in 1 .. MAX_DISPATCH_ATTEMPTS_PER_STEP
    /\ level \in [Roles -> 0 .. max_automatic_level]
    /\ outage \subseteq Models
    /\ applied \subseteq Models
    /\ dispatch # NULL => dispatch.model \in Models

\* Whoever reviews wrote nothing of what is reviewed: not only the bound writer
\* but every model whose patch reached the workspace, in this cycle or an earlier
\* one (_independence_ok knows the bound writer only; bind once, writer_guard_for).
ReviewerIsIndependent ==
    (dispatch # NULL /\ Role = "reviewer") => applied # {} /\ dispatch.model \notin applied

\* Outages, rate limits, fallbacks and retries alone never move a role above the
\* level it starts at (detect_triggers and _apply_trigger_levels).
OutageNeverEscalates ==
    ~blamed => \A r \in Roles :
        level[r] \in {0, IF risk = "HIGH" /\ r = "analyst" THEN 2 ELSE profile_for_role(r).entry}

\* The invariant of routing: types and automatic levels, an independent reviewer,
\* and no escalation from outages alone.
RoutingInv == RoutingTypeOK /\ ReviewerIsIndependent /\ OutageNeverEscalates

\* An outage never puts a weaker model to work than the one that is out (_select:
\* "never a cheaper under-floor model"), nor one the role's work is not meant for.
FallbackNeverWeaker ==
    [][(dispatch = NULL /\ dispatch' # NULL) =>
         /\ model_tiers[dispatch'.model] >= model_tiers[route(Role, detect_triggers(Role), {}).model]
         /\ dispatch'.model \in profile_for_role(Role).models]_vars

\* No outage keeps a job open for ever: its observation grows old and the job is
\* routed again (_build_availability_snapshot, AVAILABILITY_OBSERVATION_TTL_SECONDS).
EventuallyClosed == <>(job # "open")
=============================================================================
