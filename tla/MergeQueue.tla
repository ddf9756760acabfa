----------------------------- MODULE MergeQueue -----------------------------
(***************************************************************************)
(* merge_queue.py and integration_candidate.py for one repository and one  *)
(* integration target: several holders run process_target, which takes the *)
(* READY candidates one after another through classification, the shared   *)
(* integration worktree, the merge, its tests and the record of the head.  *)
(* A head is the set of candidates merged into it; the target branch is    *)
(* never written.  Candidates are numbered by queue position.              *)
(*                                                                         *)
(* Every transaction and every git or test run is a step; what git and the *)
(* tests answer is nondeterministic.  integrate_candidate releases the     *)
(* lock it shares with the process_target around it, so the lock is free   *)
(* between two candidates of one pass.  A holder whose lease runs out in   *)
(* mid-pass goes on until its next transaction fails.                      *)
(***************************************************************************)
EXTENDS ActionLocks

CONSTANTS
    TargetLock,     \* integration_lock_name
    Candidates,     \* 1 .. n, by queue position
    Dep             \* candidate -> its depends_on, or 0

ASSUME QueueAssumption ==
    /\ TargetLock \in Locks
    /\ Candidates \subseteq Nat \ {0}
    /\ Dep \in [Candidates -> Candidates \cup {0}]

VARIABLES
    cand,         \* the rows of integration_candidates
    pass,         \* per holder: its pass
    worktree,     \* external: what HEAD of the integration worktree contains
    probed,       \* reconcile_target: rows judged abandoned, not yet reset
    integrated    \* history: the candidates in the order of their integration

queueVars == <<cand, pass, worktree, probed, integrated>>

CandidateStates == {"NONE", "PENDING", "READY", "INTEGRATING", "CONFLICTED",
                    "STALE", "BLOCKED", "INTEGRATED", "FAILED"}

NewCandidate ==
    [state |-> "NONE", rev |-> 0, holder |-> FREE, head |-> {}, alone |-> TRUE]

\* A pass: its step, the candidates still to do, the one it is at and the revision
\* it goes by, the base and the outcome; alone: no other holder got the lock since
\* its claim.
NoPass == [at |-> "idle", todo |-> {}, cur |-> 0, rev |-> 0, base |-> {},
           out |-> "none", alone |-> TRUE]

\* The steps of integrate_candidate, and its verdicts.
AtCandidate == {"claim", "classify", "prepare", "prepared", "merge", "merged",
                "test", "tested", "mark", "done"}
Outcomes == {"none", "clean", "PENDING", "FAILED", "STALE", "CONFLICTED", "INTEGRATED"}

QueueInit ==
    /\ cand = [c \in Candidates |-> NewCandidate]
    /\ pass = [h \in Holders |-> NoPass]
    /\ worktree = {}
    /\ probed = {}
    /\ integrated = <<>>

InState(s) == {c \in Candidates : cand[c].state = s}

QueueTypeOK ==
    /\ cand \in [Candidates -> [state : CandidateStates, rev : Nat,
                                 holder : Holders \cup {FREE},
                                 head : SUBSET Candidates, alone : BOOLEAN]]
    /\ \A c \in InState("INTEGRATING") : cand[c].holder # FREE
    /\ pass \in [Holders -> [at : AtCandidate \cup {"idle", "list", "order", "next", "leave"},
                              todo : SUBSET Candidates, cur : Candidates \cup {0},
                              rev : Nat, base : SUBSET Candidates,
                              out : Outcomes, alone : BOOLEAN]]
    /\ worktree \subseteq Candidates
    /\ probed \subseteq Candidates \X Nat
    /\ integrated \in Seq(Candidates)

\* _transition_candidate_locked, given that it does not raise.
CandMoved(c, to) == [cand[c] EXCEPT !.state = to, !.rev = @ + 1]

----------------------------------------------------------------------------
(* Admission and promotion.                                                *)

\* queue_position is assigned in the order of arrival.
enqueue_candidate(c) ==
    /\ cand[c].state = "NONE"
    /\ \A d \in Candidates : d < c => cand[d].state # "NONE"
    /\ cand' = [cand EXCEPT ![c].state = "PENDING"]
    /\ UNCHANGED <<lockVars, pass, worktree, probed, integrated>>

\* Mutant of _dependency_satisfied: a prerequisite on its way is enough.
_dependency_on_its_way(c) ==
    Dep[c] = 0 \/ cand[Dep[c]].state \in {"READY", "INTEGRATING", "INTEGRATED"}

_dependency_satisfied(c) == Dep[c] = 0 \/ cand[Dep[c]].state = "INTEGRATED"

Evaluable == InState("PENDING") \cup InState("STALE")

\* The review gate may be clear or not.  A candidate that stays PENDING gets a
\* new revision all the same.
Evaluated(c) ==
    \E reviewed \in BOOLEAN :
      cand' = [cand EXCEPT ![c] = CandMoved(c, IF _dependency_satisfied(c) /\ reviewed
                                               THEN "READY" ELSE "PENDING")]

evaluate_candidate(c) ==
    /\ c \in Evaluable
    /\ Evaluated(c)
    /\ UNCHANGED <<lockVars, pass, worktree, probed, integrated>>

----------------------------------------------------------------------------
(* process_target and integrate_candidate.                                 *)

\* READY candidates whose prerequisite is done or comes before them: the least set
\* closed under that.  The rest is deferred, or blocked when its prerequisite is
\* READY and never free.
Orderable ==
    LET closed(S) == \A c \in InState("READY") :
                       _dependency_satisfied(c) \/ Dep[c] \in S => c \in S
    IN  {c \in InState("READY") : \A S \in SUBSET InState("READY") : closed(S) => c \in S}

Cyclic == {c \in InState("READY") \ Orderable : Dep[c] \in InState("READY")}

\* c is next among those left: the first in the queue whose prerequisite is not
\* left as well.
deterministic_order(c, left) ==
    /\ c \in left /\ Dep[c] \notin left
    /\ \A d \in left : Dep[d] \notin left => c =< d

Step(h, at) == pass' = [pass EXCEPT ![h] = [@ EXCEPT !.at = at]]

\* Another holder getting the lock ends everybody else's exclusiveness.
Obtain(h, at, c) ==
    /\ lock' = [lock EXCEPT ![TargetLock] = h]
    /\ pass' = [g \in Holders |->
         IF g = h THEN [pass[h] EXCEPT !.at = at, !.todo = @ \ {c}, !.cur = c, !.alone = TRUE]
         ELSE [pass[g] EXCEPT !.alone = FALSE]]

process_target(h) ==
    /\ pass[h].at = "idle"
    /\ _job_holds_current_lease(h)
    /\ Obtainable(TargetLock, h)
    /\ Obtain(h, "list", 0)
    /\ UNCHANGED <<lease, cand, worktree, probed, integrated>>

\* What is PENDING or STALE is evaluated first, if it still is when its turn
\* comes.
ListTarget(h) ==
    /\ pass[h].at = "list"
    /\ pass' = [pass EXCEPT ![h] = [@ EXCEPT !.at = "order", !.todo = Evaluable]]
    /\ UNCHANGED <<lockVars, cand, worktree, probed, integrated>>

EvaluateNext(h) ==
    /\ pass[h].at = "order"
    /\ \E c \in pass[h].todo :
         /\ \A d \in pass[h].todo : c =< d
         /\ IF c \in Evaluable THEN Evaluated(c) ELSE UNCHANGED cand
         /\ pass' = [pass EXCEPT ![h] = [pass[h] EXCEPT !.todo = @ \ {c}]]
    /\ UNCHANGED <<lockVars, worktree, probed, integrated>>

\* Candidates in a dependency cycle are blocked, the others are lined up.
Order(h) ==
    /\ pass[h].at = "order"
    /\ pass[h].todo = {}
    /\ pass' = [pass EXCEPT ![h] = [@ EXCEPT !.at = "next", !.todo = Orderable]]
    /\ cand' = [c \in Candidates |->
                  IF c \in Cyclic THEN CandMoved(c, "BLOCKED") ELSE cand[c]]
    /\ UNCHANGED <<lockVars, worktree, probed, integrated>>

\* integrate_candidate: read the row, take the lock (again).
integrate_candidate(h) ==
    /\ pass[h].at = "next"
    /\ \E c \in pass[h].todo :
         /\ deterministic_order(c, pass[h].todo)
         /\ IF _job_holds_current_lease(h) /\ Obtainable(TargetLock, h)
            THEN Obtain(h, "claim", c)
            ELSE Step(h, "leave") /\ UNCHANGED lock
    /\ UNCHANGED <<lease, cand, worktree, probed, integrated>>

\* transition_integration_candidate_authoritative of a candidate in progress.
CanWrite(h, c) ==
    /\ Fenced(TargetLock, h)
    /\ cand[c].state = "INTEGRATING"
    /\ cand[c].rev = pass[h].rev

\* READY -> INTEGRATING.  The row was read before the lock was taken, but the
\* states it can have moved to are all refused.
Claim(h) ==
    LET c == pass[h].cur
    IN  /\ pass[h].at = "claim"
        /\ IF Fenced(TargetLock, h) /\ cand[c].state = "READY"
           THEN /\ cand' = [cand EXCEPT ![c] =
                              [CandMoved(c, "INTEGRATING") EXCEPT !.holder = h]]
                /\ pass' = [pass EXCEPT ![h] =
                              [@ EXCEPT !.at = "classify", !.rev = cand[c].rev + 1]]
           ELSE Step(h, "done") /\ UNCHANGED cand
        /\ UNCHANGED <<lockVars, worktree, probed, integrated>>

\* The head of the INTEGRATED candidate that is last in the queue, if there is one.
_current_integration_base ==
    LET last == {c \in InState("INTEGRATED") : \A d \in InState("INTEGRATED") : d =< c}
    IN  UNION {cand[c].head : c \in last}

\* Source, base and merge classification; every verdict but a clean one ends
\* the attempt.
Classify(h) ==
    LET c == pass[h].cur
    IN  /\ pass[h].at = "classify"
        /\ \E out \in {"clean", "FAILED", "STALE", "CONFLICTED"} :
             pass' = [pass EXCEPT ![h] = [@ EXCEPT
               !.base = _current_integration_base,
               !.out = IF _dependency_satisfied(c) THEN out ELSE "PENDING",
               !.at = IF _dependency_satisfied(c) /\ out = "clean"
                      THEN "prepare" ELSE "mark"]]
        /\ UNCHANGED <<lockVars, cand, worktree, probed, integrated>>

\* The worktree is removed and made again at the base, whoever works in it,
\* unless git refuses.
_ensure_integration_worktree(h) ==
    /\ pass[h].at = "prepare"
    /\ \/ worktree' = pass[h].base /\ Step(h, "prepared")
       \/ /\ pass' = [pass EXCEPT ![h] = [@ EXCEPT !.at = "mark", !.out = "FAILED"]]
          /\ UNCHANGED worktree
    /\ UNCHANGED <<lockVars, cand, probed, integrated>>

AfterRecord == [prepared |-> "merge", merged |-> "test", tested |-> "mark"]

\* A self-transition that stores path, head or result.
Record(h) ==
    LET c == pass[h].cur
    IN  /\ pass[h].at \in DOMAIN AfterRecord
        /\ IF CanWrite(h, c)
           THEN /\ cand' = [cand EXCEPT ![c] = [CandMoved(c, "INTEGRATING") EXCEPT
                              !.head = IF pass[h].at = "merged" THEN pass[h].base ELSE @]]
                /\ pass' = [pass EXCEPT ![h] =
                              [pass[h] EXCEPT !.at = AfterRecord[@], !.rev = @ + 1]]
           ELSE Step(h, "done") /\ UNCHANGED cand
        /\ UNCHANGED <<lockVars, worktree, probed, integrated>>

\* merge_no_ff in whatever worktree is there, and its head; from now on base
\* is the new head.
merge_no_ff(h) ==
    LET head == worktree \cup {pass[h].cur}
    IN  /\ pass[h].at = "merge"
        /\ \/ /\ worktree' = head
              /\ pass' = [pass EXCEPT ![h] = [@ EXCEPT !.at = "merged", !.base = head]]
           \/ /\ \E out \in {"CONFLICTED", "FAILED"} :
                   pass' = [pass EXCEPT ![h] = [@ EXCEPT !.at = "mark", !.out = out]]
              /\ UNCHANGED worktree
        /\ UNCHANGED <<lockVars, cand, probed, integrated>>

\* A verdict is recorded first; a plan that cannot be run or evidence that is
\* not authentic fails the candidate at once.
_run_integration_tests(h) ==
    /\ pass[h].at = "test"
    /\ \/ \E out \in {"INTEGRATED", "FAILED"} :
            pass' = [pass EXCEPT ![h] = [@ EXCEPT !.at = "tested", !.out = out]]
       \/ pass' = [pass EXCEPT ![h] = [@ EXCEPT !.at = "mark", !.out = "FAILED"]]
    /\ UNCHANGED <<lockVars, cand, worktree, probed, integrated>>

\* The final transition of the attempt, or none if anything was lost.
Mark(h) ==
    LET c == pass[h].cur
    IN  /\ pass[h].at = "mark"
        /\ IF CanWrite(h, c)
           THEN /\ cand' = [cand EXCEPT ![c] =
                              [CandMoved(c, pass[h].out) EXCEPT !.alone = pass[h].alone]]
                /\ integrated' = IF pass[h].out = "INTEGRATED"
                                 THEN Append(integrated, c) ELSE integrated
           ELSE UNCHANGED <<cand, integrated>>
        /\ Step(h, "done")
        /\ UNCHANGED <<lockVars, worktree, probed>>

\* The lock is released after each candidate; a conflict or a failure ends
\* the pass.
EndCandidate(h) ==
    LET c == pass[h].cur
    IN  /\ pass[h].at = "done"
        /\ lock' = Released(TargetLock, h)
        /\ pass' = [pass EXCEPT ![h] = [@ EXCEPT !.cur = 0, !.at =
             IF cand[c].state \in {"CONFLICTED", "FAILED"} THEN "leave" ELSE "next"]]
        /\ UNCHANGED <<lease, cand, worktree, probed, integrated>>

EndPass(h) ==
    /\ pass[h].at = "leave" \/ (pass[h].at = "next" /\ pass[h].todo = {})
    /\ lock' = Released(TargetLock, h)
    /\ pass' = [pass EXCEPT ![h] = NoPass]
    /\ UNCHANGED <<lease, cand, worktree, probed, integrated>>

CrashPass(h) ==
    /\ pass[h].at # "idle"
    /\ pass' = [pass EXCEPT ![h] = NoPass]
    /\ UNCHANGED <<lockVars, cand, worktree, probed, integrated>>

----------------------------------------------------------------------------
(* reconcile_target: judge, then reset by revision.                        *)

Abandoned(c) ==
    \/ ~_job_holds_current_lease(cand[c].holder)
    \/ lock[TargetLock] # cand[c].holder

ReconcileProbe(c) ==
    /\ cand[c].state = "INTEGRATING"
    /\ Abandoned(c)
    /\ probed' = probed \cup {<<c, cand[c].rev>>}
    /\ UNCHANGED <<lockVars, cand, pass, worktree, integrated>>

StillProbed(c, rev) == cand[c].state = "INTEGRATING" /\ cand[c].rev = rev

\* Mutant of PutBack: the holder is cleared, the state is kept.
HolderCleared(c) == [CandMoved(c, "INTEGRATING") EXCEPT !.holder = FREE]

PutBack(c) == [CandMoved(c, "PENDING") EXCEPT !.holder = FREE]

ReconcileReset(c, rev) ==
    /\ probed' = probed \ {<<c, rev>>}
    /\ cand' = IF StillProbed(c, rev) THEN [cand EXCEPT ![c] = PutBack(c)] ELSE cand
    /\ UNCHANGED <<lockVars, pass, worktree, integrated>>

Reclaim ==
    /\ reclaim_stale_action_lock(TargetLock)
    /\ UNCHANGED queueVars

QueueStep(h) ==
    \/ process_target(h) \/ ListTarget(h) \/ EvaluateNext(h) \/ Order(h) \/ integrate_candidate(h) \/ Claim(h)
    \/ Classify(h) \/ _ensure_integration_worktree(h) \/ Record(h)
    \/ merge_no_ff(h) \/ _run_integration_tests(h) \/ Mark(h)
    \/ EndCandidate(h) \/ EndPass(h)

QueueNext ==
    \/ \E h \in Holders : QueueStep(h)
    \/ \E c \in Candidates :
         enqueue_candidate(c) \/ evaluate_candidate(c) \/ ReconcileProbe(c)
    \/ \E p \in probed : ReconcileReset(p[1], p[2])
    \/ Reclaim

QueueFault == \E h \in Holders : CrashPass(h)

----------------------------------------------------------------------------
(* Properties.                                                             *)

\* A candidate is INTEGRATED only by a holder that had the target to itself
\* from its claim to that write: nobody else got the lock meanwhile, although
\* its lease may have run out and come back.
IntegratedAlone ==
    \A c \in InState("INTEGRATED") : cand[c].alone

\* A candidate is integrated after its prerequisite, through resets, crashes
\* and passes whose order was computed long ago.
DependencyFirst ==
    \A j \in DOMAIN integrated :
      Dep[integrated[j]] # 0 =>
        \E i \in 1 .. j - 1 : integrated[i] = Dep[integrated[j]]

\* Integrations accumulate: every integrated head contains what was integrated
\* before it.
IntegrationsAccumulate ==
    \A j \in DOMAIN integrated : \A i \in 1 .. j - 1 :
      integrated[i] \in cand[integrated[j]].head

=============================================================================
