----------------------------- MODULE MCJobStore -----------------------------
(***************************************************************************)
(* JobStore on a finite instance.  The counters JobStore leaves unbounded  *)
(* are capped, except facts_version: no operation of the store compares it *)
(* with anything but a caller's snapshot, so states that differ only in it *)
(* have the same futures and the view identifies them.                     *)
(***************************************************************************)
EXTENDS JobStore, TLC

CONSTANT Scopes

VARIABLE scope

mcVars == <<storeVars, scope>>

\* lease: one job through clock reads, handovers and waits.  worktree: two jobs that
\* want the same worktree, claimed once each by one instance at instant 0.
Bounds ==
    [lease    |-> [jobs |-> {1}, owners |-> 2, now |-> 3, epoch |-> 3, waits |-> 2,
                   expires |-> 3 + TTL, eligible |-> 3 + Backoff],
     worktree |-> [jobs |-> Jobs, owners |-> 1, now |-> ClockLag, epoch |-> 1, waits |-> 0,
                   expires |-> TTL, eligible |-> 0]]

Within ==
    LET b == Bounds[scope] IN
    /\ now =< b.now
    /\ nwaits =< b.waits
    /\ created \subseteq b.jobs
    /\ Cardinality({jobs[j].owner : j \in Jobs} \ {NULL}) =< b.owners
    /\ \A j \in Jobs :
        /\ jobs[j].epoch =< b.epoch
        /\ jobs[j].expires # NULL => jobs[j].expires =< b.expires
        /\ jobs[j].eligible =< b.eligible

MCInit == Init /\ scope \in Scopes

MCNext == Next /\ UNCHANGED scope /\ Within'

MCSpec == MCInit /\ [][MCNext]_mcVars

FactsView ==
    <<scope, now, created, [j \in Jobs |-> [jobs[j] EXCEPT !.fv = 0]],
      waits, nwaits, waitOf, inflight>>

Symmetry == Permutations(Instances)

=============================================================================
