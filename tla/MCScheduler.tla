---------------------------- MODULE MCScheduler ----------------------------
(***************************************************************************)
(* Scheduler on finite instances.  A scope says where the jobs start, how  *)
(* many service processes live at once, which actions reconcile plans, and *)
(* how far handovers, dispatches and external waits go.  Time and          *)
(* facts_version are not capped: instants matter only by their distance    *)
(* from now, facts_version only by whether a token still matches, so the   *)
(* view keeps just that.                                                   *)
(***************************************************************************)
EXTENDS Scheduler, TLC

CONSTANT Scopes

VARIABLE scope

mcVars == <<schedVars, scope>>

Scope(alone, epoch, dispatch, nw, planned) ==
    [alone |-> alone, epoch |-> epoch, dispatch |-> dispatch, waits |-> nw, planned |-> planned]

\* alone, first, takeover: one service process at a time (SupervisorInstance), the
\* second with every action but with one dispatch only; rivals,
\* later: two at once, from the start or from a later point of the job's life.
Bounds ==
    [alone    |-> Scope(TRUE, 2, 2, 1, Acts \ {"APPLY", "CLOSE_FAILED", "CLOSE_BLOCKED"}),
     first    |-> Scope(TRUE, 2, 1, 1, Acts),
     takeover |-> Scope(TRUE, 3, 1, 0, {"NONE", "CREATE", "SPAWN"}),
     rivals   |-> Scope(FALSE, 2, 1, 1, {"NONE", "WAIT", "ERROR", "CREATE", "SPAWN", "CLOSE_DONE"}),
     later    |-> Scope(FALSE, 4, 2, 0, {"NONE", "CREATE", "SPAWN"})]

Within ==
    LET b == Bounds[scope] IN
    /\ nwaits =< b.waits
    /\ \A j \in Jobs : jobs[j].epoch =< b.epoch /\ Len(work[j].dispatches) =< b.dispatch
    /\ \A i \in Instances : pass[i].act \in b.planned

MCNext == SchedNext /\ UNCHANGED scope /\ Within'

\* A later point of every job's life: its first dispatch is settled, its agent
\* gone, the job requeued, and no service process runs.
LaterInit ==
    /\ now = ClockLag
    /\ created = Jobs
    /\ jobs = [j \in Jobs |-> [NewRow EXCEPT !.epoch = 1, !.fv = 1]]
    /\ waits = {} /\ nwaits = 0 /\ waitOf = [j \in Jobs |-> 0]
    /\ inflight = {}
    /\ pass = [i \in Instances |-> TurnedTo(Idle, "off")]
    /\ work = [j \in Jobs |-> [NoWork EXCEPT
            !.dispatches = <<[spawn |-> "SUCCEEDED", runs |-> {1}]>>, !.nproc = 1,
            !.last = [pid |-> 1, status |-> "RUNNING"]]]

MCInit ==
    /\ scope \in Scopes
    /\ exclusive = Bounds[scope].alone
    /\ IF scope = "later" THEN LaterInit ELSE SchedInit

MCSpec == MCInit /\ [][MCNext]_mcVars

\* An instant as its distance from now; all that lie further back than a clock
\* read can are alike.
Rel(x) == IF x = NULL THEN NULL ELSE IF x < now - ClockLag THEN -ClockLag - 1 ELSE x - now

RelRow(j, r) == [r EXCEPT !.expires = Rel(r.expires), !.eligible = Rel(r.eligible),
                          !.fv = IF r.fv = jobs[j].fv THEN 1 ELSE 0]

RelPass(p) ==
    [p EXCEPT !.at = Rel(p.at),
              !.rows = [j \in DOMAIN p.rows |->
                  <<RelRow(j, p.rows[j]), p.rows[j].expires # NULL /\ p.rows[j].expires =< p.at,
                    p.rows[j].expires = jobs[j].expires>>],
              !.fv = IF p.job # 0 /\ p.fv = jobs[p.job].fv THEN 1 ELSE 0]

View ==
    <<scope, created, [j \in Jobs |-> RelRow(j, jobs[j])], waits, nwaits, waitOf, inflight,
      [i \in Instances |-> RelPass(pass[i])], work>>

Symmetry == Permutations(Instances)

=============================================================================
