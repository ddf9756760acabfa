------------------------- MODULE MCSupervisorInstance -------------------------
(***************************************************************************)
(* SupervisorInstance for TLC.  A scope says on how many hosts and pids    *)
(* processes start, how often a host reboots and how far a loop goes.      *)
(* Processes with the same kind of lock are interchangeable, and so are    *)
(* hosts.  No guard reads exit, nor the fields of a process that is gone;  *)
(* revisions only grow and are only compared, so the view keeps whether a  *)
(* remembered one is still the row's.                                      *)
(***************************************************************************)
EXTENDS SupervisorInstance, TLC

CONSTANT Scopes

VARIABLE scope

mcVars == <<vars, scope>>

\* hosts: three starts on two hosts that reboot, up to the loop.  loops: three starts
\* on one host, with a pass, its heartbeat and its release.  evicted: two starts
\* whose evidence may be wrong, over three passes.
Bounds ==
    [hosts   |-> [hosts |-> 2, pids |-> {1}, boots |-> 1, ticks |-> 2, passes |-> FALSE],
     loops   |-> [hosts |-> 1, pids |-> {1, 2}, boots |-> 0, ticks |-> 3, passes |-> TRUE],
     evicted |-> [hosts |-> 1, pids |-> {1, 2}, boots |-> 0, ticks |-> 2, passes |-> TRUE]]

Within ==
    LET b == Bounds[scope] IN
    /\ Cardinality({h \in Hosts : now[h] > 0 \/ boot[h] > 0}) =< b.hosts
    /\ \A h \in Hosts :
        /\ boot[h] =< b.boots /\ now[h] =< b.ticks
        /\ \A x \in Pids \ b.pids : proc[h][x] = NULL
    /\ b.passes \/ \A p \in Procs : pc[p] # "pass"

MCInit == Init /\ scope \in Scopes

MCNext == Next /\ UNCHANGED scope /\ Within'

MCSpec == MCInit /\ [][MCNext]_mcVars

Symmetry == Permutations(Locked) \cup Permutations(Procs \ Locked) \cup Permutations(Hosts)

Unrevised(r) == IF r = NULL THEN NULL ELSE [r EXCEPT !.revision = 1]

View ==
    <<scope, Unrevised(row), boot, now, proc, flock, pc, me,
      [p \in Procs |-> <<[acq[p] EXCEPT !.seen = Unrevised(@)], RevisionUnchanged(p)>>],
      [p \in Procs |-> IF pc[p] = "gone" THEN InitLoop ELSE loop[p]]>>

=============================================================================
