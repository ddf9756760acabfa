----------------------------- MODULE MCActions -----------------------------
(***************************************************************************)
(* Actions for TLC.  Broker and queue use different locks, so each is      *)
(* explored with the other at rest: the initial state chooses.  Revisions  *)
(* only grow and are only compared, so the view keeps whether a remembered *)
(* revision is still the row's; with it both are finite without a bound.   *)
(***************************************************************************)
EXTENDS Actions, TLC

CONSTANTS
    Scopes,
    MaxBrokerFaults, MaxQueueFaults   \* crashes, lease and policy changes in one behaviour

VARIABLES scope, faults

mcVars == <<actionVars, scope, faults>>

MCInit ==
    /\ ActionsInit
    /\ scope \in Scopes
    /\ (policy = "DENY") = (scope = "queue")
    /\ faults = 0

Fault ==
    /\ faults < (IF scope = "broker" THEN MaxBrokerFaults ELSE MaxQueueFaults)
    /\ faults' = faults + 1
    /\ \/ LeasesMove
       \/ scope = "broker" /\ BrokerFault /\ UNCHANGED queueVars
       \/ scope = "queue" /\ QueueFault /\ UNCHANGED brokerVars

Work ==
    /\ faults' = faults
    /\ \/ scope = "broker" /\ BrokerNext /\ UNCHANGED queueVars
       \/ scope = "queue" /\ QueueNext /\ UNCHANGED brokerVars

MCNext == scope' = scope /\ (Fault \/ Work)

MCSpec == MCInit /\ [][MCNext]_mcVars

Symmetry == Permutations(Holders)

View ==
    <<lockVars, scope, faults, worktree, integrated, ownerOk, policy, overdue, applied, sends,
      [req EXCEPT !.rev = 0],
      [h \in Holders |-> [broker[h] EXCEPT !.row.rev = IF @ = req.rev THEN 1 ELSE 0]],
      [c \in Candidates |-> [cand[c] EXCEPT !.rev = 0]],
      [h \in Holders |-> [pass[h] EXCEPT !.rev =
         IF pass[h].cur # 0 /\ @ = cand[pass[h].cur].rev THEN 1 ELSE 0]],
      {p[1] : p \in {q \in probed : StillProbed(q[1], q[2])}},
      probed = {}>>

DepNone == <<0, 0, 0>>

DepOfFirst == <<2, 0>>

=============================================================================
