------------------------------- MODULE Actions -------------------------------
(***************************************************************************)
(* The merge queue and the external action broker over the same holders,   *)
(* leases and locks, with crashes, lease changes and policy changes at any *)
(* time.  They meet in the leases only: a request and an integration       *)
(* target never have the same lock name.                                   *)
(***************************************************************************)
EXTENDS ExternalActionBroker, MergeQueue

ASSUME ActionsAssumption == RequestLock # TargetLock

actionVars == <<lockVars, brokerVars, queueVars>>

ActionsInit == LocksInit /\ BrokerInit /\ QueueInit

BrokerMoves == (BrokerNext \/ BrokerFault) /\ UNCHANGED queueVars

QueueMoves == (QueueNext \/ QueueFault) /\ UNCHANGED brokerVars

LeasesMove == LeaseChanges /\ UNCHANGED <<brokerVars, queueVars>>

ActionsNext == BrokerMoves \/ QueueMoves \/ LeasesMove

ActionsSpec == ActionsInit /\ [][ActionsNext]_actionVars

\* The rows of requests, candidates, locks and leases have their columns'
\* values, and a candidate in progress has a holder.
ActionsTypeOK == BrokerTypeOK /\ QueueTypeOK

\* The invariant of external actions: types, SUCCEEDED only for what the provider
\* carried out, calls within the retry budget, and none without its authority.
ActionsInv ==
    /\ ActionsTypeOK
    /\ SucceededWasApplied
    /\ SendsWithinRetryBudget
    /\ DispatchedWasAuthorized

=============================================================================
