-------------------------- MODULE MCExternalWaits --------------------------
(***************************************************************************)
(* Two supervisor processes, one row per pass and checker.  The initial    *)
(* state chooses between a job that waits twice, once on CI; a CI wait     *)
(* beside one of another job; and a CI wait alone while the provider       *)
(* changes.  Crashes and takeovers from a process that still works, and    *)
(* changes at the provider, are bounded in number, and together where both *)
(* happen.                                                                 *)
(***************************************************************************)
EXTENDS ExternalWaits

CONSTANTS MaxFaults, MaxChanges

VARIABLES active, faults, changes

mcVars == <<waitVars, active, faults, changes>>

MCInit ==
    /\ WaitsInit
    /\ holder = CHOOSE i \in Instances : TRUE
    /\ active \in {{1, 2}, {2, 3}, {2}}
    /\ faults = 0
    /\ changes = IF active = {2} THEN 0 ELSE MaxChanges

Enter ==
    /\ \E w \in active : transition_to_waiting_external(w)
    /\ UNCHANGED <<faults, changes>>

\* The service manager starts a process when the active one is gone.
Restart ==
    /\ proc[holder].at = "stopped"
    /\ \E i \in Instances : Boot(i)
    /\ UNCHANGED <<faults, changes>>

Fault ==
    /\ faults < MaxFaults
    /\ active = {2} => faults + changes < MaxChanges
    /\ faults' = faults + 1
    /\ \E i \in Instances : Crash(i) \/ (proc[holder].at # "stopped" /\ Boot(i))
    /\ UNCHANGED changes

Change ==
    /\ faults + changes < MaxChanges
    /\ changes' = changes + 1
    /\ ProviderChanges
    /\ UNCHANGED faults

Pass(i) == PassStep(i) /\ UNCHANGED <<active, faults, changes>>

MCTick == Tick /\ UNCHANGED <<active, faults, changes>>

MCNext ==
    /\ UNCHANGED active
    /\ \/ /\ (\E i \in Instances : PassStep(i)) \/ (\E j \in Jobs : ClaimWoken(j)) \/ Tick
          /\ UNCHANGED <<faults, changes>>
       \/ Enter \/ Restart \/ Fault \/ Change

\* A running process goes on with its pass, minutes pass, and a process that
\* is gone is started again.  Nothing is assumed of the provider.
Fairness ==
    /\ \A i \in Instances : WF_mcVars(Pass(i))
    /\ WF_mcVars(MCTick)
    /\ WF_mcVars(Restart /\ UNCHANGED active)

MCSpec == MCInit /\ [][MCNext]_mcVars /\ Fairness

MCJobOf == <<1, 1, 2>>

Ladder == <<1, 2>>

=============================================================================
