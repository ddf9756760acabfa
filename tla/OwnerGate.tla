------------------------------ MODULE OwnerGate ------------------------------
(***************************************************************************)
(* What the owner gates of a task promise, with no roles, dispatches,      *)
(* challenges or updates.  Every gate is decided at most once and only     *)
(* before its expiry; an approval is used at most once, only after it was  *)
(* granted and before its expiry.  While the task is parked it does        *)
(* nothing and keeps the place it will return to; only the owner's word on *)
(* a gate releases it: a refusal, a use, or a command that comes too late. *)
(* The gates do not promise more: the late word may be on another gate     *)
(* than the one that parked the task, even on a closed one.                *)
(* ApprovalInbound implements this module.                                 *)
(***************************************************************************)
EXTENDS Naturals, Sequences

CONSTANTS Blocked, Lifetime

VARIABLES
    clock,
    gates,      \* expiry and phase of each gate, in order of opening
    parked,     \* the task waits for the owner
    home        \* where the task works, or will when it is released

gateVars == <<clock, gates, parked, home>>

GateInit ==
    /\ clock = 0
    /\ gates = <<>>
    /\ parked = FALSE
    /\ home # Blocked

Open ==
    /\ ~parked
    /\ gates' = Append(gates, [expires |-> clock + Lifetime, status |-> "pending"])
    /\ parked' = TRUE
    /\ UNCHANGED <<clock, home>>

InTime(g) == clock < gates[g].expires

Set(g, phase) == gates' = [gates EXCEPT ![g].status = phase]

Grant(g) ==
    /\ gates[g].status = "pending"
    /\ InTime(g)
    /\ Set(g, "approved")
    /\ UNCHANGED <<clock, parked, home>>

Deny(g) ==
    /\ gates[g].status = "pending"
    /\ InTime(g)
    /\ Set(g, "rejected")
    /\ parked' = FALSE
    /\ home' = IF parked THEN Blocked ELSE home
    /\ UNCHANGED clock

Use(g) ==
    /\ gates[g].status = "approved"
    /\ InTime(g)
    /\ Set(g, "consumed")
    /\ parked' = FALSE
    /\ UNCHANGED <<clock, home>>

\* An open gate expires; a closed one stays as it is.
Lapse(g) ==
    /\ ~InTime(g)
    /\ IF gates[g].status \in {"pending", "approved"}
       THEN Set(g, "expired") ELSE UNCHANGED gates
    /\ parked' = FALSE
    /\ UNCHANGED <<clock, home>>

\* Everything else the task does, which it does not do while it is parked.
Work ==
    /\ ~parked
    /\ home' # home
    /\ UNCHANGED <<clock, gates, parked>>

Pass ==
    /\ clock' = clock + 1
    /\ UNCHANGED <<gates, parked, home>>

GateNext ==
    \/ Open
    \/ \E g \in DOMAIN gates : Grant(g) \/ Deny(g) \/ Use(g) \/ Lapse(g)
    \/ Work
    \/ Pass

GateSpec == GateInit /\ [][GateNext]_gateVars

=============================================================================
