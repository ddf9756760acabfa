------------------------- MODULE MCApprovalInbound -------------------------
(***************************************************************************)
(* ApprovalInbound on three finite slices, chosen by the initial state.    *)
(* In "workflow" every command of the core runs and no token is issued.    *)
(* In the others the first lead requests gates and no dispatch is created: *)
(* in "inbound" callbacks decide them, in "gates" there are more gates and *)
(* the owner comes back to closed ones.  Time starts with the first gate,  *)
(* which is all that is timed; what the workflow's properties do not speak *)
(* of, the course after a command outside the protocol, ends with the      *)
(* first cycle.  Handoff numbers matter only by whether the dispatch's is  *)
(* still the latest, so the view keeps just that.                          *)
(***************************************************************************)
EXTENDS ApprovalInbound, TLC

CONSTANTS MaxNow, MaxCycle, MaxHandoff, MaxRun, MaxGates, MaxChallenges, MaxSent

VARIABLE scope

mcVars == <<allVars, scope>>

Workflow ==
    /\ now =< ApprovalTTL
    /\ ledger.cycle =< (IF manual THEN 1 ELSE MaxCycle)
    /\ run =< MaxRun
    /\ Len(approvals) =< 1
    /\ challenges = <<>>
    /\ sent = <<>>

Owner(gates, tokens, updates) ==
    /\ now =< MaxNow
    /\ disp.status = "NONE"
    /\ ~manual
    /\ Len(approvals) =< gates
    /\ Len(challenges) =< tokens
    /\ Len(sent) =< updates

Within ==
    /\ handoff.no =< MaxHandoff
    /\ approvals = <<>> => now = 0
    /\ \/ scope = "workflow" /\ Workflow
       \/ scope = "inbound" /\ ~late /\ Owner(MaxGates, MaxChallenges, MaxSent)
       \/ scope = "gates" /\ Owner(MaxGates + 1, 1, 1)

MCInit == InboundInit /\ scope \in {"workflow", "inbound", "gates"}

MCNext == InboundNext /\ scope' = scope /\ Within'

MCSpec == MCInit /\ [][MCNext]_mcVars

View ==
    <<now, task, active, handoff.to, run, ledger, findings, approvals, manual, late,
      [disp EXCEPT !.handoff = IF @ = handoff.no THEN 1 ELSE 0],
      inboundVars, scope>>

=============================================================================
