---------------------------- MODULE RoutingProofs ----------------------------
(***************************************************************************)
(* What holds of routing whatever the task's risk, the limits, and the     *)
(* number of failures, facts and rework cycles: no model reviews what it   *)
(* wrote, none works above the automatic levels, outages alone escalate    *)
(* nothing (RoutingSafe), and a fallback is never the weaker model         *)
(* (FallbackSafe).                                                         *)
(*                                                                         *)
(* The invariant ties the workspace to the bound writer, the reviewer at   *)
(* work to that writer, and the levels to the ledger they were raised by.  *)
(***************************************************************************)
EXTENDS Routing, FiniteSetTheorems, TLAPS

\* What a writer is bound by: its place, its model, and the lease it was bound under.
Writers == [id : Nat \X Nat \X Nat, model : Models, current : BOOLEAN]

RoleSequences == {StandardSequence} \cup ReworkSequences

FlowOK ==
    /\ flow \in [cycle : Nat, seq : RoleSequences, pos : Nat, attempt : Nat]
    /\ flow.pos \in 1 .. Len(flow.seq)
    /\ flow.attempt \in 1 .. MAX_DISPATCH_ATTEMPTS_PER_STEP

TypeInv ==
    /\ RoutingTypeOK
    /\ FlowOK
    /\ tests \in Seq({"passed", "failed"})
    /\ verdicts \in [last : Seq({"approve", "reject"}), rejected : BOOLEAN]
    /\ findings \in [open : BOOLEAN, confirmed : BOOLEAN, severe : BOOLEAN]

\* The workspace holds the work of the bound writer and of no other model.
WriterInv ==
    \/ writer = NULL /\ applied = {}
    \/ writer \in Writers /\ applied = {writer.model}

\* In an open job the writer was bound at an earlier place of the flow: the lease
\* it was bound under never meets a second patch.
BoundBefore ==
    writer # NULL /\ job = "open" =>
        \/ writer.id[1] < flow.cycle
        \/ writer.id[1] = flow.cycle /\ writer.id[2] < flow.pos

\* A reviewer at work is not the writer.
ReviewInv == dispatch # NULL /\ Role = "reviewer" => writer # NULL /\ dispatch.model # writer.model

\* While nothing speaks against the code the ledger has nothing to escalate by.
BlameInv ==
    ~blamed =>
        /\ \A r \in Roles : failed[r] = {}
        /\ tests # <<>> => tests[Len(tests)] = "passed"
        /\ ~verdicts.rejected /\ (verdicts.last # <<>> => verdicts.last[Len(verdicts.last)] = "approve")
        /\ ~findings.open /\ ~findings.severe

IInv == TypeInv /\ WriterInv /\ BoundBefore /\ ReviewInv /\ BlameInv /\ OutageNeverEscalates

----------------------------------------------------------------------------
(* What the operators return.                                              *)

LEMMA HigherOfTwo ==
    ASSUME NEW a \in 0 .. 5, NEW b \in 0 .. 5
    PROVE  Higher[a][b] = IF a >= b THEN a ELSE b
BY DEF Higher, owner_level

LEMMA LowerOfTwo ==
    ASSUME NEW a \in 0 .. 5, NEW b \in 0 .. 5
    PROVE  Lower[a][b] = IF a =< b THEN a ELSE b
BY DEF Lower, owner_level

\* Every sequence the lead plans names roles, and the lead's comes first.
LEMMA SequencesAreRoles ==
    ASSUME NEW s \in RoleSequences
    PROVE  s \in Seq(Roles) /\ Len(s) \in Nat \ {0} /\ s[1] = "lead"
<1>1. CASE s = StandardSequence
  BY <1>1 DEF StandardSequence, Roles
<1>2. CASE s = <<"lead", "implementer", "qa", "reviewer", "lead">>
  BY <1>2 DEF Roles
<1>3. CASE s = <<"lead", "implementer", "qa", "lead">>
  BY <1>3 DEF Roles
<1> QED BY <1>1, <1>2, <1>3 DEF RoleSequences, ReworkSequences

\* The frontier is at a role.
LEMMA RoleOfFlow ==
    ASSUME FlowOK
    PROVE  Role \in Roles
<1>1. flow.seq \in RoleSequences /\ flow.pos \in 1 .. Len(flow.seq)
  BY DEF FlowOK
<1>2. flow.seq \in Seq(Roles)
  BY <1>1, SequencesAreRoles
<1> QED BY <1>1, <1>2 DEF Role

LEMMA EntryOfProfile ==
    ASSUME NEW role \in Roles
    PROVE  /\ profile_for_role(role).entry \in 0 .. 2
           /\ profile_for_role(role).models \subseteq Models
BY DEF profile_for_role, Profile, Roles, WRITE_ROLES, Models

\* Escalation may raise the entry level, and only narrows the models.
LEMMA EntryOfEscalated ==
    ASSUME NEW role \in Roles, NEW triggers
    PROVE  /\ EscalatedProfile(role, triggers).entry \in 0 .. 2
           /\ EscalatedProfile(role, triggers).models \subseteq profile_for_role(role).models
<1> DEFINE base == profile_for_role(role)
           To(caps) == Profile(caps, "HIGH", Higher[base.entry][2], base.models \cap {"sol"})
<1>1. base.entry \in 0 .. 2
  BY EntryOfProfile
<1>2. Higher[base.entry][2] \in 0 .. 2
  BY <1>1, HigherOfTwo
<1> HIDE DEF base
<1>3. \A caps : To(caps).entry \in 0 .. 2 /\ To(caps).models \subseteq base.models
  BY <1>2 DEF Profile
<1>4. \/ EscalatedProfile(role, triggers) = base
      \/ \E caps : EscalatedProfile(role, triggers) = To(caps)
  BY DEF EscalatedProfile, base
<1> HIDE DEF To
<1> QED BY <1>1, <1>3, <1>4 DEF base

\* The evidence raises a level by two steps at most.
LEMMA RaisedLevel ==
    ASSUME NEW l \in 0 .. 4, NEW current, NEW triggers, NEW role
    PROVE  _apply_trigger_levels(l, current, triggers, role) \in 0 .. 5
<1> DEFINE floor == IF HardRootCause(triggers)
                       \/ ("SECURITY_COMPLEXITY" \in triggers /\ role \notin WRITE_ROLES) THEN 2 ELSE 0
           step == IF triggers \cap Escalators # {} \/ (HardRootCause(triggers) /\ current >= 2)
                   THEN 1 ELSE 0
<1>1. floor \in {0, 2} /\ step \in {0, 1}
  OBVIOUS
<1>2. _apply_trigger_levels(l, current, triggers, role) = Higher[l][floor] + step
  BY DEF _apply_trigger_levels
<1> HIDE DEF floor, step
<1>3. Higher[l][floor] \in 0 .. 4
  BY <1>1, HigherOfTwo
<1> QED BY <1>1, <1>2, <1>3

\* A role is routed at a level of the policy.
LEMMA LevelInPolicy ==
    ASSUME level \in [Roles -> 0 .. max_automatic_level], NEW role \in Roles, NEW triggers
    PROVE  Level(role, triggers) \in 0 .. owner_level
<1> DEFINE current == Lower[level[role]][owner_level]
           entry == EscalatedProfile(role, triggers).entry
           raised == _apply_trigger_levels(Higher[entry][current], current, triggers, role)
<1>1. current \in 0 .. 3
  BY LowerOfTwo DEF max_automatic_level, owner_level
<1>2. entry \in 0 .. 2
  BY EntryOfEscalated
<1>3. Level(role, triggers) = Lower[raised][4]
  BY DEF Level, owner_level
<1> HIDE DEF current, entry
<1>4. Higher[entry][current] \in 0 .. 4
  BY <1>1, <1>2, HigherOfTwo
<1>5. raised \in 0 .. 5
  BY <1>4, RaisedLevel
<1> HIDE DEF raised
<1> QED BY <1>3, <1>5, LowerOfTwo DEF owner_level

\* The choice among models is one of them, of the lowest tier.
LEMMA LowestIsLowest ==
    ASSUME NEW S \in SUBSET Models, S # {}
    PROVE  /\ Lowest(S) \in S
           /\ \A m \in S : model_tiers[m] >= model_tiers[Lowest(S)]
<1>1. model_tiers["flash"] = 0 /\ model_tiers["pro"] = 1 /\ model_tiers["sol"] = 2
  BY DEF model_tiers
<1>2. \A m \in S : m = "flash" \/ m = "pro" \/ m = "sol"
  BY DEF Models
<1>3. CASE "flash" \in S
  BY <1>1, <1>2, <1>3 DEF Lowest
<1>4. CASE "flash" \notin S /\ "pro" \in S
  BY <1>1, <1>2, <1>4 DEF Lowest
<1>5. CASE "flash" \notin S /\ "pro" \notin S
  BY <1>1, <1>2, <1>5 DEF Lowest
<1> QED BY <1>3, <1>4, <1>5

\* What was routed: an automatic level, and the lowest tier among the candidates
\* that are not out.
LEMMA RoutedAnswer ==
    ASSUME level \in [Roles -> 0 .. max_automatic_level], NEW role \in Roles,
           NEW triggers, NEW out, route(role, triggers, out).code = "ROUTED"
    PROVE  LET a == route(role, triggers, out)
               C == _eligible_candidates(role, EscalatedProfile(role, triggers), Level(role, triggers))
           IN  /\ a.level \in 0 .. max_automatic_level
               /\ a.level = Level(role, triggers)
               /\ C \subseteq profile_for_role(role).models
               /\ C \ out # {}
               /\ a.model = Lowest(C \ out)
               /\ a.model \in C
               /\ route(role, triggers, {}).model = Lowest(C)
<1> DEFINE l == Level(role, triggers)
           C == _eligible_candidates(role, EscalatedProfile(role, triggers), l)
<1>1. l \in 0 .. 4
  BY LevelInPolicy DEF owner_level
<1>2. C \subseteq profile_for_role(role).models
  BY EntryOfEscalated DEF _eligible_candidates
<1>3. C \subseteq Models
  BY <1>2, EntryOfProfile
<1>4. \A o : route(role, triggers, o) =
          IF NeedsOwner(l) THEN Answer("OWNER_GATE", NULL, l)
          ELSE IF _select(C, o) # NULL THEN Answer("ROUTED", _select(C, o), l)
          ELSE Answer(IF C = {} THEN "NO_ELIGIBLE_CANDIDATE" ELSE "NO_VALID_FALLBACK", NULL, l)
  BY DEF route
<1> HIDE DEF l, C
<1>5. ~NeedsOwner(l) /\ _select(C, out) # NULL
      /\ route(role, triggers, out) = Answer("ROUTED", _select(C, out), l)
  BY <1>4 DEF Answer
<1>6. l \in 0 .. 3
  BY <1>1, <1>5 DEF NeedsOwner, max_automatic_level
<1>7. C \ out # {} /\ _select(C, out) = Lowest(C \ out)
  BY <1>5 DEF _select
<1>8. Lowest(C \ out) \in C
  BY <1>3, <1>7, LowestIsLowest
<1>9. C # {} /\ C \ {} = C /\ _select(C, {}) = Lowest(C)
  BY <1>7 DEF _select
<1>10. Lowest(C) \in Models
  BY <1>3, <1>9, LowestIsLowest
<1>11. route(role, triggers, {}).model = Lowest(C)
  BY <1>4, <1>5, <1>9, <1>10, NullAssumption DEF Answer
<1> QED BY <1>2, <1>5, <1>6, <1>7, <1>8, <1>11 DEF Answer, l, C, max_automatic_level

\* What comes last of the last two.
LEMMA LastOfLast2 ==
    ASSUME NEW S, NEW s \in Seq(S), NEW e \in S
    PROVE  /\ Last2(s, e) \in Seq(S) /\ Last2(s, e) # <<>>
           /\ Last2(s, e)[Len(Last2(s, e))] = e
<1>1. CASE Len(s) < 2
  BY <1>1 DEF Last2
<1>2. CASE Len(s) >= 2
  <2>1. s[2] \in S /\ Last2(s, e) = <<s[2], e>>
    BY <1>2 DEF Last2
  <2> QED BY <2>1
<1> QED BY <1>1, <1>2

\* The level a role starts at.
Start(role) == IF risk = "HIGH" /\ role = "analyst" THEN 2 ELSE profile_for_role(role).entry

\* With nothing against the code a role is routed at the level it starts at.
LEMMA BlamelessLevel ==
    ASSUME TypeInv, BlameInv, OutageNeverEscalates, ~blamed, NEW role \in Roles
    PROVE  Level(role, detect_triggers(role)) = Start(role)
<1> DEFINE T == detect_triggers(role)
<1>1. failed[role] = {} /\ Cardinality({}) = 0
  BY FS_EmptySet DEF BlameInv
<1>2. /\ "REPEATED_FIX_FAILURE" \notin T
      /\ "REVIEWER_REJECTED_CANDIDATE" \notin T
  BY <1>1 DEF detect_triggers, BlameInv
<1>3. ~_tests_contradict(tests)
  <2>1. SUFFICES ASSUME tests = <<"passed", "failed">> PROVE FALSE
    BY DEF _tests_contradict
  <2>2. Len(tests) = 2 /\ tests[2] = "failed" /\ tests # <<>>
    BY <2>1
  <2> QED BY <2>2 DEF BlameInv
<1>4. ~_verdicts_contradict(verdicts.last)
  <2>1. SUFFICES ASSUME verdicts.last = <<"approve", "reject">> PROVE FALSE
    BY DEF _verdicts_contradict
  <2>2. Len(verdicts.last) = 2 /\ verdicts.last[2] = "reject" /\ verdicts.last # <<>>
    BY <2>1
  <2> QED BY <2>2 DEF BlameInv
<1>5. "CONTRADICTORY_EVIDENCE" \notin T
  BY <1>3, <1>4 DEF detect_triggers
<1>6. "SECURITY_COMPLEXITY" \in T <=> risk = "HIGH" \/ level[role] >= 2
  BY DEF detect_triggers, security_relevant, BlameInv
<1> HIDE DEF T
<1>7. ~HardRootCause(T) /\ T \cap Escalators = {}
  BY <1>2, <1>5 DEF HardRootCause, Escalators
<1>8. level[role] \in 0 .. 3 /\ level[role] \in {0, Start(role)}
  BY DEF TypeInv, RoutingTypeOK, max_automatic_level, OutageNeverEscalates, Start
<1> DEFINE current == Lower[level[role]][owner_level]
           entry == EscalatedProfile(role, T).entry
           l == Higher[entry][current]
           floor == IF "SECURITY_COMPLEXITY" \in T /\ role \notin WRITE_ROLES THEN 2 ELSE 0
<1>9. current = level[role]
  BY <1>8, LowerOfTwo DEF owner_level
<1>10. Start(role) \in 0 .. 2
  BY EntryOfProfile DEF Start
<1>11. entry \in 0 .. 2 /\ l = IF entry >= current THEN entry ELSE current
  BY <1>8, <1>9, EntryOfEscalated, HigherOfTwo
<1>12. entry = Start(role)
  <2>1. CASE role = "analyst"
    <3>1. profile_for_role(role).entry = 1
      BY <2>1 DEF profile_for_role, Profile, WRITE_ROLES
    <3>2. "SECURITY_COMPLEXITY" \in T <=> risk = "HIGH"
      BY <1>6, <1>8, <2>1, <3>1 DEF Start
    <3>3. Higher[1][2] = 2
      BY HigherOfTwo
    <3> QED BY <1>7, <2>1, <3>1, <3>2, <3>3 DEF EscalatedProfile, Profile, Start, WRITE_ROLES
  <2>2. CASE role = "reviewer"
    <3>1. profile_for_role(role).entry = 2
      BY <2>2 DEF profile_for_role, Profile, WRITE_ROLES
    <3>2. Higher[2][2] = 2
      BY HigherOfTwo
    <3> QED BY <1>7, <2>2, <3>1, <3>2 DEF EscalatedProfile, Profile, Start, WRITE_ROLES
  <2>3. CASE role \notin {"analyst", "reviewer"}
    BY <1>7, <2>3 DEF EscalatedProfile, Start
  <2> QED BY <2>1, <2>2, <2>3
<1>13. l = Start(role)
  BY <1>8, <1>9, <1>10, <1>11, <1>12
<1>14. floor =< Start(role) /\ floor \in {0, 2}
  <2>1. CASE role \in {"lead", "reviewer"}
    BY <2>1 DEF Start, profile_for_role, Profile, WRITE_ROLES
  <2>2. CASE role = "analyst"
    <3>1. profile_for_role(role).entry = 1
      BY <2>2 DEF profile_for_role, Profile, WRITE_ROLES
    <3> QED BY <1>6, <1>8, <2>2, <3>1 DEF Start
  <2>3. CASE role \in WRITE_ROLES
    BY <1>10, <2>3
  <2> QED BY <2>1, <2>2, <2>3 DEF Roles, WRITE_ROLES
<1>15. _apply_trigger_levels(l, current, T, role) = Higher[l][floor] + 0
  BY <1>7 DEF _apply_trigger_levels
<1>16. Level(role, T) = Lower[_apply_trigger_levels(l, current, T, role)][owner_level]
  BY DEF Level
<1> HIDE DEF l, current, floor, entry
<1>17. Higher[l][floor] = Start(role)
  BY <1>10, <1>13, <1>14, HigherOfTwo
<1>18. Lower[Start(role)][owner_level] = Start(role)
  BY <1>10, LowerOfTwo DEF owner_level
<1> QED BY <1>10, <1>15, <1>16, <1>17, <1>18 DEF T

----------------------------------------------------------------------------
(* Every step keeps the invariant.                                         *)

LEMMA InitInv ==
    ASSUME Init
    PROVE  IInv
<1>1. StandardSequence \in RoleSequences /\ Len(StandardSequence) \in Nat \ {0}
  BY SequencesAreRoles DEF RoleSequences
<1>2. FlowOK
  BY <1>1, RoutingAssumption DEF Init, FlowOK
<1>3. TypeInv
  BY <1>2 DEF Init, TypeInv, RoutingTypeOK, FlowOK, Roles, max_automatic_level
<1>4. WriterInv /\ BoundBefore /\ ReviewInv
  BY DEF Init, WriterInv, BoundBefore, ReviewInv
<1>5. BlameInv /\ OutageNeverEscalates
  BY DEF Init, BlameInv, OutageNeverEscalates
<1> QED BY <1>3, <1>4, <1>5 DEF IInv

\* While the levels stay, what was not escalated is not.
LEMMA LevelsKept ==
    ASSUME OutageNeverEscalates, risk' = risk, level' = level, blamed => blamed'
    PROVE  OutageNeverEscalates'
BY DEF OutageNeverEscalates, profile_for_role, Profile

\* An open job whose frontier is at a later place bound its writer earlier.
Ahead ==
    \/ flow'.cycle > flow.cycle
    \/ flow'.cycle = flow.cycle /\ flow'.pos >= flow.pos

LEMMA BoundKept ==
    ASSUME FlowOK, FlowOK', WriterInv, BoundBefore, Ahead, job' = "open" => job = "open",
           writer' = NULL => writer = NULL, writer' # NULL => writer # NULL /\ writer'.id = writer.id
    PROVE  BoundBefore'
<1> SUFFICES ASSUME writer' # NULL, job' = "open"
             PROVE  \/ writer'.id[1] < flow'.cycle
                    \/ writer'.id[1] = flow'.cycle /\ writer'.id[2] < flow'.pos
  BY DEF BoundBefore
<1>1. writer # NULL /\ job = "open" /\ writer'.id = writer.id
  OBVIOUS
<1>2. writer.id[1] \in Nat /\ writer.id[2] \in Nat
  BY <1>1 DEF WriterInv, Writers
<1>3. /\ flow.cycle \in Nat /\ flow.pos \in Nat
      /\ flow'.cycle \in Nat /\ flow'.pos \in Nat
  BY DEF FlowOK
<1>4. \/ writer.id[1] < flow.cycle
      \/ writer.id[1] = flow.cycle /\ writer.id[2] < flow.pos
  BY <1>1 DEF BoundBefore
<1> QED BY <1>1, <1>2, <1>3, <1>4 DEF Ahead

\* A dispatch that is not out needs no writer.
LEMMA NobodyReviews ==
    ASSUME dispatch' = NULL
    PROVE  ReviewInv'
BY DEF ReviewInv

\* The evidence stands as long as none is added.
LEMMA EvidenceKept ==
    ASSUME BlameInv, blamed => blamed', UNCHANGED <<failed, tests, verdicts, findings>>
    PROVE  BlameInv'
BY DEF BlameInv

\* A consumed result moves the frontier, or ends the job.
LEMMA ConsumeKeeps ==
    ASSUME TypeInv, job = "open", dispatch # NULL, Consume
    PROVE  /\ FlowOK' /\ Ahead
           /\ job' \in {"open", "DONE"} /\ outage' \subseteq Models /\ dispatch' = NULL
           /\ job' = "open" => flow'.cycle = flow.cycle /\ flow'.pos = flow.pos + 1
<1>1. outage' \subseteq Models /\ dispatch' = NULL
  BY DEF TypeInv, RoutingTypeOK, Consume
<1>2. /\ flow \in [cycle : Nat, seq : RoleSequences, pos : Nat, attempt : Nat]
      /\ flow.pos \in 1 .. Len(flow.seq) /\ Len(flow.seq) \in Nat
  BY SequencesAreRoles DEF TypeInv, FlowOK
<1>3. CASE flow.pos = Len(flow.seq)
  <2>1. flow' = flow /\ job' = "DONE"
    BY <1>3 DEF Consume
  <2> QED BY <1>1, <1>2, <2>1 DEF TypeInv, FlowOK, Ahead
<1>4. CASE flow.pos # Len(flow.seq)
  <2>1. flow' = [flow EXCEPT !.pos = @ + 1, !.attempt = 1] /\ job' = job
    BY <1>4 DEF Consume
  <2>2. /\ flow'.cycle = flow.cycle /\ flow'.seq = flow.seq
        /\ flow'.pos = flow.pos + 1 /\ flow'.attempt = 1
    BY <1>2, <2>1
  <2>3. flow' \in [cycle : Nat, seq : RoleSequences, pos : Nat, attempt : Nat]
    <3>1. flow.pos + 1 \in Nat /\ flow.pos \in Nat /\ 1 \in Nat
      BY <1>2
    <3>2. \A f \in [cycle : Nat, seq : RoleSequences, pos : Nat, attempt : Nat], n \in Nat :
              [f EXCEPT !.pos = n, !.attempt = 1]
                  \in [cycle : Nat, seq : RoleSequences, pos : Nat, attempt : Nat]
      OBVIOUS
    <3> QED BY <1>2, <2>1, <3>1, <3>2
  <2>4. flow'.pos \in 1 .. Len(flow'.seq)
    BY <1>2, <1>4, <2>2
  <2>5. flow'.attempt \in 1 .. MAX_DISPATCH_ATTEMPTS_PER_STEP
    BY <2>2, RoutingAssumption
  <2> QED BY <1>1, <1>2, <2>1, <2>2, <2>3, <2>4, <2>5 DEF FlowOK, Ahead
<1> QED BY <1>3, <1>4

\* A routed dispatch: an automatic level, an independent reviewer, no escalation
\* that nothing but an outage asked for.
LEMMA CreateKeeps ==
    ASSUME IInv, _perform_create_dispatch
    PROVE  IInv'
<1>1. TypeInv /\ FlowOK /\ RoutingTypeOK /\ WriterInv /\ Role \in Roles
  BY RoleOfFlow DEF IInv, TypeInv
<1>2. /\ job = "open" /\ dispatch = NULL
      /\ UNCHANGED <<risk, flow, failed, disturbed, outage, ledgerVars, applied, facts, failures, blamed>>
  BY DEF _perform_create_dispatch
<1>3. FlowOK'
  BY <1>1, <1>2 DEF FlowOK
<1>4. BlameInv'
  BY <1>2, EvidenceKept DEF IInv, ledgerVars
<1>5. Ahead
  BY <1>1, <1>2 DEF Ahead, FlowOK
<1> DEFINE a == route(Role, detect_triggers(Role), outage)
<1>6. CASE /\ a.code = "ROUTED"
           /\ dispatch' = [role |-> Role, model |-> a.model, level |-> a.level]
           /\ level' = [level EXCEPT ![Role] = Higher[@][a.level]]
           /\ UNCHANGED <<job, writer>>
  <2> DEFINE C == _eligible_candidates(Role, EscalatedProfile(Role, detect_triggers(Role)),
                                       Level(Role, detect_triggers(Role)))
  <2>1. level \in [Roles -> 0 .. max_automatic_level] /\ level[Role] \in 0 .. 3
    BY <1>1 DEF RoutingTypeOK, max_automatic_level
  <2>2. /\ a.level \in 0 .. max_automatic_level /\ a.level = Level(Role, detect_triggers(Role))
        /\ C \subseteq profile_for_role(Role).models /\ a.model \in C
    BY <1>1, <1>6, <2>1, RoutedAnswer
  <2>3. a.model \in Models
    BY <1>1, <2>2, EntryOfProfile
  <2>4. _independence_ok(a.model, Role)
    BY <2>2 DEF _eligible_candidates
  <2> HIDE DEF a, C
  <2>5. Higher[level[Role]][a.level] = IF level[Role] >= a.level THEN level[Role] ELSE a.level
    BY <2>1, <2>2, HigherOfTwo DEF max_automatic_level
  <2>6. level' \in [Roles -> 0 .. max_automatic_level]
    BY <1>1, <1>6, <2>1, <2>2, <2>5 DEF max_automatic_level
  <2>7. TypeInv'
    BY <1>1, <1>2, <1>3, <1>6, <2>3, <2>6 DEF TypeInv, RoutingTypeOK, ledgerVars, FlowOK
  <2>8. WriterInv' /\ BoundBefore'
    BY <1>1, <1>2, <1>3, <1>5, <1>6, BoundKept DEF IInv, WriterInv
  <2>9. ReviewInv'
    BY <1>2, <1>6, <2>4 DEF ReviewInv, Role, _independence_ok
  <2>10. OutageNeverEscalates'
    <3> SUFFICES ASSUME ~blamed, NEW r \in Roles PROVE level'[r] \in {0, Start(r)}
      BY <1>2 DEF OutageNeverEscalates, Start, profile_for_role, Profile
    <3>1. \A q \in Roles : level[q] \in {0, Start(q)}
      BY DEF IInv, OutageNeverEscalates, Start
    <3>2. CASE r # Role
      BY <1>1, <1>6, <2>1, <3>1, <3>2
    <3>3. CASE r = Role
      <4>1. a.level = Start(Role)
        BY <1>1, <2>2, BlamelessLevel DEF IInv
      <4>2. level'[Role] = Higher[level[Role]][a.level]
        BY <1>1, <1>6, <2>1
      <4> QED BY <1>1, <2>1, <2>2, <2>5, <3>1, <3>3, <4>1, <4>2 DEF max_automatic_level
    <3> QED BY <3>2, <3>3
  <2> QED BY <1>4, <2>7, <2>8, <2>9, <2>10 DEF IInv
<1>7. CASE /\ dispatch' = dispatch /\ level' = level /\ job' \in {"open", "BLOCKED", "ERROR"}
           /\ writer' = writer \/ writer' = LeaseLapses(writer)
  <2>1. writer = NULL => writer' = NULL
    BY <1>7 DEF LeaseLapses
  <2>2. writer # NULL => writer' \in Writers /\ writer'.id = writer.id /\ writer'.model = writer.model
    BY <1>1, <1>7 DEF LeaseLapses, WriterInv, Writers
  <2>3. WriterInv'
    BY <1>1, <1>2, <2>1, <2>2 DEF WriterInv
  <2>4. BoundBefore'
    <3>1. writer' # NULL => writer # NULL /\ writer'.id = writer.id
      BY <2>1, <2>2
    <3>2. writer' = NULL => writer = NULL
      BY <2>2, NullAssumption DEF Writers
    <3> QED BY <1>1, <1>2, <1>3, <1>5, <3>1, <3>2, BoundKept DEF IInv
  <2>5. TypeInv'
    BY <1>1, <1>2, <1>3, <1>7 DEF TypeInv, RoutingTypeOK, ledgerVars
  <2>6. ReviewInv'
    BY <1>2, <1>7, NobodyReviews
  <2>7. OutageNeverEscalates'
    BY <1>2, <1>7, LevelsKept DEF IInv
  <2> QED BY <1>4, <2>3, <2>4, <2>5, <2>6, <2>7 DEF IInv
<1>8. \/ /\ a.code = "ROUTED"
         /\ dispatch' = [role |-> Role, model |-> a.model, level |-> a.level]
         /\ level' = [level EXCEPT ![Role] = Higher[@][a.level]]
         /\ UNCHANGED <<job, writer>>
      \/ /\ dispatch' = dispatch /\ level' = level /\ job' \in {"open", "BLOCKED", "ERROR"}
         /\ writer' = writer \/ writer' = LeaseLapses(writer)
  BY DEF _perform_create_dispatch, _provider_unavailable_backoff
<1> QED BY <1>6, <1>7, <1>8

\* A failed run: what speaks against the code says so, an outage does not.
LEMMA FailKeeps ==
    ASSUME IInv, NEW code \in {"MODEL_UNAVAILABLE", "RATE_LIMIT", NULL}, _perform_mark_run_failed(code)
    PROVE  IInv'
<1>1. TypeInv /\ FlowOK /\ RoutingTypeOK /\ WriterInv
  BY DEF IInv, TypeInv
<1>2. /\ job = "open" /\ dispatch # NULL /\ dispatch' = NULL
      /\ UNCHANGED <<risk, level, tests, verdicts, findings, writer, applied>>
      /\ outage' \subseteq outage \cup {dispatch.model}
      /\ blamed' = (blamed \/ code = NULL)
  BY DEF _perform_mark_run_failed, ledgerVars
<1>3. /\ FlowOK' /\ job' \in {"open", "FAILED"}
      /\ flow'.cycle = flow.cycle /\ flow'.pos = flow.pos
  <2>1. CASE flow.attempt >= MAX_DISPATCH_ATTEMPTS_PER_STEP
    BY <1>1, <2>1 DEF _perform_mark_run_failed, FlowOK
  <2>2. CASE flow.attempt < MAX_DISPATCH_ATTEMPTS_PER_STEP
    <3>1. /\ flow \in [cycle : Nat, seq : RoleSequences, pos : Nat, attempt : Nat]
          /\ flow.attempt \in Nat /\ MAX_DISPATCH_ATTEMPTS_PER_STEP \in Nat
      BY <1>1, RoutingAssumption DEF FlowOK
    <3>2. flow' = [flow EXCEPT !.attempt = @ + 1] /\ job' = job
      BY <2>2, <3>1 DEF _perform_mark_run_failed
    <3> QED BY <1>1, <1>2, <2>2, <3>1, <3>2 DEF FlowOK
  <2> QED BY <2>1, <2>2, RoutingAssumption, <1>1 DEF FlowOK
<1>4. Ahead
  BY <1>1, <1>3 DEF Ahead, FlowOK
<1>5. TypeInv'
  <2>1. outage' \subseteq Models
    BY <1>1, <1>2 DEF RoutingTypeOK
  <2> QED BY <1>1, <1>2, <1>3, <2>1 DEF TypeInv, RoutingTypeOK, FlowOK
<1>6. WriterInv' /\ BoundBefore' /\ ReviewInv'
  BY <1>1, <1>2, <1>3, <1>4, BoundKept, NobodyReviews DEF IInv, WriterInv
<1>7. BlameInv'
  <2>1. CASE code = NULL
    BY <1>2, <2>1 DEF BlameInv
  <2>2. CASE code # NULL
    <3>1. failed' = failed
      BY <2>2 DEF _perform_mark_run_failed, classify_attempt
    <3> QED BY <1>2, <3>1, EvidenceKept DEF IInv
  <2> QED BY <2>1, <2>2
<1>8. OutageNeverEscalates'
  BY <1>2, LevelsKept DEF IInv
<1> QED BY <1>5, <1>6, <1>7, <1>8 DEF IInv

LEMMA ReportKeeps ==
    ASSUME IInv, ConsumeReport
    PROVE  IInv'
<1>1. TypeInv /\ FlowOK /\ RoutingTypeOK /\ WriterInv
  BY DEF IInv, TypeInv
<1>2. /\ job = "open" /\ dispatch # NULL /\ Consume
      /\ UNCHANGED <<risk, level, failed, tests, verdicts, findings, writer, applied, blamed>>
  BY DEF ConsumeReport, ledgerVars
<1>3. /\ FlowOK' /\ Ahead
      /\ job' \in {"open", "DONE"} /\ outage' \subseteq Models /\ dispatch' = NULL
  BY <1>1, <1>2, ConsumeKeeps
<1>4. TypeInv'
  BY <1>1, <1>2, <1>3 DEF TypeInv, RoutingTypeOK, FlowOK
<1>5. WriterInv' /\ BoundBefore' /\ ReviewInv'
  BY <1>1, <1>2, <1>3, BoundKept, NobodyReviews DEF IInv, WriterInv
<1>6. BlameInv' /\ OutageNeverEscalates'
  BY <1>2, EvidenceKept, LevelsKept DEF IInv
<1> QED BY <1>4, <1>5, <1>6 DEF IInv

\* A rework cycle begins at its lead, behind everything that was bound before.
LEMMA ReworkKeeps ==
    ASSUME IInv, ConsumeRework
    PROVE  IInv'
<1>1. TypeInv /\ FlowOK /\ RoutingTypeOK /\ WriterInv
  BY DEF IInv, TypeInv
<1>2. /\ job = "open" /\ dispatch' = NULL /\ outage' = outage \ {dispatch.model}
      /\ UNCHANGED <<risk, job, level, failed, tests, verdicts, findings, writer, applied, blamed>>
  BY DEF ConsumeRework, ledgerVars
<1>3. PICK seq \in ReworkSequences :
          flow' = [cycle |-> flow.cycle + 1, seq |-> seq, pos |-> 1, attempt |-> 1]
  BY DEF ConsumeRework
<1>4. seq \in RoleSequences /\ Len(seq) \in Nat \ {0}
  BY SequencesAreRoles DEF RoleSequences
<1>5. flow.cycle \in Nat
  BY <1>1 DEF FlowOK
<1>6. FlowOK' /\ Ahead
  BY <1>3, <1>4, <1>5, RoutingAssumption DEF FlowOK, Ahead
<1>7. TypeInv'
  BY <1>1, <1>2, <1>6 DEF TypeInv, RoutingTypeOK, FlowOK
<1>8. WriterInv' /\ BoundBefore' /\ ReviewInv'
  BY <1>1, <1>2, <1>6, BoundKept, NobodyReviews DEF IInv, WriterInv
<1>9. BlameInv' /\ OutageNeverEscalates'
  BY <1>2, EvidenceKept, LevelsKept DEF IInv
<1> QED BY <1>7, <1>8, <1>9 DEF IInv

LEMMA ReviewKeeps ==
    ASSUME IInv, ConsumeReview
    PROVE  IInv'
<1>1. TypeInv /\ FlowOK /\ RoutingTypeOK /\ WriterInv
  BY DEF IInv, TypeInv
<1>2. /\ job = "open" /\ dispatch # NULL /\ Consume
      /\ UNCHANGED <<risk, level, failed, tests, findings, writer, applied>>
  BY DEF ConsumeReview
<1>3. PICK v \in {"approve", "reject"} : AddVerdict(v)
  BY DEF ConsumeReview
<1>4. /\ FlowOK' /\ Ahead
      /\ job' \in {"open", "DONE"} /\ outage' \subseteq Models /\ dispatch' = NULL
  BY <1>1, <1>2, ConsumeKeeps
<1>5. verdicts.last \in Seq({"approve", "reject"}) /\ verdicts.rejected \in BOOLEAN
  BY <1>1 DEF TypeInv
<1>6. /\ verdicts'.last \in Seq({"approve", "reject"})
      /\ verdicts'.last # <<>> /\ verdicts'.last[Len(verdicts'.last)] = v
  <2>1. verdicts'.last = Last2(verdicts.last, v)
    BY <1>3 DEF AddVerdict
  <2> DEFINE V == {"approve", "reject"}
             old == verdicts.last
  <2>2. old \in Seq(V) /\ v \in V
    BY <1>5
  <2> HIDE DEF V, old
  <2>3. /\ Last2(old, v) \in Seq(V) /\ Last2(old, v) # <<>>
        /\ Last2(old, v)[Len(Last2(old, v))] = v
    BY <2>2, LastOfLast2, Zenon
  <2> QED BY <2>1, <2>3 DEF V, old
<1>7. verdicts' \in [last : Seq({"approve", "reject"}), rejected : BOOLEAN]
  BY <1>3, <1>5, <1>6 DEF AddVerdict
<1>8. TypeInv'
  BY <1>1, <1>2, <1>4, <1>7 DEF TypeInv, RoutingTypeOK, FlowOK
<1>9. WriterInv' /\ BoundBefore' /\ ReviewInv'
  BY <1>1, <1>2, <1>4, BoundKept, NobodyReviews DEF IInv, WriterInv
<1>10. BlameInv'
  <2>1. CASE v = "reject"
    BY <1>3, <2>1 DEF AddVerdict, BlameInv
  <2>2. CASE v = "approve"
    <3>1. (blamed => blamed') /\ (verdicts'.rejected <=> verdicts.rejected)
      BY <1>3, <1>5, <2>2 DEF AddVerdict
    <3> QED BY <1>2, <1>6, <2>2, <3>1 DEF IInv, BlameInv
  <2> QED BY <2>1, <2>2
<1>11. OutageNeverEscalates'
  <2>1. blamed => blamed'
    BY <1>3 DEF AddVerdict
  <2> QED BY <1>2, <2>1, LevelsKept DEF IInv
<1> QED BY <1>8, <1>9, <1>10, <1>11 DEF IInv

\* A patch enters the workspace only at the place its writer was bound, and an
\* earlier writer is bound for good: the first patch is the only one.
LEMMA WorkKeeps ==
    ASSUME IInv, NEW patch \in BOOLEAN, NEW green \in BOOLEAN, ConsumeWork(patch, green)
    PROVE  IInv'
<1>1. TypeInv /\ FlowOK /\ RoutingTypeOK /\ WriterInv
  BY DEF IInv, TypeInv
<1> DEFINE new == [id |-> Here, model |-> dispatch.model, current |-> TRUE]
           bound == IF patch /\ writer = NULL THEN new ELSE writer
           done == (patch => writer_guard_for(bound)) /\ green
<1>2. /\ job = "open" /\ dispatch # NULL /\ Role \in WRITE_ROLES
      /\ writer' = bound
      /\ applied' = IF patch /\ writer_guard_for(bound) THEN applied \cup {dispatch.model} ELSE applied
      /\ UNCHANGED <<risk, level, failed, verdicts, findings, blamed>>
      /\ IF done THEN Consume /\ tests' = Last2(tests, "passed")
         ELSE job' = "ERROR" /\ UNCHANGED <<dispatch, outage, flow, tests>>
  BY DEF ConsumeWork
<1>3. /\ flow.cycle \in Nat /\ flow.pos \in Nat /\ flow.attempt \in Nat
      /\ dispatch.model \in Models
  BY <1>1, <1>2 DEF FlowOK, RoutingTypeOK
<1>4. new \in Writers /\ writer_guard_for(new)
      /\ new.id[1] = flow.cycle /\ new.id[2] = flow.pos /\ new.model = dispatch.model
  BY <1>3 DEF Writers, writer_guard_for, Here
<1>5. writer # NULL => ~writer_guard_for(writer) /\ writer \in Writers
  <2> SUFFICES ASSUME writer # NULL PROVE ~writer_guard_for(writer) /\ writer \in Writers
    OBVIOUS
  <2>1. writer \in Writers /\ writer.id[1] \in Nat /\ writer.id[2] \in Nat
    BY <1>1 DEF WriterInv, Writers
  <2>2. writer.id[1] < flow.cycle \/ writer.id[2] < flow.pos
    BY <1>2 DEF IInv, BoundBefore
  <2> QED BY <1>3, <2>1, <2>2 DEF writer_guard_for, Here
<1>6. NULL \notin Writers
  BY NullAssumption DEF Writers
<1> HIDE DEF new
<1>7. WriterInv'
  <2>1. CASE patch /\ writer = NULL
    <3>1. writer' = new /\ applied' = {dispatch.model}
      BY <1>1, <1>2, <1>4, <1>6, <2>1 DEF WriterInv
    <3> QED BY <1>4, <3>1 DEF WriterInv
  <2>2. CASE ~patch
    BY <1>1, <1>2, <2>2 DEF WriterInv
  <2>3. CASE patch /\ writer # NULL
    <3>1. writer' = writer /\ applied' = applied
      BY <1>2, <1>5, <2>3
    <3> QED BY <1>1, <3>1 DEF WriterInv
  <2> QED BY <2>1, <2>2, <2>3
<1>8. CASE done
  <2>1. /\ FlowOK' /\ Ahead /\ job' \in {"open", "DONE"} /\ outage' \subseteq Models
        /\ dispatch' = NULL /\ tests' = Last2(tests, "passed")
        /\ job' = "open" => flow'.cycle = flow.cycle /\ flow'.pos = flow.pos + 1
    BY <1>1, <1>2, <1>8, ConsumeKeeps
  <2>2. /\ tests' \in Seq({"passed", "failed"}) /\ tests'[Len(tests')] = "passed"
    <3>1. tests \in Seq({"passed", "failed"}) /\ tests' = Last2(tests, "passed")
      BY <1>1, <2>1 DEF TypeInv
    <3>2. "passed" \in {"passed", "failed"}
      OBVIOUS
    <3>3. /\ Last2(tests, "passed") \in Seq({"passed", "failed"})
          /\ Last2(tests, "passed")[Len(Last2(tests, "passed"))] = "passed"
      BY <3>1, <3>2, LastOfLast2, Zenon
    <3> QED BY <3>1, <3>3
  <2>3. TypeInv'
    <3>1. applied' \subseteq Models
      BY <1>1, <1>2, <1>3 DEF RoutingTypeOK
    <3> QED BY <1>1, <1>2, <2>1, <2>2, <3>1 DEF TypeInv, RoutingTypeOK, FlowOK
  <2>4. BoundBefore'
    <3>1. CASE patch /\ writer = NULL
      BY <1>2, <1>3, <1>4, <2>1, <3>1 DEF BoundBefore
    <3>2. CASE ~(patch /\ writer = NULL)
      BY <1>1, <1>2, <2>1, <3>2, BoundKept DEF IInv
    <3> QED BY <3>1, <3>2
  <2>5. BlameInv'
    BY <1>2, <2>2 DEF IInv, BlameInv
  <2> QED BY <1>2, <1>7, <2>1, <2>3, <2>4, <2>5, NobodyReviews, LevelsKept DEF IInv
<1>9. CASE ~done
  <2>1. job' = "ERROR" /\ UNCHANGED <<dispatch, outage, flow, tests>>
    BY <1>2, <1>9
  <2>2. TypeInv'
    <3>1. applied' \subseteq Models
      BY <1>1, <1>2, <1>3 DEF RoutingTypeOK
    <3> QED BY <1>1, <1>2, <2>1, <3>1 DEF TypeInv, RoutingTypeOK, FlowOK
  <2>3. BoundBefore'
    BY <2>1 DEF BoundBefore
  <2>4. ReviewInv'
    BY <1>2, <2>1 DEF ReviewInv, Role, WRITE_ROLES
  <2>5. BlameInv' /\ OutageNeverEscalates'
    BY <1>2, <2>1, EvidenceKept, LevelsKept DEF IInv
  <2> QED BY <1>7, <2>2, <2>3, <2>4, <2>5 DEF IInv
<1> QED BY <1>8, <1>9

\* A fact of the ledger is evidence.
LEMMA FactKeeps ==
    ASSUME IInv, RecordFact
    PROVE  IInv'
<1>1. TypeInv /\ FlowOK /\ RoutingTypeOK /\ WriterInv
  BY DEF IInv, TypeInv
<1>2. /\ blamed' = TRUE
      /\ UNCHANGED <<risk, job, flow, dispatch, level, outage, verdicts, writer, applied>>
  BY DEF RecordFact
<1>3. /\ tests' \in Seq({"passed", "failed"})
      /\ findings' \in [open : BOOLEAN, confirmed : BOOLEAN, severe : BOOLEAN]
  <2>1. Last2(tests, "failed") \in Seq({"passed", "failed"})
    BY <1>1, LastOfLast2 DEF TypeInv
  <2>2. findings \in [open : BOOLEAN, confirmed : BOOLEAN, severe : BOOLEAN]
    BY <1>1 DEF TypeInv
  <2>3. CASE tests' = Last2(tests, "failed") /\ findings' = findings
    BY <2>1, <2>2, <2>3
  <2>4. CASE tests' = tests /\ \E severe \in BOOLEAN :
                findings' = [findings EXCEPT !.open = TRUE, !.severe = @ \/ severe]
    BY <1>1, <2>2, <2>4 DEF TypeInv
  <2>5. CASE tests' = tests /\ findings' = [findings EXCEPT !.open = FALSE, !.confirmed = TRUE]
    BY <1>1, <2>2, <2>5 DEF TypeInv
  <2> QED BY <2>3, <2>4, <2>5 DEF RecordFact
<1>4. TypeInv'
  BY <1>1, <1>2, <1>3 DEF TypeInv, RoutingTypeOK, FlowOK
<1>5. WriterInv' /\ BoundBefore' /\ ReviewInv'
  BY <1>2 DEF IInv, WriterInv, BoundBefore, ReviewInv, Role
<1>6. BlameInv' /\ OutageNeverEscalates'
  BY <1>2 DEF BlameInv, OutageNeverEscalates
<1> QED BY <1>4, <1>5, <1>6 DEF IInv

LEMMA ExpiryKeeps ==
    ASSUME IInv, ObservationExpires
    PROVE  IInv'
<1>1. /\ outage' \subseteq outage
      /\ UNCHANGED <<risk, job, flow, dispatch, level, failed, tests, verdicts, findings, writer, applied, blamed>>
  BY DEF ObservationExpires, ledgerVars
<1>2. TypeInv'
  BY <1>1 DEF IInv, TypeInv, RoutingTypeOK, FlowOK
<1>3. WriterInv' /\ BoundBefore' /\ ReviewInv'
  BY <1>1 DEF IInv, WriterInv, BoundBefore, ReviewInv, Role
<1>4. BlameInv' /\ OutageNeverEscalates'
  BY <1>1, EvidenceKept, LevelsKept DEF IInv
<1> QED BY <1>2, <1>3, <1>4 DEF IInv

LEMMA StutterKeeps ==
    ASSUME IInv, UNCHANGED vars
    PROVE  IInv'
<1>1. UNCHANGED <<risk, job, flow, dispatch, level, failed, outage, tests, verdicts, findings,
                  writer, applied, blamed>>
  BY DEF vars
<1>2. TypeInv'
  BY <1>1 DEF IInv, TypeInv, RoutingTypeOK, FlowOK
<1>3. WriterInv' /\ BoundBefore' /\ ReviewInv'
  BY <1>1 DEF IInv, WriterInv, BoundBefore, ReviewInv, Role
<1>4. BlameInv' /\ OutageNeverEscalates'
  BY <1>1, EvidenceKept, LevelsKept DEF IInv
<1> QED BY <1>2, <1>3, <1>4 DEF IInv

LEMMA NextKeeps ==
    ASSUME IInv, [Next]_vars
    PROVE  IInv'
<1>1. CASE UNCHANGED vars
  BY <1>1, StutterKeeps
<1>2. CASE _perform_create_dispatch
  BY <1>2, CreateKeeps
<1>3. CASE \E code \in {"MODEL_UNAVAILABLE", "RATE_LIMIT", NULL} : _perform_mark_run_failed(code)
  BY <1>3, FailKeeps
<1>4. CASE ConsumeReport
  BY <1>4, ReportKeeps
<1>5. CASE ConsumeRework
  BY <1>5, ReworkKeeps
<1>6. CASE ConsumeReview
  BY <1>6, ReviewKeeps
<1>7. CASE \E patch, green \in BOOLEAN : ConsumeWork(patch, green)
  BY <1>7, WorkKeeps
<1>8. CASE RecordFact
  BY <1>8, FactKeeps
<1>9. CASE ObservationExpires
  BY <1>9, ExpiryKeeps
<1> QED BY <1>1, <1>2, <1>3, <1>4, <1>5, <1>6, <1>7, <1>8, <1>9 DEF Next, Progress, AgentEnds

\* The reviewer that is not the writer is none of those whose work is there.
LEMMA InvIsRoutingInv ==
    ASSUME IInv
    PROVE  RoutingInv
<1>1. ReviewerIsIndependent
  BY DEF IInv, WriterInv, ReviewInv, ReviewerIsIndependent
<1> QED BY <1>1 DEF IInv, TypeInv, RoutingInv

LEMMA Invariance == Spec => []IInv
<1>1. Init => IInv
  BY InitInv
<1>2. IInv /\ [Next]_vars => IInv'
  BY NextKeeps
<1> QED BY <1>1, <1>2, PTL DEF Spec

----------------------------------------------------------------------------
(* What holds of routing.                                                  *)

\* Whoever reviews wrote nothing of what is reviewed, no dispatch is above the
\* automatic levels, and outages, rate limits and retries alone raise no level
\* (route, _independence_ok, bind once and writer_guard_for).
THEOREM RoutingSafe == Spec => []RoutingInv
<1>1. IInv => RoutingInv
  BY InvIsRoutingInv
<1> QED BY <1>1, Invariance, PTL

\* The workspace never holds the patches of two models, over any number of rework
\* cycles, failed runs and lapsed leases (bind once, writer_guard_for).
THEOREM OneAuthor == Spec => [](\A m, n \in applied : m = n)
<1>1. IInv => \A m, n \in applied : m = n
  BY DEF IInv, WriterInv
<1> QED BY <1>1, Invariance, PTL

\* An outage never puts a weaker model to work than the one that is out, nor one
\* the role's profile does not name (_select).
THEOREM FallbackSafe == Spec => FallbackNeverWeaker
<1> DEFINE Strong == (dispatch = NULL /\ dispatch' # NULL) =>
         /\ model_tiers[dispatch'.model] >= model_tiers[route(Role, detect_triggers(Role), {}).model]
         /\ dispatch'.model \in profile_for_role(Role).models
<1>1. IInv /\ [Next]_vars => Strong
  <2> SUFFICES ASSUME IInv, [Next]_vars, dispatch = NULL, dispatch' # NULL
               PROVE  /\ model_tiers[dispatch'.model]
                             >= model_tiers[route(Role, detect_triggers(Role), {}).model]
                      /\ dispatch'.model \in profile_for_role(Role).models
    OBVIOUS
  <2>1. _perform_create_dispatch
    BY DEF Next, Progress, AgentEnds, vars, RecordFact, ObservationExpires, _perform_mark_run_failed,
           ConsumeReport, ConsumeRework, ConsumeReview, ConsumeWork
  <2> DEFINE T == detect_triggers(Role)
             C == _eligible_candidates(Role, EscalatedProfile(Role, T), Level(Role, T))
             a == route(Role, T, outage)
  <2>2. a.code = "ROUTED" /\ dispatch'.model = a.model
    BY <2>1 DEF _perform_create_dispatch, _provider_unavailable_backoff
  <2>3. Role \in Roles /\ level \in [Roles -> 0 .. max_automatic_level]
    BY RoleOfFlow DEF IInv, TypeInv, RoutingTypeOK
  <2>4. /\ C \subseteq profile_for_role(Role).models /\ C \ outage # {}
        /\ a.model = Lowest(C \ outage) /\ a.model \in C
        /\ route(Role, T, {}).model = Lowest(C)
    BY <2>2, <2>3, RoutedAnswer
  <2>5. C \subseteq Models
    BY <2>3, <2>4, EntryOfProfile
  <2> HIDE DEF C, a, T
  <2>6. model_tiers[a.model] >= model_tiers[Lowest(C)]
    BY <2>4, <2>5, LowestIsLowest
  <2> QED BY <2>2, <2>4, <2>6 DEF T
<1>2. IInv /\ [Next]_vars => [Strong]_vars
  BY <1>1
<1> QED BY <1>2, Invariance, PTL DEF Spec, FallbackNeverWeaker

=============================================================================
