------------------------- MODULE ApprovalInboundProofs -------------------------
(***************************************************************************)
(* The task core and the callbacks that decide its gates, for any lifetime *)
(* of gates and challenges, any number of attempts, cycles, gates, tokens  *)
(* and updates.  The inductive invariant has three parts: GateInv, which   *)
(* every command keeps, ProtocolAndStage, which the controller's commands  *)
(* keep, and TokensInv.                                                    *)
(***************************************************************************)
EXTENDS ApprovalInbound, NaturalsInduction, WellFoundedInduction, TLAPS

(***************************************************************************)
(* PauseInv: a task in recovery or at the gate remembers where it works.   *)
(***************************************************************************)
PauseInv == task.state \in PauseStates => is_valid_resume_target(task.resume)

(***************************************************************************)
(* ProtocolInv: as long as only the controller's commands are used, the    *)
(* open dispatch, the started role, the latest handoff and the frontier    *)
(* name the same role, and a role that is started is the handoff's.        *)
(***************************************************************************)
OpenAgrees ==
    /\ disp.cycle = Frontier.cycle /\ disp.pos = Frontier.pos /\ disp.role = Frontier.role
    /\ Frontier.role # NONE
    /\ active = disp.role
    /\ handoff.to = disp.role
    /\ disp.handoff = handoff.no /\ disp.run = run
    /\ ~ledger.rework
    /\ task.state \notin TerminalStates

ClosedAgrees ==
    (Frontier.role # NONE /\ task.state \notin TerminalStates) => handoff.to = Frontier.role

ProtocolInv ==
    ~manual =>
      /\ active # NONE => handoff.to = active
      /\ IF disp.status \in OpenDispatch THEN OpenAgrees ELSE ClosedAgrees

(***************************************************************************)
(* StageInv: the first p positions of the cycle are consumed, and the      *)
(* state of the task is the one that p consumed results lead to.           *)
(***************************************************************************)
MainStates == <<"NEW", "PLANNING", "ANALYZING", "LEAD_DECISION",
                "IMPLEMENTING", "TESTING", "REVIEWING", "FINAL_DECISION">>

ReworkStates(p) ==
    IF p \in {0, 1} THEN {"REWORK"}
    ELSE IF p = 2 THEN {"IMPLEMENTING"}
    ELSE IF p = 3 THEN {"TESTING"}
    ELSE {"TESTING", "REVIEWING", "FINAL_DECISION"}

AtStage(l, s) ==
    IF l.rework THEN s = "REWORK"
    ELSE IF l.kind = "STANDARD"
    THEN \E p \in 0 .. 7 : l.done = 0 .. p - 1 /\ s = MainStates[p + 1]
    ELSE \E p \in 0 .. 5 : l.done = 0 .. p - 1 /\ s \in ReworkStates(p)

Out == {"BLOCKED"} \cup TerminalStates

StageInv == ~manual /\ Underlying \notin Out => AtStage(ledger, Underlying)

(***************************************************************************)
(* Tokens, updates and verdicts.  A token is a gate's, and VerdictInv: a   *)
(* gate that is still pending has no verdict.                              *)
(***************************************************************************)
Challenge == [ap : Nat, created : Nat, expires : Nat, status : ChallengeStatus, by : Nat]
Updates == [c : Nat, approve : BOOLEAN, date : Nat, owner : BOOLEAN]
Verdict == [gate : Nat, by : Nat, approve : BOOLEAN]

TokenTypes ==
    /\ challenges \in Seq(Challenge) /\ sent \in Seq(Updates) /\ verdict \in Seq(Verdict)
    /\ DOMAIN log \subseteq DOMAIN sent
    /\ cursor \in Nat /\ cursor - 1 \in DOMAIN log \cup {0}
    /\ \A u \in DOMAIN log \cup {0} : u < cursor

TokenInv ==
    /\ \A u \in DOMAIN sent : sent[u].c \in {0} \cup DOMAIN challenges
    /\ \A c \in DOMAIN challenges :
         /\ challenges[c].ap \in DOMAIN approvals
         /\ challenges[c].status \in Consumed => challenges[c].by \in DOMAIN sent

VerdictInv ==
    \A i \in DOMAIN verdict :
      /\ verdict[i].gate \in DOMAIN approvals
      /\ approvals[verdict[i].gate].status # "pending"

TokensInv == TokenTypes /\ TokenInv /\ VerdictInv /\ CallbackDecidesItsGate

-----------------------------------------------------------------------------
(***************************************************************************)
(* The frontier.                                                           *)
(***************************************************************************)

Ledger == [cycle : Nat, kind : {"STANDARD", "REWORK"},
           toggle : {"yes", "no", "unset"}, done : SUBSET (0 .. 6),
           attempts : 0 .. MaxAttempts, rework : BOOLEAN,
           next : {"yes", "no", "unset"}]

SeqOf(l, open) == effective_sequence(l.kind, IncludeReviewer(l, open))

(* A set of naturals has a least element, which Min names.                 *)
LEMMA MinIsLeast ==
    ASSUME NEW S \in SUBSET Nat, S # {}
    PROVE  Min(S) \in S /\ \A y \in S : Min(S) =< y
<1>1. PICK m \in S : \A y \in S : ~(y < m)
  <2>1. IsWellFoundedOn(OpToRel(<, Nat), Nat)
    BY NatLessThanWellFounded
  <2>2. PICK m \in S : \A y \in Nat : <<y, m>> \in OpToRel(<, Nat) => y \notin S
    BY <2>1, WFMin
  <2> QED
    BY <2>2 DEF OpToRel
<1>2. \A y \in S : m =< y
  BY <1>1
<1> QED
  BY <1>1, <1>2 DEF Min

(* A set whose upper bound is in it has it as its maximum.                 *)
LEMMA MaxIs ==
    ASSUME NEW S \in SUBSET Nat, NEW m \in S, \A y \in S : y =< m
    PROVE  Max(S) = m
<1>1. \E x \in S : \A y \in S : x >= y
  <2>1. \A y \in S : m >= y
    OBVIOUS
  <2> QED
    BY <2>1
<1>2. Max(S) \in S /\ \A y \in S : Max(S) >= y
  BY <1>1 DEF Max
<1>3. Max(S) >= m /\ Max(S) =< m
  BY <1>2
<1>4. Max(S) \in Nat /\ m \in Nat
  BY <1>2
<1> HIDE DEF Max
<1> QED
  BY <1>3, <1>4

(* The workflow sequences.                                                 *)
LEMMA Sequences ==
    ASSUME NEW l, NEW open
    PROVE  LET s == SeqOf(l, open)
           IN  /\ Len(s) \in 4 .. 7
               /\ \A i \in 0 .. Len(s) - 1 : s[i + 1] \in Roles
               /\ s[1] = "lead"
               /\ l.kind = "STANDARD" => s = StandardSequence /\ Len(s) = 7
               /\ l.kind # "STANDARD" =>
                    /\ Len(s) \in {4, 5}
                    /\ s[2] = "implementer" /\ s[3] = "qa"
                    /\ Len(s) = 5 => s[4] = "reviewer" /\ s[5] = "lead"
                    /\ Len(s) = 4 => s[4] = "lead"
<1>1. CASE l.kind = "STANDARD"
  BY <1>1 DEF SeqOf, effective_sequence, StandardSequence, Roles
<1>2. CASE l.kind # "STANDARD" /\ IncludeReviewer(l, open)
  BY <1>2 DEF SeqOf, effective_sequence, Roles
<1>3. CASE l.kind # "STANDARD" /\ ~IncludeReviewer(l, open)
  BY <1>3 DEF SeqOf, effective_sequence, Roles
<1> QED
  BY <1>1, <1>2, <1>3

(* What the frontier can be.                                               *)
LEMMA FrontierIs ==
    ASSUME NEW l \in Ledger, NEW open \in BOOLEAN
    PROVE  LET f == _workflow_frontier(l, open)
           IN  /\ f.cycle \in Nat
               /\ f.pos \in 0 .. 7
               /\ f.role \in Roles \cup {NONE}
               /\ l.rework => f.cycle = l.cycle + 1 /\ f.pos = 0 /\ f.role = "lead"
               /\ ~l.rework => f.cycle = l.cycle
               /\ f.role # NONE => f.pos \in 0 .. 6 /\ f.role \in Roles
               /\ ~l.rework /\ f.role # NONE => f.role = SeqOf(l, open)[f.pos + 1]
<1> DEFINE s == SeqOf(l, open)
           left == (0 .. Len(s) - 1) \ l.done
           f == _workflow_frontier(l, open)
<1>1. /\ Len(s) \in 4 .. 7
      /\ \A i \in 0 .. Len(s) - 1 : s[i + 1] \in Roles
  BY Sequences
<1>2. l.cycle \in Nat
  BY DEF Ledger
<1>3. CASE l.rework
  <2>1. f = [cycle |-> l.cycle + 1, pos |-> 0, kind |-> "REWORK", role |-> "lead"]
    BY <1>3 DEF _workflow_frontier
  <2> QED
    BY <1>2, <1>3, <2>1 DEF Roles
<1>4. CASE ~l.rework /\ left = {}
  <2>1. f = [cycle |-> l.cycle, pos |-> Len(s), kind |-> l.kind, role |-> NONE]
    BY <1>4 DEF _workflow_frontier, SeqOf
  <2>2. f.cycle = l.cycle /\ f.pos = Len(s) /\ f.role = NONE
    BY <2>1
  <2> HIDE DEF s, left, f
  <2>3. f.pos \in 0 .. 7
    BY <1>1, <2>2
  <2> QED
    BY <1>2, <1>4, <2>2, <2>3 DEF f
<1>5. CASE ~l.rework /\ left # {}
  <2>1. f = [cycle |-> l.cycle, pos |-> Min(left), kind |-> l.kind, role |-> s[Min(left) + 1]]
    BY <1>5 DEF _workflow_frontier, SeqOf
  <2>2. left \in SUBSET Nat
    BY <1>1
  <2>3. Min(left) \in left
    BY <1>5, <2>2, MinIsLeast
  <2> DEFINE m == Min(left)
  <2>4. m \in 0 .. Len(s) - 1
    BY <2>3
  <2>5. f = [cycle |-> l.cycle, pos |-> m, kind |-> l.kind, role |-> s[m + 1]]
    BY <2>1
  <2> HIDE DEF s, left, m
  <2>6. m \in 0 .. 6 /\ s[m + 1] \in Roles
    BY <1>1, <2>4
  <2> QED
    BY <1>2, <1>5, <2>5, <2>6 DEF s
<1> QED
  BY <1>3, <1>4, <1>5

(* The frontier of a cycle whose first p positions are consumed.           *)
LEMMA FrontierAt ==
    ASSUME NEW l \in Ledger, NEW open \in BOOLEAN, ~l.rework,
           NEW p \in Nat, l.done = 0 .. p - 1
    PROVE  LET f == _workflow_frontier(l, open)
           IN  /\ p < Len(SeqOf(l, open)) => f.pos = p /\ f.role = SeqOf(l, open)[p + 1]
               /\ p >= Len(SeqOf(l, open)) => f.role = NONE
<1> DEFINE s == SeqOf(l, open)
           left == (0 .. Len(s) - 1) \ l.done
           f == _workflow_frontier(l, open)
<1>1. Len(s) \in 4 .. 7
  BY Sequences
<1>2. left = p .. Len(s) - 1
  BY <1>1
<1>3. CASE p < Len(s)
  <2>1. p \in left /\ \A y \in left : p =< y
    BY <1>1, <1>2, <1>3
  <2>2. left \in SUBSET Nat
    BY <1>1
  <2>3. Min(left) = p
    <3>1. Min(left) \in left /\ Min(left) =< p
      BY <2>1, <2>2, MinIsLeast
    <3>2. p =< Min(left) /\ Min(left) \in Nat
      BY <2>1, <2>2, <3>1
    <3> QED
      BY <3>1, <3>2
  <2>4. f = [cycle |-> l.cycle, pos |-> Min(left), kind |-> l.kind, role |-> s[Min(left) + 1]]
    BY <2>1 DEF _workflow_frontier, SeqOf
  <2> HIDE DEF left, f, s
  <2> QED
    BY <1>1, <1>3, <2>3, <2>4 DEF f, s
<1>4. CASE p >= Len(s)
  <2>1. left = {}
    BY <1>1, <1>2, <1>4
  <2>2. f.role = NONE
    BY <2>1 DEF _workflow_frontier, SeqOf
  <2> QED
    BY <1>1, <1>4, <2>2
<1> QED
  BY <1>1, <1>3, <1>4

-----------------------------------------------------------------------------
(***************************************************************************)
(* The state sync of a consumed result.                                    *)
(***************************************************************************)

(* Where a plan can start and end.                                         *)
Pairs == (States \ (PauseStates \cup Out)) \X (States \ (PauseStates \cup {"BLOCKED"}))

MainStep(pos) == <<MainStates[pos + 1], MainStates[pos + 2]>>

Final(kind, pos, role) == role = "lead" /\ (IF kind = "STANDARD" THEN pos = 6 ELSE pos > 0)

(* The part of a plan that follows from position and role.                 *)
BasePlan(kind, pos, role, current) ==
    IF kind = "STANDARD" THEN <<MainStep(pos)>>
    ELSE IF role = "implementer" THEN <<<<"REWORK", "IMPLEMENTING">>>>
    ELSE IF role = "qa" THEN <<<<"IMPLEMENTING", "TESTING">>>>
    ELSE IF role = "reviewer" THEN <<<<"TESTING", "REVIEWING">>>>
    ELSE IF Final(kind, pos, role) /\ current = "REVIEWING"
         THEN <<<<"REVIEWING", "FINAL_DECISION">>>>
    ELSE IF Final(kind, pos, role) /\ current = "TESTING"
         THEN <<<<"TESTING", "REVIEWING">>, <<"REVIEWING", "FINAL_DECISION">>>>
    ELSE <<>>

Decides == [accept |-> "DONE", rework |-> "REWORK", cancel |-> "CANCELLED"]

(* The part that follows from the lead's decision.                         *)
VerdictPlan(kind, pos, role, decision) ==
    IF role # "lead" \/ decision = "request_owner_gate" THEN <<>>
    ELSE IF Final(kind, pos, role) THEN <<<<"FINAL_DECISION", Decides[decision]>>>>
    ELSE IF kind = "STANDARD" /\ pos = 0 /\ decision = "rework"
         THEN <<<<"PLANNING", "REWORK">>>>
    ELSE IF kind = "STANDARD" /\ pos = 2 /\ decision # "accept"
         THEN <<<<"LEAD_DECISION", Decides[decision]>>>>
    ELSE IF kind = "REWORK" /\ pos = 0 /\ decision = "cancel"
         THEN <<<<"REWORK", "CANCELLED">>>>
    ELSE <<>>

(* The table of states and the verdicts, entry by entry.                   *)
LEMMA Tables ==
    /\ MainStates[1] = "NEW" /\ MainStates[2] = "PLANNING" /\ MainStates[3] = "ANALYZING"
    /\ MainStates[4] = "LEAD_DECISION" /\ MainStates[5] = "IMPLEMENTING"
    /\ MainStates[6] = "TESTING" /\ MainStates[7] = "REVIEWING"
    /\ MainStates[8] = "FINAL_DECISION"
    /\ Decides["accept"] = "DONE" /\ Decides["rework"] = "REWORK"
    /\ Decides["cancel"] = "CANCELLED"
BY DEF MainStates, Decides

LEMMA MainPairs ==
    ASSUME NEW i \in 0 .. 6
    PROVE  MainStep(i) \in Pairs /\ MainStep(i)[1] = MainStates[i + 1]
           /\ MainStep(i)[2] = MainStates[i + 2]
           /\ is_allowed(MainStates[i + 1], MainStates[i + 2], NONE)
BY DEF MainStep, MainStates, Pairs, States, MainPath, TerminalStates, PauseStates, Out,
   is_allowed, StaticTargets

(* A plan is a sequence of transitions between working states.             *)
LEMMA PlanTyped ==
    ASSUME NEW kind \in {"STANDARD", "REWORK"}, NEW pos \in 0 .. 6, NEW role,
           NEW decision \in Decisions, NEW current
    PROVE  /\ _state_sync_plan(kind, pos, role, decision, current)
                = BasePlan(kind, pos, role, current) \o VerdictPlan(kind, pos, role, decision)
           /\ BasePlan(kind, pos, role, current) \in Seq(Pairs)
           /\ VerdictPlan(kind, pos, role, decision) \in Seq(Pairs)
           /\ _state_sync_plan(kind, pos, role, decision, current) \in Seq(Pairs)
<1> DEFINE base == BasePlan(kind, pos, role, current)
           verd == VerdictPlan(kind, pos, role, decision)
<1>1. _state_sync_plan(kind, pos, role, decision, current) = base \o verd
  BY Zenon DEF _state_sync_plan, BasePlan, VerdictPlan, Final, MainStep, MainStates, Decides
<1>2. /\ <<"REWORK", "IMPLEMENTING">> \in Pairs /\ <<"IMPLEMENTING", "TESTING">> \in Pairs
      /\ <<"TESTING", "REVIEWING">> \in Pairs /\ <<"REVIEWING", "FINAL_DECISION">> \in Pairs
      /\ <<"PLANNING", "REWORK">> \in Pairs /\ <<"REWORK", "CANCELLED">> \in Pairs
      /\ \A to \in {"DONE", "REWORK", "CANCELLED"} :
            <<"FINAL_DECISION", to>> \in Pairs /\ <<"LEAD_DECISION", to>> \in Pairs
  BY DEF Pairs, States, MainPath, TerminalStates, PauseStates, Out
<1>3. base \in Seq(Pairs)
  <2>1. MainStep(pos) \in Pairs
    BY MainPairs
  <2> QED
    BY <1>2, <2>1 DEF BasePlan
<1>4. verd \in Seq(Pairs)
  <2>1. decision # "request_owner_gate" => Decides[decision] \in {"DONE", "REWORK", "CANCELLED"}
    BY Tables DEF Decisions
  <2> QED
    BY <1>2, <2>1 DEF VerdictPlan
<1> HIDE DEF base, verd
<1> QED
  BY <1>1, <1>3, <1>4 DEF base, verd

(* Where a plan that fits leaves the task: at a working or terminal state, *)
(* or where it is.                                                         *)
LEMMA PlanEnds ==
    ASSUME NEW plan \in Seq(Pairs), NEW current, PlanFits(plan, current)
    PROVE  /\ plan # <<>> => /\ current \in States \ (PauseStates \cup Out)
                             /\ PlanEnd(plan, current) \in States \ (PauseStates \cup {"BLOCKED"})
           /\ plan = <<>> => PlanEnd(plan, current) = current
<1>1. CASE plan # <<>>
  <2>1. 1 \in DOMAIN plan /\ Len(plan) \in DOMAIN plan
    BY <1>1
  <2>2. plan[1] \in Pairs /\ plan[Len(plan)] \in Pairs
    BY <2>1
  <2>3. plan[1][1] = current
    BY <2>1 DEF PlanFits
  <2> QED
    BY <1>1, <2>2, <2>3 DEF Pairs, PlanEnd
<1>2. CASE plan = <<>>
  BY <1>2 DEF PlanEnd
<1> QED
  BY <1>1, <1>2

(* A plan in two parts.                                                    *)
LEMMA PlanParts ==
    ASSUME NEW b \in Seq(Pairs), NEW v \in Seq(Pairs), NEW s
    PROVE  /\ PlanEnd(b \o v, s) = PlanEnd(v, PlanEnd(b, s))
           /\ PlanFits(b, s) /\ PlanFits(v, PlanEnd(b, s)) => PlanFits(b \o v, s)
           /\ b \o v = <<>> <=> b = <<>> /\ v = <<>>
<1> DEFINE w == b \o v
<1>1. /\ w \in Seq(Pairs) /\ Len(b) \in Nat /\ Len(v) \in Nat /\ Len(w) = Len(b) + Len(v)
      /\ DOMAIN b = 1 .. Len(b) /\ DOMAIN v = 1 .. Len(v) /\ DOMAIN w = 1 .. Len(w)
      /\ \A i \in DOMAIN b : w[i] = b[i]
      /\ \A i \in DOMAIN v : w[Len(b) + i] = v[i]
      /\ b = <<>> <=> Len(b) = 0
      /\ v = <<>> <=> Len(v) = 0
      /\ w = <<>> <=> Len(w) = 0
  OBVIOUS
<1> HIDE DEF w
<1>2. PlanEnd(w, s) = PlanEnd(v, PlanEnd(b, s))
  <2>1. CASE Len(v) = 0
    <3>1. CASE Len(b) = 0
      BY <1>1, <2>1, <3>1 DEF PlanEnd
    <3>2. CASE Len(b) # 0
      <4>1. Len(w) = Len(b) /\ Len(b) \in DOMAIN b
        BY <1>1, <2>1, <3>2
      <4>2. w[Len(w)] = b[Len(b)]
        BY <1>1, <4>1
      <4> QED
        BY <1>1, <2>1, <3>2, <4>1, <4>2 DEF PlanEnd
    <3> QED
      BY <3>1, <3>2
  <2>2. CASE Len(v) # 0
    <3>1. Len(w) = Len(b) + Len(v) /\ Len(v) \in DOMAIN v /\ Len(w) # 0
      BY <1>1, <2>2
    <3>2. w[Len(w)] = v[Len(v)]
      BY <1>1, <3>1
    <3> QED
      BY <1>1, <2>2, <3>1, <3>2 DEF PlanEnd
  <2> QED
    BY <2>1, <2>2
<1>3. ASSUME PlanFits(b, s), PlanFits(v, PlanEnd(b, s))
      PROVE  PlanFits(w, s)
  <2> SUFFICES ASSUME NEW i \in DOMAIN w
               PROVE  /\ w[i][1] = (IF i = 1 THEN s ELSE w[i - 1][2])
                      /\ is_allowed(w[i][1], w[i][2], NONE)
    BY DEF PlanFits
  <2>1. CASE i \in DOMAIN b
    <3>1. w[i] = b[i] /\ (i # 1 => i - 1 \in DOMAIN b)
      BY <1>1, <2>1
    <3>2. i # 1 => w[i - 1] = b[i - 1]
      BY <1>1, <3>1
    <3> QED
      BY <1>3, <2>1, <3>1, <3>2 DEF PlanFits
  <2>2. CASE i \notin DOMAIN b
    <3> DEFINE k == i - Len(b)
    <3>1. k \in DOMAIN v /\ i = Len(b) + k /\ i \in Nat
      BY <1>1, <2>2
    <3>2. w[i] = v[k]
      BY <1>1, <3>1
    <3>3. /\ v[k][1] = (IF k = 1 THEN PlanEnd(b, s) ELSE v[k - 1][2])
          /\ is_allowed(v[k][1], v[k][2], NONE)
      BY <1>3, <3>1 DEF PlanFits
    <3>4. CASE k = 1 /\ Len(b) = 0
      <4>1. i = 1 /\ PlanEnd(b, s) = s
        BY <1>1, <3>1, <3>4 DEF PlanEnd
      <4> QED
        BY <3>2, <3>3, <3>4, <4>1
    <3>5. CASE k = 1 /\ Len(b) # 0
      <4>1. i # 1 /\ i - 1 = Len(b) /\ i - 1 \in DOMAIN b
        <5>1. i = Len(b) + 1 /\ Len(b) \in Nat /\ Len(b) # 0 /\ DOMAIN b = 1 .. Len(b)
          BY <1>1, <3>1, <3>5
        <5> HIDE DEF k
        <5> QED
          BY <5>1
      <4>2. w[i - 1] = b[Len(b)] /\ PlanEnd(b, s) = b[Len(b)][2]
        BY <1>1, <3>5, <4>1 DEF PlanEnd
      <4> QED
        BY <3>2, <3>3, <3>5, <4>1, <4>2
    <3>6. CASE k # 1
      <4>1. k - 1 \in DOMAIN v /\ i - 1 = Len(b) + (k - 1) /\ i # 1
        BY <1>1, <3>1, <3>6
      <4>2. w[i - 1] = v[k - 1]
        BY <1>1, <4>1
      <4> QED
        BY <3>2, <3>3, <3>6, <4>1, <4>2
    <3> QED
      BY <3>4, <3>5, <3>6
  <2> QED
    BY <2>1, <2>2
<1> QED
  BY <1>1, <1>2, <1>3 DEF w

(* Plans of one transition, and of none.                                   *)
LEMMA PlanOne ==
    ASSUME NEW x, NEW y, NEW s
    PROVE  /\ PlanEnd(<<>>, s) = s /\ PlanFits(<<>>, s)
           /\ PlanEnd(<<<<x, y>>>>, s) = y
           /\ x = s /\ is_allowed(x, y, NONE) => PlanFits(<<<<x, y>>>>, s)
           /\ <<<<x, y>>>> # <<>>
BY DEF PlanEnd, PlanFits

(* The transitions of a state sync are legal.                              *)
LEMMA SyncAllowed ==
    /\ is_allowed("REWORK", "IMPLEMENTING", NONE) /\ is_allowed("IMPLEMENTING", "TESTING", NONE)
    /\ is_allowed("TESTING", "REVIEWING", NONE) /\ is_allowed("REVIEWING", "FINAL_DECISION", NONE)
    /\ is_allowed("PLANNING", "REWORK", NONE) /\ is_allowed("REWORK", "CANCELLED", NONE)
    /\ \A to \in {"DONE", "REWORK", "CANCELLED"} : is_allowed("FINAL_DECISION", to, NONE)
    /\ \A to \in {"REWORK", "CANCELLED"} : is_allowed("LEAD_DECISION", to, NONE)
BY DEF is_allowed, StaticTargets, TerminalStates, PauseStates

(* Where position, role and state of the task fit together.                *)
Legal(kind, p, role, s) ==
    IF kind = "STANDARD" THEN role = StandardSequence[p + 1] /\ s = MainStates[p + 1]
    ELSE /\ s \in ReworkStates(p)
         /\ p = 0 => role = "lead"
         /\ p = 1 => role = "implementer"
         /\ p = 2 => role = "qa"
         /\ p = 3 => role \in {"reviewer", "lead"}
         /\ p = 4 => role = "lead"

(* Where the task is once position p is consumed.                          *)
NextStage(kind, p, role, decision, t) ==
    \/ t \in TerminalStates
    \/ role = "lead" /\ decision = "rework" /\ t = "REWORK"
    \/ ~(role = "lead" /\ decision = "rework") /\ kind = "STANDARD" /\ t = MainStates[p + 2]
    \/ ~(role = "lead" /\ decision = "rework") /\ kind = "REWORK" /\ t \in ReworkStates(p + 1)

(* Whatever is decided there, its plan fits and leads to the next stage.   *)
LEMMA StandardMoves ==
    ASSUME NEW p \in 0 .. 6, NEW decision \in Decisions, NEW role, NEW s,
           Legal("STANDARD", p, role, s)
    PROVE  LET b == BasePlan("STANDARD", p, role, s)
               v == VerdictPlan("STANDARD", p, role, decision)
           IN  /\ PlanFits(b, s) /\ PlanFits(v, PlanEnd(b, s)) /\ b # <<>>
               /\ NextStage("STANDARD", p, role, decision, PlanEnd(v, PlanEnd(b, s)))
<1> DEFINE b == BasePlan("STANDARD", p, role, s)
           v == VerdictPlan("STANDARD", p, role, decision)
           t == MainStates[p + 2]
<1>1. b = <<<<s, t>>>> /\ role = StandardSequence[p + 1] /\ s = MainStates[p + 1]
  BY DEF BasePlan, MainStep, Legal
<1>2. is_allowed(s, t, NONE)
  BY <1>1, MainPairs
<1>3. PlanFits(b, s) /\ PlanEnd(b, s) = t /\ b # <<>>
  BY <1>1, <1>2, PlanOne
<1>4. PlanFits(v, t) /\ NextStage("STANDARD", p, role, decision, PlanEnd(v, t))
  <2>1. CASE v = <<>> /\ ~(role = "lead" /\ decision = "rework")
    <3>1. PlanFits(v, t) /\ PlanEnd(v, t) = t
      BY <2>1, PlanOne
    <3> QED
      BY <2>1, <3>1 DEF NextStage
  <2>2. ASSUME NEW to, v = <<<<t, to>>>>, is_allowed(t, to, NONE),
               to \in TerminalStates \/ (role = "lead" /\ decision = "rework" /\ to = "REWORK")
        PROVE  PlanFits(v, t) /\ NextStage("STANDARD", p, role, decision, PlanEnd(v, t))
    <3>1. PlanFits(v, t) /\ PlanEnd(v, t) = to
      BY <2>2, PlanOne
    <3> HIDE DEF v
    <3> QED
      BY <2>2, <3>1 DEF NextStage
  <2>3. CASE p \in {1, 3, 4, 5}
    <3>1. role # "lead"
      BY <1>1, <2>3 DEF StandardSequence
    <3> QED
      BY <2>1, <3>1 DEF VerdictPlan
  <2>4. CASE p = 0
    <3>1. t = "PLANNING" /\ ~Final("STANDARD", p, role)
      BY <2>4, Tables DEF Final
    <3>2. CASE role = "lead" /\ decision = "rework"
      <4>1. v = <<<<"PLANNING", "REWORK">>>>
        BY <2>4, <3>1, <3>2 DEF VerdictPlan
      <4> QED
        BY <2>2, <3>1, <3>2, <4>1, SyncAllowed
    <3>3. CASE ~(role = "lead" /\ decision = "rework")
      BY <2>1, <2>4, <3>1, <3>3 DEF VerdictPlan
    <3> QED
      BY <3>2, <3>3
  <2>5. CASE p = 2
    <3>1. t = "LEAD_DECISION" /\ ~Final("STANDARD", p, role)
      BY <2>5, Tables DEF Final
    <3>2. CASE role = "lead" /\ decision = "rework"
      <4>1. v = <<<<"LEAD_DECISION", "REWORK">>>>
        BY <2>5, <3>1, <3>2, Tables DEF VerdictPlan
      <4> QED
        BY <2>2, <3>1, <3>2, <4>1, SyncAllowed
    <3>3. CASE role = "lead" /\ decision = "cancel"
      <4>1. v = <<<<"LEAD_DECISION", "CANCELLED">>>>
        BY <2>5, <3>1, <3>3, Tables DEF VerdictPlan
      <4> QED
        BY <2>2, <3>1, <3>3, <4>1, SyncAllowed DEF TerminalStates
    <3>4. CASE role # "lead" \/ decision \in {"accept", "request_owner_gate"}
      BY <2>1, <2>5, <3>1, <3>4 DEF VerdictPlan
    <3> QED
      BY <3>2, <3>3, <3>4 DEF Decisions
  <2>6. CASE p = 6
    <3>1. t = "FINAL_DECISION" /\ role = "lead" /\ Final("STANDARD", p, role)
      BY <1>1, <2>6, Tables DEF Final, StandardSequence
    <3>2. CASE decision = "request_owner_gate"
      BY <2>1, <3>2 DEF VerdictPlan
    <3>3. CASE decision # "request_owner_gate"
      <4>1. v = <<<<t, Decides[decision]>>>>
        BY <3>1, <3>3 DEF VerdictPlan
      <4>2. /\ Decides[decision] \in {"DONE", "REWORK", "CANCELLED"}
            /\ Decides[decision] = "REWORK" => decision = "rework"
        BY <3>3, Tables DEF Decisions
      <4>3. is_allowed(t, Decides[decision], NONE)
        BY <3>1, <4>2, SyncAllowed
      <4> QED
        BY <2>2, <3>1, <4>1, <4>2, <4>3 DEF TerminalStates
    <3> QED
      BY <3>2, <3>3
  <2> QED
    BY <2>3, <2>4, <2>5, <2>6
<1> HIDE DEF b, v, t
<1> QED
  BY <1>3, <1>4 DEF b, v

LEMMA ReworkMoves ==
    ASSUME NEW p \in 0 .. 4, NEW decision \in Decisions, NEW role, NEW s,
           Legal("REWORK", p, role, s)
    PROVE  LET b == BasePlan("REWORK", p, role, s)
               v == VerdictPlan("REWORK", p, role, decision)
           IN  /\ PlanFits(b, s) /\ PlanFits(v, PlanEnd(b, s))
               /\ NextStage("REWORK", p, role, decision, PlanEnd(v, PlanEnd(b, s)))
<1> DEFINE b == BasePlan("REWORK", p, role, s)
           v == VerdictPlan("REWORK", p, role, decision)
<1>0. /\ s \in ReworkStates(p)
      /\ p = 0 => role = "lead"
      /\ p = 1 => role = "implementer"
      /\ p = 2 => role = "qa"
      /\ p = 3 => role \in {"reviewer", "lead"}
      /\ p = 4 => role = "lead"
  BY DEF Legal
<1>1. CASE p = 0
  <2>1. role = "lead" /\ s = "REWORK" /\ ~Final("REWORK", p, role)
    BY <1>0, <1>1 DEF ReworkStates, Final
  <2>2. b = <<>>
    BY <2>1 DEF BasePlan
  <2>3. PlanFits(b, s) /\ PlanEnd(b, s) = s
    BY <2>2, PlanOne
  <2>4. CASE decision = "cancel"
    <3>1. v = <<<<"REWORK", "CANCELLED">>>>
      BY <1>1, <2>1, <2>4 DEF VerdictPlan
    <3>2. PlanFits(v, s) /\ PlanEnd(v, s) = "CANCELLED"
      BY <2>1, <3>1, PlanOne, SyncAllowed
    <3> QED
      BY <2>3, <3>2 DEF NextStage, TerminalStates
  <2>5. CASE decision # "cancel"
    <3>1. v = <<>>
      BY <1>1, <2>1, <2>5 DEF VerdictPlan
    <3>2. PlanFits(v, s) /\ PlanEnd(v, s) = s
      BY <3>1, PlanOne
    <3>3. NextStage("REWORK", p, role, decision, s)
      BY <1>1, <2>1 DEF NextStage, ReworkStates
    <3> HIDE DEF b, v
    <3> QED
      BY <2>3, <3>2, <3>3 DEF b, v
  <2> QED
    BY <2>4, <2>5
<1>2. CASE role \in {"implementer", "qa", "reviewer"}
  <2>1. v = <<>>
    BY <1>2 DEF VerdictPlan
  <2>2. ASSUME NEW t, b = <<<<s, t>>>>, is_allowed(s, t, NONE), t \in ReworkStates(p + 1)
        PROVE  /\ PlanFits(b, s) /\ PlanFits(v, PlanEnd(b, s))
               /\ NextStage("REWORK", p, role, decision, PlanEnd(v, PlanEnd(b, s)))
    <3>1. PlanFits(b, s) /\ PlanEnd(b, s) = t /\ PlanFits(v, t) /\ PlanEnd(v, t) = t
      BY <2>1, <2>2, PlanOne
    <3>2. role # "lead"
      BY <1>2
    <3> HIDE DEF b, v
    <3> QED
      BY <2>2, <3>1, <3>2 DEF NextStage
  <2>3. CASE p = 1
    BY <1>0, <2>2, <2>3, SyncAllowed DEF BasePlan, ReworkStates
  <2>4. CASE p = 2
    BY <1>0, <2>2, <2>4, SyncAllowed DEF BasePlan, ReworkStates
  <2>5. CASE p = 3
    <3>1. role = "reviewer" /\ s = "TESTING"
      BY <1>0, <1>2, <2>5 DEF ReworkStates
    <3>2. b = <<<<"TESTING", "REVIEWING">>>>
      BY <3>1 DEF BasePlan
    <3> QED
      BY <2>2, <2>5, <3>1, <3>2, SyncAllowed DEF ReworkStates
  <2> QED
    BY <1>0, <1>2, <2>3, <2>4, <2>5
<1>3. CASE role = "lead" /\ p \in {3, 4}
  <2>1. Final("REWORK", p, role) /\ s \in {"TESTING", "REVIEWING", "FINAL_DECISION"}
    BY <1>0, <1>3 DEF Final, ReworkStates
  <2>2. PlanFits(b, s) /\ PlanEnd(b, s) = "FINAL_DECISION"
    <3>1. CASE s = "TESTING"
      <4>1. b = <<<<"TESTING", "REVIEWING">>, <<"REVIEWING", "FINAL_DECISION">>>>
        BY <1>3, <2>1, <3>1 DEF BasePlan
      <4> QED
        BY <3>1, <4>1, SyncAllowed DEF PlanFits, PlanEnd
    <3>2. CASE s = "REVIEWING"
      <4>1. b = <<<<"REVIEWING", "FINAL_DECISION">>>>
        BY <1>3, <2>1, <3>2 DEF BasePlan
      <4> QED
        BY <3>2, <4>1, SyncAllowed, PlanOne
    <3>3. CASE s = "FINAL_DECISION"
      <4>1. b = <<>>
        BY <1>3, <2>1, <3>3 DEF BasePlan
      <4> QED
        BY <3>3, <4>1, PlanOne
    <3> QED
      BY <2>1, <3>1, <3>2, <3>3
  <2>3. CASE decision = "request_owner_gate"
    <3>1. v = <<>>
      BY <2>3 DEF VerdictPlan
    <3>2. PlanFits(v, "FINAL_DECISION") /\ PlanEnd(v, "FINAL_DECISION") = "FINAL_DECISION"
      BY <3>1, PlanOne
    <3>3. NextStage("REWORK", p, role, decision, "FINAL_DECISION")
      BY <1>3, <2>3 DEF NextStage, ReworkStates
    <3> HIDE DEF b, v
    <3> QED
      BY <2>2, <3>2, <3>3 DEF b, v
  <2>4. CASE decision # "request_owner_gate"
    <3> DEFINE to == Decides[decision]
    <3>1. v = <<<<"FINAL_DECISION", to>>>>
      BY <1>3, <2>1, <2>4 DEF VerdictPlan
    <3>2. to \in {"DONE", "REWORK", "CANCELLED"} /\ (to = "REWORK" => decision = "rework")
      BY <2>4, Tables DEF Decisions
    <3> HIDE DEF to
    <3>3. PlanFits(v, "FINAL_DECISION") /\ PlanEnd(v, "FINAL_DECISION") = to
      BY <3>1, <3>2, PlanOne, SyncAllowed
    <3>4. NextStage("REWORK", p, role, decision, to)
      BY <1>3, <3>2 DEF NextStage, TerminalStates
    <3> HIDE DEF b, v
    <3> QED
      BY <2>2, <3>3, <3>4 DEF b, v
  <2> QED
    BY <2>3, <2>4
<1> QED
  BY <1>0, <1>1, <1>2, <1>3

(* The two together.                                                       *)
LEMMA StageMoves ==
    ASSUME NEW kind \in {"STANDARD", "REWORK"}, NEW p \in 0 .. 6, kind = "REWORK" => p =< 4,
           NEW decision \in Decisions, NEW role, NEW s, Legal(kind, p, role, s)
    PROVE  LET plan == _state_sync_plan(kind, p, role, decision, s)
           IN  PlanFits(plan, s) /\ NextStage(kind, p, role, decision, PlanEnd(plan, s))
<1> DEFINE b == BasePlan(kind, p, role, s)
           v == VerdictPlan(kind, p, role, decision)
<1>1. /\ _state_sync_plan(kind, p, role, decision, s) = b \o v
      /\ b \in Seq(Pairs) /\ v \in Seq(Pairs)
  BY PlanTyped
<1>2. /\ PlanFits(b, s) /\ PlanFits(v, PlanEnd(b, s))
      /\ NextStage(kind, p, role, decision, PlanEnd(v, PlanEnd(b, s)))
  <2>1. CASE kind = "STANDARD"
    BY <2>1, StandardMoves
  <2>2. CASE kind = "REWORK"
    <3>1. p \in 0 .. 4
      BY <2>2
    <3> QED
      BY <2>2, <3>1, ReworkMoves
  <2> QED
    BY <2>1, <2>2
<1> HIDE DEF b, v
<1> QED
  BY <1>1, <1>2, PlanParts

(* A task that waits at the gate keeps its place when a result comes that  *)
(* moves nothing, and that place is right for the next position too.       *)
LEMMA StageStays ==
    ASSUME NEW kind \in {"STANDARD", "REWORK"}, NEW p \in 0 .. 6, kind = "REWORK" => p =< 4,
           NEW decision \in Decisions, NEW role, NEW s, Legal(kind, p, role, s),
           NEW current, _state_sync_plan(kind, p, role, decision, current) = <<>>
    PROVE  NextStage(kind, p, role, decision, s)
<1> DEFINE b == BasePlan(kind, p, role, current)
           v == VerdictPlan(kind, p, role, decision)
<1>1. b = <<>> /\ v = <<>>
  <2>1. /\ _state_sync_plan(kind, p, role, decision, current) = b \o v
        /\ b \in Seq(Pairs) /\ v \in Seq(Pairs)
    BY PlanTyped
  <2> HIDE DEF b, v
  <2> QED
    BY <2>1, PlanParts
<1>2. kind = "REWORK" /\ role \notin {"implementer", "qa", "reviewer"}
  BY <1>1 DEF BasePlan
<1>3. /\ s \in ReworkStates(p) /\ p \in {0, 3, 4} /\ role = "lead"
  BY <1>2 DEF Legal
<1>4. CASE p = 0
  <2>1. s = "REWORK" /\ s \in ReworkStates(p + 1)
    BY <1>3, <1>4 DEF ReworkStates
  <2> QED
    BY <1>2, <1>3, <2>1 DEF NextStage
<1>5. CASE p \in {3, 4}
  <2>1. Final(kind, p, role)
    BY <1>2, <1>3, <1>5 DEF Final
  <2>2. decision = "request_owner_gate"
    BY <1>1, <1>2, <1>3, <2>1 DEF VerdictPlan
  <2>3. s \in ReworkStates(p + 1)
    BY <1>3, <1>5 DEF ReworkStates
  <2> QED
    BY <1>2, <2>2, <2>3 DEF NextStage
<1> QED
  BY <1>3, <1>4, <1>5

-----------------------------------------------------------------------------
(***************************************************************************)
(* Types of the core, and where the task is.                               *)
(***************************************************************************)

Tasks == [state : States, resume : States \cup {NONE}]
Disps == [status : OpenDispatch \cup {"NONE", "CONSUMED", "FAILED", "REJECTED"},
          role : Roles, cycle : Nat, pos : 0 .. 6, handoff : Nat, run : Nat, bound : BOOLEAN]
Approval == [expires : Nat, status : LiveApproval \cup {"rejected", "expired", "consumed"}]

CoreTypes ==
    /\ now \in Nat /\ task \in Tasks /\ active \in Roles \cup {NONE}
    /\ handoff \in [no : Nat, to : Roles] /\ run \in Nat
    /\ ledger \in Ledger /\ disp \in Disps /\ findings \in BOOLEAN
    /\ approvals \in Seq(Approval) /\ manual \in BOOLEAN /\ late \in BOOLEAN

(* The same types in the names above.                                      *)
LEMMA TypesNamed == (CoreTypeOK <=> CoreTypes) /\ (CoreTypeOK' <=> CoreTypes')
BY DEF CoreTypeOK, CoreTypes, Tasks, Disps, Approval, Ledger

(* The parts of the core's invariant that every command, manual or not,    *)
(* keeps.                                                                  *)
GateInv == CoreTypes /\ PauseInv /\ GateMatchesApproval

(* A resumed task works again where it was.                                *)
LEMMA Resumed ==
    ASSUME NEW t \in Tasks, is_valid_resume_target(t.resume)
    PROVE  /\ ResumedTask(t) = [state |-> t.resume, resume |-> NONE]
           /\ ResumedTask(t) \in Tasks /\ ResumedTask(t).state \notin PauseStates
           /\ t.resume \in States \ (TerminalStates \cup PauseStates)
BY DEF ResumedTask, Tasks, is_valid_resume_target

(* What becomes of an approval.                                            *)
Phases == {"approved", "rejected", "expired", "consumed"}

LEMMA ApprovalSets ==
    ASSUME NEW a \in Seq(Approval), NEW n \in DOMAIN a, NEW s \in Phases
    PROVE  LET b == [a EXCEPT ![n].status = s]
           IN  /\ b \in Seq(Approval) /\ DOMAIN b = DOMAIN a /\ Len(b) = Len(a)
               /\ b[n].status = s /\ b[n].expires = a[n].expires
               /\ \A m \in DOMAIN a : m # n => b[m] = a[m]
<1> DEFINE b == [a EXCEPT ![n].status = s]
           c == [a[n] EXCEPT !.status = s]
<1>1. a[n] \in Approval
  OBVIOUS
<1>2. c \in Approval /\ c.status = s /\ c.expires = a[n].expires
  BY <1>1 DEF Approval, Phases, LiveApproval
<1>3. b = [a EXCEPT ![n] = c]
  OBVIOUS
<1> HIDE DEF b, c
<1>4. b \in Seq(Approval) /\ DOMAIN b = DOMAIN a /\ Len(b) = Len(a)
  BY <1>2, <1>3
<1>5. b[n] = c /\ \A m \in DOMAIN a : m # n => b[m] = a[m]
  BY <1>3
<1> QED
  BY <1>2, <1>4, <1>5 DEF b

(* Letting go of a parked task, which goes back to work or is blocked; no  *)
(* other task is touched.                                                  *)
LEMMA Releases ==
    ASSUME GateInv
    PROVE  /\ ReleasedTask(task)
                = IF Gated THEN [state |-> task.resume, resume |-> NONE] ELSE task
           /\ RejectedTask(task)
                = IF Gated THEN [state |-> "BLOCKED", resume |-> NONE] ELSE task
           /\ ReleasedTask(task) \in Tasks /\ RejectedTask(task) \in Tasks
           /\ Gated => /\ is_valid_resume_target(task.resume)
                       /\ task.resume \in States \ (TerminalStates \cup PauseStates)
<1>1. task \in Tasks
  BY DEF GateInv, CoreTypes
<1>2. CASE Gated
  <2>1. task.state = "OWNER_APPROVAL_REQUIRED"
    BY <1>2 DEF Gated
  <2>2. is_valid_resume_target(task.resume)
    BY <2>1 DEF GateInv, PauseInv, PauseStates
  <2> QED
    BY <1>1, <1>2, <2>1, <2>2, Resumed DEF ReleasedTask, RejectedTask, Tasks, States
<1>3. CASE ~Gated
  BY <1>1, <1>3 DEF ReleasedTask, RejectedTask, Gated
<1> QED
  BY <1>2, <1>3

(* Everything but the gates stays.                                         *)
OthersSame == UNCHANGED <<now, active, handoff, run, ledger, disp, findings, manual>>

(* Who decides or lets go of an open gate: a command of the owner's, the   *)
(* expiry that any of them notices, or a callback.                         *)
GateEnds(n, s) ==
    /\ n \in DOMAIN approvals
    /\ approvals[n].status \in LiveApproval
    /\ approvals' = [approvals EXCEPT ![n].status = s]
    /\ task' = CASE s = "rejected" -> RejectedTask(task)
                 [] s \in {"expired", "consumed"} -> ReleasedTask(task)
                 [] s = "approved" -> task
    /\ s \in {"approved", "rejected"} => approvals[n].status = "pending" /\ ~Overdue(n)
    /\ s = "consumed" => approvals[n].status = "approved" /\ ~Overdue(n)
    /\ s = "expired" => Overdue(n)
    /\ OthersSame /\ late' = late

(* A command that comes back to a closed gate releases the task as well.   *)
LateWord(n) ==
    /\ n \in DOMAIN approvals
    /\ approvals[n].status \notin LiveApproval
    /\ Overdue(n)
    /\ task' = ReleasedTask(task)
    /\ late' = (late \/ Gated)
    /\ UNCHANGED approvals
    /\ OthersSame

(* The owner's commands are such ends or such late words.                  *)
LEMMA OwnerEndsGate ==
    ASSUME GateInv, OwnerCommand
    PROVE  \E n : (\E s \in Phases : GateEnds(n, s)) \/ LateWord(n)
<1>1. PICK n \in DOMAIN approvals :
        Approve(n) \/ Reject(n) \/ ExecuteApproved(n) \/ _expire_and_release(n)
  BY DEF OwnerCommand
<1>2. CASE Approve(n)
  <2>1. GateEnds(n, "approved")
    BY <1>2 DEF Approve, SetStatus, GateEnds, OthersSame, LiveApproval
  <2> QED
    BY <2>1 DEF Phases
<1>3. CASE Reject(n)
  <2>1. GateEnds(n, "rejected")
    BY <1>3 DEF Reject, SetStatus, GateEnds, OthersSame, LiveApproval
  <2> QED
    BY <2>1 DEF Phases
<1>4. CASE ExecuteApproved(n)
  <2>1. GateEnds(n, "consumed")
    BY <1>4, Releases DEF ExecuteApproved, SetStatus, GateEnds, OthersSame, LiveApproval
  <2> QED
    BY <2>1 DEF Phases
<1>5. CASE _expire_and_release(n)
  <2>1. CASE approvals[n].status \in LiveApproval
    <3>1. late \in BOOLEAN
      BY DEF GateInv, CoreTypes
    <3>2. GateEnds(n, "expired")
      BY <1>5, <2>1, <3>1 DEF _expire_and_release, SetStatus, GateEnds, OthersSame
    <3> QED
      BY <3>2 DEF Phases
  <2>2. CASE approvals[n].status \notin LiveApproval
    <3>1. LateWord(n)
      BY <1>5, <2>2 DEF _expire_and_release, LateWord, OthersSame
    <3> QED
      BY <3>1
  <2> QED
    BY <2>1, <2>2
<1> QED
  BY <1>1, <1>2, <1>3, <1>4, <1>5

(* Where a released task and a blocked one are.                            *)
LEMMA Unparked ==
    ASSUME GateInv
    PROVE  /\ task' = ReleasedTask(task) =>
                task' \in Tasks /\ PauseInv' /\ ~Gated' /\ Underlying' = Underlying
           /\ task' = RejectedTask(task) =>
                /\ task' \in Tasks /\ PauseInv' /\ ~Gated'
                /\ Underlying' = IF Gated THEN "BLOCKED" ELSE Underlying
<1>1. CASE ~Gated
  <2>1. /\ ReleasedTask(task) = task /\ RejectedTask(task) = task
        /\ task \in Tasks /\ PauseInv
    BY <1>1, Releases DEF GateInv
  <2> QED
    BY <1>1, <2>1 DEF PauseInv, Gated, Underlying
<1>2. CASE Gated
  <2>1. /\ task.resume \in States \ (TerminalStates \cup PauseStates)
        /\ task.state = "OWNER_APPROVAL_REQUIRED"
        /\ ReleasedTask(task) = [state |-> task.resume, resume |-> NONE]
        /\ RejectedTask(task) = [state |-> "BLOCKED", resume |-> NONE]
        /\ ReleasedTask(task) \in Tasks /\ RejectedTask(task) \in Tasks
    BY <1>2, Releases DEF Gated
  <2>2. Underlying = task.resume
    BY <2>1 DEF Underlying, PauseStates
  <2>3. ASSUME task' = ReleasedTask(task)
        PROVE  task' \in Tasks /\ PauseInv' /\ ~Gated' /\ Underlying' = Underlying
    <3>1. task'.state = task.resume /\ task'.state \notin PauseStates
      BY <2>1, <2>3
    <3> QED
      BY <2>1, <2>2, <2>3, <3>1 DEF PauseInv, Gated, PauseStates, Underlying
  <2>4. ASSUME task' = RejectedTask(task)
        PROVE  task' \in Tasks /\ PauseInv' /\ ~Gated' /\ Underlying' = "BLOCKED"
    <3>1. task'.state = "BLOCKED" /\ task'.state \notin PauseStates
      BY <2>1, <2>4 DEF PauseStates
    <3> QED
      BY <2>1, <2>4, <3>1 DEF PauseInv, Gated, PauseStates, Underlying
  <2> QED
    BY <1>2, <2>3, <2>4
<1> QED
  BY <1>1, <1>2

(* The end of a gate keeps gates and task together.                        *)
LEMMA GateEndKeeps ==
    ASSUME GateInv, NEW n, NEW s \in Phases, GateEnds(n, s)
    PROVE  /\ GateInv'
           /\ Underlying' = IF s = "rejected" /\ Gated THEN "BLOCKED" ELSE Underlying
           /\ Gated' = (Gated /\ s = "approved")
<1> DEFINE lst == Len(approvals)
<1>1. /\ approvals \in Seq(Approval) /\ task \in Tasks /\ PauseInv /\ late \in BOOLEAN
      /\ Gated => lst \in OpenGates
      /\ ~late => OpenGates \subseteq {lst} /\ (OpenGates # {} => Gated)
  BY DEF GateInv, CoreTypes, GateMatchesApproval
<1>2. /\ approvals' \in Seq(Approval) /\ DOMAIN approvals' = DOMAIN approvals
      /\ Len(approvals') = lst /\ approvals'[n].status = s
      /\ \A m \in DOMAIN approvals : m # n => approvals'[m] = approvals[m]
      /\ n \in OpenGates
  BY <1>1, ApprovalSets DEF GateEnds, OpenGates
<1>3. OpenGates' = IF s = "approved" THEN OpenGates ELSE OpenGates \ {n}
  BY <1>2 DEF OpenGates, Phases, LiveApproval
<1>4. late' = late /\ OthersSame
  BY DEF GateEnds
<1> HIDE DEF lst
<1>5. CASE s = "approved"
  <2>1. task' = task
    BY <1>5 DEF GateEnds
  <2> QED
    BY <1>1, <1>2, <1>3, <1>4, <1>5, <2>1 DEF GateInv, CoreTypes, PauseInv, GateMatchesApproval,
       Gated, OthersSame, Underlying, lst
<1>6. CASE s # "approved"
  <2>1. /\ s = "rejected" => task' = RejectedTask(task)
        /\ s # "rejected" => task' = ReleasedTask(task)
    BY <1>6 DEF GateEnds, Phases
  <2>2. /\ task' \in Tasks /\ PauseInv' /\ ~Gated'
        /\ Underlying' = IF s = "rejected" /\ Gated THEN "BLOCKED" ELSE Underlying
    BY <2>1, Unparked
  <2>3. ~late => OpenGates' = {}
    BY <1>1, <1>2, <1>3, <1>6
  <2>4. GateMatchesApproval'
    BY <1>4, <2>2, <2>3 DEF GateMatchesApproval
  <2>5. CoreTypes'
    BY <1>1, <1>2, <1>4, <2>2 DEF GateInv, CoreTypes, OthersSame
  <2>6. Gated' = (Gated /\ s = "approved")
    BY <1>6, <2>2 DEF Gated
  <2> QED
    BY <2>2, <2>4, <2>5, <2>6 DEF GateInv
<1> QED
  BY <1>5, <1>6

(* So does a late word: nothing waits any more.                            *)
LEMMA LateWordKeeps ==
    ASSUME GateInv, NEW n, LateWord(n)
    PROVE  GateInv' /\ Underlying' = Underlying /\ ~Gated'
<1>1. task' \in Tasks /\ PauseInv' /\ ~Gated' /\ Underlying' = Underlying
  BY Unparked DEF LateWord
<1>2. approvals' = approvals /\ late' = (late \/ Gated) /\ OthersSame
  BY DEF LateWord
<1>3. GateMatchesApproval'
  BY <1>1, <1>2 DEF GateInv, GateMatchesApproval, OpenGates
<1>4. late' \in BOOLEAN
  BY <1>2
<1> QED
  BY <1>1, <1>2, <1>3, <1>4 DEF GateInv, CoreTypes, OthersSame

-----------------------------------------------------------------------------
(***************************************************************************)
(* What each command does to gate and task.                                *)
(***************************************************************************)

(* A command that is not about gates leaves a parked task alone and parks  *)
(* none.                                                                   *)
Quiet ==
    /\ UNCHANGED <<now, approvals, late>>
    /\ task' = task \/ (~Gated /\ ~Gated' /\ PauseInv')

(* Such a command keeps gate and task together.                            *)
LEMMA QuietKeeps ==
    ASSUME GateInv, CoreTypes', Quiet
    PROVE  GateInv'
<1>1. CASE task' = task
  BY <1>1 DEF GateInv, Quiet, PauseInv, GateMatchesApproval, Gated, OpenGates
<1>2. CASE ~Gated /\ ~Gated' /\ PauseInv'
  BY <1>2 DEF GateInv, Quiet, GateMatchesApproval, OpenGates
<1> QED
  BY <1>1, <1>2 DEF Quiet

(* The frontier of a well-typed ledger.                                    *)
LEMMA FrontierHere ==
    ASSUME CoreTypes
    PROVE  /\ Frontier.cycle \in Nat /\ Frontier.role \in Roles \cup {NONE}
           /\ Frontier.role # NONE => Frontier.pos \in 0 .. 6 /\ Frontier.role \in Roles
           /\ ledger.rework => /\ Frontier.cycle = ledger.cycle + 1
                               /\ Frontier.pos = 0 /\ Frontier.role = "lead"
           /\ ~ledger.rework => Frontier.cycle = ledger.cycle
BY FrontierIs DEF CoreTypes, Frontier

(* The ledger of a new attempt and of a new cycle.                         *)
LEMMA LedgerSteps ==
    ASSUME NEW l \in Ledger, NEW c \in Nat
    PROVE  /\ l.attempts < MaxAttempts =>
                LET m == [l EXCEPT !.attempts = @ + 1]
                IN  /\ m \in Ledger /\ m.cycle = l.cycle /\ m.kind = l.kind
                    /\ m.toggle = l.toggle /\ m.done = l.done /\ m.rework = l.rework
           /\ [cycle |-> c, kind |-> "REWORK", toggle |-> l.next, done |-> {},
               attempts |-> 1, rework |-> FALSE, next |-> "unset"] \in Ledger
<1>1. l.attempts \in 0 .. MaxAttempts /\ MaxAttempts \in Nat \ {0}
  BY TaskAssumption DEF Ledger
<1>2. ASSUME l.attempts < MaxAttempts
      PROVE  LET m == [l EXCEPT !.attempts = @ + 1]
             IN  /\ m \in Ledger /\ m.cycle = l.cycle /\ m.kind = l.kind
                 /\ m.toggle = l.toggle /\ m.done = l.done /\ m.rework = l.rework
  <2>1. ASSUME NEW n \in 0 .. MaxAttempts
        PROVE  LET m == [l EXCEPT !.attempts = n]
               IN  /\ m \in Ledger /\ m.cycle = l.cycle /\ m.kind = l.kind
                   /\ m.toggle = l.toggle /\ m.done = l.done /\ m.rework = l.rework
    BY DEF Ledger
  <2>2. l.attempts + 1 \in 0 .. MaxAttempts
    BY <1>1, <1>2
  <2>3. [l EXCEPT !.attempts = @ + 1] = [l EXCEPT !.attempts = l.attempts + 1]
    OBVIOUS
  <2> QED
    BY <2>1, <2>2, <2>3
<1>3. [cycle |-> c, kind |-> "REWORK", toggle |-> l.next, done |-> {},
       attempts |-> 1, rework |-> FALSE, next |-> "unset"] \in Ledger
  BY <1>1 DEF Ledger
<1> QED
  BY <1>2, <1>3

(* A new dispatch is the frontier's.                                       *)
LEMMA Dispatches ==
    ASSUME CoreTypes, CreateDispatch
    PROVE  /\ CoreTypes' /\ Quiet
           /\ Frontier.role # NONE
           /\ ledger.rework => ledger' =
                [cycle |-> ledger.cycle + 1, kind |-> "REWORK", toggle |-> ledger.next,
                 done |-> {}, attempts |-> 1, rework |-> FALSE, next |-> "unset"]
           /\ ~ledger.rework => /\ ledger.attempts < MaxAttempts
                                /\ ledger' = [ledger EXCEPT !.attempts = @ + 1]
           /\ disp'.status = "PENDING" /\ disp'.role = active
           /\ disp'.cycle = Frontier.cycle /\ disp'.pos = Frontier.pos
           /\ disp'.handoff = handoff.no /\ disp'.run = run
<1>1. Frontier.role # NONE /\ Frontier.role = active
  BY DEF CreateDispatch
<1>2. ledger \in Ledger /\ ledger.cycle \in Nat
  BY DEF CoreTypes, Ledger
<1>3. /\ ledger.rework => ledger' =
                [cycle |-> ledger.cycle + 1, kind |-> "REWORK", toggle |-> ledger.next,
                 done |-> {}, attempts |-> 1, rework |-> FALSE, next |-> "unset"]
      /\ ~ledger.rework => /\ ledger.attempts < MaxAttempts
                           /\ ledger' = [ledger EXCEPT !.attempts = @ + 1]
  <2>1. CASE ledger.rework
    <3>1. Frontier.cycle = ledger.cycle + 1
      BY <2>1, FrontierHere
    <3>2. Frontier.cycle # ledger.cycle
      BY <1>2, <3>1
    <3> QED
      BY <2>1, <3>1, <3>2 DEF CreateDispatch
  <2>2. CASE ~ledger.rework
    <3>1. Frontier.cycle = ledger.cycle
      BY <2>2, FrontierHere
    <3>2. ~(Frontier.cycle > ledger.cycle)
      BY <1>2, <3>1
    <3> QED
      BY <2>2, <3>1, <3>2 DEF CreateDispatch
  <2> QED
    BY <2>1, <2>2
<1>4. ledger' \in Ledger
  <2>1. ledger.cycle + 1 \in Nat
    BY <1>2
  <2>2. CASE ledger.rework
    BY <1>2, <1>3, <2>1, <2>2, LedgerSteps
  <2>3. CASE ~ledger.rework
    BY <1>2, <1>3, <2>3, LedgerSteps
  <2> QED
    BY <2>2, <2>3
<1>5. disp' \in Disps
  BY <1>1, FrontierHere DEF CreateDispatch, CoreTypes, Disps, OpenDispatch
<1>6. CoreTypes' /\ Quiet
  BY <1>4, <1>5 DEF CreateDispatch, CoreTypes, Quiet
<1> QED
  BY <1>1, <1>3, <1>6 DEF CreateDispatch

(* What becomes of a dispatch.                                             *)
LEMMA DispSteps ==
    ASSUME NEW d \in Disps
    PROVE  /\ \A s \in OpenDispatch \cup {"CONSUMED", "FAILED", "REJECTED", "NONE"} :
                LET e == [d EXCEPT !.status = s]
                IN  /\ e \in Disps /\ e.status = s /\ e.role = d.role /\ e.cycle = d.cycle
                    /\ e.pos = d.pos /\ e.handoff = d.handoff /\ e.run = d.run
           /\ LET e == [d EXCEPT !.status = "RUNNING", !.bound = TRUE]
              IN  /\ e \in Disps /\ e.status = "RUNNING" /\ e.role = d.role
                  /\ e.cycle = d.cycle /\ e.pos = d.pos /\ e.handoff = d.handoff
                  /\ e.run = d.run
BY DEF Disps, OpenDispatch

(* A spawn result binds the dispatch or rejects it.                        *)
LEMMA Binds ==
    ASSUME disp \in Disps, BindSpawnResult
    PROVE  /\ disp' \in Disps /\ disp'.status \in {"RUNNING", "REJECTED"}
           /\ disp'.role = disp.role /\ disp'.cycle = disp.cycle /\ disp'.pos = disp.pos
           /\ disp'.handoff = disp.handoff /\ disp'.run = disp.run
<1>1. CASE disp' = [disp EXCEPT !.status = "RUNNING", !.bound = TRUE]
  BY <1>1 DEF Disps, OpenDispatch
<1>2. CASE disp' = [disp EXCEPT !.status = "REJECTED"]
  BY <1>2 DEF Disps, OpenDispatch
<1> QED
  BY <1>1, <1>2 DEF BindSpawnResult

(* Recovery keeps an unresolved dispatch and closes the others it touches. *)
LEMMA RecoveredIs ==
    ASSUME NEW d \in Disps
    PROVE  /\ Recovered(d) \in OpenDispatch \cup {"CONSUMED", "FAILED", "REJECTED", "NONE"}
           /\ KeepsRun(d) => d.status \in OpenDispatch /\ Recovered(d) \in OpenDispatch
           /\ ~KeepsRun(d) => Recovered(d) \notin OpenDispatch
BY DEF Recovered, KeepsRun, Disps, OpenDispatch

(* What a consumed result decided, and what became of ledger and task.     *)
Consumption(decision, plan) ==
    /\ decision \in Decisions /\ (disp.role # "lead" => decision = "accept")
    /\ plan = _state_sync_plan(ledger.kind, disp.pos, disp.role, decision, SyncState)
    /\ plan \in Seq(Pairs) /\ PlanFits(plan, SyncState)
    /\ plan # <<>> => task.state \notin PauseStates \/ task.state = "RECOVERING"
    /\ Underlying' = IF plan = <<>> THEN Underlying ELSE PlanEnd(plan, SyncState)
    /\ task' = [state |-> PlanEnd(plan, SyncState),
                resume |-> IF plan = <<>> /\ SyncState = task.state
                           THEN task.resume ELSE NONE]
    /\ ledger'.cycle = ledger.cycle /\ ledger'.kind = ledger.kind
    /\ ledger'.toggle = ledger.toggle /\ ledger'.done = ledger.done \cup {disp.pos}
    /\ ledger'.rework = (disp.role = "lead" /\ decision = "rework")
    /\ handoff' = IF Frontier'.role = NONE THEN handoff
                  ELSE [no |-> handoff.no + 1, to |-> Frontier'.role]

(* The ledger of a consumed result.                                        *)
LedgerAfter(l, D, r, n) ==
    [l EXCEPT !.done = D, !.attempts = 0, !.rework = r, !.next = n]

LEMMA LedgerConsumes ==
    ASSUME NEW l \in Ledger, NEW D \in SUBSET (0 .. 6), NEW r \in BOOLEAN,
           NEW n \in {"yes", "no", "unset"}
    PROVE  LET m == LedgerAfter(l, D, r, n)
           IN  /\ m \in Ledger /\ m.cycle = l.cycle /\ m.kind = l.kind
               /\ m.toggle = l.toggle /\ m.done = D /\ m.rework = r
<1>1. 0 \in 0 .. MaxAttempts
  BY TaskAssumption
<1>2. ASSUME NEW a \in 0 .. MaxAttempts
      PROVE  LET m == [l EXCEPT !.done = D, !.attempts = a, !.rework = r]
             IN  /\ m \in Ledger /\ m.cycle = l.cycle /\ m.kind = l.kind
                 /\ m.toggle = l.toggle /\ m.done = D /\ m.rework = r
  BY DEF Ledger
<1>3. ASSUME NEW k \in Ledger
      PROVE  LET m == [k EXCEPT !.next = n]
             IN  /\ m \in Ledger /\ m.cycle = k.cycle /\ m.kind = k.kind
                 /\ m.toggle = k.toggle /\ m.done = k.done /\ m.rework = k.rework
  BY DEF Ledger
<1> DEFINE k == [l EXCEPT !.done = D, !.attempts = 0, !.rework = r]
<1>4. LedgerAfter(l, D, r, n) = [k EXCEPT !.next = n]
  BY DEF LedgerAfter, Ledger
<1> HIDE DEF k
<1>5. /\ k \in Ledger /\ k.cycle = l.cycle /\ k.kind = l.kind
      /\ k.toggle = l.toggle /\ k.done = D /\ k.rework = r
  BY <1>1, <1>2 DEF k
<1> QED
  BY <1>3, <1>4, <1>5

(* What the state sync does to the task.                                   *)
LEMMA TaskConsumes ==
    ASSUME GateInv, NEW plan \in Seq(Pairs), PlanFits(plan, SyncState),
           task' = [state |-> PlanEnd(plan, SyncState),
                    resume |-> IF plan = <<>> /\ SyncState = task.state
                               THEN task.resume ELSE NONE]
    PROVE  /\ task' \in Tasks
           /\ task' = task \/ (~Gated /\ ~Gated' /\ PauseInv')
           /\ plan # <<>> => task.state \notin PauseStates \/ task.state = "RECOVERING"
           /\ Underlying' = IF plan = <<>> THEN Underlying ELSE PlanEnd(plan, SyncState)
<1>1. task \in Tasks /\ (task.state \in PauseStates => is_valid_resume_target(task.resume))
  BY DEF GateInv, CoreTypes, PauseInv
<1>2. CASE plan = <<>>
  <2>1. PlanEnd(plan, SyncState) = SyncState
    BY <1>2, PlanEnds
  <2>2. CASE SyncState = task.state
    <3>1. task' = [state |-> task.state, resume |-> task.resume]
      BY <1>2, <2>1, <2>2
    <3>2. task' = task
      BY <1>1, <3>1 DEF Tasks
    <3> QED
      BY <1>1, <1>2, <3>2 DEF Underlying
  <2>3. CASE SyncState # task.state
    <3>1. task.state = "RECOVERING" /\ SyncState = task.resume
      BY <2>3 DEF SyncState
    <3>2. is_valid_resume_target(task.resume)
      BY <1>1, <3>1 DEF PauseStates
    <3>3. task' = [state |-> task.resume, resume |-> NONE]
      BY <1>2, <2>1, <2>3, <3>1
    <3>4. task.resume \in States \ (TerminalStates \cup PauseStates)
      BY <3>2 DEF is_valid_resume_target
    <3>5. task'.state \notin PauseStates /\ task' \in Tasks
      BY <3>3, <3>4 DEF Tasks
    <3>6. ~Gated /\ ~Gated' /\ PauseInv'
      BY <3>1, <3>5 DEF Gated, PauseInv, PauseStates
    <3>7. Underlying' = task.resume /\ Underlying = task.resume
      BY <3>1, <3>3, <3>5 DEF Underlying, PauseStates
    <3> QED
      BY <1>2, <3>5, <3>6, <3>7
  <2> QED
    BY <2>2, <2>3
<1>3. CASE plan # <<>>
  <2> DEFINE end == PlanEnd(plan, SyncState)
  <2>1. SyncState \in States \ (PauseStates \cup Out) /\ end \in States \ (PauseStates \cup {"BLOCKED"})
    BY <1>3, PlanEnds
  <2>2. task' = [state |-> end, resume |-> NONE]
    BY <1>3
  <2> HIDE DEF end
  <2>3. task' \in Tasks /\ task'.state = end
    BY <2>1, <2>2 DEF Tasks
  <2>4. task.state \notin PauseStates \/ task.state = "RECOVERING"
    BY <2>1 DEF SyncState
  <2>5. ~Gated
    BY <2>4 DEF Gated, PauseStates
  <2>6. ~Gated' /\ PauseInv' /\ Underlying' = end
    BY <2>1, <2>3 DEF Gated, PauseInv, PauseStates, Underlying
  <2> QED
    BY <1>3, <2>3, <2>4, <2>5, <2>6 DEF end
<1> QED
  BY <1>2, <1>3

LEMMA Consumes ==
    ASSUME GateInv, ReceiveAgentResult
    PROVE  /\ CoreTypes' /\ Quiet
           /\ \E decision, plan : Consumption(decision, plan)
<1>1. PICK decision \in IF disp.role = "lead" THEN Decisions ELSE {"accept"},
           toggle \in {"yes", "no", "unset"}, open \in BOOLEAN :
         LET plan == _state_sync_plan(ledger.kind, disp.pos, disp.role,
                                      decision, SyncState)
             reworks == disp.role = "lead" /\ decision = "rework"
             l == [ledger EXCEPT !.done = @ \cup {disp.pos}, !.attempts = 0,
                     !.rework = reworks,
                     !.next = IF reworks THEN toggle ELSE "unset"]
             nxt == _sequence_handoff(l, open)
         IN  /\ toggle # "unset" => reworks
             /\ findings /\ ~open => disp.role = "lead" /\ decision = "accept"
             /\ PlanFits(plan, SyncState)
             /\ findings' = open
             /\ ledger' = l
             /\ handoff' = IF nxt = NONE THEN handoff
                           ELSE [no |-> handoff.no + 1, to |-> nxt]
             /\ task' = [state |-> PlanEnd(plan, SyncState),
                         resume |-> IF plan = <<>> /\ SyncState = task.state
                                    THEN task.resume ELSE NONE]
  BY Zenon DEF ReceiveAgentResult
<1> DEFINE plan == _state_sync_plan(ledger.kind, disp.pos, disp.role, decision, SyncState)
           reworks == disp.role = "lead" /\ decision = "rework"
           n == IF reworks THEN toggle ELSE "unset"
           l == [ledger EXCEPT !.done = @ \cup {disp.pos}, !.attempts = 0,
                               !.rework = reworks, !.next = n]
<1>2. decision \in Decisions /\ (disp.role # "lead" => decision = "accept")
  BY DEF Decisions
<1>3. /\ ledger \in Ledger /\ ledger.kind \in {"STANDARD", "REWORK"}
      /\ disp \in Disps /\ disp.pos \in 0 .. 6 /\ handoff.no \in Nat
      /\ handoff \in [no : Nat, to : Roles]
  BY DEF GateInv, CoreTypes, Ledger, Disps
<1>4. plan \in Seq(Pairs)
  BY <1>2, <1>3, PlanTyped
<1>5. n \in {"yes", "no", "unset"} /\ reworks \in BOOLEAN
  OBVIOUS
<1>6. ledger' = l
  BY <1>1
<1> DEFINE D == ledger.done \cup {disp.pos}
<1>7. /\ l \in Ledger /\ l.cycle = ledger.cycle /\ l.kind = ledger.kind
      /\ l.toggle = ledger.toggle /\ l.done = D /\ l.rework = reworks
  <2>1. l = LedgerAfter(ledger, D, reworks, n)
    BY Zenon DEF LedgerAfter
  <2>2. D \in SUBSET (0 .. 6)
    BY <1>3 DEF Ledger
  <2> HIDE DEF n, reworks, l, D
  <2> QED
    BY <1>3, <1>5, <2>1, <2>2, LedgerConsumes
<1>8. /\ task' = [state |-> PlanEnd(plan, SyncState),
                  resume |-> IF plan = <<>> /\ SyncState = task.state
                             THEN task.resume ELSE NONE]
      /\ PlanFits(plan, SyncState)
  BY <1>1
<1> DEFINE nxt == _sequence_handoff(l, open)
<1>9. nxt = Frontier'.role /\ findings' = open
  BY <1>1, <1>6 DEF _sequence_handoff, Frontier
<1>10. handoff' = IF nxt = NONE THEN handoff ELSE [no |-> handoff.no + 1, to |-> nxt]
  BY <1>1
<1>11. nxt \in Roles \cup {NONE}
  <2> HIDE DEF l
  <2> QED
    BY <1>7, FrontierIs DEF _sequence_handoff
<1> HIDE DEF plan, reworks, n, l, nxt
<1>12. /\ task' \in Tasks
       /\ task' = task \/ (~Gated /\ ~Gated' /\ PauseInv')
       /\ plan # <<>> => task.state \notin PauseStates \/ task.state = "RECOVERING"
       /\ Underlying' = IF plan = <<>> THEN Underlying ELSE PlanEnd(plan, SyncState)
  BY <1>4, <1>8, TaskConsumes
<1>13. handoff' \in [no : Nat, to : Roles]
  <2>1. CASE nxt = NONE
    BY <1>3, <1>10, <2>1
  <2>2. CASE nxt # NONE
    BY <1>3, <1>10, <1>11, <2>2
  <2> QED
    BY <2>1, <2>2
<1>14. disp' \in Disps /\ active' = NONE
  BY <1>3, DispSteps DEF ReceiveAgentResult
<1>15. UNCHANGED <<now, run, approvals, manual, late>>
  BY DEF ReceiveAgentResult
<1>16. CoreTypes' /\ Quiet
  BY <1>6, <1>7, <1>9, <1>12, <1>13, <1>14, <1>15 DEF GateInv, CoreTypes, Quiet
<1>17. ledger'.rework = (disp.role = "lead" /\ decision = "rework")
  BY <1>6, <1>7 DEF reworks
<1>18. Consumption(decision, plan)
  BY <1>2, <1>4, <1>6, <1>7, <1>8, <1>9, <1>10, <1>12, <1>17 DEF Consumption, plan
<1> QED
  BY <1>16, <1>18

(* Recovery keeps a parked task, and a task in recovery that is released   *)
(* works again where it was.                                               *)
LEMMA Recovers ==
    ASSUME GateInv, Recover
    PROVE  CoreTypes' /\ Quiet /\ Underlying' = Underlying
<1>1. /\ task \in Tasks /\ disp \in Disps
      /\ task.state \in PauseStates => is_valid_resume_target(task.resume)
  BY DEF GateInv, CoreTypes, PauseInv
<1>2. Recovered(disp) \in OpenDispatch \cup {"CONSUMED", "FAILED", "REJECTED", "NONE"}
  BY <1>1, RecoveredIs
<1>3. disp' \in Disps
  BY <1>1, <1>2, DispSteps DEF Recover
<1>4. /\ task' \in Tasks
      /\ task' = task \/ (~Gated /\ ~Gated' /\ PauseInv')
      /\ Underlying' = Underlying
  <2>1. CASE task' = task
    BY <1>1, <2>1 DEF Underlying
  <2>2. CASE /\ task.state \notin TerminalStates \cup PauseStates
             /\ task' = [state |-> "RECOVERING", resume |-> task.state]
    <3>1. task.state \in States
      BY <1>1 DEF Tasks
    <3>2. task' \in Tasks /\ is_valid_resume_target(task'.resume) /\ task'.state \in PauseStates
      BY <2>2, <3>1 DEF Tasks, States, PauseStates, is_valid_resume_target
    <3>3. ~Gated /\ ~Gated' /\ PauseInv'
      BY <2>2, <3>2 DEF Gated, PauseInv, PauseStates
    <3> QED
      BY <2>2, <3>2, <3>3 DEF Underlying
  <2>3. CASE task.state = "RECOVERING" /\ task' = ResumedTask(task)
    <3>1. is_valid_resume_target(task.resume)
      BY <1>1, <2>3 DEF PauseStates
    <3>2. /\ task' = [state |-> task.resume, resume |-> NONE] /\ task' \in Tasks
          /\ task'.state \notin PauseStates
      BY <1>1, <2>3, <3>1, Resumed
    <3> QED
      BY <2>3, <3>2 DEF Gated, PauseInv, PauseStates, Underlying
  <2> QED
    BY <2>1, <2>2, <2>3 DEF Recover
<1>5. active' \in Roles \cup {NONE}
  BY DEF Recover, GateInv, CoreTypes
<1>6. UNCHANGED <<now, handoff, run, ledger, findings, approvals, manual, late>>
  BY DEF Recover
<1> QED
  BY <1>3, <1>4, <1>5, <1>6 DEF GateInv, CoreTypes, Quiet

(* A retry is the same role's.                                             *)
LEMMA Fails ==
    ASSUME GateInv, MarkAgentFailed
    PROVE  CoreTypes' /\ Quiet /\ handoff'.to = disp.role /\ UNCHANGED task
<1>1. disp \in Disps /\ disp.role \in Roles /\ handoff.no \in Nat /\ active \in Roles \cup {NONE}
  BY DEF GateInv, CoreTypes, Disps
<1>2. disp' \in Disps
  BY <1>1, DispSteps DEF MarkAgentFailed
<1>3. handoff' \in [no : Nat, to : Roles] /\ handoff'.to = disp.role
  BY <1>1 DEF MarkAgentFailed
<1>4. active' \in Roles \cup {NONE}
  BY <1>1 DEF MarkAgentFailed
<1> QED
  BY <1>2, <1>3, <1>4 DEF MarkAgentFailed, GateInv, CoreTypes, Quiet

(* The lead's own transition neither enters nor leaves a pause.            *)
LEMMA Transits ==
    ASSUME GateInv, Transition
    PROVE  CoreTypes' /\ Quiet /\ manual'
<1>1. PICK to \in States \ PauseStates :
        task.state \notin PauseStates /\ task' = [state |-> to, resume |-> NONE]
  BY DEF Transition
<1>2. task' \in Tasks /\ task'.state = to
  BY <1>1 DEF Tasks
<1>3. ~Gated /\ ~Gated' /\ PauseInv'
  BY <1>1, <1>2 DEF Gated, PauseInv, PauseStates
<1> QED
  BY <1>2, <1>3 DEF Transition, GateInv, CoreTypes, Quiet

(* The next role by the table is a role.                                   *)
LEMMA NextRoles == \A r : DefaultNextRole(r) \in Roles
BY DEF DefaultNextRole, Roles

(* A request parks the task and opens a gate.                              *)
LEMMA Requested ==
    ASSUME GateInv, RequestAction
    PROVE  GateInv' /\ Underlying' = Underlying /\ ~Gated /\ Gated'
<1>1. task \in Tasks /\ approvals \in Seq(Approval) /\ now + ApprovalTTL \in Nat
  BY TaskAssumption DEF GateInv, CoreTypes
<1> DEFINE a == [expires |-> now + ApprovalTTL, status |-> "pending"]
<1>2. a \in Approval /\ a.status = "pending" /\ approvals' = Append(approvals, a)
  BY <1>1 DEF RequestAction, Approval, LiveApproval
<1> HIDE DEF a
<1>3. /\ approvals' \in Seq(Approval) /\ Len(approvals') = Len(approvals) + 1
      /\ DOMAIN approvals' = 1 .. Len(approvals) + 1 /\ DOMAIN approvals = 1 .. Len(approvals)
      /\ Len(approvals) \in Nat
      /\ approvals'[Len(approvals) + 1] = a
      /\ \A m \in DOMAIN approvals : approvals'[m] = approvals[m]
  BY <1>1, <1>2
<1>4. is_valid_resume_target(task.state) /\ task.state \notin PauseStates /\ task.state \in States
  BY DEF RequestAction, Actionable, MainPath, TerminalStates, PauseStates, States,
     is_valid_resume_target
<1>5. task' = [state |-> "OWNER_APPROVAL_REQUIRED", resume |-> task.state]
  BY DEF RequestAction
<1>6. task' \in Tasks /\ PauseInv' /\ Gated' /\ ~Gated
  BY <1>4, <1>5 DEF Tasks, States, PauseStates, PauseInv, Gated, is_valid_resume_target
<1>7. Underlying' = Underlying
  BY <1>4, <1>5 DEF Underlying, PauseStates
<1>8. late' = late /\ UNCHANGED <<now, active, handoff, run, ledger, disp, findings, manual>>
  BY DEF RequestAction
<1>9. GateMatchesApproval'
  <2>1. OpenGates' = OpenGates \cup {Len(approvals')}
    <3>1. \A m : m \in DOMAIN approvals' <=> m \in DOMAIN approvals \/ m = Len(approvals')
      BY <1>3
    <3>2. approvals'[Len(approvals')].status = "pending" /\ Len(approvals') \notin DOMAIN approvals
      BY <1>2, <1>3
    <3> QED
      BY <1>3, <3>1, <3>2 DEF OpenGates, LiveApproval
  <2>2. ~late => OpenGates = {}
    BY <1>6 DEF GateInv, GateMatchesApproval
  <2> QED
    BY <1>6, <1>8, <2>1, <2>2 DEF GateMatchesApproval
<1> QED
  BY <1>3, <1>6, <1>7, <1>8, <1>9 DEF GateInv, CoreTypes

(* Every command of the core is quiet, or opens a gate, ends one or lets   *)
(* time pass.                                                              *)
LEMMA CoreSteps ==
    ASSUME GateInv, CoreNext
    PROVE  \/ CoreTypes' /\ Quiet
           \/ RequestAction
           \/ OwnerCommand
           \/ Tick
<1> USE DEF GateInv
<1>0. disp \in Disps /\ run + 1 \in Nat /\ handoff.no + 1 \in Nat
  BY DEF CoreTypes
<1>1. CASE StartRole
  BY <1>1 DEF StartRole, CoreTypes, Quiet
<1>2. CASE CreateDispatch
  BY <1>2, Dispatches
<1>3. CASE BindSpawnResult
  <2>1. disp' \in Disps
    BY <1>0, <1>3, Binds
  <2> QED
    BY <1>3, <2>1 DEF BindSpawnResult, CoreTypes, Quiet
<1>4. CASE ReceiveAgentResult
  BY <1>4, Consumes
<1>5. CASE ReceiveMalformed
  <2>1. disp' \in Disps
    BY <1>0, <1>5, DispSteps DEF ReceiveMalformed
  <2> QED
    BY <1>5, <2>1 DEF ReceiveMalformed, CoreTypes, Quiet
<1>6. CASE MarkAgentFailed
  BY <1>6, Fails
<1>7. CASE Recover
  BY <1>7, Recovers
<1>8. CASE Transition
  BY <1>8, Transits
<1>9. CASE EndRole
  <2>1. handoff' \in [no : Nat, to : Roles]
    BY <1>0, <1>9, NextRoles DEF EndRole
  <2> QED
    BY <1>9, <2>1 DEF EndRole, CoreTypes, Quiet
<1>10. CASE ChangeFindings
  <2>1. findings' \in BOOLEAN
    BY <1>10 DEF ChangeFindings
  <2> QED
    BY <1>10, <2>1 DEF ChangeFindings, CoreTypes, Quiet
<1>11. CASE StartTaskRun
  BY <1>0, <1>11 DEF StartTaskRun, CoreTypes, Quiet
<1> QED
  BY <1>1, <1>2, <1>3, <1>4, <1>5, <1>6, <1>7, <1>8, <1>9, <1>10, <1>11 DEF CoreNext

-----------------------------------------------------------------------------
(***************************************************************************)
(* Callbacks, and the gates of commands and callbacks together.            *)
(***************************************************************************)

Outcomes == {"DUPLICATE_UPDATE", "STALE_UPDATE", "WRONG_CHAT", "UNKNOWN_TOKEN",
             "USED_TOKEN", "EXPIRED_TOKEN", "STALE_MESSAGE", "APPROVAL_NOT_PENDING",
             "EXPIRED_APPROVAL", "APPROVED", "REJECTED"}

(* What is known of an update that decides a gate, or finds it overdue.    *)
LEMMA OutcomeIs ==
    ASSUME NEW u
    PROVE  LET o == CallbackOutcome(u)
               m == sent[u]
               ch == challenges[m.c]
           IN  /\ o \in Outcomes
               /\ o \in {"APPROVED", "REJECTED", "EXPIRED_APPROVAL"} =>
                    /\ u \notin DOMAIN log /\ ~Overtaken(u) /\ m.owner /\ m.c # 0
                    /\ ch.status \notin Consumed /\ ~(ch.expires =< now)
                    /\ ~(m.date < ch.created) /\ ~(m.date >= ch.expires)
                    /\ approvals[ch.ap].status = "pending"
               /\ o = "EXPIRED_APPROVAL" => Overdue(ch.ap)
               /\ o \in {"APPROVED", "REJECTED"} => ~Overdue(ch.ap)
               /\ o = "APPROVED" => m.approve
               /\ o = "REJECTED" => ~m.approve
               /\ o = "EXPIRED_TOKEN" => m.c # 0 /\ ch.status \notin Consumed
               /\ o = "STALE_UPDATE" => Overtaken(u)
               /\ o \notin {"STALE_UPDATE", "DUPLICATE_UPDATE"} => ~Overtaken(u)
<1> DEFINE o == CallbackOutcome(u)
           m == sent[u]
           ch == challenges[m.c]
           due == Overdue(ch.ap)
           old == m.date < ch.created
           over == m.date >= ch.expires
           dead == ch.expires =< now
           early == m.date > now + FutureSkew
           o1 == IF ~GatePending(ch) THEN "APPROVAL_NOT_PENDING"
                 ELSE IF due THEN "EXPIRED_APPROVAL"
                 ELSE IF m.approve THEN "APPROVED" ELSE "REJECTED"
           o2 == IF old THEN "STALE_MESSAGE" ELSE IF over THEN "EXPIRED_TOKEN"
                 ELSE IF early THEN "STALE_MESSAGE" ELSE o1
           o3 == IF ~m.owner THEN "WRONG_CHAT"
                 ELSE IF m.c = 0 THEN "UNKNOWN_TOKEN"
                 ELSE IF ch.status \in Consumed THEN "USED_TOKEN"
                 ELSE IF ch.status = "EXPIRED" \/ dead THEN "EXPIRED_TOKEN" ELSE o2
<1>3. o = IF u \in DOMAIN log THEN "DUPLICATE_UPDATE"
          ELSE IF Overtaken(u) THEN "STALE_UPDATE" ELSE o3
  BY DEF CallbackOutcome, GateOf
<1>4. /\ o1 \in {"APPROVAL_NOT_PENDING", "EXPIRED_APPROVAL", "APPROVED", "REJECTED"}
      /\ o1 # "APPROVAL_NOT_PENDING" => approvals[ch.ap].status = "pending"
      /\ o1 = "EXPIRED_APPROVAL" => due
      /\ o1 \in {"APPROVED", "REJECTED"} => ~due
      /\ o1 = "APPROVED" => m.approve
      /\ o1 = "REJECTED" => ~m.approve
  BY DEF GatePending, GateOf
<1> HIDE DEF o1
<1>5. /\ o2 \in {"STALE_MESSAGE", "EXPIRED_TOKEN"} \/ (o2 = o1 /\ ~old /\ ~over)
  OBVIOUS
<1> HIDE DEF o2
<1>6. \/ o3 \in {"WRONG_CHAT", "UNKNOWN_TOKEN", "USED_TOKEN"}
      \/ o3 = "EXPIRED_TOKEN" /\ m.c # 0 /\ ch.status \notin Consumed
      \/ o3 = o2 /\ m.owner /\ m.c # 0 /\ ch.status \notin Consumed /\ ~dead
  OBVIOUS
<1> HIDE DEF o3
<1>7. \/ o = "DUPLICATE_UPDATE"
      \/ o = "STALE_UPDATE" /\ Overtaken(u)
      \/ o = o3 /\ u \notin DOMAIN log /\ ~Overtaken(u)
  BY <1>3
<1>8. o3 \in Outcomes /\ o3 \notin {"STALE_UPDATE", "DUPLICATE_UPDATE"}
  BY <1>4, <1>5, <1>6 DEF Outcomes
<1> QED
  <2> HIDE DEF o
  <2>1. o \in Outcomes
    BY <1>7, <1>8 DEF Outcomes
  <2>2. o \in {"APPROVED", "REJECTED", "EXPIRED_APPROVAL"} =>
          o = o3 /\ o3 = o2 /\ o2 = o1
    BY <1>4, <1>5, <1>6, <1>7
  <2>3. o = "EXPIRED_TOKEN" => m.c # 0 /\ ch.status \notin Consumed
    BY <1>4, <1>5, <1>6, <1>7
  <2>4. /\ o = "STALE_UPDATE" => Overtaken(u)
        /\ o \notin {"STALE_UPDATE", "DUPLICATE_UPDATE"} => ~Overtaken(u)
    BY <1>7, <1>8
  <2>5. o \in {"APPROVED", "REJECTED", "EXPIRED_APPROVAL"} =>
          /\ u \notin DOMAIN log /\ ~Overtaken(u) /\ m.owner /\ m.c # 0
          /\ ch.status \notin Consumed /\ ~dead /\ ~old /\ ~over
    BY <1>4, <1>5, <1>6, <1>7
  <2> HIDE DEF m, ch
  <2> QED
    BY <1>4, <2>1, <2>2, <2>3, <2>4, <2>5 DEF o, m, ch

(* A callback ends its token's gate, or leaves gates and task alone.       *)
LEMMA CallbackGate ==
    ASSUME GateInv, TokensInv, NEW u \in DOMAIN sent, process_callback(u)
    PROVE  LET o == CallbackOutcome(u)
               n == challenges[sent[u].c].ap
           IN  \/ /\ CoreTypes' /\ Quiet /\ UNCHANGED <<task, coreVars>>
                  /\ o \notin {"APPROVED", "REJECTED", "EXPIRED_APPROVAL"}
               \/ GateEnds(n, "approved") /\ o = "APPROVED"
               \/ GateEnds(n, "rejected") /\ o = "REJECTED"
               \/ GateEnds(n, "expired") /\ o = "EXPIRED_APPROVAL"
<1> DEFINE o == CallbackOutcome(u)
           n == challenges[sent[u].c].ap
<1>1. /\ IF o \in {"APPROVED", "REJECTED", "EXPIRED_APPROVAL"}
         THEN approvals' = [approvals EXCEPT ![n].status = GateAfter(o)]
         ELSE UNCHANGED approvals
      /\ task' = CASE o = "REJECTED" -> RejectedTask(task)
                   [] o = "EXPIRED_APPROVAL" -> ReleasedTask(task)
                   [] OTHER -> task
      /\ OthersSame /\ late' = late
  BY DEF process_callback, OthersSame, SetStatus, GateOf
<1>2. /\ o \in {"APPROVED", "REJECTED", "EXPIRED_APPROVAL"} =>
           approvals[n].status = "pending" /\ sent[u].c # 0
      /\ o = "EXPIRED_APPROVAL" => Overdue(n)
      /\ o \in {"APPROVED", "REJECTED"} => ~Overdue(n)
  BY OutcomeIs
<1>3. sent[u].c # 0 => n \in DOMAIN approvals
  BY DEF TokensInv, TokenInv
<1> HIDE DEF o, n
<1>4. CASE o = "APPROVED"
  <2>1. approvals' = [approvals EXCEPT ![n].status = "approved"] /\ task' = task
    BY <1>1, <1>4 DEF GateAfter
  <2> QED
    BY <1>1, <1>2, <1>3, <1>4, <2>1 DEF GateEnds, LiveApproval, o, n
<1>5. CASE o = "REJECTED"
  <2>1. approvals' = [approvals EXCEPT ![n].status = "rejected"] /\ task' = RejectedTask(task)
    BY <1>1, <1>5 DEF GateAfter
  <2> QED
    BY <1>1, <1>2, <1>3, <1>5, <2>1 DEF GateEnds, LiveApproval, o, n
<1>6. CASE o = "EXPIRED_APPROVAL"
  <2>1. approvals' = [approvals EXCEPT ![n].status = "expired"] /\ task' = ReleasedTask(task)
    BY <1>1, <1>6 DEF GateAfter
  <2> QED
    BY <1>1, <1>2, <1>3, <1>6, <2>1 DEF GateEnds, LiveApproval, o, n
<1>7. CASE o \notin {"APPROVED", "REJECTED", "EXPIRED_APPROVAL"}
  <2>1. approvals' = approvals /\ task' = task
    BY <1>1, <1>7
  <2> QED
    BY <1>1, <1>7, <2>1 DEF OthersSame, GateInv, CoreTypes, Quiet, coreVars, o
<1> QED
  BY <1>4, <1>5, <1>6, <1>7 DEF o, n

(* The steps of the whole, as the gates see them.                          *)
GateEnd == \E n : (\E s \in Phases : GateEnds(n, s)) \/ LateWord(n)

GateStep ==
    \/ CoreTypes' /\ Quiet
    \/ RequestAction
    \/ GateEnd
    \/ Tick

LEMMA CallbackEnds ==
    ASSUME GateInv, TokensInv, NEW u \in DOMAIN sent, process_callback(u)
    PROVE  (CoreTypes' /\ Quiet /\ UNCHANGED coreVars) \/ GateEnd
<1>1. {"approved", "rejected", "expired"} \subseteq Phases
  BY DEF Phases
<1> QED
  BY <1>1, CallbackGate DEF GateEnd

LEMMA GateSteps ==
    ASSUME GateInv, TokensInv, [InboundNext]_allVars
    PROVE  GateStep
<1>1. CASE CoreCommand
  <2>1. CoreNext
    BY <1>1 DEF CoreCommand
  <2> QED
    BY <2>1, CoreSteps, OwnerEndsGate DEF GateStep, GateEnd
<1>2. CASE UNCHANGED coreVars
  BY <1>2 DEF coreVars, GateStep, GateInv, CoreTypes, Quiet
<1>3. CASE \E u \in DOMAIN sent : process_callback(u)
  BY <1>3, CallbackEnds DEF GateStep
<1>4. /\ \A n : create_challenge(n) => UNCHANGED coreVars
      /\ Stray \/ (\E c \in DOMAIN challenges : Press(c)) => UNCHANGED coreVars
  BY DEF create_challenge, Stray, Press
<1>5. UNCHANGED allVars => UNCHANGED coreVars
  BY DEF allVars
<1> QED
  BY <1>1, <1>2, <1>3, <1>4, <1>5 DEF InboundNext

(* Types, the way back from a pause, and gates and task together are kept  *)
(* by every step.                                                          *)
LEMMA GateInvKept ==
    ASSUME GateInv, GateStep
    PROVE  GateInv'
<1>1. CASE Tick
  <2>1. now + 1 \in Nat
    BY DEF GateInv, CoreTypes
  <2> QED
    BY <1>1, <2>1 DEF Tick, GateInv, CoreTypes, PauseInv, GateMatchesApproval, Gated, OpenGates
<1> QED
  BY <1>1, QuietKeeps, Requested, GateEndKeeps, LateWordKeeps DEF GateStep, GateEnd

(* The implementation of OwnerGate, step by step.                          *)
LEMMA GateEndRefines ==
    ASSUME GateInv, NEW n, NEW s \in Phases, GateEnds(n, s)
    PROVE  Gate!Grant(n) \/ Gate!Deny(n) \/ Gate!Use(n) \/ Gate!Lapse(n)
<1>1. /\ Underlying' = IF s = "rejected" /\ Gated THEN "BLOCKED" ELSE Underlying
      /\ Gated' = (Gated /\ s = "approved")
  BY GateEndKeeps
<1>2. approvals' = [approvals EXCEPT ![n].status = s] /\ now' = now /\ approvals[n].status \in LiveApproval
  BY DEF GateEnds, OthersSame
<1>3. Gate!InTime(n) <=> ~Overdue(n)
  <2>1. now \in Nat /\ approvals[n] \in Approval
    BY DEF GateEnds, GateInv, CoreTypes
  <2>2. approvals[n].expires \in Nat
    BY <2>1 DEF Approval
  <2> QED
    BY <2>1, <2>2 DEF Gate!InTime, Overdue
<1>4. CASE s = "approved"
  <2>1. Gated' = Gated
    BY <1>1, <1>4 DEF Gated
  <2> QED
    BY <1>1, <1>2, <1>3, <1>4, <2>1 DEF GateEnds, Gate!Grant, Gate!Set
<1>5. CASE s = "rejected"
  BY <1>1, <1>2, <1>3, <1>5 DEF GateEnds, Gate!Deny, Gate!Set
<1>6. CASE s = "expired"
  BY <1>1, <1>2, <1>3, <1>6 DEF GateEnds, Gate!Lapse, Gate!Set, LiveApproval
<1>7. CASE s = "consumed"
  BY <1>1, <1>2, <1>3, <1>7 DEF GateEnds, Gate!Use, Gate!Set
<1> QED
  BY <1>4, <1>5, <1>6, <1>7 DEF Phases

LEMMA LateWordRefines ==
    ASSUME GateInv, NEW n, LateWord(n)
    PROVE  Gate!Lapse(n)
<1>1. Underlying' = Underlying /\ Gated' = FALSE
  BY LateWordKeeps
<1>2. now \in Nat /\ approvals[n] \in Approval
  BY DEF LateWord, GateInv, CoreTypes
<1>3. approvals[n].expires \in Nat
  BY <1>2 DEF Approval
<1>4. ~Gate!InTime(n)
  BY <1>2, <1>3 DEF Gate!InTime, LateWord, Overdue
<1> QED
  BY <1>1, <1>4 DEF LateWord, OthersSame, Gate!Lapse, LiveApproval

LEMMA GateStepRefines ==
    ASSUME GateInv, GateStep
    PROVE  [Gate!GateNext]_Gate!gateVars
<1> USE DEF Gate!GateNext, Gate!gateVars
<1>1. CASE CoreTypes' /\ Quiet
  <2>1. CASE task' = task
    BY <1>1, <2>1 DEF Quiet, Gated, Underlying
  <2>2. CASE ~Gated /\ ~Gated'
    <3>1. CASE Underlying' = Underlying
      BY <1>1, <2>2, <3>1 DEF Quiet, Gated
    <3>2. CASE Underlying' # Underlying
      BY <1>1, <2>2, <3>2 DEF Quiet, Gate!Work, Gated
    <3> QED
      BY <3>1, <3>2
  <2> QED
    BY <1>1, <2>1, <2>2 DEF Quiet
<1>2. CASE RequestAction
  <2>1. ~Gated /\ Gated' /\ Underlying' = Underlying
    BY <1>2, Requested
  <2>2. Gate!Open
    BY <1>2, <2>1 DEF RequestAction, Gate!Open
  <2> QED
    BY <2>2
<1>3. CASE GateEnd
  <2>1. PICK n : (\E s \in Phases : GateEnds(n, s)) \/ LateWord(n)
    BY <1>3 DEF GateEnd
  <2>2. n \in DOMAIN approvals
    BY <2>1 DEF GateEnds, LateWord
  <2>3. Gate!Grant(n) \/ Gate!Deny(n) \/ Gate!Use(n) \/ Gate!Lapse(n)
    BY <2>1, GateEndRefines, LateWordRefines
  <2> QED
    BY <2>2, <2>3
<1>4. CASE Tick
  BY <1>4 DEF Tick, Gate!Pass, Gated, Underlying
<1> QED
  BY <1>1, <1>2, <1>3, <1>4 DEF GateStep

-----------------------------------------------------------------------------
(***************************************************************************)
(* Verdicts.                                                               *)
(***************************************************************************)

(* The verdict of a decision made now.                                     *)
VerdictNow(n, by) ==
    [gate |-> n, by |-> by, approve |-> approvals'[n].status = "approved"]

(* The gates that are decided now.                                         *)
DecidedNow ==
    {n \in DOMAIN approvals : /\ approvals'[n].status # approvals[n].status
                              /\ approvals'[n].status \in {"approved", "rejected"}}

LEMMA DecidedIs ==
    ASSUME NEW by
    PROVE  /\ DecidedNow = {} => Decided(by) = verdict
           /\ \A n : DecidedNow = {n} => Decided(by) = Append(verdict, VerdictNow(n, by))
<1>1. Decided(by) = IF DecidedNow = {} THEN verdict
                    ELSE LET n == CHOOSE m \in DecidedNow : TRUE
                         IN  Append(verdict, VerdictNow(n, by))
  BY Zenon DEF Decided, DecidedNow, VerdictNow
<1>2. ASSUME NEW n, DecidedNow = {n}
      PROVE  Decided(by) = Append(verdict, VerdictNow(n, by))
  <2>1. (CHOOSE m \in DecidedNow : TRUE) = n
    BY <1>2
  <2>2. DecidedNow # {}
    BY <1>2
  <2> QED
    BY <1>1, <2>1, <2>2, Zenon
<1> QED
  BY <1>1, <1>2

(* The end of a gate is a decision on it, or none.                         *)
LEMMA EndDecides ==
    ASSUME GateInv, NEW n, NEW s \in Phases, GateEnds(n, s)
    PROVE  /\ DecidedNow = IF s \in {"approved", "rejected"} THEN {n} ELSE {}
           /\ n \in DOMAIN approvals /\ approvals'[n].status = s
           /\ s \in {"approved", "rejected"} => approvals[n].status = "pending"
           /\ DOMAIN approvals' = DOMAIN approvals
           /\ \A m \in DOMAIN approvals : m # n => approvals'[m] = approvals[m]
           /\ approvals[n].status \in LiveApproval
<1>1. /\ n \in DOMAIN approvals /\ DOMAIN approvals' = DOMAIN approvals
      /\ approvals'[n].status = s
      /\ \A m \in DOMAIN approvals : m # n => approvals'[m] = approvals[m]
  BY ApprovalSets DEF GateEnds, GateInv, CoreTypes
<1>2. /\ s \in {"approved", "rejected"} => approvals[n].status = "pending"
      /\ approvals[n].status \in LiveApproval
  BY DEF GateEnds
<1> QED
  BY <1>1, <1>2 DEF DecidedNow

(* A verdict is added exactly when a pending gate is decided.              *)
LEMMA VerdictSteps ==
    ASSUME GateInv, GateStep, NEW by \in Nat, verdict' = Decided(by)
    PROVE  \/ verdict' = verdict
           \/ \E n \in DOMAIN approvals :
                /\ verdict' = Append(verdict, VerdictNow(n, by))
                /\ approvals[n].status = "pending" /\ approvals'[n].status # "pending"
                /\ VerdictNow(n, by) \in Verdict
<1>1. approvals \in Seq(Approval)
  BY DEF GateInv, CoreTypes
<1>2. CASE UNCHANGED approvals
  <2>1. DecidedNow = {}
    BY <1>2 DEF DecidedNow
  <2> QED
    BY <2>1, DecidedIs
<1>3. CASE RequestAction
  <2>1. \A m \in DOMAIN approvals : approvals'[m] = approvals[m]
    BY <1>1, <1>3 DEF RequestAction
  <2>2. DecidedNow = {}
    BY <2>1 DEF DecidedNow
  <2> QED
    BY <2>2, DecidedIs
<1>4. ASSUME NEW n, NEW s \in Phases, GateEnds(n, s)
      PROVE  \/ verdict' = verdict
             \/ /\ n \in DOMAIN approvals
                /\ verdict' = Append(verdict, VerdictNow(n, by))
                /\ approvals[n].status = "pending" /\ approvals'[n].status # "pending"
                /\ VerdictNow(n, by) \in Verdict
  <2>1. /\ DecidedNow = IF s \in {"approved", "rejected"} THEN {n} ELSE {}
        /\ n \in DOMAIN approvals /\ approvals'[n].status = s
        /\ s \in {"approved", "rejected"} => approvals[n].status = "pending"
    BY <1>4, EndDecides
  <2>2. n \in Nat
    BY <1>1, <2>1
  <2>3. VerdictNow(n, by) \in Verdict
    BY <2>2 DEF VerdictNow, Verdict
  <2>4. CASE s \in {"approved", "rejected"}
    BY <2>1, <2>3, <2>4, DecidedIs
  <2>5. CASE s \notin {"approved", "rejected"}
    BY <2>1, <2>5, DecidedIs
  <2> QED
    BY <2>4, <2>5
<1>5. GateStep =>
        \/ UNCHANGED approvals \/ RequestAction
        \/ \E n : \E s \in Phases : GateEnds(n, s)
  BY DEF GateStep, LateWord, GateEnd, Quiet, Tick
<1> QED
  BY <1>2, <1>3, <1>4, <1>5

(* Gates are numbered in order, and a gate stays decided.                  *)
LEMMA GateNumbers ==
    ASSUME GateInv, GateStep
    PROVE  \A n \in DOMAIN approvals :
             /\ n \in DOMAIN approvals'
             /\ approvals'[n].status = "pending" => approvals[n].status = "pending"
<1>1. approvals \in Seq(Approval)
  BY DEF GateInv, CoreTypes
<1>2. CASE UNCHANGED approvals
  BY <1>2
<1>3. CASE RequestAction
  <2>1. DOMAIN approvals \subseteq DOMAIN approvals'
    BY <1>1, <1>3 DEF RequestAction
  <2>2. \A m \in DOMAIN approvals : approvals'[m] = approvals[m]
    BY <1>1, <1>3 DEF RequestAction
  <2> QED
    BY <2>1, <2>2
<1>4. ASSUME NEW n, NEW s \in Phases, GateEnds(n, s)
      PROVE  \A m \in DOMAIN approvals :
               /\ m \in DOMAIN approvals'
               /\ approvals'[m].status = "pending" => approvals[m].status = "pending"
  <2>1. /\ DOMAIN approvals' = DOMAIN approvals /\ approvals'[n].status = s /\ s # "pending"
        /\ \A m \in DOMAIN approvals : m # n => approvals'[m] = approvals[m]
    BY <1>4, EndDecides DEF Phases
  <2> QED
    BY <2>1
<1> QED
  BY <1>2, <1>3, <1>4 DEF GateStep, GateEnd, LateWord, Quiet, Tick

LEMMA VerdictsKept ==
    ASSUME GateInv, GateStep, NEW by \in Nat, verdict' = Decided(by) \/ verdict' = verdict,
           verdict \in Seq(Verdict), VerdictInv, DecidedOnce
    PROVE  /\ verdict' \in Seq(Verdict) /\ VerdictInv' /\ DecidedOnce'
           /\ \A i \in DOMAIN verdict : i \in DOMAIN verdict' /\ verdict'[i] = verdict[i]
<1>1. \A i \in DOMAIN verdict :
        /\ verdict[i].gate \in DOMAIN approvals'
        /\ approvals'[verdict[i].gate].status # "pending"
  BY GateNumbers DEF VerdictInv
<1>2. CASE verdict' = verdict
  BY <1>1, <1>2 DEF VerdictInv, DecidedOnce
<1>3. ASSUME NEW n \in DOMAIN approvals,
             verdict' = Append(verdict, VerdictNow(n, by)),
             approvals[n].status = "pending", approvals'[n].status # "pending",
             VerdictNow(n, by) \in Verdict
      PROVE  /\ verdict' \in Seq(Verdict) /\ VerdictInv' /\ DecidedOnce'
             /\ \A i \in DOMAIN verdict : i \in DOMAIN verdict' /\ verdict'[i] = verdict[i]
  <2>1. /\ verdict' \in Seq(Verdict) /\ DOMAIN verdict = 1 .. Len(verdict)
        /\ DOMAIN verdict' = 1 .. Len(verdict) + 1 /\ Len(verdict) \in Nat
        /\ \A i \in DOMAIN verdict : verdict'[i] = verdict[i]
        /\ verdict'[Len(verdict) + 1] = VerdictNow(n, by)
    BY <1>3
  <2>2. VerdictNow(n, by).gate = n
    BY DEF VerdictNow
  <2>3. \A i \in DOMAIN verdict : verdict[i].gate # n
    BY <1>3 DEF VerdictInv
  <2>4. \A i \in DOMAIN verdict' :
           IF i = Len(verdict) + 1 THEN verdict'[i].gate = n
           ELSE i \in DOMAIN verdict /\ verdict'[i].gate = verdict[i].gate
    BY <2>1, <2>2
  <2>5. VerdictInv'
    BY <1>1, <1>3, <2>4, GateNumbers DEF VerdictInv
  <2>6. DecidedOnce'
    BY <2>3, <2>4 DEF DecidedOnce
  <2> QED
    BY <2>1, <2>5, <2>6
<1> QED
  BY <1>2, <1>3, VerdictSteps

-----------------------------------------------------------------------------
(***************************************************************************)
(* Tokens and the cursor.                                                  *)
(***************************************************************************)

(* What a consumed token stands for, in terms of updates and verdicts.     *)
Sealed(c, ch, s, v) ==
    ch.status \in Consumed =>
      /\ s[ch.by].c = c /\ s[ch.by].owner
      /\ s[ch.by].date \in ch.created .. ch.expires - 1
      /\ s[ch.by].approve = (ch.status = "CONSUMED_APPROVED")
      /\ \E i \in DOMAIN v : v[i] = [gate |-> ch.ap, by |-> ch.by, approve |-> s[ch.by].approve]

LEMMA TokensNamed ==
    /\ CallbackDecidesItsGate <=>
         DecidedOnce /\ \A c \in DOMAIN challenges : Sealed(c, challenges[c], sent, verdict)
    /\ CallbackDecidesItsGate' <=>
         DecidedOnce' /\ \A c \in DOMAIN challenges' : Sealed(c, challenges'[c], sent', verdict')
BY Zenon DEF CallbackDecidesItsGate, Sealed

(* It stays so when updates and verdicts are added.                        *)
LEMMA SealStays ==
    ASSUME NEW c, NEW ch, NEW s, NEW t, NEW v, NEW w, Sealed(c, ch, s, v),
           ch.status \in Consumed => t[ch.by] = s[ch.by],
           \A i \in DOMAIN v : i \in DOMAIN w /\ w[i] = v[i]
    PROVE  Sealed(c, ch, t, w)
BY Zenon DEF Sealed

(* What an update does to its token.                                       *)
LEMMA ChallengeSteps ==
    ASSUME NEW ch \in Challenge, NEW u \in Nat, NEW o \in Outcomes
    PROVE  LET d == ChallengeAfter(ch, u, o)
           IN  /\ d \in Challenge
               /\ d.ap = ch.ap /\ d.created = ch.created /\ d.expires = ch.expires
               /\ o = "EXPIRED_TOKEN" => d.status \notin Consumed
               /\ o = "APPROVED" => d.status = "CONSUMED_APPROVED" /\ d.by = u
               /\ o = "REJECTED" => d.status = "CONSUMED_REJECTED" /\ d.by = u
               /\ o \notin {"EXPIRED_TOKEN", "APPROVED", "REJECTED"} => d = ch
<1>1. CASE o = "EXPIRED_TOKEN"
  <2>1. ChallengeAfter(ch, u, o) = [ch EXCEPT !.status = "EXPIRED"]
    BY <1>1 DEF ChallengeAfter
  <2> QED
    BY <1>1, <2>1 DEF Challenge, ChallengeStatus, Consumed
<1>2. CASE o = "APPROVED"
  <2>1. ChallengeAfter(ch, u, o) = [ch EXCEPT !.status = "CONSUMED_APPROVED", !.by = u]
    BY <1>2 DEF ChallengeAfter
  <2> QED
    BY <1>2, <2>1 DEF Challenge, ChallengeStatus, Consumed
<1>3. CASE o = "REJECTED"
  <2>1. ChallengeAfter(ch, u, o) = [ch EXCEPT !.status = "CONSUMED_REJECTED", !.by = u]
    BY <1>3 DEF ChallengeAfter
  <2> QED
    BY <1>3, <2>1 DEF Challenge, ChallengeStatus, Consumed
<1>4. CASE o \notin {"EXPIRED_TOKEN", "APPROVED", "REJECTED"}
  BY <1>4 DEF ChallengeAfter
<1> QED
  BY <1>1, <1>2, <1>3, <1>4

(* The cursor lies just past the highest update in the log.                *)
Cursor(l, k) ==
    /\ k \in Nat /\ k - 1 \in DOMAIN l \cup {0}
    /\ \A u \in DOMAIN l \cup {0} : u < k

LEMMA CursorSteps ==
    ASSUME NEW u \in Nat, Cursor(log, cursor), DOMAIN log \subseteq Nat, NEW k, NEW l,
           DOMAIN l = DOMAIN log \cup {u},
           \/ Overtaken(u) /\ k = cursor
           \/ ~Overtaken(u) /\ k = _advance_cursor(u)
    PROVE  Cursor(l, k)
<1>1. CASE Overtaken(u) /\ k = cursor
  BY <1>1 DEF Cursor, Overtaken
<1>2. CASE ~Overtaken(u) /\ k = _advance_cursor(u)
  <2>1. k = u + 1 /\ cursor =< u
    BY <1>2 DEF Overtaken, _advance_cursor, Cursor
  <2> QED
    BY <2>1 DEF Cursor
<1> QED
  BY <1>1, <1>2

(* A step that adds an update, a token or neither.                         *)
LEMMA AddingKeeps ==
    ASSUME GateInv, TokensInv, GateStep, NEW by \in Nat,
           verdict' = Decided(by) \/ verdict' = verdict,
           UNCHANGED <<log, cursor>>,
           \/ sent' = sent
           \/ \E m \in Updates : m.c \in {0} \cup DOMAIN challenges /\ sent' = Append(sent, m),
           \/ challenges' = challenges
           \/ \E ch \in Challenge : /\ ch.status = "ISSUED" /\ ch.ap \in DOMAIN approvals
                                  /\ challenges' = Append(challenges, ch)
    PROVE  TokensInv'
<1> USE DEF TokensInv
<1>1. /\ verdict' \in Seq(Verdict) /\ VerdictInv' /\ DecidedOnce'
      /\ \A i \in DOMAIN verdict : i \in DOMAIN verdict' /\ verdict'[i] = verdict[i]
  BY VerdictsKept DEF TokenTypes, CallbackDecidesItsGate
<1>2. challenges \in Seq(Challenge) /\ sent \in Seq(Updates)
  BY DEF TokenTypes
<1>3. /\ sent' \in Seq(Updates)
      /\ \A u \in DOMAIN sent : u \in DOMAIN sent' /\ sent'[u] = sent[u]
      /\ \A u \in DOMAIN sent' : sent'[u].c \in {0} \cup DOMAIN challenges
  <2>1. CASE sent' = sent
    BY <1>2, <2>1 DEF TokenInv
  <2>2. ASSUME NEW m \in Updates, m.c \in {0} \cup DOMAIN challenges, sent' = Append(sent, m)
        PROVE  /\ sent' \in Seq(Updates)
               /\ \A u \in DOMAIN sent : u \in DOMAIN sent' /\ sent'[u] = sent[u]
               /\ \A u \in DOMAIN sent' : sent'[u].c \in {0} \cup DOMAIN challenges
    <3>1. /\ sent' \in Seq(Updates) /\ DOMAIN sent = 1 .. Len(sent) /\ Len(sent) \in Nat
          /\ DOMAIN sent' = 1 .. Len(sent) + 1 /\ sent'[Len(sent) + 1] = m
          /\ \A u \in DOMAIN sent : sent'[u] = sent[u]
      BY <1>2, <2>2
    <3>2. ASSUME NEW u \in DOMAIN sent'
          PROVE  sent'[u].c \in {0} \cup DOMAIN challenges
      <4>1. CASE u \in DOMAIN sent
        BY <3>1, <4>1 DEF TokenInv
      <4>2. CASE u = Len(sent) + 1
        BY <2>2, <3>1, <4>2
      <4> QED
        BY <3>1, <4>1, <4>2
    <3>3. DOMAIN sent \subseteq DOMAIN sent'
      BY <3>1
    <3> QED
      BY <3>1, <3>2, <3>3
  <2> QED
    BY <2>1, <2>2
<1>4. /\ challenges' \in Seq(Challenge)
      /\ DOMAIN challenges \subseteq DOMAIN challenges'
      /\ \A c \in DOMAIN challenges' :
            \/ c \in DOMAIN challenges /\ challenges'[c] = challenges[c]
            \/ challenges'[c].status \notin Consumed /\ challenges'[c].ap \in DOMAIN approvals
  <2>1. CASE challenges' = challenges
    BY <1>2, <2>1
  <2>2. ASSUME NEW ch \in Challenge, ch.status = "ISSUED", ch.ap \in DOMAIN approvals,
               challenges' = Append(challenges, ch)
        PROVE  /\ challenges' \in Seq(Challenge)
               /\ DOMAIN challenges \subseteq DOMAIN challenges'
               /\ \A c \in DOMAIN challenges' :
                     \/ c \in DOMAIN challenges /\ challenges'[c] = challenges[c]
                     \/ challenges'[c].status \notin Consumed /\ challenges'[c].ap \in DOMAIN approvals
    <3>1. /\ challenges' \in Seq(Challenge) /\ DOMAIN challenges = 1 .. Len(challenges)
          /\ Len(challenges) \in Nat /\ DOMAIN challenges' = 1 .. Len(challenges) + 1
          /\ challenges'[Len(challenges) + 1] = ch
          /\ \A c \in DOMAIN challenges : challenges'[c] = challenges[c]
      BY <1>2, <2>2
    <3>2. ch.status \notin Consumed /\ ch.ap \in DOMAIN approvals
      BY <2>2 DEF Consumed
    <3>3. \A c \in DOMAIN challenges' : c \in DOMAIN challenges \/ c = Len(challenges) + 1
      BY <3>1
    <3>4. DOMAIN challenges \subseteq DOMAIN challenges'
      BY <3>1
    <3> QED
      BY <3>1, <3>2, <3>3, <3>4
  <2> QED
    BY <2>1, <2>2
<1>5. TokenTypes'
  BY <1>1, <1>3, <1>4 DEF TokenTypes
<1>6. TokenInv'
  <2>1. \A u \in DOMAIN sent' : sent'[u].c \in {0} \cup DOMAIN challenges'
    BY <1>3, <1>4
  <2>2. \A c \in DOMAIN challenges' :
           /\ challenges'[c].ap \in DOMAIN approvals'
           /\ challenges'[c].status \in Consumed => challenges'[c].by \in DOMAIN sent'
    BY <1>3, <1>4, GateNumbers DEF TokenInv
  <2> QED
    BY <2>1, <2>2 DEF TokenInv
<1>7. ASSUME NEW c \in DOMAIN challenges'
      PROVE  Sealed(c, challenges'[c], sent', verdict')
  <2>1. CASE challenges'[c].status \notin Consumed
    BY <2>1 DEF Sealed
  <2>2. CASE c \in DOMAIN challenges /\ challenges'[c] = challenges[c]
    <3>1. Sealed(c, challenges[c], sent, verdict)
      BY <2>2, TokensNamed
    <3>2. challenges[c].status \in Consumed => sent'[challenges[c].by] = sent[challenges[c].by]
      BY <1>3, <2>2 DEF TokenInv
    <3> QED
      BY <1>1, <2>2, <3>1, <3>2, SealStays
  <2> QED
    BY <1>4, <2>1, <2>2
<1>8. CallbackDecidesItsGate'
  BY <1>1, <1>7, TokensNamed
<1> QED
  BY <1>1, <1>5, <1>6, <1>8

(* The shape of a handled update.                                          *)
LEMMA CallbackShape ==
    ASSUME GateInv, TokensInv, NEW u \in DOMAIN sent, process_callback(u)
    PROVE  LET o == CallbackOutcome(u)
               c == sent[u].c
           IN  /\ u \in Nat /\ sent[u] \in Updates /\ o \in Outcomes
               /\ DOMAIN log' = DOMAIN log \cup {u}
               /\ Cursor(log', cursor')
               /\ sent' = sent /\ verdict' = Decided(u)
               /\ c = 0 => challenges' = challenges
               /\ c # 0 => /\ c \in DOMAIN challenges /\ challenges[c] \in Challenge
                           /\ challenges' = [challenges EXCEPT ![c] = ChallengeAfter(@, u, o)]
<1> DEFINE o == CallbackOutcome(u)
<1>1. /\ sent \in Seq(Updates) /\ challenges \in Seq(Challenge) /\ Cursor(log, cursor)
      /\ DOMAIN log \subseteq DOMAIN sent
  BY DEF TokensInv, TokenTypes, Cursor
<1>2. u \in Nat /\ sent[u] \in Updates /\ DOMAIN log \subseteq Nat
  BY <1>1
<1>3. /\ o \in Outcomes
      /\ o = "STALE_UPDATE" => Overtaken(u)
      /\ o \notin {"STALE_UPDATE", "DUPLICATE_UPDATE"} => ~Overtaken(u)
  BY OutcomeIs
<1>4. /\ o # "DUPLICATE_UPDATE"
      /\ log' = [v \in DOMAIN log \cup {u} |-> IF v = u THEN o ELSE log[v]]
      /\ cursor' = IF o = "STALE_UPDATE" THEN cursor ELSE _advance_cursor(u)
      /\ challenges' = IF sent[u].c = 0 THEN challenges
           ELSE [challenges EXCEPT ![sent[u].c] = ChallengeAfter(@, u, o)]
      /\ verdict' = Decided(u) /\ sent' = sent
  BY DEF process_callback
<1> HIDE DEF o
<1>5. DOMAIN log' = DOMAIN log \cup {u}
  BY <1>4
<1>6. Cursor(log', cursor')
  <2>1. \/ Overtaken(u) /\ cursor' = cursor
        \/ ~Overtaken(u) /\ cursor' = _advance_cursor(u)
    BY <1>3, <1>4
  <2> QED
    BY <1>1, <1>2, <1>5, <2>1, CursorSteps
<1>7. sent[u].c # 0 => sent[u].c \in DOMAIN challenges /\ challenges[sent[u].c] \in Challenge
  BY <1>1 DEF TokensInv, TokenInv
<1> QED
  BY <1>2, <1>3, <1>4, <1>5, <1>6, <1>7 DEF o

(* A handled update decides the gate its token was issued for, or none.    *)
LEMMA CallbackKeeps ==
    ASSUME GateInv, TokensInv, GateStep, NEW u \in DOMAIN sent, process_callback(u)
    PROVE  TokensInv'
<1> DEFINE o == CallbackOutcome(u)
           c == sent[u].c
           ch == challenges[c]
           d == ChallengeAfter(ch, u, o)
<1>1. /\ u \in Nat /\ sent[u] \in Updates /\ o \in Outcomes
      /\ DOMAIN log' = DOMAIN log \cup {u}
      /\ Cursor(log', cursor')
      /\ sent' = sent /\ verdict' = Decided(u)
      /\ c = 0 => challenges' = challenges
      /\ c # 0 => /\ c \in DOMAIN challenges /\ ch \in Challenge
                  /\ challenges' = [challenges EXCEPT ![c] = ChallengeAfter(@, u, o)]
  BY CallbackShape
<1>2. /\ verdict' \in Seq(Verdict) /\ VerdictInv' /\ DecidedOnce'
      /\ \A i \in DOMAIN verdict : i \in DOMAIN verdict' /\ verdict'[i] = verdict[i]
  BY <1>1, VerdictsKept DEF TokensInv, TokenTypes, CallbackDecidesItsGate
<1>3. /\ challenges \in Seq(Challenge) /\ sent \in Seq(Updates)
      /\ DOMAIN log \subseteq DOMAIN sent
      /\ \A v \in DOMAIN sent : sent[v].c \in {0} \cup DOMAIN challenges
      /\ \A k \in DOMAIN challenges :
           /\ challenges[k].ap \in DOMAIN approvals
           /\ challenges[k].status \in Consumed => challenges[k].by \in DOMAIN sent
           /\ Sealed(k, challenges[k], sent, verdict)
  BY TokensNamed DEF TokensInv, TokenTypes, TokenInv
<1>4. c # 0 =>
        /\ d \in Challenge
        /\ d.ap = ch.ap /\ d.created = ch.created /\ d.expires = ch.expires
        /\ o = "EXPIRED_TOKEN" => d.status \notin Consumed
        /\ o = "APPROVED" => d.status = "CONSUMED_APPROVED" /\ d.by = u
        /\ o = "REJECTED" => d.status = "CONSUMED_REJECTED" /\ d.by = u
        /\ o \notin {"EXPIRED_TOKEN", "APPROVED", "REJECTED"} => d = ch
  <2> HIDE DEF o, c, ch, d
  <2> QED
    BY <1>1, ChallengeSteps DEF d
<1>5. /\ o \in {"APPROVED", "REJECTED"} =>
           /\ sent[u].owner /\ ~(sent[u].date < ch.created) /\ ~(sent[u].date >= ch.expires)
           /\ c # 0
      /\ o = "APPROVED" => sent[u].approve
      /\ o = "REJECTED" => ~sent[u].approve
  BY OutcomeIs
<1>6. ASSUME o \in {"APPROVED", "REJECTED"}, c # 0
      PROVE  d.status \in Consumed /\ d.by = u /\ Sealed(c, d, sent, verdict')
  <2>1. /\ sent[u].owner /\ sent[u].c = c /\ d.by = u /\ d.status \in Consumed
        /\ sent[u].approve = (d.status = "CONSUMED_APPROVED")
    <3> HIDE DEF o, d, ch
    <3>1. CASE o = "APPROVED"
      BY <1>4, <1>5, <1>6, <3>1 DEF Consumed
    <3>2. CASE o = "REJECTED"
      <4>1. /\ d.status = "CONSUMED_REJECTED" /\ d.by = u /\ ~sent[u].approve /\ sent[u].owner
        BY <1>4, <1>5, <1>6, <3>2
      <4>2. sent[u].approve = FALSE
        BY <1>1, <4>1 DEF Updates
      <4> QED
        BY <4>1, <4>2 DEF Consumed
    <3> QED
      BY <1>6, <3>1, <3>2
  <2>2. sent[u].date \in d.created .. d.expires - 1
    <3>1. sent[u].date \in Nat
      BY <1>1 DEF Updates
    <3>2. ch.created \in Nat /\ ch.expires \in Nat
      BY <1>1, <1>6 DEF Challenge
    <3>3. d.created = ch.created /\ d.expires = ch.expires
      BY <1>4, <1>6
    <3>4. ~(sent[u].date < ch.created) /\ ~(sent[u].date >= ch.expires)
      BY <1>5, <1>6
    <3> HIDE DEF o, d, ch, c
    <3> QED
      BY <3>1, <3>2, <3>3, <3>4
  <2>3. \E i \in DOMAIN verdict' :
           verdict'[i] = [gate |-> d.ap, by |-> d.by, approve |-> sent[u].approve]
    <3> DEFINE n == ch.ap
    <3>1. \/ GateEnds(n, "approved") /\ o = "APPROVED"
          \/ GateEnds(n, "rejected") /\ o = "REJECTED"
      BY <1>6, CallbackGate
    <3>2. /\ DecidedNow = {n}
          /\ o = "APPROVED" => approvals'[n].status = "approved"
          /\ o = "REJECTED" => approvals'[n].status = "rejected"
      <4>1. ASSUME NEW s \in {"approved", "rejected"}, GateEnds(n, s)
            PROVE  DecidedNow = {n} /\ approvals'[n].status = s
        <5>1. s \in Phases
          BY DEF Phases
        <5> HIDE DEF n
        <5> QED
          BY <4>1, <5>1, EndDecides
      <4> HIDE DEF o, n
      <4> QED
        BY <3>1, <4>1
    <3>3. n \in DOMAIN approvals
      BY <3>1 DEF GateEnds
    <3>4. verdict' = Append(verdict, VerdictNow(n, u))
      <4> HIDE DEF n
      <4> QED
        BY <1>1, <3>2, DecidedIs
    <3>5. sent[u].approve = (approvals'[n].status = "approved")
      <4> HIDE DEF o
      <4>1. CASE o = "APPROVED"
        BY <1>5, <3>2, <4>1
      <4>2. CASE o = "REJECTED"
        <5>1. approvals'[n].status = "rejected" /\ ~sent[u].approve
          BY <1>5, <3>2, <4>2
        <5>2. sent[u].approve = FALSE
          BY <1>1, <5>1 DEF Updates
        <5> QED
          BY <5>1, <5>2
      <4> QED
        BY <1>6, <4>1, <4>2
    <3>6. d.ap = n /\ d.by = u
      BY <1>4, <1>5, <1>6
    <3>7. VerdictNow(n, u) = [gate |-> d.ap, by |-> d.by, approve |-> sent[u].approve]
      <4> HIDE DEF d, n
      <4> QED
        BY <3>5, <3>6, Zenon DEF VerdictNow
    <3>8. Len(verdict) + 1 \in DOMAIN verdict' /\ verdict'[Len(verdict) + 1] = VerdictNow(n, u)
      BY <3>4 DEF TokensInv, TokenTypes
    <3> HIDE DEF d
    <3> QED
      BY <3>7, <3>8
  <2> HIDE DEF o, d, c, ch
  <2> QED
    BY <2>1, <2>2, <2>3 DEF Sealed
<1> HIDE DEF o, c, ch, d
<1>7. ASSUME NEW k \in DOMAIN challenges'
      PROVE  /\ k \in DOMAIN challenges
             /\ challenges'[k] \in Challenge
             /\ challenges'[k].ap = challenges[k].ap
             /\ challenges'[k].status \in Consumed => challenges'[k].by \in DOMAIN sent
             /\ Sealed(k, challenges'[k], sent, verdict')
  <2>1. k \in DOMAIN challenges /\ (challenges'[k] = challenges[k] \/ (c # 0 /\ k = c /\ challenges'[k] = d))
    BY <1>1, <1>3 DEF d, ch
  <2>2. CASE challenges'[k] = challenges[k]
    <3>1. challenges[k] \in Challenge
      BY <1>3, <2>1
    <3>2. Sealed(k, challenges[k], sent, verdict')
      BY <1>2, <1>3, <2>1, SealStays
    <3> QED
      BY <1>3, <2>1, <2>2, <3>1, <3>2
  <2>3. CASE c # 0 /\ k = c /\ challenges'[k] = d
    <3>0. d.ap = challenges[k].ap
      BY <1>4, <2>3 DEF ch
    <3>1. CASE o \in {"APPROVED", "REJECTED"}
      BY <1>4, <1>6, <2>1, <2>3, <3>0, <3>1
    <3>2. CASE o = "EXPIRED_TOKEN"
      BY <1>4, <2>1, <2>3, <3>0, <3>2 DEF Sealed
    <3>3. CASE o \notin {"APPROVED", "REJECTED", "EXPIRED_TOKEN"}
      <4>1. challenges'[k] = challenges[k]
        BY <1>4, <2>3, <3>3 DEF ch
      <4> QED
        BY <2>2, <4>1
    <3> QED
      BY <3>1, <3>2, <3>3
  <2> QED
    BY <2>1, <2>2, <2>3
<1>8. challenges' \in Seq(Challenge) /\ DOMAIN challenges' = DOMAIN challenges
  <2>1. CASE c = 0
    BY <1>1, <1>3, <2>1
  <2>2. CASE c # 0
    <3>1. c \in DOMAIN challenges /\ challenges' = [challenges EXCEPT ![c] = d]
      BY <1>1, <2>2 DEF d, ch
    <3>2. challenges \in Seq(Challenge) /\ d \in Challenge
      BY <1>3, <1>4, <2>2
    <3> QED
      BY <3>1, <3>2
  <2> QED
    BY <2>1, <2>2
<1>9. TokenTypes'
  BY <1>1, <1>2, <1>3, <1>8 DEF TokenTypes, Cursor
<1>10. TokenInv'
  BY <1>1, <1>3, <1>7, <1>8, GateNumbers DEF TokenInv
<1>11. CallbackDecidesItsGate'
  BY <1>1, <1>2, <1>7, TokensNamed
<1> QED
  BY <1>2, <1>9, <1>10, <1>11 DEF TokensInv

(* Every step keeps the tokens' invariant.                                 *)
LEMMA TokensKept ==
    ASSUME GateInv, TokensInv, GateStep, [InboundNext]_allVars
    PROVE  TokensInv'
<1>0. /\ approvals \in Seq(Approval) /\ now \in Nat /\ challenges \in Seq(Challenge)
  BY DEF GateInv, CoreTypes, TokensInv, TokenTypes
<1>1. CASE CoreCommand
  <2>1. verdict' = Decided(0) /\ UNCHANGED <<challenges, sent, log, cursor>>
    BY <1>1 DEF CoreCommand
  <2> QED
    BY <2>1, AddingKeeps
<1>2. ASSUME NEW n \in DOMAIN approvals, create_challenge(n)
      PROVE  TokensInv'
  <2> DEFINE ch == [ap |-> n, created |-> now, status |-> "ISSUED", by |-> 0,
                    expires |-> MinOf(now + ChallengeTTL, approvals[n].expires)]
  <2>0. n \in Nat /\ approvals[n] \in Approval
    BY <1>0
  <2>1. MinOf(now + ChallengeTTL, approvals[n].expires) \in Nat
    BY <1>0, <2>0, InboundAssumption DEF MinOf, Approval
  <2>2. ch \in Challenge /\ ch.status = "ISSUED" /\ ch.ap \in DOMAIN approvals
    BY <1>0, <2>0, <2>1 DEF Challenge, ChallengeStatus
  <2>3. challenges' = Append(challenges, ch) /\ UNCHANGED <<sent, log, cursor, verdict>>
    BY <1>2 DEF create_challenge
  <2> HIDE DEF ch
  <2> QED
    BY <2>2, <2>3, AddingKeeps
<1>3. CASE Stray
  <2>1. PICK owner \in BOOLEAN : sent' = Append(sent, Update(0, TRUE, now, owner))
    BY <1>3 DEF Stray
  <2> DEFINE m == Update(0, TRUE, now, owner)
  <2>2. m \in Updates /\ m.c = 0
    BY <1>0 DEF Update, Updates
  <2>3. sent' = Append(sent, m) /\ UNCHANGED <<challenges, log, cursor, verdict>>
    BY <1>3, <2>1 DEF Stray
  <2> HIDE DEF m
  <2> QED
    BY <2>2, <2>3, AddingKeeps
<1>4. ASSUME NEW c \in DOMAIN challenges, Press(c)
      PROVE  TokensInv'
  <2>1. PICK yes \in BOOLEAN, date \in 0 .. now + FutureSkew + 1 :
           sent' = Append(sent, Update(c, yes, date, TRUE))
    BY <1>4 DEF Press
  <2> DEFINE m == Update(c, yes, date, TRUE)
  <2>2. c \in Nat /\ date \in Nat
    BY <1>0
  <2>3. m \in Updates /\ m.c = c
    BY <2>2 DEF Update, Updates
  <2>4. sent' = Append(sent, m) /\ UNCHANGED <<challenges, log, cursor, verdict>>
    BY <1>4, <2>1 DEF Press
  <2> HIDE DEF m
  <2> QED
    BY <1>4, <2>3, <2>4, AddingKeeps
<1>5. CASE \E u \in DOMAIN sent : process_callback(u)
  BY <1>5, CallbackKeeps
<1>6. CASE UNCHANGED allVars
  <2>1. UNCHANGED <<challenges, sent, log, cursor, verdict>>
    BY <1>6 DEF allVars, inboundVars
  <2> QED
    BY <2>1, AddingKeeps
<1> QED
  BY <1>1, <1>2, <1>3, <1>4, <1>5, <1>6 DEF InboundNext

(* The initial state.                                                      *)
LEMMA CoreStarts ==
    ASSUME CoreInit
    PROVE  GateInv /\ Gate!GateInit
<1>1. 0 \in 0 .. MaxAttempts
  BY TaskAssumption
<1>2. task \in Tasks /\ task.state = "NEW"
  BY DEF CoreInit, Tasks, States, MainPath
<1>3. ledger \in Ledger
  BY <1>1 DEF CoreInit, Ledger
<1>4. disp \in Disps /\ approvals \in Seq(Approval) /\ handoff \in [no : Nat, to : Roles]
  BY DEF CoreInit, Disps, Roles, OpenDispatch
<1>5. CoreTypes
  BY <1>2, <1>3, <1>4 DEF CoreInit, CoreTypes
<1>6. ~Gated /\ task.state \notin PauseStates /\ Underlying = "NEW"
  BY <1>2 DEF Gated, PauseStates, Underlying
<1>7. GateInv
  BY <1>5, <1>6 DEF CoreInit, GateInv, PauseInv, GateMatchesApproval, OpenGates
<1>8. Gate!GateInit
  BY <1>6 DEF Gate!GateInit, CoreInit, Gated, Underlying
<1> QED
  BY <1>7, <1>8

LEMMA TokensStart ==
    ASSUME InboundInit
    PROVE  TokensInv
<1>1. challenges = <<>> /\ sent = <<>> /\ log = <<>> /\ cursor = 1 /\ verdict = <<>>
  BY DEF InboundInit
<1>2. TokenTypes
  BY <1>1 DEF TokenTypes
<1>3. TokenInv /\ VerdictInv
  BY <1>1 DEF TokenInv, VerdictInv
<1>4. CallbackDecidesItsGate
  BY <1>1, TokensNamed DEF DecidedOnce
<1> QED
  BY <1>2, <1>3, <1>4 DEF TokensInv

(* The invariant of tasks and tokens.                                      *)
LEMMA TokensImply ==
    ASSUME GateInv, TokensInv
    PROVE  CoreInv
<1>1. challenges \in Seq(Challenge) /\ sent \in Seq(Updates) /\ DOMAIN log \subseteq DOMAIN sent
  BY DEF TokensInv, TokenTypes
<1>2. /\ cursor \in Nat /\ cursor - 1 \in DOMAIN log \cup {0}
      /\ \A u \in DOMAIN log \cup {0} : u < cursor
  BY DEF TokensInv, TokenTypes
<1> DEFINE S == DOMAIN log \cup {0}
           m == cursor - 1
<1>3. S \in SUBSET Nat /\ m \in S /\ \A y \in S : y =< m
  BY <1>1, <1>2
<1>4. Max(S) = m
  <2> HIDE DEF S, m
  <2> QED
    BY <1>3, MaxIs
<1>5. cursor = Max(S) + 1
  BY <1>2, <1>4
<1>6. CoreTypeOK /\ GateMatchesApproval
  BY TypesNamed DEF GateInv
<1>7. /\ \A c \in DOMAIN challenges : challenges[c] \in Challenge
      /\ \A u \in DOMAIN sent : sent[u] \in Updates
  BY <1>1
<1> HIDE DEF m
<1> QED
  BY <1>1, <1>5, <1>6, <1>7, Zenon DEF CoreInv, InboundTypeOK, Challenge, Updates, S

(* Whoever decides gates, in whatever order and however often updates      *)
(* arrive: types and the cursor hold, a parked task waits for an open gate *)
(* (approval_core.py, core.py), every consumed token stands for one press  *)
(* of the owner's on this token about its own gate, and no gate is decided *)
(* twice.                                                                  *)
LEMMA InboundInvariant == InboundSpec => [](GateInv /\ TokensInv)
<1>1. InboundInit => GateInv /\ TokensInv
  BY CoreStarts, TokensStart DEF InboundInit
<1>2. GateInv /\ TokensInv /\ [InboundNext]_allVars => (GateInv /\ TokensInv)'
  BY GateSteps, GateInvKept, TokensKept
<1> QED
  BY <1>1, <1>2, PTL DEF InboundSpec

(* A parked task waits for an open gate, its latest; until a command comes *)
(* back to a closed gate (core.py: reject, _expire_and_release), it waits  *)
(* exactly while one is open, and that is its only one.  The cursor lies   *)
(* just past the highest update handled.                                   *)
THEOREM InboundSafe == InboundSpec => []CoreInv
<1>1. GateInv /\ TokensInv => CoreInv
  BY TokensImply
<1> QED
  BY <1>1, InboundInvariant, PTL

(* Repeated, reordered and outdated callbacks decide only the gate their   *)
(* token was issued for, in the sense of the button and within the token's *)
(* life, and no gate is decided twice.                                     *)
THEOREM CallbacksDecide == InboundSpec => []CallbackDecidesItsGate
<1>1. GateInv /\ TokensInv => CallbackDecidesItsGate
  BY DEF TokensInv
<1> QED
  BY <1>1, InboundInvariant, PTL

(* Task core and callbacks implement the owner gates: each is decided once *)
(* and in time, and only the owner's word on a gate unparks the task.      *)
THEOREM GateImplemented == InboundSpec => GateRefines
<1>1. InboundInit => Gate!GateInit
  BY CoreStarts DEF InboundInit
<1>2. GateInv /\ TokensInv /\ [InboundNext]_allVars => [Gate!GateNext]_Gate!gateVars
  BY GateSteps, GateStepRefines
<1> QED
  BY <1>1, <1>2, InboundInvariant, PTL DEF InboundSpec, GateRefines, Gate!GateSpec

-----------------------------------------------------------------------------
(***************************************************************************)
(* The protocol: frontier, dispatch, role, handoff and state agree.        *)
(***************************************************************************)

(* At a stage of the cycle the frontier names the stage's role.            *)
LEMMA LegalHere ==
    ASSUME NEW l \in Ledger, NEW open \in BOOLEAN, ~l.rework, NEW s, AtStage(l, s),
           _workflow_frontier(l, open).role # NONE
    PROVE  LET f == _workflow_frontier(l, open)
           IN  /\ f.pos \in 0 .. 6 /\ l.kind \in {"STANDARD", "REWORK"}
               /\ l.kind = "REWORK" => f.pos =< 4
               /\ Legal(l.kind, f.pos, f.role, s)
               /\ l.done = 0 .. f.pos - 1
<1> DEFINE f == _workflow_frontier(l, open)
           q == SeqOf(l, open)
<1>1. l.kind \in {"STANDARD", "REWORK"}
  BY DEF Ledger
<1>2. /\ Len(q) \in 4 .. 7 /\ q[1] = "lead"
      /\ l.kind = "STANDARD" => q = StandardSequence /\ Len(q) = 7
      /\ l.kind # "STANDARD" =>
           /\ Len(q) \in {4, 5}
           /\ q[2] = "implementer" /\ q[3] = "qa"
           /\ Len(q) = 5 => q[4] = "reviewer" /\ q[5] = "lead"
           /\ Len(q) = 4 => q[4] = "lead"
  BY Sequences
<1>3. CASE l.kind = "STANDARD"
  <2>1. PICK p \in 0 .. 7 : l.done = 0 .. p - 1 /\ s = MainStates[p + 1]
    BY <1>3 DEF AtStage
  <2>2. p < 7 /\ f.pos = p /\ f.role = StandardSequence[p + 1]
    <3>1. /\ p < Len(q) => f.pos = p /\ f.role = q[p + 1]
          /\ p >= Len(q) => f.role = NONE
      BY <2>1, FrontierAt
    <3>2. q = StandardSequence /\ Len(q) = 7 /\ f.role # NONE
      BY <1>2, <1>3
    <3> HIDE DEF q, f
    <3> QED
      BY <3>1, <3>2
  <2>3. p \in 0 .. 6
    BY <2>2
  <2> HIDE DEF f, q
  <2> QED
    BY <1>1, <1>3, <2>1, <2>2, <2>3 DEF Legal, f
<1>4. CASE l.kind = "REWORK"
  <2>1. PICK p \in 0 .. 5 : l.done = 0 .. p - 1 /\ s \in ReworkStates(p)
    BY <1>4 DEF AtStage
  <2>2. p < Len(q) /\ f.pos = p /\ f.role = q[p + 1]
    BY <1>2, <1>4, <2>1, FrontierAt
  <2> HIDE DEF f, q
  <2>3. p \in 0 .. 4
    BY <1>2, <1>4, <2>2
  <2>4. /\ p = 0 => f.role = "lead"
        /\ p = 1 => f.role = "implementer"
        /\ p = 2 => f.role = "qa"
        /\ p = 3 => f.role \in {"reviewer", "lead"}
        /\ p = 4 => f.role = "lead"
    BY <1>2, <1>4, <2>2, <2>3
  <2> QED
    BY <1>1, <1>4, <2>1, <2>2, <2>3, <2>4 DEF Legal, f
<1> QED
  BY <1>1, <1>3, <1>4

(* Consuming the frontier's position leads to the next stage.              *)
LEMMA StageAfter ==
    ASSUME NEW l \in Ledger, NEW p \in 0 .. 6, l.kind = "REWORK" => p =< 4,
           l.done = (0 .. p - 1) \cup {p}, NEW role, NEW decision, NEW t,
           l.rework <=> role = "lead" /\ decision = "rework",
           NextStage(l.kind, p, role, decision, t), t \notin Out
    PROVE  AtStage(l, t)
<1>1. l.done = 0 .. (p + 1) - 1
  OBVIOUS
<1>2. t \notin TerminalStates
  BY DEF Out
<1>3. CASE l.rework
  <2>1. t = "REWORK"
    BY <1>2, <1>3 DEF NextStage
  <2> QED
    BY <1>3, <2>1 DEF AtStage
<1>4. CASE ~l.rework /\ l.kind = "STANDARD"
  <2>1. t = MainStates[p + 2]
    BY <1>2, <1>4 DEF NextStage
  <2>2. p + 1 \in 0 .. 7 /\ (p + 1) + 1 = p + 2
    OBVIOUS
  <2>3. \E k \in 0 .. 7 : l.done = 0 .. k - 1 /\ t = MainStates[k + 1]
    BY <1>1, <2>1, <2>2
  <2> QED
    BY <1>4, <2>3 DEF AtStage
<1>5. CASE ~l.rework /\ l.kind = "REWORK"
  <2>1. t \in ReworkStates(p + 1)
    BY <1>2, <1>5 DEF NextStage
  <2>2. p + 1 \in 0 .. 5
    BY <1>5
  <2>3. \E k \in 0 .. 5 : l.done = 0 .. k - 1 /\ t \in ReworkStates(k)
    BY <1>1, <2>1, <2>2
  <2> QED
    BY <1>5, <2>3 DEF AtStage
<1> QED
  BY <1>3, <1>4, <1>5 DEF Ledger

ProtocolAndStage == ProtocolInv /\ StageInv

(* Steps that leave roles, handoffs, dispatches and ledger alone.          *)
LEMMA OthersKeep ==
    ASSUME GateInv, ProtocolAndStage,
           UNCHANGED <<active, handoff, run, ledger, disp, findings, manual>>,
           task.state \in TerminalStates <=> task'.state \in TerminalStates,
           Underlying' = Underlying \/ Underlying' = "BLOCKED"
    PROVE  ProtocolAndStage'
<1>1. Frontier' = Frontier
  BY DEF Frontier
<1>2. ProtocolInv'
  BY <1>1 DEF ProtocolAndStage, ProtocolInv, OpenAgrees, ClosedAgrees
<1>3. StageInv'
  BY DEF ProtocolAndStage, StageInv, Out
<1> QED
  BY <1>2, <1>3 DEF ProtocolAndStage

(* Whatever closes the open dispatch while the role stays the handoff's.   *)
LEMMA Closing ==
    ASSUME GateInv, ProtocolAndStage, ~manual, disp.status \in OpenDispatch,
           disp'.status \notin OpenDispatch, UNCHANGED <<ledger, findings, manual>>,
           Underlying' = Underlying, handoff'.to = handoff.to,
           active' \in {NONE, active}
    PROVE  ProtocolAndStage'
<1>1. Frontier' = Frontier
  BY DEF Frontier
<1>2. OpenAgrees
  BY DEF ProtocolAndStage, ProtocolInv
<1>3. ProtocolInv'
  BY <1>1, <1>2 DEF ProtocolInv, OpenAgrees, ClosedAgrees
<1>4. StageInv'
  BY DEF ProtocolAndStage, StageInv
<1> QED
  BY <1>3, <1>4 DEF ProtocolAndStage

(* A manual command ends what the invariant says.                          *)
LEMMA ManualKeeps ==
    ASSUME manual'
    PROVE  ProtocolAndStage'
BY DEF ProtocolAndStage, ProtocolInv, StageInv

(* Where the task works is in none of the pauses.                          *)
LEMMA UnderlyingIs ==
    ASSUME GateInv
    PROVE  /\ Underlying \notin PauseStates /\ Underlying \in States
           /\ Underlying \in TerminalStates <=> task.state \in TerminalStates
           /\ task.state \notin PauseStates => Underlying = task.state
<1>1. task \in Tasks /\ (task.state \in PauseStates => is_valid_resume_target(task.resume))
  BY DEF GateInv, CoreTypes, PauseInv
<1>2. CASE task.state \in PauseStates
  BY <1>1, <1>2 DEF Underlying, is_valid_resume_target, TerminalStates, PauseStates
<1>3. CASE task.state \notin PauseStates
  BY <1>1, <1>3 DEF Underlying, Tasks
<1> QED
  BY <1>2, <1>3

(* An open dispatch is the frontier's, and its position fits the task.     *)
LEMMA OpenIsLegal ==
    ASSUME GateInv, ProtocolAndStage, ~manual, disp.status \in OpenDispatch,
           Underlying \notin Out
    PROVE  /\ disp.pos \in 0 .. 6 /\ ledger.kind \in {"STANDARD", "REWORK"}
           /\ ledger.kind = "REWORK" => disp.pos =< 4
           /\ Legal(ledger.kind, disp.pos, disp.role, Underlying)
           /\ ledger.done = 0 .. disp.pos - 1
<1>1. OpenAgrees
  BY DEF ProtocolAndStage, ProtocolInv
<1>2. AtStage(ledger, Underlying)
  BY DEF ProtocolAndStage, StageInv
<1>3. ledger \in Ledger /\ findings \in BOOLEAN
  BY DEF GateInv, CoreTypes
<1> QED
  BY <1>1, <1>2, <1>3, LegalHere DEF OpenAgrees, Frontier

(* Consuming a result: the frontier moves on, and the task with it.        *)
LEMMA ConsumeKeeps ==
    ASSUME GateInv, ProtocolAndStage, ReceiveAgentResult
    PROVE  ProtocolAndStage'
<1>1. CASE manual
  <2>1. manual'
    BY <1>1 DEF ReceiveAgentResult
  <2> QED
    BY <2>1, ManualKeeps
<1>2. CASE ~manual
  <2>1. disp.status \in OpenDispatch
    BY DEF ReceiveAgentResult, Receivable, OpenDispatch
  <2>2. PICK decision, plan : Consumption(decision, plan)
    BY Consumes
  <2>3. CoreTypes'
    BY Consumes
  <2>4. /\ disp' = [disp EXCEPT !.status = "CONSUMED"] /\ active' = NONE /\ manual' = manual
        /\ disp \in Disps
    BY DEF ReceiveAgentResult, GateInv, CoreTypes
  <2>5. disp'.status \notin OpenDispatch
    BY <2>4 DEF Disps, OpenDispatch
  <2>6. Frontier'.role # NONE => handoff'.to = Frontier'.role
    BY <2>2 DEF Consumption
  <2>7. ProtocolInv'
    BY <2>4, <2>5, <2>6 DEF ProtocolInv, ClosedAgrees
  <2>8. ASSUME Underlying' \notin Out
        PROVE  AtStage(ledger', Underlying')
    <3> DEFINE s == Underlying
               t == Underlying'
    <3>1. /\ decision \in Decisions
          /\ plan = _state_sync_plan(ledger.kind, disp.pos, disp.role, decision, SyncState)
          /\ plan \in Seq(Pairs) /\ PlanFits(plan, SyncState)
          /\ plan # <<>> => task.state \notin PauseStates \/ task.state = "RECOVERING"
          /\ t = IF plan = <<>> THEN s ELSE PlanEnd(plan, SyncState)
      BY <2>2 DEF Consumption
    <3>2. /\ ledger'.kind = ledger.kind /\ ledger'.done = ledger.done \cup {disp.pos}
          /\ ledger'.rework <=> disp.role = "lead" /\ decision = "rework"
      BY <2>2 DEF Consumption
    <3>3. plan # <<>> => SyncState = s
      BY <3>1, UnderlyingIs DEF SyncState, Underlying, PauseStates
    <3>4. s \notin Out
      <4>1. CASE plan = <<>>
        BY <2>8, <3>1, <4>1
      <4>2. CASE plan # <<>>
        BY <3>1, <3>3, <4>2, PlanEnds
      <4> QED
        BY <4>1, <4>2
    <3>5. /\ disp.pos \in 0 .. 6 /\ ledger.kind \in {"STANDARD", "REWORK"}
          /\ ledger.kind = "REWORK" => disp.pos =< 4
          /\ Legal(ledger.kind, disp.pos, disp.role, s)
          /\ ledger.done = 0 .. disp.pos - 1
      BY <1>2, <2>1, <3>4, OpenIsLegal
    <3>6. NextStage(ledger.kind, disp.pos, disp.role, decision, t)
      <4>1. CASE plan = <<>>
        <5>1. t = s
          BY <3>1, <4>1
        <5> HIDE DEF s, t
        <5> QED
          BY <3>1, <3>5, <4>1, <5>1, StageStays
      <4>2. CASE plan # <<>>
        <5>1. SyncState = s /\ t = PlanEnd(plan, s)
          BY <3>1, <3>3, <4>2
        <5> HIDE DEF s, t
        <5>2. plan = _state_sync_plan(ledger.kind, disp.pos, disp.role, decision, s)
          BY <3>1, <5>1
        <5> QED
          BY <3>1, <3>5, <5>1, <5>2, StageMoves
      <4> QED
        BY <4>1, <4>2
    <3>7. ledger' \in Ledger
      BY <2>3 DEF CoreTypes
    <3>8. ledger'.done = (0 .. disp.pos - 1) \cup {disp.pos}
      BY <3>2, <3>5
    <3>9. t \notin Out
      BY <2>8
    <3> HIDE DEF s, t
    <3>10. AtStage(ledger', t)
      BY <3>2, <3>5, <3>6, <3>7, <3>8, <3>9, StageAfter
    <3> QED
      BY <3>10 DEF t
  <2>9. StageInv'
    BY <2>8 DEF StageInv
  <2> QED
    BY <2>7, <2>9 DEF ProtocolAndStage
<1> QED
  BY <1>1, <1>2

(* Ledgers that differ in nothing the frontier reads.                      *)
LEMMA SameFrontier ==
    ASSUME NEW l, NEW m, NEW open, m.cycle = l.cycle, m.kind = l.kind, m.toggle = l.toggle,
           m.done = l.done, m.rework = l.rework
    PROVE  /\ _workflow_frontier(m, open) = _workflow_frontier(l, open)
           /\ \A s : AtStage(l, s) => AtStage(m, s)
<1>1. IncludeReviewer(m, open) <=> IncludeReviewer(l, open)
  BY DEF IncludeReviewer
<1>2. effective_sequence(m.kind, IncludeReviewer(m, open))
        = effective_sequence(l.kind, IncludeReviewer(l, open))
  BY <1>1, Zenon DEF effective_sequence
<1>3. _workflow_frontier(m, open) = _workflow_frontier(l, open)
  BY <1>2, Zenon DEF _workflow_frontier
<1>4. \A s : AtStage(l, s) => AtStage(m, s)
  BY Zenon DEF AtStage
<1> QED
  BY <1>3, <1>4

(* A new dispatch: an attempt in this cycle, or the first of the next.     *)
LEMMA DispatchKeeps ==
    ASSUME GateInv, ProtocolAndStage, CreateDispatch
    PROVE  ProtocolAndStage'
<1>1. CASE manual
  <2>1. manual'
    BY <1>1 DEF CreateDispatch
  <2> QED
    BY <2>1, ManualKeeps
<1>2. CASE ~manual
  <2>1. /\ CoreTypes /\ CoreTypes'
        /\ Frontier.role # NONE
        /\ ledger.rework => ledger' =
             [cycle |-> ledger.cycle + 1, kind |-> "REWORK", toggle |-> ledger.next,
              done |-> {}, attempts |-> 1, rework |-> FALSE, next |-> "unset"]
        /\ ~ledger.rework => /\ ledger.attempts < MaxAttempts
                             /\ ledger' = [ledger EXCEPT !.attempts = @ + 1]
        /\ disp'.status = "PENDING" /\ disp'.role = active
        /\ disp'.cycle = Frontier.cycle /\ disp'.pos = Frontier.pos
        /\ disp'.handoff = handoff.no /\ disp'.run = run
    BY Dispatches DEF GateInv
  <2>2. /\ task.state \notin TerminalStates \cup PauseStates /\ active # NONE
        /\ active = Frontier.role /\ disp.status \notin OpenDispatch
        /\ UNCHANGED <<task, active, handoff, run, findings, manual>>
    BY DEF CreateDispatch
  <2>3. handoff.to = active
    BY <1>2, <2>2 DEF ProtocolAndStage, ProtocolInv
  <2>4. ledger \in Ledger /\ findings \in BOOLEAN /\ ledger' \in Ledger
    BY <2>1 DEF CoreTypes
  <2>5. /\ Frontier'.cycle = Frontier.cycle /\ Frontier'.pos = Frontier.pos
        /\ Frontier'.role = Frontier.role /\ ~ledger'.rework
        /\ Underlying \notin Out => AtStage(ledger', Underlying)
    <3>1. CASE ledger.rework
      <4>1. /\ Frontier.cycle = ledger.cycle + 1 /\ Frontier.pos = 0 /\ Frontier.role = "lead"
        BY <2>1, <3>1, FrontierHere
      <4>2. /\ ledger'.cycle = ledger.cycle + 1 /\ ledger'.kind = "REWORK"
            /\ ledger'.done = {} /\ ledger'.rework = FALSE
        BY <2>1, <3>1
      <4>3. ledger'.done = 0 .. 0 - 1
        BY <4>2
      <4>4. /\ Len(SeqOf(ledger', findings)) \in 4 .. 7 /\ SeqOf(ledger', findings)[1] = "lead"
        BY Sequences
      <4>5. LET f == _workflow_frontier(ledger', findings)
            IN  f.pos = 0 /\ f.role = "lead" /\ f.cycle = ledger'.cycle
        <5>1. ~ledger'.rework /\ 0 \in Nat /\ 0 < Len(SeqOf(ledger', findings)) /\ 0 + 1 = 1
          BY <4>2, <4>4
        <5>2. LET f == _workflow_frontier(ledger', findings)
              IN  f.pos = 0 /\ f.role = SeqOf(ledger', findings)[0 + 1]
          <6>1. PICK p \in Nat : p = 0
            OBVIOUS
          <6>2. ledger'.done = 0 .. p - 1 /\ p < Len(SeqOf(ledger', findings))
            BY <4>3, <5>1, <6>1
          <6>3. LET f == _workflow_frontier(ledger', findings)
                IN  f.pos = p /\ f.role = SeqOf(ledger', findings)[p + 1]
            BY <2>4, <5>1, <6>2, FrontierAt
          <6> QED
            BY <6>1, <6>3
        <5>3. _workflow_frontier(ledger', findings).cycle = ledger'.cycle
          BY <2>4, <5>1, FrontierIs
        <5> QED
          BY <4>4, <5>1, <5>2, <5>3
      <4>6. Frontier' = _workflow_frontier(ledger', findings)
        BY <2>2 DEF Frontier
      <4>7. ASSUME Underlying \notin Out
            PROVE  AtStage(ledger', Underlying)
        <5>1. Underlying = "REWORK"
          BY <1>2, <3>1, <4>7 DEF ProtocolAndStage, StageInv, AtStage
        <5>2. \E p \in 0 .. 5 : ledger'.done = 0 .. p - 1 /\ "REWORK" \in ReworkStates(p)
          <6>1. 0 \in 0 .. 5 /\ "REWORK" \in ReworkStates(0)
            BY DEF ReworkStates
          <6> QED
            BY <4>3, <6>1
        <5> QED
          BY <4>2, <5>1, <5>2 DEF AtStage
      <4> QED
        BY <4>1, <4>2, <4>5, <4>6, <4>7
    <3>2. CASE ~ledger.rework
      <4>1. /\ ledger'.cycle = ledger.cycle /\ ledger'.kind = ledger.kind
            /\ ledger'.toggle = ledger.toggle /\ ledger'.done = ledger.done
            /\ ledger'.rework = ledger.rework
        BY <2>1, <2>4, <3>2 DEF Ledger
      <4>2. _workflow_frontier(ledger', findings) = _workflow_frontier(ledger, findings)
        BY <4>1, SameFrontier
      <4>3. Frontier' = Frontier
        BY <2>2, <4>2 DEF Frontier
      <4>4. Underlying \notin Out => AtStage(ledger', Underlying)
        BY <1>2, <4>1, SameFrontier DEF ProtocolAndStage, StageInv
      <4> QED
        BY <3>2, <4>1, <4>3, <4>4
    <3> QED
      BY <3>1, <3>2
  <2>6. ProtocolInv'
    BY <2>1, <2>2, <2>3, <2>5 DEF ProtocolInv, OpenAgrees, OpenDispatch
  <2>7. Underlying' = Underlying
    BY <2>2 DEF Underlying
  <2>8. StageInv'
    BY <2>5, <2>7 DEF StageInv
  <2> QED
    BY <2>6, <2>8 DEF ProtocolAndStage
<1> QED
  BY <1>1, <1>2

(* Recovery: an unresolved dispatch keeps its role, any other is closed.   *)
LEMMA RecoverKeeps ==
    ASSUME GateInv, ProtocolAndStage, Recover
    PROVE  ProtocolAndStage'
<1>1. CASE manual
  <2>1. manual'
    BY <1>1 DEF Recover
  <2> QED
    BY <2>1, ManualKeeps
<1>2. CASE ~manual
  <2>1. /\ disp \in Disps /\ Underlying' = Underlying
        /\ disp' = [disp EXCEPT !.status = Recovered(disp)]
        /\ active' = IF KeepsRun(disp) /\ active = disp.role THEN active ELSE NONE
        /\ UNCHANGED <<now, handoff, run, ledger, findings, approvals, manual, late>>
    BY Recovers DEF Recover, GateInv, CoreTypes
  <2>2. /\ Recovered(disp) \in OpenDispatch \cup {"CONSUMED", "FAILED", "REJECTED", "NONE"}
        /\ KeepsRun(disp) => disp.status \in OpenDispatch /\ Recovered(disp) \in OpenDispatch
        /\ ~KeepsRun(disp) => Recovered(disp) \notin OpenDispatch
    BY <2>1, RecoveredIs
  <2>3. /\ disp'.status = Recovered(disp) /\ disp'.role = disp.role /\ disp'.cycle = disp.cycle
        /\ disp'.pos = disp.pos /\ disp'.handoff = disp.handoff /\ disp'.run = disp.run
    BY <2>1, <2>2, DispSteps
  <2>4. Frontier' = Frontier
    BY <2>1 DEF Frontier
  <2>5. StageInv'
    BY <2>1 DEF StageInv, ProtocolAndStage
  <2>6. GateInv'
    BY Recovers, QuietKeeps
  <2>7. task.state \in TerminalStates <=> task'.state \in TerminalStates
    <3>1. /\ Underlying \in TerminalStates <=> task.state \in TerminalStates
      BY UnderlyingIs
    <3>2. (Underlying \in TerminalStates <=> task.state \in TerminalStates)'
      <4>1. task \in Tasks /\ task' \in Tasks /\ (task.state \in PauseStates => is_valid_resume_target(task.resume))
            /\ (task'.state \in PauseStates => is_valid_resume_target(task'.resume))
        BY <2>6 DEF GateInv, CoreTypes, PauseInv
      <4>2. CASE task'.state \in PauseStates
        BY <4>1, <4>2 DEF Underlying, is_valid_resume_target, TerminalStates, PauseStates
      <4>3. CASE task'.state \notin PauseStates
        BY <4>3 DEF Underlying
      <4> QED
        BY <4>2, <4>3
    <3> QED
      BY <2>1, <3>1, <3>2
  <2>8. CASE KeepsRun(disp)
    <3>1. OpenAgrees
      BY <1>2, <2>2, <2>8 DEF ProtocolAndStage, ProtocolInv
    <3>2. active' = active
      BY <2>1, <2>8, <3>1 DEF OpenAgrees
    <3>3. OpenAgrees'
      BY <2>1, <2>3, <2>4, <2>7, <3>1, <3>2 DEF OpenAgrees
    <3>4. ProtocolInv'
      BY <2>1, <2>2, <2>3, <2>8, <3>1, <3>2, <3>3 DEF ProtocolInv, OpenAgrees
    <3> QED
      BY <2>5, <3>4 DEF ProtocolAndStage
  <2>9. CASE ~KeepsRun(disp)
    <3>1. disp'.status \notin OpenDispatch /\ active' = NONE
      BY <2>1, <2>2, <2>3, <2>9
    <3>2. CASE disp.status \in OpenDispatch
      BY <1>2, <2>1, <3>1, <3>2, Closing
    <3>3. CASE disp.status \notin OpenDispatch
      <4>1. ClosedAgrees
        BY <1>2, <3>3 DEF ProtocolAndStage, ProtocolInv
      <4>2. ClosedAgrees'
        BY <2>1, <2>4, <2>7, <4>1 DEF ClosedAgrees
      <4> QED
        BY <2>5, <3>1, <4>2 DEF ProtocolAndStage, ProtocolInv
    <3> QED
      BY <3>2, <3>3
  <2> QED
    BY <2>8, <2>9
<1> QED
  BY <1>1, <1>2

(* A started role, a bound or rejected spawn, a failed dispatch.           *)
LEMMA RoleKeeps ==
    ASSUME GateInv, ProtocolAndStage,
           StartRole \/ BindSpawnResult \/ ReceiveMalformed \/ MarkAgentFailed
    PROVE  ProtocolAndStage'
<1>1. UNCHANGED <<task, manual, ledger, findings, run>>
  BY DEF StartRole, BindSpawnResult, ReceiveMalformed, MarkAgentFailed
<1>2. CASE manual
  BY <1>1, <1>2, ManualKeeps
<1>3. CASE ~manual
  <2>1. Frontier' = Frontier /\ Underlying' = Underlying
    BY <1>1 DEF Frontier, Underlying
  <2>2. StageInv' /\ disp \in Disps
    BY <1>1, <2>1 DEF ProtocolAndStage, StageInv, GateInv, CoreTypes
  <2>3. CASE StartRole
    <3>1. /\ active = NONE /\ active' = handoff.to /\ handoff.to = Frontier.role
          /\ UNCHANGED <<handoff, disp>>
      BY <2>3 DEF StartRole
    <3>2. disp.status \notin OpenDispatch
      BY <1>3, <3>1 DEF ProtocolAndStage, ProtocolInv, OpenAgrees
    <3>3. ProtocolInv'
      BY <1>1, <1>3, <2>1, <3>1, <3>2 DEF ProtocolAndStage, ProtocolInv, ClosedAgrees
    <3> QED
      BY <2>2, <3>3 DEF ProtocolAndStage
  <2>4. CASE BindSpawnResult
    <3>1. /\ disp'.status \in {"RUNNING", "REJECTED"}
          /\ disp'.role = disp.role /\ disp'.cycle = disp.cycle /\ disp'.pos = disp.pos
          /\ disp'.handoff = disp.handoff /\ disp'.run = disp.run
      BY <2>2, <2>4, Binds
    <3>2. disp.status \in OpenDispatch /\ UNCHANGED <<active, handoff>>
      BY <2>4 DEF BindSpawnResult, OpenDispatch
    <3>3. CASE disp'.status = "RUNNING"
      <4>1. disp'.status \in OpenDispatch
        BY <3>3 DEF OpenDispatch
      <4>2. OpenAgrees
        BY <1>3, <3>2 DEF ProtocolAndStage, ProtocolInv
      <4>3. OpenAgrees'
        BY <1>1, <2>1, <3>1, <3>2, <4>2 DEF OpenAgrees
      <4>4. ProtocolInv'
        BY <3>2, <4>1, <4>2, <4>3 DEF ProtocolInv, OpenAgrees
      <4> QED
        BY <2>2, <4>4 DEF ProtocolAndStage
    <3>4. CASE disp'.status = "REJECTED"
      <4>1. disp'.status \notin OpenDispatch
        BY <3>4 DEF OpenDispatch
      <4> QED
        BY <1>1, <1>3, <2>1, <3>2, <4>1, Closing
    <3> QED
      BY <3>1, <3>3, <3>4
  <2>5. CASE ReceiveMalformed
    <3>1. disp.status \in OpenDispatch /\ UNCHANGED <<active, handoff>>
      BY <2>5 DEF ReceiveMalformed, Receivable, OpenDispatch
    <3>2. disp'.status \notin OpenDispatch
      BY <2>2, <2>5 DEF ReceiveMalformed, Disps, OpenDispatch
    <3> QED
      BY <1>1, <1>3, <2>1, <3>1, <3>2, Closing
  <2>6. CASE MarkAgentFailed
    <3>1. disp.status \in OpenDispatch /\ active' \in {NONE, active}
      BY <2>6 DEF MarkAgentFailed, OpenDispatch
    <3>2. disp'.status \notin OpenDispatch
      BY <2>2, <2>6 DEF MarkAgentFailed, Disps, OpenDispatch
    <3>3. handoff'.to = handoff.to
      BY <1>3, <2>6, <3>1, Fails DEF ProtocolAndStage, ProtocolInv, OpenAgrees
    <3> QED
      BY <1>1, <1>3, <2>1, <3>1, <3>2, <3>3, Closing
  <2> QED
    BY <2>3, <2>4, <2>5, <2>6
<1> QED
  BY <1>2, <1>3

(* Gates, time and callbacks leave roles and dispatches alone.             *)
LEMMA GatesKeep ==
    ASSUME GateInv, ProtocolAndStage,
           \/ RequestAction \/ Tick \/ UNCHANGED coreVars
           \/ GateEnd
    PROVE  ProtocolAndStage'
<1>1. CASE RequestAction
  <2>1. Underlying' = Underlying
    BY <1>1, Requested
  <2>2. task.state \notin TerminalStates /\ task'.state \notin TerminalStates
    BY <1>1 DEF RequestAction, Actionable, MainPath, TerminalStates
  <2> QED
    BY <1>1, <2>1, <2>2, OthersKeep DEF RequestAction
<1>2. CASE Tick \/ UNCHANGED coreVars
  <2>1. UNCHANGED <<task, active, handoff, run, ledger, disp, findings, manual>>
    BY <1>2 DEF Tick, coreVars
  <2>2. Underlying' = Underlying
    BY <2>1 DEF Underlying
  <2> QED
    BY <2>1, <2>2, OthersKeep
<1>3. CASE GateEnd
  <2>1. PICK n : (\E s \in Phases : GateEnds(n, s)) \/ LateWord(n)
    BY <1>3 DEF GateEnd
  <2>2. Underlying' = Underlying \/ Underlying' = "BLOCKED"
    BY <2>1, GateEndKeeps, LateWordKeeps
  <2>3. task' \in {task, ReleasedTask(task), RejectedTask(task)}
    BY <2>1 DEF GateEnds, LateWord, Phases
  <2>4. task.state \in TerminalStates <=> task'.state \in TerminalStates
    <3>1. CASE Gated
      BY <2>3, <3>1, Releases DEF TerminalStates, Gated
    <3>2. CASE ~Gated
      BY <2>3, <3>2, Releases
    <3> QED
      BY <3>1, <3>2
  <2>5. UNCHANGED <<active, handoff, run, ledger, disp, findings, manual>>
    BY <2>1 DEF GateEnds, LateWord, OthersSame
  <2> QED
    BY <2>2, <2>4, <2>5, OthersKeep
<1> QED
  BY <1>1, <1>2, <1>3

LEMMA ProtocolKept ==
    ASSUME GateInv, TokensInv, ProtocolAndStage, [InboundNext]_allVars
    PROVE  ProtocolAndStage'
<1>1. CASE CoreCommand
  <2>1. CoreNext
    BY <1>1 DEF CoreCommand
  <2>2. CASE Transition \/ EndRole \/ ChangeFindings \/ StartTaskRun
    <3>1. manual'
      BY <2>2 DEF Transition, EndRole, ChangeFindings, StartTaskRun
    <3> QED
      BY <3>1, ManualKeeps
  <2>3. CASE OwnerCommand
    BY <2>3, OwnerEndsGate, GatesKeep DEF GateEnd
  <2> QED
    BY <2>1, <2>2, <2>3, ConsumeKeeps, DispatchKeeps, RecoverKeeps, RoleKeeps, GatesKeep
       DEF CoreNext
<1>2. CASE \E u \in DOMAIN sent : process_callback(u)
  <2>1. UNCHANGED coreVars \/ GateEnd
    BY <1>2, CallbackEnds
  <2> QED
    BY <2>1, GatesKeep
<1>3. /\ \A n : create_challenge(n) => UNCHANGED coreVars
      /\ Stray \/ (\E c \in DOMAIN challenges : Press(c)) => UNCHANGED coreVars
  BY DEF create_challenge, Stray, Press
<1>4. UNCHANGED allVars => UNCHANGED coreVars
  BY DEF allVars
<1> QED
  BY <1>1, <1>2, <1>3, <1>4, GatesKeep DEF InboundNext

LEMMA ProtocolStarts ==
    ASSUME InboundInit
    PROVE  ProtocolAndStage
<1>1. CoreInit /\ GateInv
  BY CoreStarts DEF InboundInit
<1>2. /\ ledger.done = {} /\ ledger.kind = "STANDARD" /\ ledger.rework = FALSE
      /\ handoff.to = "lead" /\ active = NONE /\ disp.status = "NONE"
      /\ task.state = "NEW"
  BY <1>1 DEF CoreInit
<1>3. Underlying = "NEW"
  BY <1>2 DEF Underlying, PauseStates
<1>4. AtStage(ledger, "NEW")
  <2>1. ledger.done = 0 .. 0 - 1 /\ MainStates[0 + 1] = "NEW" /\ 0 \in 0 .. 7
    BY <1>2, Tables
  <2>2. \E p \in 0 .. 7 : ledger.done = 0 .. p - 1 /\ "NEW" = MainStates[p + 1]
    BY <2>1
  <2> QED
    BY <1>2, <2>2 DEF AtStage
<1>5. Frontier.role = "lead"
  <2>1. PICK p \in Nat : p = 0
    OBVIOUS
  <2>2. ledger.done = 0 .. p - 1 /\ ledger \in Ledger /\ findings \in BOOLEAN /\ ~ledger.rework
    BY <1>1, <1>2, <2>1 DEF GateInv, CoreTypes
  <2>3. Len(SeqOf(ledger, findings)) \in 4 .. 7 /\ SeqOf(ledger, findings)[1] = "lead"
    BY Sequences
  <2>4. p < Len(SeqOf(ledger, findings))
    BY <2>1, <2>3
  <2>5. Frontier.role = SeqOf(ledger, findings)[p + 1]
    BY <2>2, <2>4, FrontierAt DEF Frontier
  <2>6. p + 1 = 1
    BY <2>1
  <2> QED
    BY <2>3, <2>5, <2>6
<1>6. ProtocolInv
  BY <1>2, <1>5 DEF ProtocolInv, ClosedAgrees, OpenDispatch
<1> QED
  BY <1>3, <1>4, <1>6 DEF ProtocolAndStage, StageInv

LEMMA ProtocolInvariant == InboundSpec => [](GateInv /\ ProtocolAndStage)
<1>1. InboundInit => GateInv /\ ProtocolAndStage
  BY CoreStarts, ProtocolStarts DEF InboundInit
<1>2. GateInv /\ TokensInv /\ ProtocolAndStage /\ [InboundNext]_allVars => ProtocolAndStage'
  BY ProtocolKept
<1> QED
  BY <1>1, <1>2, InboundInvariant, PTL DEF InboundSpec

(* As long as the controller keeps to its protocol, the open dispatch is   *)
(* at the frontier that core.py replays from the ledger, and with none     *)
(* open the latest handoff names the frontier's role.                      *)
THEOREM LedgerSafe == InboundSpec => []LedgerAgrees
<1>1. GateInv /\ ProtocolAndStage => LedgerAgrees
  BY DEF ProtocolAndStage, ProtocolInv, OpenAgrees, ClosedAgrees, LedgerAgrees
<1> QED
  BY <1>1, ProtocolInvariant, PTL

(* The result of a bound dispatch passes every check of                    *)
(* receive_agent_result and its state sync, whatever the lead decides,     *)
(* through crashes, recovery, gates and retries, for any number of cycles. *)
THEOREM ResultNeverLost == InboundSpec => []ResultConsumable
<1>1. ASSUME GateInv, ProtocolAndStage
      PROVE  ResultConsumable
  <2> SUFFICES ASSUME ~manual, disp.status \in {"RUNNING", "RECOVERY_PENDING"}, disp.bound,
                      Underlying # "BLOCKED"
               PROVE  /\ Receivable
                      /\ \A decision \in Decisions :
                           PlanFits(_state_sync_plan(ledger.kind, disp.pos, disp.role,
                                                     decision, Underlying), Underlying)
    BY DEF ResultConsumable
  <2>1. disp.status \in OpenDispatch
    BY DEF OpenDispatch
  <2>2. OpenAgrees
    BY <1>1, <2>1 DEF ProtocolAndStage, ProtocolInv
  <2>3. Receivable
    BY <2>2 DEF Receivable, OpenAgrees
  <2>4. Underlying \notin Out
    BY <1>1, <2>2, UnderlyingIs DEF OpenAgrees, Out
  <2>5. /\ disp.pos \in 0 .. 6 /\ ledger.kind \in {"STANDARD", "REWORK"}
        /\ ledger.kind = "REWORK" => disp.pos =< 4
        /\ Legal(ledger.kind, disp.pos, disp.role, Underlying)
    BY <1>1, <2>1, <2>4, OpenIsLegal
  <2>6. \A decision \in Decisions :
           PlanFits(_state_sync_plan(ledger.kind, disp.pos, disp.role,
                                     decision, Underlying), Underlying)
    BY <2>5, StageMoves
  <2> QED
    BY <2>3, <2>6
<1> QED
  BY <1>1, ProtocolInvariant, PTL

=============================================================================
