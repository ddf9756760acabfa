--------------------------- MODULE AdmissionProofs ---------------------------
(***************************************************************************)
(* What holds of admission for any jobs, declarations, host and limits: no *)
(* two agents in conflict work together while their rows count for them    *)
(* (ConflictsExclude), nothing is started beside a RUNNING row it is in    *)
(* conflict with, astray or not (NothingStartsBeside), those that run fit  *)
(* the host and no recovery is refused (AdmissionSafe), and evidence is    *)
(* settled before anything else is started (EvidenceSettled).              *)
(*                                                                         *)
(* The invariant says what each gate a pass went through still excludes:   *)
(* between the gate and the spawn agents may end, and none may begin.      *)
(***************************************************************************)
EXTENDS Admission, FiniteSetTheorems, TLAPS

AttemptBound == Max({max_resource_retries, max_resource_defers})

Rows ==
    [state : {"QUEUED", "RUNNING"} \cup Terminal, role : STRING \cup {NULL}, step : Nat,
     phase : {"spawn", "stuck", "run", "tests"}, tries : Nat, runs : Nat,
     attempt : 0 .. AttemptBound]

ResourceEnds ==
    {"TIMEOUT", "OOM_KILL", "MEMORY_LIMIT", "SCOPE_CLEANUP_UNVERIFIED", "UNKNOWN_TERMINATION"}

Working == {"held", "reconcile", "spawning", "spawnadmit", "launch", "admitted", "tested"}

Processes == {"none", "live", "stray", "ok", "failed", "vanished"}

TypeInv ==
    /\ facts \in [Jobs -> Declarations]
    /\ \A j \in Jobs : facts[j].roots \subseteq Seq(STRING) \ {<<>>}
    /\ job \in [Jobs -> Rows]
    /\ agent \in [Jobs -> Processes]
    /\ held \subseteq Jobs
    /\ evidence \in [Jobs -> ResourceEnds \cup {NULL}]
    /\ host \in Snapshots
    /\ faults \in 0 .. MaxFaults

\* A row names a role of its job, until the job is done.
StepInv == \A j \in Jobs : job[j].state # "DONE" => job[j].step \in 1 .. Len(facts[j].roles)

\* The job of a pass is RUNNING, and its phase one the point of the pass allows.
PassInv ==
    \/ pass = Idle
    \/ /\ pass \in [pc : {"claimed", "admit"} \cup Working, job : Jobs]
       /\ job[pass.job].state = "RUNNING"
       /\ pass.pc \in {"claimed", "admit"} => agent[pass.job] # "live"
       /\ pass.pc \in {"spawning", "spawnadmit", "launch", "admitted"}
              => job[pass.job].phase \in {"spawn", "tests"}
       /\ pass.pc = "tested" => job[pass.job].phase = "tests"

\* An agent that lives and is not astray is that of a RUNNING job in its run.
LiveInv ==
    \A j \in Jobs : agent[j] = "live" => job[j].state = "RUNNING" /\ job[j].phase = "run"

\* Evidence stays with its job, whose tests are not done, until a pass recovers from it.
EvidenceInv ==
    \A j \in Jobs : evidence[j] # NULL =>
        /\ job[j].phase = "tests"
        /\ Pass(j) => pass.pc \in {"idle", "claimed", "admit", "held", "tested"}

\* No RUNNING job conflicts with what the structural gate let pass.
ClearInv ==
    pass.pc \in {"spawnadmit", "launch", "admitted"} =>
        \A k \in Active(pass.job) : ~Conflict(pass.job, k)

PairInv == \A j, k \in Live : j # k => ~Conflict(j, k)

\* What the governor admitted fits beside what lives.
RoomInv ==
    /\ Fits(Live)
    /\ At("admitted") => Fits(Live \cup {pass.job})

IInv ==
    /\ TypeInv /\ StepInv /\ PassInv /\ LiveInv /\ EvidenceInv
    /\ ClearInv /\ PairInv /\ RoomInv

----------------------------------------------------------------------------
(* What the operators return.                                              *)

\* The greater of two integers is one of them and bounds both.
LEMMA MaxOfTwo ==
    ASSUME NEW a \in Int, NEW b \in Int
    PROVE  Max({a, b}) \in {a, b} /\ a =< Max({a, b}) /\ b =< Max({a, b})
<1>1. \E x \in {a, b} : \A y \in {a, b} : x >= y
  <2>1. CASE a >= b BY <2>1
  <2>2. CASE b >= a BY <2>2
  <2> QED BY <2>1, <2>2
<1> DEFINE m == CHOOSE x \in {a, b} : \A y \in {a, b} : x >= y
<1>2. m \in {a, b} /\ \A y \in {a, b} : m >= y
  BY <1>1
<1>3. Max({a, b}) = m
  BY DEF Max
<1> HIDE DEF m
<1> QED BY <1>2, <1>3

\* Two prefixes of one sequence: one is a prefix of the other.
LEMMA PrefixesComparable ==
    ASSUME NEW s \in Seq(STRING), NEW t \in Seq(STRING), NEW u \in Seq(STRING),
           IsPrefix(s, u), IsPrefix(t, u)
    PROVE  IsPrefix(s, t) \/ IsPrefix(t, s)
<1>1. /\ Len(s) \in Nat /\ Len(t) \in Nat /\ Len(u) \in Nat
      /\ Len(s) =< Len(u) /\ Len(t) =< Len(u)
  BY DEF IsPrefix
<1>2. \A i \in 1 .. Len(s) : s[i] = u[i]
  <2> TAKE i \in 1 .. Len(s)
  <2>1. SubSeq(s, 1, Len(s))[i] = s[i] /\ SubSeq(u, 1, Len(s))[i] = u[i]
    BY <1>1
  <2> QED BY <2>1 DEF IsPrefix
<1>3. \A i \in 1 .. Len(t) : t[i] = u[i]
  <2> TAKE i \in 1 .. Len(t)
  <2>1. SubSeq(t, 1, Len(t))[i] = t[i] /\ SubSeq(u, 1, Len(t))[i] = u[i]
    BY <1>1
  <2> QED BY <2>1 DEF IsPrefix
<1>4. CASE Len(s) =< Len(t)
  <2>1. SubSeq(s, 1, Len(s)) = SubSeq(t, 1, Len(s))
    BY <1>1, <1>2, <1>3, <1>4
  <2> QED BY <2>1, <1>4 DEF IsPrefix
<1>5. CASE Len(t) =< Len(s)
  <2>1. SubSeq(t, 1, Len(t)) = SubSeq(s, 1, Len(t))
    BY <1>1, <1>2, <1>3, <1>5
  <2> QED BY <2>1, <1>5 DEF IsPrefix
<1> QED BY <1>1, <1>4, <1>5

\* A conflict is one from either side.
LEMMA ConflictSymmetric ==
    ASSUME NEW j, NEW k, Conflict(j, k)
    PROVE  Conflict(k, j)
<1>1. ActionConflict(facts[j], facts[k]) => ActionConflict(facts[k], facts[j])
  BY DEF ActionConflict, Same
<1>2. path_roots_conflict(facts[j].roots, facts[k].roots)
          <=> path_roots_conflict(facts[k].roots, facts[j].roots)
  BY DEF path_roots_conflict
<1>3. footprint_overlap(facts[k], facts[j]) = footprint_overlap(facts[j], facts[k])
  BY <1>2 DEF footprint_overlap, Same
<1>4. WriterConflict(facts[j], facts[k]) => WriterConflict(facts[k], facts[j])
  BY <1>3 DEF WriterConflict, Same
<1> QED BY <1>1, <1>4 DEF Conflict

\* The structural gate lets pass what conflicts with no other RUNNING job.
LEMMA AllowedIsClear ==
    ASSUME NEW j, decide(j) = "ALLOW_PARALLEL"
    PROVE  \A k \in Active(j) : ~Conflict(j, k)
BY DEF decide

\* Disjoint footprints have no file in common.
LEMMA DisjointWrites ==
    ASSUME NEW f \in Declarations, NEW g \in Declarations,
           f.roots \subseteq Seq(STRING) \ {<<>>}, g.roots \subseteq Seq(STRING) \ {<<>>},
           footprint_overlap(f, g) = "DISJOINT"
    PROVE  /\ Writes(f) \cap Writes(g) = {}
           /\ (f.repo = g.repo => ~Same(f.branch, g.branch))
<1>1. f.repo # NULL /\ g.repo # NULL
  BY DEF footprint_overlap
<1>2. CASE f.repo # g.repo
  BY <1>1, <1>2 DEF Writes
<1>3. CASE f.repo = g.repo
  <2>1. /\ ~Same(f.branch, g.branch) /\ f.roots # {} /\ g.roots # {}
        /\ ~path_roots_conflict(f.roots, g.roots)
    BY <1>1, <1>3 DEF footprint_overlap
  <2>2. ASSUME NEW x \in Writes(f) \cap Writes(g)
        PROVE  FALSE
    <3>1. x.path \in Seq(STRING)
      BY FilesAssumption DEF Writes
    <3>2. PICK a \in f.roots : IsPrefix(a, x.path)
      BY <1>1, <2>1 DEF Writes
    <3>3. PICK b \in g.roots : IsPrefix(b, x.path)
      BY <1>1, <2>1 DEF Writes
    <3>4. a \in Seq(STRING) /\ b \in Seq(STRING) /\ a # <<>> /\ b # <<>>
      OBVIOUS
    <3>5. IsPrefix(a, b) \/ IsPrefix(b, a)
      BY <3>1, <3>2, <3>3, <3>4, PrefixesComparable
    <3> QED BY <2>1, <3>4, <3>5 DEF path_roots_conflict, _is_prefix
  <2> QED BY <2>1, <2>2
<1> QED BY <1>2, <1>3

----------------------------------------------------------------------------
(* What fits the host.                                                     *)

LEMMA OfType ==
    ASSUME NEW S \in SUBSET Jobs, NEW classes
    PROVE  /\ IsFiniteSet(Of(S, classes)) /\ Cardinality(Of(S, classes)) \in Nat
           /\ IsFiniteSet(S) /\ Cardinality(S) \in Nat
<1>1. IsFiniteSet(S)
  BY JobsAssumption, FS_Subset
<1>2. IsFiniteSet(Of(S, classes))
  BY <1>1, FS_Subset DEF Of
<1> QED BY <1>1, <1>2, FS_CardinalityType

\* A job more or fewer among those of some classes.
LEMMA OfWith ==
    ASSUME NEW S \in SUBSET Jobs, NEW j \in Jobs \ S, NEW classes
    PROVE  Cardinality(Of(S \cup {j}, classes)) =
               Cardinality(Of(S, classes)) + IF facts[j].class \in classes THEN 1 ELSE 0
<1>1. IsFiniteSet(Of(S, classes)) /\ Cardinality(Of(S, classes)) \in Nat
  BY OfType
<1>2. CASE facts[j].class \in classes
  <2>1. Of(S \cup {j}, classes) = Of(S, classes) \cup {j} /\ j \notin Of(S, classes)
    BY <1>2 DEF Of
  <2> QED BY <1>1, <1>2, <2>1, FS_AddElement
<1>3. CASE facts[j].class \notin classes
  <2>1. Of(S \cup {j}, classes) = Of(S, classes)
    BY <1>3 DEF Of
  <2> QED BY <1>1, <1>3, <2>1
<1> QED BY <1>2, <1>3

LEMMA OfSubset ==
    ASSUME NEW T \in SUBSET Jobs, NEW S \in SUBSET T, NEW classes
    PROVE  Cardinality(Of(S, classes)) =< Cardinality(Of(T, classes))
BY OfType, FS_Subset, Of(S, classes) \subseteq Of(T, classes) DEF Of

LEMMA ReservedType ==
    ASSUME NEW S \in SUBSET Jobs
    PROVE  Reserved(S) \in Nat
BY OfType DEF Reserved, memory_max

LEMMA ReservedWith ==
    ASSUME NEW S \in SUBSET Jobs, NEW j \in Jobs \ S, facts[j].class \in ResourceClass
    PROVE  Reserved(S \cup {j}) = Reserved(S) + memory_max(facts[j].class)
<1> DEFINE n(c) == Cardinality(Of(S, {c}))
           m(c) == Cardinality(Of(S \cup {j}, {c}))
<1>1. \A c \in ResourceClass : n(c) \in Nat /\ m(c) = n(c) + IF facts[j].class = c THEN 1 ELSE 0
  BY OfType, OfWith
<1>2. /\ Reserved(S) = 2 * n("LIGHT") + 5 * n("MEDIUM") + 8 * n("HEAVY") + 11 * n("EXCLUSIVE")
      /\ Reserved(S \cup {j}) =
             2 * m("LIGHT") + 5 * m("MEDIUM") + 8 * m("HEAVY") + 11 * m("EXCLUSIVE")
  BY DEF Reserved, memory_max
<1> HIDE DEF n, m
<1>3. facts[j].class \in {"LIGHT", "MEDIUM", "HEAVY", "EXCLUSIVE"}
  BY DEF ResourceClass, _WRITER_CLASSES
<1>4. {"LIGHT", "MEDIUM", "HEAVY", "EXCLUSIVE"} \subseteq ResourceClass
  BY DEF ResourceClass, _WRITER_CLASSES
<1> QED BY <1>1, <1>2, <1>3, <1>4 DEF memory_max

LEMMA ReservedSubset ==
    ASSUME NEW T \in SUBSET Jobs, NEW S \in SUBSET T
    PROVE  Reserved(S) =< Reserved(T)
<1> DEFINE n(c) == Cardinality(Of(S, {c}))
           m(c) == Cardinality(Of(T, {c}))
<1>1. \A c : n(c) \in Nat /\ m(c) \in Nat /\ n(c) =< m(c)
  BY OfType, OfSubset
<1>2. /\ Reserved(S) = 2 * n("LIGHT") + 5 * n("MEDIUM") + 8 * n("HEAVY") + 11 * n("EXCLUSIVE")
      /\ Reserved(T) = 2 * m("LIGHT") + 5 * m("MEDIUM") + 8 * m("HEAVY") + 11 * m("EXCLUSIVE")
  BY DEF Reserved, memory_max
<1> HIDE DEF n, m
<1> QED BY <1>1, <1>2

LEMMA ReserveType == required_host_reserve(Calm.total) \in Int
<1> DEFINE fifth == Calm.total \div 5
<1>1. fifth \in Int
  BY HostAssumption
<1>2. required_host_reserve(Calm.total) = Max({3, fifth})
  BY DEF required_host_reserve
<1> HIDE DEF fifth
<1>3. Max({3, fifth}) \in {3, fifth}
  BY <1>1, MaxOfTwo
<1> QED BY <1>1, <1>2, <1>3

\* Fewer fit where more did.
LEMMA FewerFit ==
    ASSUME NEW T \in SUBSET Jobs, NEW S \in SUBSET T, Fits(T)
    PROVE  Fits(S)
<1>1. /\ Cardinality(Of(S, _WRITER_CLASSES)) =< max_writers_global
      /\ Cardinality(Of(S, {"LIGHT"})) =< max_light
  BY OfSubset, OfType, PolicyAssumption DEF Fits
<1>2. ASSUME Of(S, {"EXCLUSIVE"}) # {}
      PROVE  Cardinality(S) = 1
  <2>1. Cardinality(T) = 1 /\ IsFiniteSet(T)
    BY <1>2, OfType DEF Fits, Of
  <2>2. PICK x : T = {x}
    BY <2>1, FS_Singleton
  <2>3. S = {x}
    BY <1>2, <2>2 DEF Of
  <2> QED BY <2>3, FS_Singleton
<1>3. S # {} => Reserved(S) + required_host_reserve(Calm.total) =< Calm.total
  BY ReservedSubset, ReservedType, ReserveType, HostAssumption DEF Fits
<1> QED BY <1>1, <1>2, <1>3 DEF Fits

LEMMA NoneFit == Fits({})
<1>1. \A classes : Of({}, classes) = {}
  BY DEF Of
<1> QED BY <1>1, FS_EmptySet, PolicyAssumption DEF Fits

\* What the governor admits fits beside those that are RUNNING and fit.
LEMMA AdmittedFits ==
    ASSUME NEW j \in Jobs, facts[j].class \in ResourceClass, host \in Snapshots,
           NEW S \in SUBSET Active(j), Fits(S), _decide(j) = "ALLOW"
    PROVE  Fits(S \cup {j})
<1> DEFINE A == Active(j)  c == facts[j].class
<1>1. A \in SUBSET Jobs /\ j \in Jobs \ A /\ S \in SUBSET Jobs /\ j \in Jobs \ S
  BY DEF Active
<1>2. /\ ~ConcurrencyLimited(j)
      /\ ~(host.avail - _active_reserved_bytes(j) - memory_max(c) < required_host_reserve(host.total))
  BY DEF _decide
<1>3. \A classes : /\ Cardinality(Of(S, classes)) \in Nat /\ Cardinality(Of(A, classes)) \in Nat
                   /\ Cardinality(Of(S, classes)) =< Cardinality(Of(A, classes))
  BY <1>1, OfType, OfSubset
<1>4. c \in {"LIGHT"} \cup _WRITER_CLASSES /\ "LIGHT" \notin _WRITER_CLASSES
  BY DEF ResourceClass, _WRITER_CLASSES
<1>5. Cardinality(Of(S \cup {j}, _WRITER_CLASSES)) =< max_writers_global
  <2>1. CASE c \in _WRITER_CLASSES
    <3>1. Cardinality(Of(A, _WRITER_CLASSES)) < max_writers_global
      BY <1>2, <1>3, <2>1, PolicyAssumption DEF ConcurrencyLimited, Count
    <3> QED BY <1>1, <1>3, <2>1, <3>1, OfWith, PolicyAssumption
  <2>2. CASE c \notin _WRITER_CLASSES
    BY <1>1, <1>3, <2>2, OfWith, PolicyAssumption DEF Fits
  <2> QED BY <2>1, <2>2
<1>6. Cardinality(Of(S \cup {j}, {"LIGHT"})) =< max_light
  <2>1. CASE c = "LIGHT"
    <3>1. Cardinality(Of(A, {"LIGHT"})) < max_light
      BY <1>2, <1>3, <2>1, PolicyAssumption DEF ConcurrencyLimited, Count
    <3> QED BY <1>1, <1>3, <2>1, <3>1, OfWith, PolicyAssumption
  <2>2. CASE c # "LIGHT"
    BY <1>1, <1>3, <2>2, OfWith, PolicyAssumption DEF Fits
  <2> QED BY <2>1, <2>2
<1>7. ASSUME Of(S \cup {j}, {"EXCLUSIVE"}) # {}
      PROVE  Cardinality(S \cup {j}) = 1
  <2>1. IsFiniteSet(Of(A, {"EXCLUSIVE"}))
    BY <1>1, OfType
  <2>2. ~(Cardinality(Of(A, {"EXCLUSIVE"})) > 0) /\ Cardinality(Of(A, {"EXCLUSIVE"})) \in Nat
    BY <1>2, <1>3 DEF ConcurrencyLimited, Count
  <2>3. Of(A, {"EXCLUSIVE"}) = {}
    BY <2>1, <2>2, FS_EmptySet
  <2>4. c = "EXCLUSIVE"
    BY <1>7, <2>3 DEF Of
  <2>5. S \cup {j} = {j}
    BY <1>2, <2>4 DEF ConcurrencyLimited
  <2> QED BY <2>5, FS_Singleton
<1>8. Reserved(S \cup {j}) + required_host_reserve(Calm.total) =< Calm.total
  <2>1. Reserved(S \cup {j}) = Reserved(S) + memory_max(c)
    BY <1>1, ReservedWith
  <2>2. Reserved(S) \in Nat /\ Reserved(A) \in Nat /\ Reserved(S) =< Reserved(A)
    BY <1>1, ReservedType, ReservedSubset
  <2>3. /\ required_host_reserve(Calm.total) \in Int /\ memory_max(c) \in Int
        /\ Calm.total \in Nat /\ host.avail \in Int /\ host.avail =< Calm.total
        /\ host.total = Calm.total
    BY ReserveType, HostAssumption DEF memory_max, Snapshots
  <2>4. host.avail - Reserved(A) - memory_max(c) >= required_host_reserve(Calm.total)
    BY <1>2, <2>2, <2>3 DEF _active_reserved_bytes
  <2> HIDE DEF A, c
  <2> QED BY <2>1, <2>2, <2>3, <2>4
<1> QED BY <1>5, <1>6, <1>7, <1>8 DEF Fits

----------------------------------------------------------------------------
(* The invariant.                                                          *)

LEMMA BoundType ==
    /\ AttemptBound \in Nat
    /\ max_resource_retries =< AttemptBound /\ max_resource_defers =< AttemptBound
<1>1. max_resource_retries \in Nat /\ max_resource_defers \in Nat
  BY PolicyAssumption
<1>2. /\ AttemptBound \in {max_resource_retries, max_resource_defers}
      /\ max_resource_retries =< AttemptBound /\ max_resource_defers =< AttemptBound
  <2> DEFINE a == max_resource_retries
             b == max_resource_defers
  <2>1. a \in Int /\ b \in Int
    BY <1>1
  <2> HIDE DEF a, b
  <2>2. Max({a, b}) \in {a, b} /\ a =< Max({a, b}) /\ b =< Max({a, b})
    BY <2>1, MaxOfTwo
  <2> QED BY <2>2 DEF AttemptBound, a, b
<1> QED BY <1>1, <1>2

LEMMA DeclaredOK ==
    ASSUME NEW p \in Portfolios, NEW j \in Jobs
    PROVE  /\ Declared(p[j]) \in Declarations
           /\ Declared(p[j]).roots \subseteq Seq(STRING) \ {<<>>}
<1>1. p[j] \in Declarations
  BY DeclaredAssumption
<1>2. serialize_footprint_paths(p[j].roots) \subseteq Seq(STRING) \ {<<>>}
  BY DeclaredAssumption DEF serialize_footprint_paths
<1> QED BY <1>1, <1>2 DEF Declared, Declarations

LEMMA InitTypes == Init => TypeInv /\ StepInv
<1> SUFFICES ASSUME Init PROVE TypeInv /\ StepInv
  OBVIOUS
<1>1. PICK p \in Portfolios : facts = [j \in Jobs |-> Declared(p[j])]
  BY DEF Init
<1>2. /\ facts \in [Jobs -> Declarations]
      /\ \A j \in Jobs : facts[j].roots \subseteq Seq(STRING) \ {<<>>}
  BY <1>1, DeclaredOK
<1>3. Fresh \in Rows /\ [Fresh EXCEPT !.state = "DONE"] \in Rows
  BY BoundType DEF Fresh, Rows, Terminal
<1>4. job \in [Jobs -> Rows]
  BY <1>3 DEF Init
<1>5. StepInv
  <2> SUFFICES ASSUME NEW j \in Jobs, job[j].state # "DONE"
               PROVE  job[j].step \in 1 .. Len(facts[j].roles)
    BY DEF StepInv
  <2>1. facts[j].roles # <<>> /\ job[j].step = 1
    BY DEF Init, Fresh
  <2>2. facts[j].roles \in Seq(STRING)
    BY <1>2 DEF Declarations
  <2>3. Len(facts[j].roles) \in Nat /\ Len(facts[j].roles) # 0
    BY <2>1, <2>2
  <2> QED BY <2>1, <2>3
<1> QED BY <1>2, <1>4, <1>5, HostAssumption, PolicyAssumption DEF Init, TypeInv, Processes

\* The rows a step may write.
LEMMA RowsWritten ==
    ASSUME TypeInv, StepInv, NEW j \in Jobs, job[j].state = "RUNNING"
    PROVE  /\ Consumed(j) \in Rows /\ RunFailed(j) \in Rows /\ Observed(j) \in Rows
           /\ ActionFailed(job[j]) \in Rows
           /\ \A r \in {Consumed(j), RunFailed(j), Observed(j), ActionFailed(job[j])} :
                 r.state # "DONE" => r.step \in 1 .. Len(facts[j].roles)
<1> DEFINE n == Len(facts[j].roles)
<1>1. /\ job[j] \in Rows /\ n \in Nat /\ job[j].step \in 1 .. n
      /\ job[j].step \in Nat /\ job[j].tries \in Nat /\ job[j].attempt \in 0 .. AttemptBound
  BY DEF TypeInv, StepInv, Declarations, Rows
<1> HIDE DEF n
<1>2. Consumed(j) \in Rows /\ (Consumed(j).state # "DONE" => Consumed(j).step \in 1 .. n)
  <2>1. CASE job[j].step = n
    <3>1. Consumed(j) = [job[j] EXCEPT !.state = "DONE"]
      BY <2>1 DEF Consumed, n
    <3> QED BY <1>1, <3>1 DEF Rows, Terminal
  <2>2. CASE job[j].step # n
    <3>1. Consumed(j) = [state |-> "RUNNING", role |-> job[j].role, step |-> job[j].step + 1,
                         phase |-> "spawn", tries |-> 1, runs |-> 0, attempt |-> job[j].attempt]
      BY <2>2 DEF Consumed, Fresh, n
    <3>2. job[j].step + 1 \in 1 .. n /\ job[j].step + 1 \in Nat
      BY <1>1, <2>2
    <3> QED BY <1>1, <3>1, <3>2 DEF Rows, Terminal
  <2> QED BY <2>1, <2>2
<1>3. RunFailed(j) \in Rows /\ RunFailed(j).step \in 1 .. n
  <2>1. CASE RunFailed(j) = [job[j] EXCEPT !.state = "FAILED"]
    BY <1>1, <2>1 DEF Rows, Terminal
  <2>2. CASE RunFailed(j) = [job[j] EXCEPT !.phase = "spawn", !.tries = @ + 1, !.runs = 0]
    <3>1. RunFailed(j) = [state |-> job[j].state, role |-> job[j].role, step |-> job[j].step,
                          phase |-> "spawn", tries |-> job[j].tries + 1, runs |-> 0,
                          attempt |-> job[j].attempt]
      BY <1>1, <2>2 DEF Rows
    <3>2. job[j].tries + 1 \in Nat
      BY <1>1
    <3> QED BY <1>1, <3>1, <3>2 DEF Rows
  <2> QED BY <2>1, <2>2 DEF RunFailed
<1>4. ActionFailed(job[j]) \in Rows /\ ActionFailed(job[j]).step \in 1 .. n
  BY <1>1 DEF ActionFailed, Rows
<1>5. Observed(j) \in Rows /\ (Observed(j).state # "DONE" => Observed(j).step \in 1 .. n)
  BY <1>1, <1>2, <1>3 DEF Observed, Rows, Terminal
<1> QED BY <1>2, <1>3, <1>4, <1>5 DEF n

\* Every resource failure leads to a decision the store accepts; a job is tried again
\* only after a timeout, and then within the limits of the policy.
LEMMA RecoveryOK ==
    ASSUME NEW tc \in ResourceEnds, NEW attempt \in 0 .. AttemptBound
    PROVE  LET fc == failure_class_from_termination(tc)
               d == decide_recovery(fc, attempt)
           IN  /\ is_resource_failure(fc) /\ d \in _ALLOWED_RECOVERY_PAIRS[fc]
               /\ d \in {"RETRY_BOUNDED", "DEFER_RESOURCE", "BLOCK_RESOURCE", "QUARANTINE_LOST"}
               /\ d \in {"RETRY_BOUNDED", "DEFER_RESOURCE"} =>
                      tc = "TIMEOUT" /\ attempt + 1 \in 0 .. AttemptBound
<1> USE DEF failure_class_from_termination, decide_recovery, is_resource_failure,
            _ALLOWED_RECOVERY_PAIRS
<1>1. CASE tc = "TIMEOUT"
  <2>1. attempt < max_resource_retries \/ attempt < max_resource_defers =>
            attempt + 1 \in 0 .. AttemptBound
    BY BoundType, PolicyAssumption
  <2> QED BY <1>1, <2>1
<1>2. CASE tc \in {"OOM_KILL", "MEMORY_LIMIT"}
  BY <1>2
<1>3. CASE tc \in {"SCOPE_CLEANUP_UNVERIFIED", "UNKNOWN_TERMINATION"}
  BY <1>3
<1> QED BY <1>1, <1>2, <1>3 DEF ResourceEnds

\* What a pass recovers from, and the row it writes.
LEMMA RecoveredOK ==
    ASSUME TypeInv, StepInv, PassInv, NEW j \in Jobs, classify_and_recover(j)
    PROVE  \/ /\ evidence[j] = NULL /\ UNCHANGED <<job, evidence>>
              /\ pass' = IF At("held") THEN [pass EXCEPT !.pc = "reconcile"] ELSE Idle
           \/ /\ evidence[j] # NULL /\ evidence' = [evidence EXCEPT ![j] = NULL] /\ pass' = Idle
              /\ \E r \in Rows :
                  /\ job' = [job EXCEPT ![j] = r]
                  /\ r.step = job[j].step /\ r.phase = job[j].phase /\ r.role = job[j].role
                  /\ \/ r.state = "QUEUED" /\ evidence[j] = "TIMEOUT"
                     \/ r.state \in {"BLOCKED", "LOST"}
<1> DEFINE fc == failure_class_from_termination(evidence[j])
           d == decide_recovery(fc, job[j].attempt)
<1>1. job[j] \in Rows /\ job[j].attempt \in 0 .. AttemptBound
  BY DEF TypeInv, Rows
<1>2. CASE evidence[j] = NULL
  BY <1>2 DEF classify_and_recover
<1>3. CASE evidence[j] # NULL
  <2>1. evidence[j] \in ResourceEnds
    BY <1>3 DEF TypeInv
  <2>2. /\ is_resource_failure(fc) /\ d \in _ALLOWED_RECOVERY_PAIRS[fc]
        /\ d \in {"RETRY_BOUNDED", "DEFER_RESOURCE", "BLOCK_RESOURCE", "QUARANTINE_LOST"}
        /\ d \in {"RETRY_BOUNDED", "DEFER_RESOURCE"} =>
               evidence[j] = "TIMEOUT" /\ job[j].attempt + 1 \in 0 .. AttemptBound
    BY <1>1, <2>1, RecoveryOK
  <2>3. /\ job' = [job EXCEPT ![j] = Recovered(job[j], d)]
        /\ evidence' = [evidence EXCEPT ![j] = NULL] /\ pass' = Idle
    BY <1>3, <2>2 DEF classify_and_recover, Put, PutEvidence
  <2> HIDE DEF d, fc
  <2>4. CASE d \in {"RETRY_BOUNDED", "DEFER_RESOURCE"}
    <3>1. Recovered(job[j], d) = [job[j] EXCEPT !.state = "QUEUED", !.attempt = @ + 1]
      BY <2>4 DEF Recovered
    <3> QED BY <1>1, <1>3, <2>2, <2>3, <2>4, <3>1 DEF Rows
  <2>5. CASE d \in {"BLOCK_RESOURCE", "QUARANTINE_LOST"}
    <3>1. PICK s \in {"BLOCKED", "LOST"} : Recovered(job[j], d) = [job[j] EXCEPT !.state = s]
      BY <2>5 DEF Recovered
    <3>2. /\ Recovered(job[j], d) \in Rows /\ Recovered(job[j], d).step = job[j].step
          /\ Recovered(job[j], d).phase = job[j].phase /\ Recovered(job[j], d).role = job[j].role
          /\ Recovered(job[j], d).state \in {"BLOCKED", "LOST"}
      BY <1>1, <3>1 DEF Rows, Terminal
    <3> QED BY <1>3, <2>3, <3>2
  <2> QED BY <2>2, <2>4, <2>5
<1> QED BY <1>2, <1>3

\* The step of a row within the roles of its job.
WithinRoles(j, r) == r.state # "DONE" => r.step \in 1 .. Len(facts[j].roles)

\* A step writes one row at most.
LEMMA RowsKept ==
    ASSUME TypeInv, StepInv, PassInv, Next
    PROVE  \/ job' = job
           \/ \E j \in Jobs : \E r \in Rows :
                WithinRoles(j, r) /\ job' = [job EXCEPT ![j] = r]
<1> DEFINE Written(j) == \/ job' = job
                         \/ \E r \in Rows : WithinRoles(j, r) /\ job' = [job EXCEPT ![j] = r]
<1>1. SUFFICES ASSUME NEW j \in Jobs, Take(j) \/ Step(j) \/ AgentEnds(j) \/ LeaseLapses(j)
               PROVE  Written(j)
  BY DEF Next, Crash, HostChanges, HostRecovers
<1>2. /\ job[j] \in Rows
      /\ \A s \in {"QUEUED", "RUNNING"} \cup Terminal : [job[j] EXCEPT !.state = s] \in Rows
      /\ WithinRoles(j, job[j])
  BY DEF TypeInv, Rows, StepInv, WithinRoles
<1>3. ASSUME NEW s \in {"QUEUED", "RUNNING"} \cup Terminal, job[j].state # "DONE",
             job' = [job EXCEPT ![j] = [job[j] EXCEPT !.state = s]]
      PROVE  Written(j)
  <2>1. WithinRoles(j, [job[j] EXCEPT !.state = s])
    BY <1>2, <1>3 DEF WithinRoles, Rows
  <2> QED BY <1>2, <1>3, <2>1
<1>4. CASE Claim(j) \/ _block_missing_dependency(j) \/ _try_recover_takeover(j)
  BY <1>3, <1>4 DEF Claim, _block_missing_dependency, _try_recover_takeover, Refuse, Put, Terminal
<1>5. CASE Continue(j) \/ AgentEnds(j) \/ LeaseLapses(j)
  BY <1>5 DEF Continue, AgentEnds, LeaseLapses
<1>6. ASSUME Step(j) PROVE pass.job = j /\ job[j].state = "RUNNING"
  BY <1>6 DEF Step, PassInv, Idle, Pass, At, _concurrency_gate, _resource_gate,
     classify_and_recover, Reconcile, _fresh_admission, _spawn_scoped, SpawnFails,
     _run_sandbox_scoped
<1>7. CASE _concurrency_gate(j) \/ _resource_gate(j)
  BY <1>3, <1>6, <1>7 DEF Step, _concurrency_gate, _resource_gate, Refuse, Put, Terminal
<1>8. CASE classify_and_recover(j)
  <2>1. CASE job' = job
    BY <2>1
  <2>2. CASE job' # job
    <3>1. PICK r \in Rows : job' = [job EXCEPT ![j] = r] /\ r.step = job[j].step
      BY <1>8, <2>2, RecoveredOK
    <3> QED BY <1>2, <1>6, <1>8, <3>1 DEF Step, WithinRoles
  <2> QED BY <2>1, <2>2
<1>9. CASE Reconcile(j)
  <2>1. job[j].state = "RUNNING"
    BY <1>6, <1>9 DEF Step
  <2>2. facts[j].roles \in Seq(STRING) /\ job[j].step \in 1 .. Len(facts[j].roles)
    BY <2>1 DEF TypeInv, StepInv, Declarations
  <2>3. facts[j].roles[job[j].step] \in STRING
    BY <2>2
  <2>4. CASE job' = [job EXCEPT ![j] = [job[j] EXCEPT !.role = facts[j].roles[job[j].step]]]
    <3> DEFINE r == [job[j] EXCEPT !.role = facts[j].roles[job[j].step]]
    <3>1. r \in Rows /\ r.state = job[j].state /\ r.step = job[j].step
      BY <1>2, <2>3 DEF Rows
    <3>2. WithinRoles(j, r)
      BY <1>2, <3>1 DEF WithinRoles
    <3> QED BY <2>4, <3>1, <3>2
  <2>5. CASE job' = [job EXCEPT ![j] = Observed(j)]
    BY <2>1, <2>5, RowsWritten DEF WithinRoles
  <2>6. CASE \E s \in {"ERROR", "BLOCKED", "QUEUED"} : job' = [job EXCEPT ![j] = [job[j] EXCEPT !.state = s]]
    BY <1>3, <2>1, <2>6 DEF Terminal
  <2>7. CASE job' = job
    BY <2>7
  <2> QED BY <1>9, <2>4, <2>5, <2>6, <2>7 DEF Reconcile, _adapter_backoff, Put, Refuse
<1>10. ASSUME job[j].state = "RUNNING"
       PROVE  /\ ActionFailed(job[j]) \in Rows /\ WithinRoles(j, ActionFailed(job[j]))
              /\ \A s \in {"QUEUED", "LOST"} :
                   /\ [ActionFailed(job[j]) EXCEPT !.state = s] \in Rows
                   /\ WithinRoles(j, [ActionFailed(job[j]) EXCEPT !.state = s])
  <2> DEFINE r == ActionFailed(job[j])
  <2>1. r \in Rows /\ r.step = job[j].step /\ job[j].step \in 1 .. Len(facts[j].roles)
    BY <1>2, <1>10, RowsWritten DEF ActionFailed, Rows, StepInv
  <2> HIDE DEF r
  <2>2. \A s \in {"QUEUED", "LOST"} : [r EXCEPT !.state = s] \in Rows /\ [r EXCEPT !.state = s].step = r.step
    BY <2>1 DEF Rows, Terminal
  <2> QED BY <2>1, <2>2 DEF WithinRoles, r
<1>11. CASE _fresh_admission(j) \/ SpawnFails(j)
  <2>1. job[j].state = "RUNNING"
    BY <1>6, <1>11 DEF Step
  <2>2. \/ job' = job
        \/ \E s \in {"QUEUED", "LOST"} :
             job' = [job EXCEPT ![j] = [ActionFailed(job[j]) EXCEPT !.state = s]]
    BY <1>11 DEF _fresh_admission, SpawnFails, Refuse, Put
  <2> QED BY <1>10, <2>1, <2>2
<1>12. CASE _spawn_scoped(j)
  <2>1. [job[j] EXCEPT !.phase = "run"] \in Rows /\ WithinRoles(j, [job[j] EXCEPT !.phase = "run"])
    BY <1>2 DEF Rows, WithinRoles
  <2> QED BY <1>12, <2>1 DEF _spawn_scoped, Put
<1>13. CASE _run_sandbox_scoped(j)
  <2>1. job[j].state = "RUNNING"
    BY <1>6, <1>13 DEF Step
  <2>2. job' = [job EXCEPT ![j] = Consumed(j)] \/ job' = [job EXCEPT ![j] = ActionFailed(job[j])]
    BY <1>13 DEF _run_sandbox_scoped, Put
  <2> QED BY <1>10, <2>1, <2>2, RowsWritten DEF WithinRoles
<1> QED BY <1>1, <1>4, <1>5, <1>7, <1>8, <1>9, <1>11, <1>12, <1>13 DEF Take, Step

LEMMA EvidenceType ==
    ASSUME NEW tc \in TerminationClass,
           is_resource_failure(failure_class_from_termination(tc))
    PROVE  tc \in ResourceEnds
BY DEF TerminationClass, ResourceEnds, is_resource_failure, failure_class_from_termination

LEMMA TypesKept ==
    ASSUME TypeInv, StepInv, PassInv, Next
    PROVE  TypeInv' /\ StepInv' /\ facts' = facts
<1> USE DEF Next, Take, Step, Claim, _block_missing_dependency, Continue, _try_recover_takeover,
            _concurrency_gate, _resource_gate, Reconcile, _fresh_admission, _spawn_scoped,
            SpawnFails, _run_sandbox_scoped, LeaseLapses, AgentEnds, Crash, HostChanges,
            HostRecovers
<1>1. facts' = facts
  BY DEF classify_and_recover
<1>2. job' \in [Jobs -> Rows] /\ StepInv'
  <2>1. CASE job' = job
    BY <1>1, <2>1 DEF TypeInv, StepInv
  <2>2. ASSUME NEW j \in Jobs, NEW r \in Rows, WithinRoles(j, r), job' = [job EXCEPT ![j] = r]
        PROVE  job' \in [Jobs -> Rows] /\ StepInv'
    BY <1>1, <2>2 DEF TypeInv, StepInv, WithinRoles
  <2> QED BY <2>1, <2>2, RowsKept
<1>3. agent' \in [Jobs -> Processes] /\ held' \subseteq Jobs
  <2>1. ASSUME NEW j \in Jobs, NEW a \in Processes, PutAgent(j, a)
        PROVE  agent' \in [Jobs -> Processes]
    BY <2>1 DEF PutAgent, TypeInv
  <2>2. agent' = agent \/ \E j \in Jobs : \E a \in Processes : PutAgent(j, a)
    <3>1. \A j \in Jobs : Astray(j) => \E a \in Processes : PutAgent(j, a)
      BY DEF Astray, TypeInv, Processes
    <3>2. \A j \in Jobs : agent[j] \in Processes
      BY DEF TypeInv
    <3> QED BY <3>1, <3>2 DEF Refuse, _adapter_backoff, classify_and_recover, Processes
  <2>3. held' \subseteq Jobs
    BY DEF TypeInv, Refuse, _adapter_backoff, classify_and_recover
  <2> QED BY <2>1, <2>2, <2>3 DEF TypeInv
<1>4. evidence' \in [Jobs -> ResourceEnds \cup {NULL}]
  <2>1. ASSUME NEW j \in Jobs, NEW tc \in ResourceEnds \cup {NULL}, PutEvidence(j, tc)
        PROVE  evidence' \in [Jobs -> ResourceEnds \cup {NULL}]
    BY <2>1 DEF PutEvidence, TypeInv
  <2>2. ASSUME NEW j \in Jobs, classify_and_recover(j)
        PROVE  evidence' = evidence \/ PutEvidence(j, NULL)
    BY <2>2 DEF classify_and_recover
  <2>3. ASSUME NEW j \in Jobs, _run_sandbox_scoped(j)
        PROVE  evidence' = evidence \/ \E tc \in ResourceEnds \cup {NULL} : PutEvidence(j, tc)
    <3>1. {classify_termination(ev) : ev \in Evidence} \cup {"SCOPE_CLEANUP_UNVERIFIED"}
              \subseteq TerminationClass
      BY DEF classify_termination, TerminationClass
    <3> QED BY <2>3, <3>1, EvidenceType
  <2>4. evidence' = evidence \/ \E j \in Jobs : classify_and_recover(j) \/ _run_sandbox_scoped(j)
    OBVIOUS
  <2> QED BY <2>1, <2>2, <2>3, <2>4 DEF TypeInv
<1>5. host' \in Snapshots
  BY HostAssumption DEF TypeInv, classify_and_recover
<1>6. faults' \in 0 .. MaxFaults
  <2>1. faults' = faults \/ (faults < MaxFaults /\ faults' = faults + 1)
    BY DEF Fault, classify_and_recover
  <2> QED BY <2>1, PolicyAssumption DEF TypeInv
<1> QED BY <1>1, <1>2, <1>3, <1>4, <1>5, <1>6 DEF TypeInv

\* The pass, the agents and the evidence stay in step with the rows.
Coupled == PassInv /\ LiveInv /\ EvidenceInv

\* A pass that goes on, to a point its job's phase and evidence allow.
LEMMA PassGoesOn ==
    ASSUME TypeInv, Coupled, pass # Idle, UNCHANGED <<job, agent, evidence>>,
           NEW pc \in {"admit"} \cup Working, pass' = [pass EXCEPT !.pc = pc],
           pc = "admit" => agent[pass.job] # "live",
           pc \in {"spawning", "spawnadmit", "launch", "admitted"}
               => job[pass.job].phase \in {"spawn", "tests"},
           pc = "tested" => job[pass.job].phase = "tests",
           pc \in {"admit", "held", "tested"} \/ evidence[pass.job] = NULL
    PROVE  Coupled'
<1>1. PassInv'
  BY DEF Coupled, PassInv, Idle, Working
<1>2. LiveInv'
  BY DEF Coupled, LiveInv
<1>3. EvidenceInv'
  BY DEF Coupled, EvidenceInv, PassInv, Idle, Pass
<1> QED BY <1>1, <1>2, <1>3 DEF Coupled

\* A pass that ends with the row of its job.
LEMMA PassEnds ==
    ASSUME TypeInv, Coupled, NEW j \in Jobs, NEW r, job' = [job EXCEPT ![j] = r],
           pass' = Idle, UNCHANGED <<agent, evidence>>, evidence[j] = NULL,
           agent[j] = "live" => r.state = "RUNNING" /\ r.phase = "run"
    PROVE  Coupled'
<1>1. \A k \in Jobs : job'[k] = IF k = j THEN r ELSE job[k]
  BY DEF TypeInv
<1>2. PassInv'
  BY DEF PassInv
<1>3. LiveInv'
  BY <1>1 DEF Coupled, LiveInv
<1>4. EvidenceInv'
  BY <1>1 DEF Coupled, EvidenceInv, Idle, Pass
<1> QED BY <1>2, <1>3, <1>4 DEF Coupled

\* What becomes of the row and the agent of a job that is refused.
LEMMA RefusedRow ==
    ASSUME TypeInv, NEW j \in Jobs, NEW r \in Rows, NEW s, Refuse(j, r, s)
    PROVE  /\ \A k \in Jobs \ {j} : job'[k] = job[k] /\ agent'[k] = agent[k]
           /\ job'[j].phase = r.phase /\ job'[j].role = r.role
           /\ agent'[j] # "live"
           /\ pass' = Idle
<1>1. [r EXCEPT !.state = s].phase = r.phase /\ [r EXCEPT !.state = s].role = r.role
  BY DEF Rows
<1>2. job' = [job EXCEPT ![j] = [r EXCEPT !.state = s]] /\ pass' = Idle
  BY DEF Refuse, Put
<1>3. agent' = [agent EXCEPT ![j] = IF agent[j] = "live" THEN "stray" ELSE agent[j]]
  BY DEF Refuse, Astray, PutAgent
<1> QED BY <1>1, <1>2, <1>3 DEF TypeInv

\* A job is refused without its evidence.
LEMMA RefusedCoupled ==
    ASSUME TypeInv, Coupled, NEW j \in Jobs, NEW r \in Rows, NEW s, Refuse(j, r, s),
           evidence[j] # NULL => r.phase = "tests", UNCHANGED evidence
    PROVE  Coupled'
<1>1. PassInv'
  BY RefusedRow DEF PassInv
<1>2. LiveInv'
  BY RefusedRow DEF Coupled, LiveInv
<1>3. EvidenceInv'
  BY RefusedRow DEF Coupled, EvidenceInv, Idle, Pass
<1> QED BY <1>1, <1>2, <1>3 DEF Coupled

LEMMA CoupledKept ==
    ASSUME TypeInv, StepInv, Coupled, Next
    PROVE  Coupled'
<1> USE DEF Coupled, Pass, At, Goto, Put
<1>1. ASSUME NEW j \in Jobs, Claim(j) PROVE Coupled'
  BY <1>1 DEF Claim, PassInv, LiveInv, EvidenceInv, TypeInv, Rows, Idle, Working
<1>2. ASSUME NEW j \in Jobs, _block_missing_dependency(j) PROVE Coupled'
  BY <1>2 DEF _block_missing_dependency, PassInv, LiveInv, EvidenceInv, TypeInv, Rows, Idle, Working
<1>3. ASSUME NEW j \in Jobs, Continue(j) \/ _try_recover_takeover(j) PROVE Coupled'
  <2>1. CASE Continue(j)
    BY <2>1 DEF Continue, PassInv, LiveInv, EvidenceInv, TypeInv, Rows, Idle, Working
  <2>2. ASSUME NEW s, Refuse(j, job[j], s), UNCHANGED evidence
        PROVE  Coupled'
    BY <2>2, RefusedCoupled DEF EvidenceInv, TypeInv
  <2>3. CASE /\ Astray(j) /\ job[j].state = "RUNNING" /\ UNCHANGED <<job, evidence>>
             /\ pass' = [pc |-> "claimed", job |-> j]
    <3>1. agent' = [agent EXCEPT ![j] = IF agent[j] = "live" THEN "stray" ELSE agent[j]]
      BY <2>3 DEF Astray, PutAgent
    <3>2. agent'[j] # "live" /\ \A k \in Jobs : agent'[k] = "live" => agent[k] = "live"
      BY <3>1 DEF TypeInv
    <3> QED BY <2>3, <3>2 DEF PassInv, LiveInv, EvidenceInv
  <2> QED BY <1>3, <2>1, <2>2, <2>3 DEF _try_recover_takeover
<1>4. ASSUME NEW j \in Jobs, Step(j)
      PROVE  /\ pass.job = j /\ pass # Idle /\ job[j] \in Rows /\ job[j].state = "RUNNING"
             /\ pass.pc \in {"claimed", "admit"} => agent[j] # "live"
             /\ pass.pc \in {"spawning", "spawnadmit", "launch", "admitted"}
                    => job[j].phase \in {"spawn", "tests"}
             /\ pass.pc = "tested" => job[j].phase = "tests"
             /\ pass.pc \in {"claimed", "admit", "held", "tested"} \/ evidence[j] = NULL
             /\ agent[j] = "live" => job[j].phase = "run"
             /\ evidence[j] # NULL => job[j].phase = "tests"
  BY <1>4 DEF Step, PassInv, LiveInv, EvidenceInv, Idle, TypeInv, _concurrency_gate, _resource_gate,
     classify_and_recover, Reconcile, _fresh_admission, _spawn_scoped, SpawnFails,
     _run_sandbox_scoped
<1>5. ASSUME NEW j \in Jobs, _concurrency_gate(j) \/ _resource_gate(j) PROVE Coupled'
  <2>1. /\ pass.job = j /\ pass # Idle /\ job[j] \in Rows /\ UNCHANGED evidence
        /\ agent[j] # "live" /\ (evidence[j] # NULL => job[j].phase = "tests")
        /\ pass.pc \in {"spawning", "spawnadmit"}
               => job[j].phase \in {"spawn", "tests"} /\ evidence[j] = NULL
    BY <1>4, <1>5 DEF Step, _concurrency_gate, _resource_gate
  <2>2. \/ /\ pass' = [pass EXCEPT !.pc = AfterGate[pass.pc]] /\ UNCHANGED <<job, agent>>
           /\ pass.pc \in {"claimed", "spawning", "admit", "spawnadmit"}
        \/ \E s \in {"BLOCKED", "QUEUED"} : Refuse(j, job[j], s)
    BY <1>5 DEF _concurrency_gate, _resource_gate
  <2>3. CASE /\ pass' = [pass EXCEPT !.pc = AfterGate[pass.pc]] /\ UNCHANGED <<job, agent>>
             /\ pass.pc \in {"claimed", "spawning", "admit", "spawnadmit"}
    <3>1. \/ pass.pc = "claimed" /\ AfterGate[pass.pc] = "admit"
          \/ pass.pc = "admit" /\ AfterGate[pass.pc] = "held"
          \/ pass.pc = "spawning" /\ AfterGate[pass.pc] = "spawnadmit"
          \/ pass.pc = "spawnadmit" /\ AfterGate[pass.pc] = "launch"
      BY <2>3 DEF AfterGate
    <3>2. AfterGate[pass.pc] \in {"admit"} \cup Working
      BY <3>1 DEF Working
    <3> QED BY <2>1, <2>3, <3>1, <3>2, PassGoesOn
  <2>4. CASE \E s \in {"BLOCKED", "QUEUED"} : Refuse(j, job[j], s)
    BY <2>1, <2>4, RefusedCoupled
  <2> QED BY <2>2, <2>3, <2>4
<1>6. ASSUME NEW j \in Jobs, classify_and_recover(j) PROVE Coupled'
  <2>1. pass.job = j /\ pass # Idle /\ job[j].state = "RUNNING" /\ UNCHANGED agent
    BY <1>4, <1>6 DEF Step, classify_and_recover
  <2>2. CASE evidence[j] = NULL /\ UNCHANGED <<job, evidence>>
             /\ pass' = IF At("held") THEN [pass EXCEPT !.pc = "reconcile"] ELSE Idle
    BY <2>1, <2>2 DEF PassInv, LiveInv, EvidenceInv, Idle, Working
  <2>3. CASE evidence[j] # NULL
    <3>1. PICK r \in Rows :
            /\ job' = [job EXCEPT ![j] = r] /\ r.phase = job[j].phase
            /\ evidence' = [evidence EXCEPT ![j] = NULL] /\ pass' = Idle
      BY <1>6, <2>3, RecoveredOK
    <3>2. job[j].phase = "tests" /\ agent[j] # "live"
      BY <2>3 DEF EvidenceInv, LiveInv
    <3> QED BY <2>1, <3>1, <3>2 DEF PassInv, LiveInv, EvidenceInv, Idle, TypeInv
  <2> QED BY <1>6, <2>2, <2>3, RecoveredOK
<1>7. ASSUME NEW j \in Jobs, Reconcile(j) PROVE Coupled'
  <2>1. /\ pass.job = j /\ pass # Idle /\ job[j] \in Rows /\ job[j].state = "RUNNING"
        /\ evidence[j] = NULL /\ UNCHANGED evidence
        /\ agent[j] = "live" => job[j].phase = "run"
    BY <1>4, <1>7 DEF Step, Reconcile
  <2>2. ASSUME NEW s, Refuse(j, job[j], s) PROVE Coupled'
    BY <2>1, <2>2, RefusedCoupled
  <2>3. CASE /\ job[j].phase = "spawn" /\ UNCHANGED agent
             /\ job' = [job EXCEPT ![j] = [job[j] EXCEPT !.role = facts[j].roles[job[j].step]]]
             /\ pass' = [pass EXCEPT !.pc = "spawning"]
    BY <2>1, <2>3 DEF PassInv, LiveInv, EvidenceInv, Idle, TypeInv, Rows, Working
  <2>4. CASE /\ job[j].phase = "tests" /\ UNCHANGED <<job, agent>>
             /\ pass' = [pass EXCEPT !.pc = "spawning"]
    BY <2>1, <2>4, PassGoesOn DEF Working
  <2>5. CASE /\ job[j].phase = "run" /\ UNCHANGED agent
             /\ job' = [job EXCEPT ![j] = Observed(j)] /\ pass' = Idle
    <3>1. agent[j] = "live" => Observed(j) = job[j]
      BY DEF Observed
    <3> QED BY <2>1, <2>5, <3>1, PassEnds
  <2> QED BY <1>7, <2>2, <2>3, <2>4, <2>5 DEF Reconcile, _adapter_backoff
<1>8. ASSUME NEW j \in Jobs, pass.job = j, job[j] \in Rows, evidence[j] = NULL,
             job[j].state = "RUNNING", NEW s, Refuse(j, ActionFailed(job[j]), s), UNCHANGED evidence
      PROVE  Coupled'
  <2>1. ActionFailed(job[j]) \in Rows
    BY <1>8, RowsWritten
  <2> QED BY <1>8, <2>1, RefusedCoupled
<1>9. ASSUME NEW j \in Jobs, _fresh_admission(j) PROVE Coupled'
  <2>1. /\ pass.job = j /\ pass # Idle /\ job[j] \in Rows /\ evidence[j] = NULL
        /\ job[j].state = "RUNNING" /\ job[j].phase \in {"spawn", "tests"}
        /\ UNCHANGED evidence
    BY <1>4, <1>9 DEF Step, _fresh_admission
  <2> QED BY <1>8, <1>9, <2>1, PassGoesOn DEF _fresh_admission, Working
<1>10. ASSUME NEW j \in Jobs, _spawn_scoped(j) PROVE Coupled'
  BY <1>10 DEF _spawn_scoped, PutAgent, PassInv, LiveInv, EvidenceInv, TypeInv, Rows, Idle, Working
<1>11. ASSUME NEW j \in Jobs, SpawnFails(j) PROVE Coupled'
  <2>1. /\ pass.job = j /\ job[j] \in Rows /\ evidence[j] = NULL /\ job[j].state = "RUNNING"
        /\ job[j].phase = "spawn" /\ agent[j] # "live" /\ UNCHANGED evidence
    BY <1>4, <1>11 DEF Step, SpawnFails
  <2>2. CASE Refuse(j, ActionFailed(job[j]), "QUEUED")
    BY <1>8, <2>1, <2>2
  <2>3. ASSUME NEW a \in {agent[j], "stray"}, PutAgent(j, a), pass' = Idle, NEW r,
               job' = [job EXCEPT ![j] = r]
        PROVE  Coupled'
    <3>1. \A k \in Jobs : agent'[k] = "live" => agent[k] = "live" /\ k # j
      BY <2>1, <2>3 DEF PutAgent, TypeInv
    <3>2. \A k \in Jobs \ {j} : job'[k] = job[k]
      BY <2>3 DEF TypeInv
    <3> QED BY <2>1, <2>3, <3>1, <3>2 DEF PassInv, LiveInv, EvidenceInv, Idle
  <2> QED BY <1>11, <2>2, <2>3 DEF SpawnFails
<1>12. ASSUME NEW j \in Jobs, _run_sandbox_scoped(j) PROVE Coupled'
  <2>1. /\ pass.job = j /\ pass # Idle /\ job[j] \in Rows /\ job[j].state = "RUNNING"
        /\ evidence[j] = NULL /\ job[j].phase = "tests" /\ agent[j] # "live" /\ UNCHANGED agent
    BY <1>4, <1>12 DEF Step, _run_sandbox_scoped
  <2>2. \/ job' = [job EXCEPT ![j] = Consumed(j)] /\ pass' = Idle /\ UNCHANGED evidence
        \/ /\ job' = [job EXCEPT ![j] = ActionFailed(job[j])]
           /\ \E tc : evidence' = [evidence EXCEPT ![j] = tc]
           /\ pass' = [pass EXCEPT !.pc = "tested"]
    BY <1>12 DEF _run_sandbox_scoped, PutEvidence
  <2>3. Consumed(j).state \in {"DONE", "RUNNING"}
    BY <2>1 DEF Consumed, Fresh, Rows
  <2>4. ActionFailed(job[j]).state = "RUNNING" /\ ActionFailed(job[j]).phase = "tests"
    BY <2>1 DEF ActionFailed, Rows
  <2>5. CASE job' = [job EXCEPT ![j] = Consumed(j)] /\ pass' = Idle /\ UNCHANGED evidence
    BY <2>1, <2>3, <2>5, PassEnds
  <2>6. ASSUME NEW tc, job' = [job EXCEPT ![j] = ActionFailed(job[j])],
               evidence' = [evidence EXCEPT ![j] = tc], pass' = [pass EXCEPT !.pc = "tested"]
        PROVE  Coupled'
    BY <2>1, <2>4, <2>6 DEF PassInv, LiveInv, EvidenceInv, TypeInv, Idle, Working
  <2> QED BY <2>2, <2>5, <2>6
<1>13. ASSUME NEW j \in Jobs, AgentEnds(j) \/ LeaseLapses(j) PROVE Coupled'
  <2>1. CASE AgentEnds(j)
    BY <2>1 DEF AgentEnds, PutAgent, PassInv, LiveInv, EvidenceInv, TypeInv
  <2>2. CASE LeaseLapses(j)
    BY <2>2 DEF LeaseLapses, PassInv, LiveInv, EvidenceInv, Idle
  <2> QED BY <1>13, <2>1, <2>2
<1>14. CASE Crash \/ HostChanges \/ HostRecovers
  <2>1. CASE Crash
    <3>1. /\ pass' = Idle /\ UNCHANGED <<job, evidence>>
          /\ \A k \in Jobs : agent'[k] = "live" => agent[k] = "live"
      BY <2>1 DEF Crash, PutAgent, TypeInv
    <3> QED BY <3>1 DEF PassInv, LiveInv, EvidenceInv, Idle
  <2>2. CASE HostChanges \/ HostRecovers
    BY <2>2 DEF HostChanges, HostRecovers, PassInv, LiveInv, EvidenceInv
  <2> QED BY <1>14, <2>1, <2>2
<1> QED BY <1>1, <1>2, <1>3, <1>5, <1>6, <1>7, <1>9, <1>10, <1>11, <1>12, <1>13, <1>14
        DEF Next, Take, Step

\* A conflict depends on what is declared and on the roles.
LEMMA ConflictKept ==
    ASSUME facts' = facts, NEW j, NEW k,
           job'[j].role = job[j].role, job'[k].role = job[k].role
    PROVE  Conflict(j, k)' <=> Conflict(j, k)
BY DEF Conflict

\* What fits depends on what is declared.
LEMMA FitsKept ==
    ASSUME facts' = facts
    PROVE  \A S : Fits(S)' <=> Fits(S)
<1>1. \A S, classes : Of(S, classes)' = Of(S, classes)
  BY DEF Of
<1>2. \A S : Reserved(S)' = Reserved(S)
  BY <1>1 DEF Reserved, memory_max
<1> QED BY <1>1, <1>2 DEF Fits, required_host_reserve

\* A step of one job writes no other row.
LEMMA OthersRow ==
    ASSUME TypeInv, NEW j \in Jobs, Take(j) \/ Step(j) \/ AgentEnds(j) \/ LeaseLapses(j)
    PROVE  \A k \in Jobs \ {j} : job'[k] = job[k]
<1>1. job' = job \/ \E r : job' = [job EXCEPT ![j] = r]
  BY DEF Take, Claim, _block_missing_dependency, Continue, _try_recover_takeover, Step, Put, Refuse,
     _concurrency_gate, _resource_gate, classify_and_recover, Reconcile, _adapter_backoff,
     _fresh_admission, _spawn_scoped, SpawnFails, _run_sandbox_scoped, LeaseLapses, AgentEnds
<1> QED BY <1>1 DEF TypeInv

\* Only a spawn adds an agent, that of the pass's job; nobody's role changes with it.
LEMMA LiveKept ==
    ASSUME TypeInv, StepInv, Coupled, Next
    PROVE  /\ \A k \in Live : job'[k].role = job[k].role
           /\ \/ Live' \subseteq Live
              \/ /\ At("admitted") /\ pass.job \in Jobs \ Live /\ pass' = Idle
                 /\ Live' = Live \cup {pass.job} /\ job'[pass.job].role = job[pass.job].role
<1>1. ASSUME NEW k \in Live
      PROVE  job'[k].role = job[k].role
  <2>1. job[k].phase = "run" /\ job[k] \in Rows /\ k \in Jobs /\ evidence[k] = NULL
    BY DEF Live, Coupled, LiveInv, EvidenceInv, TypeInv
  <2>2. CASE job' = job
    BY <2>2
  <2>3. ASSUME NEW j \in Jobs, Take(j) \/ Step(j) \/ AgentEnds(j) \/ LeaseLapses(j)
        PROVE  job'[k].role = job[k].role
    <3>1. CASE j # k
      BY <2>1, <2>3, <3>1, OthersRow DEF TypeInv
    <3>2. CASE j = k
      <4>1. \/ job' = job
            \/ \E s : job' = [job EXCEPT ![k] = [job[k] EXCEPT !.state = s]]
            \/ job' = [job EXCEPT ![k] = Observed(k)]
            \/ classify_and_recover(k)
        BY <2>1, <2>3, <3>2 DEF Take, Claim, _block_missing_dependency, Continue,
           _try_recover_takeover, Step, Put, Refuse, _concurrency_gate, _resource_gate, Reconcile,
           _adapter_backoff, _fresh_admission, _spawn_scoped, SpawnFails, _run_sandbox_scoped,
           LeaseLapses, AgentEnds, Coupled, PassInv, Idle, Pass, At
      <4>2. Observed(k) = job[k]
        BY DEF Live, Observed
      <4>3. classify_and_recover(k) => job' = job
        BY <2>1, RecoveredOK DEF Coupled
      <4> QED BY <2>1, <4>1, <4>2, <4>3 DEF Rows, TypeInv
    <3> QED BY <3>1, <3>2
  <2> QED BY <2>2, <2>3 DEF Next, Crash, HostChanges, HostRecovers
<1>2. \/ Live' \subseteq Live
      \/ \E j \in Jobs : _spawn_scoped(j)
  <2>1. ASSUME NEW j \in Jobs, NEW a, PutAgent(j, a), a = "live" => agent[j] = "live"
        PROVE  Live' \subseteq Live
    BY <2>1 DEF PutAgent, Live, TypeInv
  <2>2. CASE UNCHANGED agent
    BY <2>2 DEF Live
  <2>3. \A j \in Jobs : Astray(j) => Live' \subseteq Live
    BY <2>1 DEF Astray
  <2> QED BY <2>1, <2>2, <2>3 DEF Next, Take, Claim, _block_missing_dependency, Continue,
         _try_recover_takeover, Step, Refuse, _concurrency_gate, _resource_gate,
         classify_and_recover, Reconcile, _adapter_backoff, _fresh_admission, SpawnFails,
         _run_sandbox_scoped, LeaseLapses, AgentEnds, Crash, HostChanges, HostRecovers
<1>3. ASSUME NEW j \in Jobs, _spawn_scoped(j)
      PROVE  /\ At("admitted") /\ pass.job = j /\ pass' = Idle /\ j \notin Live
             /\ Live' = Live \cup {j} /\ job'[j].role = job[j].role
  <2>1. /\ At("admitted") /\ pass.job = j /\ pass' = Idle /\ job[j].phase = "spawn"
        /\ agent' = [agent EXCEPT ![j] = "live"]
        /\ job' = [job EXCEPT ![j] = [job[j] EXCEPT !.phase = "run"]]
    BY <1>3 DEF _spawn_scoped, Pass, Put, PutAgent
  <2>2. j \notin Live
    BY <2>1 DEF Live, Coupled, LiveInv
  <2>3. job'[j].role = job[j].role
    BY <2>1 DEF TypeInv, Rows
  <2>4. Live' = Live \cup {j}
    BY <2>1 DEF Live, TypeInv
  <2> QED BY <2>1, <2>2, <2>3, <2>4
<1> QED BY <1>1, <1>2, <1>3

\* Past the structural gate the pass keeps its job, and the row its role.
Gated == pass.pc \in {"spawnadmit", "launch", "admitted"}

LEMMA GatedKept ==
    ASSUME TypeInv, Coupled, Next, Gated'
    PROVE  /\ pass'.job = pass.job /\ pass.job \in Jobs /\ UNCHANGED job
           /\ agent[pass.job] # "live" /\ Live' \subseteq Live
           /\ \/ Gated
              \/ At("spawning") /\ decide(pass.job) = "ALLOW_PARALLEL"
           /\ pass'.pc = "admitted" =>
                 \/ At("admitted")
                 \/ _decide(pass.job) = "ALLOW" /\ UNCHANGED <<agent, host>>
<1> USE DEF Gated, Coupled, PassInv, LiveInv, Idle, Pass, At, Goto, Live
<1>1. ASSUME NEW j \in Jobs, Take(j)
      PROVE  FALSE
  BY <1>1 DEF Take, Claim, _block_missing_dependency, Continue, _try_recover_takeover, Refuse
<1>2. ASSUME NEW j \in Jobs, AgentEnds(j) \/ LeaseLapses(j)
      PROVE  /\ pass' = pass /\ UNCHANGED job /\ Live' \subseteq Live
  BY <1>2 DEF AgentEnds, LeaseLapses, PutAgent, TypeInv
<1>3. CASE Crash \/ HostChanges \/ HostRecovers
  BY <1>3 DEF Crash, HostChanges, HostRecovers
<1>4. ASSUME NEW j \in Jobs, _concurrency_gate(j)
      PROVE  /\ pass.pc = "spawning" /\ pass' = [pass EXCEPT !.pc = "spawnadmit"]
             /\ pass.job = j /\ decide(j) = "ALLOW_PARALLEL" /\ UNCHANGED <<job, agent, host>>
  BY <1>4 DEF _concurrency_gate, AfterGate, Refuse
<1>5. ASSUME NEW j \in Jobs, _resource_gate(j)
      PROVE  /\ pass.pc = "spawnadmit" /\ pass' = [pass EXCEPT !.pc = "launch"]
             /\ pass.job = j /\ UNCHANGED <<job, agent, host>>
  BY <1>5 DEF _resource_gate, AfterGate, Refuse
<1>6. ASSUME NEW j \in Jobs, _fresh_admission(j)
      PROVE  /\ pass.pc = "launch" /\ pass' = [pass EXCEPT !.pc = "admitted"]
             /\ pass.job = j /\ _decide(j) = "ALLOW" /\ UNCHANGED <<job, agent, host>>
  BY <1>6 DEF _fresh_admission, Refuse
<1>7. ASSUME NEW j \in Jobs, classify_and_recover(j) \/ Reconcile(j) \/ _spawn_scoped(j)
                               \/ SpawnFails(j) \/ _run_sandbox_scoped(j)
      PROVE  FALSE
  BY <1>7 DEF classify_and_recover, Reconcile, _adapter_backoff, _spawn_scoped, SpawnFails,
     _run_sandbox_scoped, Refuse
<1>8. pass # Idle => pass.job \in Jobs
  OBVIOUS
<1> QED BY <1>1, <1>2, <1>3, <1>4, <1>5, <1>6, <1>7, <1>8 DEF Next, Step

LEMMA ClearKept ==
    ASSUME TypeInv, StepInv, Coupled, ClearInv, Next
    PROVE  ClearInv'
<1> SUFFICES ASSUME Gated', NEW k \in Active(pass.job)
             PROVE  ~Conflict(pass.job, k)'
  BY GatedKept DEF ClearInv, Gated, Active
<1>1. UNCHANGED job /\ (Gated \/ decide(pass.job) = "ALLOW_PARALLEL")
  BY GatedKept
<1>2. ~Conflict(pass.job, k)
  BY <1>1, AllowedIsClear DEF ClearInv, Gated
<1>3. facts' = facts /\ pass'.job = pass.job
  BY TypesKept, GatedKept DEF Coupled
<1>4. Conflict(pass.job, k)' <=> Conflict(pass.job, k)
  BY <1>1, <1>3 DEF Conflict
<1> QED BY <1>2, <1>4

LEMMA PairKept ==
    ASSUME TypeInv, StepInv, Coupled, ClearInv, PairInv, Next
    PROVE  PairInv'
<1> SUFFICES ASSUME NEW j \in Live', NEW k \in Live', j # k
             PROVE  ~Conflict(j, k)'
  BY DEF PairInv
<1>1. facts' = facts
  BY TypesKept DEF Coupled
<1>2. job'[j].role = job[j].role /\ job'[k].role = job[k].role
  BY LiveKept
<1>3. ~Conflict(j, k)
  <2>1. CASE j \in Live /\ k \in Live
    BY <2>1 DEF PairInv
  <2>2. CASE ~(j \in Live /\ k \in Live)
    <3>1. At("admitted") /\ Live' = Live \cup {pass.job} /\ pass.job \notin Live
      BY <2>2, LiveKept
    <3>2. \A m \in Live : ~Conflict(pass.job, m)
      BY <3>1 DEF ClearInv, At, Active, Live, Coupled, LiveInv
    <3> QED BY <2>2, <3>1, <3>2, ConflictSymmetric
  <2> QED BY <2>1, <2>2
<1> QED BY <1>1, <1>2, <1>3, ConflictKept

LEMMA RoomKept ==
    ASSUME TypeInv, StepInv, Coupled, RoomInv, Next
    PROVE  RoomInv'
<1>1. facts' = facts
  BY TypesKept DEF Coupled
<1>2. Live \in SUBSET Jobs
  BY DEF Live
<1>3. Fits(Live')
  <2>1. CASE Live' \subseteq Live
    BY <1>2, <2>1, FewerFit DEF RoomInv
  <2>2. CASE At("admitted") /\ Live' = Live \cup {pass.job}
    BY <2>2 DEF RoomInv
  <2> QED BY <2>1, <2>2, LiveKept
<1>4. ASSUME At("admitted")'
      PROVE  Fits(Live' \cup {pass'.job})
  <2>1. /\ pass'.job = pass.job /\ pass.job \in Jobs /\ UNCHANGED job
        /\ agent[pass.job] # "live" /\ Live' \subseteq Live
        /\ At("admitted") \/ _decide(pass.job) = "ALLOW"
    BY <1>4, GatedKept DEF Gated, At
  <2>2. Fits(Live \cup {pass.job})
    <3>1. CASE At("admitted")
      BY <3>1 DEF RoomInv
    <3>2. CASE _decide(pass.job) = "ALLOW"
      <4>1. Live \in SUBSET Active(pass.job)
        BY <2>1 DEF Live, Active, Coupled, LiveInv
      <4>2. facts[pass.job].class \in ResourceClass /\ host \in Snapshots
        BY <2>1 DEF TypeInv, Declarations
      <4> QED BY <2>1, <3>2, <4>1, <4>2, AdmittedFits DEF RoomInv
    <3> QED BY <2>1, <3>1, <3>2
  <2>3. Live \cup {pass.job} \in SUBSET Jobs
    BY <1>2, <2>1
  <2> QED BY <2>1, <2>2, <2>3, FewerFit
<1> QED BY <1>1, <1>3, <1>4, FitsKept DEF RoomInv, At

LEMMA InvInit == Init => IInv
<1> SUFFICES ASSUME Init PROVE IInv
  OBVIOUS
<1>1. TypeInv /\ StepInv
  BY InitTypes
<1>2. Live = {}
  BY DEF Init, Live
<1>3. PassInv /\ EvidenceInv /\ ClearInv /\ PairInv
  BY <1>2 DEF Init, PassInv, EvidenceInv, ClearInv, PairInv, Idle
<1>4. LiveInv
  BY DEF Init, LiveInv, Fresh
<1>5. RoomInv
  BY <1>2, NoneFit DEF RoomInv, Init, Idle, At
<1> QED BY <1>1, <1>3, <1>4, <1>5 DEF IInv

LEMMA InvNext == IInv /\ [Next]_vars => IInv'
<1> SUFFICES ASSUME IInv, [Next]_vars PROVE IInv'
  OBVIOUS
<1>1. CASE Next
  <2>1. TypeInv /\ StepInv /\ Coupled /\ ClearInv /\ PairInv /\ RoomInv
    BY DEF IInv, Coupled
  <2> QED BY <1>1, <2>1, TypesKept, CoupledKept, ClearKept, PairKept, RoomKept DEF IInv, Coupled
<1>2. CASE UNCHANGED vars
  BY <1>2 DEF vars, IInv, TypeInv, StepInv, PassInv, LiveInv, EvidenceInv, ClearInv, PairInv,
     RoomInv, Live, At, Pass, Active, Conflict, Fits, Of, Reserved
<1> QED BY <1>1, <1>2

\* The invariant holds in every reachable state.
THEOREM InvAlways == Spec => []IInv
BY InvInit, InvNext, PTL DEF Spec

----------------------------------------------------------------------------
(* The properties.                                                         *)

\* What follows for two jobs that do not conflict.
LEMMA NoConflictApart ==
    ASSUME TypeInv, NEW j \in Jobs, NEW k \in Jobs, j # k, ~Conflict(j, k)
    PROVE  WritersDisjoint({j, k}) /\ GlobalAlone({j, k})
<1>1. ASSUME NEW x \in Jobs, NEW y \in Jobs, ~Conflict(x, y)
      PROVE  /\ (job[x].role \in WRITE_ROLES /\ job[y].role \in WRITE_ROLES) =>
                    /\ Writes(facts[x]) \cap Writes(facts[y]) = {}
                    /\ ~Same(facts[x].worktree, facts[y].worktree)
                    /\ (facts[x].repo = facts[y].repo => ~Same(facts[x].branch, facts[y].branch))
             /\ facts[x].action # "GLOBAL"
             /\ (facts[x].action = "REPO_GLOBAL" => ~Same(facts[x].repo, facts[y].repo))
  <2>1. /\ facts[x] \in Declarations /\ facts[x].roots \subseteq Seq(STRING) \ {<<>>}
        /\ facts[y] \in Declarations /\ facts[y].roots \subseteq Seq(STRING) \ {<<>>}
    BY DEF TypeInv
  <2>2. /\ facts[x].action # "GLOBAL"
        /\ (facts[x].action = "REPO_GLOBAL" => ~Same(facts[x].repo, facts[y].repo))
    BY <1>1 DEF Conflict, ActionConflict
  <2>3. ASSUME job[x].role \in WRITE_ROLES, job[y].role \in WRITE_ROLES
        PROVE  /\ footprint_overlap(facts[x], facts[y]) = "DISJOINT"
               /\ ~Same(facts[x].worktree, facts[y].worktree)
    BY <1>1, <2>3 DEF Conflict, WriterConflict, is_writer
  <2> QED BY <2>1, <2>2, <2>3, DisjointWrites
<1>2. ~Conflict(k, j)
  BY ConflictSymmetric
<1> QED BY <1>1, <1>2 DEF WritersDisjoint, GlobalAlone

LEMMA InvExcludes == IInv => ConflictsExcluded
<1> SUFFICES ASSUME IInv PROVE ConflictsExcluded
  OBVIOUS
<1>1. \A j, k \in Live : j # k => WritersDisjoint({j, k}) /\ GlobalAlone({j, k})
  BY NoConflictApart DEF IInv, PairInv, Live
<1> QED BY <1>1 DEF ConflictsExcluded, WritersDisjoint, GlobalAlone

\* Two agents in conflict never work together while their rows count for them,
\* whatever is declared of their jobs (concurrency_policy.decide at the claim and
\* again at the spawn).
THEOREM ConflictsExclude == Spec => []ConflictsExcluded
BY InvAlways, InvExcludes, PTL

LEMMA StartStep ==
    ASSUME IInv, Next, NEW j \in Jobs, NEW k \in Jobs, agent'[j] = "live", agent[j] # "live",
           k # j, job[k].state = "RUNNING"
    PROVE  WritersDisjoint({j, k}) /\ GlobalAlone({j, k})
<1>1. TypeInv /\ StepInv /\ Coupled
  BY DEF IInv, Coupled
<1>2. At("admitted") /\ pass.job = j
  BY <1>1, LiveKept DEF Live
<1>3. ~Conflict(j, k)
  BY <1>2 DEF IInv, ClearInv, At, Active
<1> QED BY <1>1, <1>3, NoConflictApart

\* Nothing in conflict is started beside an agent whose row is RUNNING, even one that
\* was astray or whose holder is gone (list_active_job_facts at the spawn).
THEOREM NothingStartsBeside == Spec => StartsApart
<1> DEFINE Apart == \A j, k \in Jobs :
             (/\ agent'[j] = "live" /\ agent[j] # "live"
              /\ k \in (Live \cup Stray) \ {j} /\ job[k].state = "RUNNING")
                 => WritersDisjoint({j, k}) /\ GlobalAlone({j, k})
<1>1. IInv /\ [Next]_vars => [Apart]_vars
  BY StartStep
<1>2. [][Apart]_vars => StartsApart
  BY DEF StartsApart
<1> QED BY <1>1, <1>2, InvAlways, PTL DEF Spec

LEMMA InvAdmission == IInv => AdmissionInv
<1> SUFFICES ASSUME IInv PROVE AdmissionInv
  OBVIOUS
<1>1. AdmissionTypeOK
  BY DEF IInv, TypeInv, StepInv, AdmissionTypeOK, Rows, Declarations, ResourceEnds,
     TerminationClass, AttemptBound, Processes
<1>2. WithinTheHost
  <2>1. CASE Testing = {}
    BY <2>1, Live \cup {} = Live DEF WithinTheHost, IInv, RoomInv
  <2>2. CASE Testing # {}
    <3>1. At("admitted") /\ Testing = {pass.job}
      BY <2>2 DEF Testing, Running, Pass
    <3> QED BY <3>1 DEF WithinTheHost, IInv, RoomInv
  <2> QED BY <2>1, <2>2
<1>3. RecoveryAccepted
  BY DEF IInv, PassInv, Idle, Working, RecoveryAccepted, At
<1> QED BY <1>1, <1>2, <1>3 DEF AdmissionInv

\* What runs fits the class slots and the host reserve, attempts stay within the
\* policy, and no recovery is refused (ResourceGovernor._decide, decide_recovery).
THEOREM AdmissionSafe == Spec => []AdmissionInv
BY InvAlways, InvAdmission, PTL

LEMMA EvidenceStep ==
    ASSUME IInv, Next, NEW j \in Jobs, evidence[j] # NULL
    PROVE  /\ (agent'[j] = "live" => agent[j] = "live")
           /\ j \notin Testing'
           /\ (evidence[j] # "TIMEOUT" =>
                  evidence'[j] = evidence[j] \/ job'[j].state \in {"BLOCKED", "LOST"})
<1>1. /\ TypeInv /\ StepInv /\ PassInv /\ Coupled
      /\ job[j].phase = "tests"
      /\ pass.job = j => pass.pc \in {"idle", "claimed", "admit", "held", "tested"}
  BY DEF IInv, Coupled, EvidenceInv, Pass
<1>2. agent'[j] = "live" => agent[j] = "live"
  BY <1>1, LiveKept DEF Live, At, TypeInv
<1>3. j \notin Testing'
  <2>1. ASSUME j \in Testing' PROVE FALSE
    <3>1. Gated' /\ pass'.job = j
      BY <2>1 DEF Testing, Running, Gated, At, Pass
    <3>2. pass.job = j /\ (Gated \/ At("spawning"))
      BY <1>1, <3>1, GatedKept
    <3> QED BY <1>1, <3>2 DEF Gated, At
  <2> QED BY <2>1
<1>4. ASSUME evidence[j] # "TIMEOUT"
      PROVE  evidence'[j] = evidence[j] \/ job'[j].state \in {"BLOCKED", "LOST"}
  <2>1. ASSUME NEW k \in Jobs, classify_and_recover(k)
        PROVE  evidence'[j] = evidence[j] \/ job'[j].state \in {"BLOCKED", "LOST"}
    <3>1. CASE k = j
      <4>1. PICK r \in Rows : job' = [job EXCEPT ![j] = r] /\ r.state \in {"BLOCKED", "LOST"}
        BY <1>1, <1>4, <2>1, <3>1, RecoveredOK
      <4> QED BY <1>1, <4>1 DEF TypeInv
    <3>2. CASE k # j
      BY <1>1, <2>1, <3>2 DEF classify_and_recover, PutEvidence, TypeInv
    <3> QED BY <3>1, <3>2
  <2>2. ASSUME NEW k \in Jobs, _run_sandbox_scoped(k)
        PROVE  evidence'[j] = evidence[j]
    <3>1. k # j
      BY <1>1, <2>2 DEF _run_sandbox_scoped, Pass, At
    <3> QED BY <1>1, <2>2, <3>1 DEF _run_sandbox_scoped, PutEvidence, TypeInv
  <2>3. \/ evidence' = evidence
        \/ \E k \in Jobs : classify_and_recover(k) \/ _run_sandbox_scoped(k)
    BY DEF Next, Take, Claim, _block_missing_dependency, Continue, _try_recover_takeover, Step,
       _concurrency_gate, _resource_gate, Reconcile, _fresh_admission, _spawn_scoped, SpawnFails,
       LeaseLapses, AgentEnds, Crash, HostChanges, HostRecovers
  <2> QED BY <2>1, <2>2, <2>3
<1> QED BY <1>2, <1>3, <1>4

\* Evidence of a killed or lost process is settled before anything of its job is
\* started, and never by another attempt (classify_and_recover before reconcile).
THEOREM EvidenceSettled == Spec => EvidenceSettledFirst
<1> DEFINE Settles == \A j \in Jobs :
             evidence[j] # NULL =>
                 /\ (agent'[j] = "live" => agent[j] = "live")
                 /\ j \notin Testing'
                 /\ (evidence[j] # "TIMEOUT" =>
                        evidence'[j] = evidence[j] \/ job'[j].state \in {"BLOCKED", "LOST"})
<1>1. IInv /\ [Next]_vars => [Settles]_vars
  BY EvidenceStep
<1>2. [][Settles]_vars => EvidenceSettledFirst
  BY DEF EvidenceSettledFirst
<1> QED BY <1>1, <1>2, InvAlways, PTL DEF Spec
=============================================================================
