------------------------- MODULE RunAdmissionProofs -------------------------
(***************************************************************************)
(* Theorems about RunAdmission, for every plan, every set of task files,   *)
(* command lines and amendments, and every bound.                          *)
(***************************************************************************)
EXTENDS RunAdmission, FiniteSetTheorems, TLAPS

-----------------------------------------------------------------------------
(* The inductive invariant                                                 *)

(* The fields of run.json, of its fingerprint, of an invocation, of a      *)
(* command line and of a task's terms.                                     *)
RunFields == {"state", "scope", "print", "requested", "adapter", "model", "chain",
              "runtime", "bind", "status", "contract", "revs", "gen", "failed",
              "files", "evidence", "pending", "origin", "pledge", "by"}
PrintFields == {"mode", "selection", "scope", "order", "requested", "adapter",
                "model", "chain", "tasks"}
ProcFields == {"stage", "feature", "resume", "plan", "bind", "asked", "terms", "task"}
RequestFields == {"feature", "resume", "opened", "sel", "adapter", "model", "chain",
                  "repair", "runtime", "recover"}
TermFields == {"deps", "scope", "needs", "body", "bound"}

(* run.json has its fields, and one entry for each task of its scope in    *)
(* every table.                                                            *)
WellFormed(r) ==
    LET T == DOMAIN r.status
    IN  /\ DOMAIN r = RunFields /\ r.scope \in Seq(Tasks)
        /\ r.status \in [T -> {"to_do", "in_progress", "done"}]
        /\ r.gen \in [T -> Nat \ {0}] /\ r.failed \in [T -> Seq(Nat)]
        /\ r.revs \in [T -> Seq({Canonical(a.new) : a \in Amendments})]
        /\ DOMAIN r.contract = T /\ DOMAIN r.pledge = T
        /\ \A t \in T : DOMAIN r.pledge[t] = TermFields

(* The recorded fingerprint is that of the recorded scope and adapter.     *)
Printed(r) ==
    /\ DOMAIN r.print = PrintFields /\ DOMAIN r.print.tasks = DOMAIN r.status
    /\ \A t \in DOMAIN r.status :
          DOMAIN r.print.tasks[t] = {"deps", "root", "needs", "bound"}
    /\ r.print.scope = r.scope /\ r.print.order = r.scope
    /\ r.print.requested = Sourced(r.requested, r.requested # AutoAdapter)

(* What was promised of a task: the latest amendment's word, or the whole  *)
(* contract that was recorded.                                             *)
Pledged(r) ==
    \A t \in DOMAIN r.status :
        IF Amended(r, t) THEN /\ r.pledge[t].scope = Latest(r, t).scope
                              /\ r.pledge[t].bound = Latest(r, t).bound
                         ELSE r.contract[t] \subseteq {r.pledge[t]}

(* All of it, of every run there is.                                       *)
RunsKept ==
    \A f \in Features : Exists(f) =>
        RunOK(run[f]) /\ WellFormed(run[f]) /\ Printed(run[f]) /\ Pledged(run[f])

(* An invocation holds to what it worked out when it opened the run, and   *)
(* its terms are those promised.                                           *)
Bound ==
    proc # Idle =>
        LET r == run[proc.feature]
        IN  /\ DOMAIN proc = ProcFields
            /\ proc.stage \in {"opening", "opened", "running", "baseline", "launched",
                               "promoted", "review"}
            /\ proc.feature \in Features /\ Exists(proc.feature)
            /\ proc.resume \in BOOLEAN
            /\ proc.asked.feature = proc.feature
            /\ proc.plan.scope = r.scope
            /\ DOMAIN proc.terms = DOMAIN r.status
            /\ proc.task \subseteq DOMAIN r.status
            /\ \A t \in DOMAIN r.status :
                  /\ proc.terms[t].scope = r.pledge[t].scope
                  /\ proc.terms[t].bound = r.pledge[t].bound
                  /\ ~Amended(r, t) => proc.terms[t] = r.pledge[t]
            /\ proc.stage \in {"launched", "promoted"} =>
                  \A t \in proc.task : r.gen[t] >= 2

(* What opened a run admits it: the request as it was given and completed. *)
Admissible(b, h) ==
    /\ b.opened
    /\ Compiles(Plan, b, available) /\ Compiles(Plan, h, available)
    /\ Resolvable(h.adapter, available)

(* Between the checks and the save that ends the opening.                  *)
OpeningAgrees ==
    proc # Idle /\ proc.stage = "opening" =>
        LET r == run[proc.feature]
            q == proc.asked
        IN  /\ DOMAIN q = RequestFields /\ q.chain \in BOOLEAN
            /\ DOMAIN r.by = RequestFields
            /\ q = IF proc.resume THEN Hydrated(r, r.by) ELSE r.by
            /\ r.by.feature = proc.feature
            /\ Admissible(r.by, q)
            /\ proc.plan = Compile(Plan, q, available)
            /\ proc.bind = Binding(proc.plan.scope)
            /\ r.bind = proc.bind /\ r.adapter = proc.plan.adapter
            /\ r.requested = q.adapter /\ r.model = q.model
            /\ r.chain = ChainOf(r, q)
            /\ r.print.selection = proc.plan.selection
            /\ IF proc.resume THEN r.runtime = q.runtime
               ELSE /\ r.runtime = IF q.runtime = "unset" THEN "host" ELSE q.runtime
                    /\ r.print = proc.plan
            /\ \A t \in DOMAIN r.status :
                  ~Amended(r, t) => proc.terms[t] = Terms(q, t)

(* Nothing has changed since the run was opened: it is as the plan of the  *)
(* same request has it.                                                    *)
AsRequested(f) ==
    LET r == run[f]
        h == Hydrated(r, r.by)
        plan == Compile(Plan, h, available)
    IN  /\ DOMAIN r.by = RequestFields /\ r.by.feature = f
        /\ Admissible(r.by, h)
        /\ r.print = plan /\ r.bind = Binding(plan.scope) /\ r.adapter = plan.adapter
        /\ r.chain = ChainOf(r, h) /\ r.model = h.model /\ r.runtime = h.runtime
        /\ \A t \in DOMAIN r.status :
              ~Amended(r, t) => r.contract[t] = {Terms(h, t)}

CalmAgrees == \A f \in Features : Exists(f) /\ calm[f] => AsRequested(f)

(* Changes that reached the tree have left their window beside run.json.   *)
WindowsStay ==
    \A p \in landed :
        /\ p[1] \in Features /\ p[2] \in Tasks /\ Exists(p[1])
        /\ \E x \in run[p[1]].files : x[1] = p[2] /\ x[2] = "window"

(* The variables that are not run.json have their types.                   *)
Types ==
    /\ file \in [Tasks -> UNION {Listed(Drafts[t]) : t \in Tasks}]
    /\ \A t \in Tasks : file[t] \in Listed(Drafts[t])
    /\ available \subseteq Listed(Known) /\ head \in Heads
    /\ run \in [Features -> {run[f] : f \in Features}]
    /\ calm \in [Features -> BOOLEAN]
    /\ lock \in BOOLEAN /\ locks \subseteq Tasks
    /\ landed \subseteq Features \X Tasks

(* The inductive invariant.                                                *)
IInv == Types /\ RunsKept /\ Bound /\ OpeningAgrees /\ CalmAgrees /\ WindowsStay
-----------------------------------------------------------------------------
(* Plans                                                                   *)

(* What is kept of a sequence comes from it.                               *)
LEMMA OnlyType ==
    ASSUME NEW n \in Nat, NEW A, NEW s \in [1..n -> A], NEW S
    PROVE  Only(s, S) \in Seq(A)
<1> DEFINE kept == Kept(s, S)
           m == Cardinality(kept)
           rank == [i \in kept |-> Rank(s, S, i)]
<1>1. kept \subseteq 1..n /\ kept \subseteq DOMAIN s
  BY DEF Kept
<1>2. IsFiniteSet(kept) /\ m \in Nat
  <2>1. IsFiniteSet(1..n)
    BY FS_Interval
  <2> QED BY <1>1, <2>1, FS_Subset, FS_CardinalityType
<1>3. ASSUME NEW i \in kept
      PROVE  Rank(s, S, i) \in 1..m
  <2> DEFINE below == {j \in kept : j <= i}
  <2>1. below \in SUBSET kept /\ i \in below
    BY <1>1, <1>3
  <2>2. IsFiniteSet(below) /\ Cardinality(below) <= m /\ Cardinality(below) \in Nat
    BY <1>2, <2>1, FS_Subset, FS_CardinalityType
  <2>3. Cardinality(below) # 0
    BY <2>1, <2>2, FS_EmptySet
  <2>4. Rank(s, S, i) = Cardinality(below)
    BY DEF Rank
  <2> HIDE DEF below, m
  <2> QED BY <1>2, <2>2, <2>3, <2>4
<1>4. ASSUME NEW i \in kept, NEW j \in kept, i < j
      PROVE  Rank(s, S, i) # Rank(s, S, j)
  <2> DEFINE low == {k \in kept : k <= i}
             high == {k \in kept : k <= j}
  <2>1. low \in SUBSET high /\ j \in high \ low
    BY <1>1, <1>4
  <2>2. IsFiniteSet(high)
    <3>1. high \in SUBSET kept
      OBVIOUS
    <3> QED BY <1>2, <3>1, FS_Subset
  <2>3. Cardinality(low) # Cardinality(high)
    <3> HIDE DEF low, high
    <3> QED BY <2>1, <2>2, FS_Subset
  <2> QED BY <2>3 DEF Rank
<1>5. rank \in Surjection(kept, 1..m)
  <2>1. rank \in [kept -> 1..m]
    BY <1>3
  <2>2. \A i, j \in kept : rank[i] = rank[j] => i = j
    <3> SUFFICES ASSUME NEW i \in kept, NEW j \in kept, rank[i] = rank[j], i # j
                 PROVE  FALSE
      OBVIOUS
    <3>1. i < j \/ j < i
      BY <1>1
    <3> QED BY <3>1, <1>4
  <2>3. rank \in Injection(kept, 1..m)
    BY <2>1, <2>2 DEF Injection, IsInjective
  <2>4. IsFiniteSet(1..m) /\ Cardinality(1..m) = m
    <3>1. /\ IsFiniteSet(1..m)
          /\ Cardinality(1..m) = IF 1 > m THEN 0 ELSE m - 1 + 1
      <4> HIDE DEF m
      <4> QED BY <1>2, FS_Interval
    <3> HIDE DEF m
    <3> QED BY <1>2, <3>1
  <2> HIDE DEF rank
  <2> QED BY <2>3, <2>4, FS_Injection
<1>6. ASSUME NEW k \in 1..m
      PROVE  s[CHOOSE i \in kept : Rank(s, S, i) = k] \in A
  <2>1. \E i \in kept : Rank(s, S, i) = k
    BY <1>5, <1>6 DEF Surjection
  <2>2. (CHOOSE i \in kept : Rank(s, S, i) = k) \in kept
    BY <2>1
  <2> HIDE DEF kept
  <2> QED BY <1>1, <2>2
<1>7. Only(s, S) \in [1..m -> A]
  BY <1>6 DEF Only
<1> HIDE DEF m
<1> QED BY <1>2, <1>7

(* Nothing goes when everything is kept.                                   *)
LEMMA OnlyAll ==
    ASSUME NEW A, NEW s \in Seq(A)
    PROVE  Only(s, Listed(s)) = s
<1> DEFINE n == Len(s)
<1>1. n \in Nat /\ DOMAIN s = 1..n
  OBVIOUS
<1>2. Kept(s, Listed(s)) = 1..n
  BY <1>1 DEF Kept, Listed
<1> HIDE DEF n
<1>3. ASSUME NEW i \in 1..n
      PROVE  Rank(s, Listed(s), i) = i
  <2>1. {j \in 1..n : j <= i} = 1..i
    BY <1>1
  <2>2. Cardinality(1..i) = i
    BY <1>1, FS_Interval
  <2> QED BY <1>2, <2>1, <2>2 DEF Rank
<1>4. Cardinality(1..n) = n
  BY <1>1, FS_Interval
<1>5. ASSUME NEW k \in 1..n
      PROVE  (CHOOSE i \in 1..n : Rank(s, Listed(s), i) = k) = k
  BY <1>3
<1>6. Only(s, Listed(s)) = [k \in 1..n |-> s[k]]
  <2> DEFINE all == Kept(s, Listed(s))
             pick(k) == CHOOSE i \in all : Rank(s, Listed(s), i) = k
  <2>1. Cardinality(all) = n
    BY <1>2, <1>4
  <2>2. \A k \in 1..n : pick(k) = k
    BY <1>2, <1>5
  <2>3. Only(s, Listed(s)) = [k \in 1..Cardinality(all) |-> s[pick(k)]]
    BY DEF Only
  <2> HIDE DEF all, pick
  <2> QED BY <2>1, <2>2, <2>3
<1> QED BY <1>1, <1>6

(* The tasks of the plan are those it lists, each with its own file.       *)
LEMMA PlanTasks ==
    ASSUME Types
    PROVE  /\ DOMAIN Plan = 1..Len(Order) /\ Len(Order) \in Nat
           /\ Ids(Plan) = Tasks
           /\ \A t \in Tasks : TaskOf(Plan, t) = file[t]
<1>1. /\ Len(Order) \in Nat /\ DOMAIN Order = 1..Len(Order)
      /\ \A i \in DOMAIN Order : Order[i] \in Tasks
  BY AdmissionAssumption DEF Tasks, Listed
<1>2. \A t \in Tasks : file[t].id = t
  BY AdmissionAssumption DEF Types
<1>3. /\ DOMAIN Plan = DOMAIN Order
      /\ \A i \in DOMAIN Plan : Plan[i] = file[Order[i]] /\ Plan[i].id = Order[i]
  BY <1>1, <1>2 DEF Plan
<1> HIDE DEF Plan
<1>4. Ids(Plan) = Tasks
  BY <1>3 DEF Ids, Tasks, Listed
<1>5. ASSUME NEW t \in Tasks
      PROVE  TaskOf(Plan, t) = file[t]
  <2>1. \E i \in DOMAIN Plan : Plan[i].id = t
    BY <1>3 DEF Tasks, Listed
  <2>2. PICK i \in DOMAIN Plan : i = CHOOSE j \in DOMAIN Plan : Plan[j].id = t
    BY <2>1
  <2>3. Plan[i].id = t
    BY <2>1, <2>2
  <2>4. TaskOf(Plan, t) = Plan[i]
    BY <2>2 DEF TaskOf
  <2> QED BY <1>3, <2>3, <2>4
<1> QED BY <1>1, <1>3, <1>4, <1>5

(* compile_run_plan reads these five controls of a request.                *)
SameControls(a, b) ==
    /\ a.sel = b.sel /\ a.adapter = b.adapter /\ a.model = b.model
    /\ a.chain = b.chain /\ a.repair = b.repair

(* Requests that agree on them compile to the same plan and give tasks the *)
(* same terms.                                                             *)
LEMMA SamePlan ==
    ASSUME NEW a, NEW b, SameControls(a, b)
    PROVE  /\ Compile(Plan, a, available) = Compile(Plan, b, available)
           /\ Compiles(Plan, a, available) = Compiles(Plan, b, available)
           /\ \A t : Terms(a, t) = Terms(b, t)
<1>1. /\ a.sel = b.sel /\ a.adapter = b.adapter /\ a.model = b.model
      /\ a.chain = b.chain /\ a.repair = b.repair
  BY DEF SameControls
<1>2. \A d : CompiledTask(d, a) = CompiledTask(d, b)
  BY <1>1 DEF CompiledTask
<1>3. Compile(Plan, a, available) = Compile(Plan, b, available)
  <2>1. Scope(Plan, a.sel) = Scope(Plan, b.sel)
    BY <1>1
  <2>2. [t \in Listed(Scope(Plan, a.sel)) |-> CompiledTask(TaskOf(Plan, t), a)]
          = [t \in Listed(Scope(Plan, b.sel)) |-> CompiledTask(TaskOf(Plan, t), b)]
    BY <1>2, <2>1
  <2> QED BY <1>1, <2>1, <2>2, Zenon DEF Compile
<1>4. Compiles(Plan, a, available) = Compiles(Plan, b, available)
  BY <1>1, Zenon DEF Compiles
<1>5. \A t : Terms(a, t) = Terms(b, t)
  BY <1>1 DEF Terms
<1> QED BY <1>3, <1>4, <1>5

(* What is known of a compiled plan.                                       *)
LEMMA Compiled ==
    ASSUME Types, NEW q, Compiles(Plan, q, available)
    PROVE  LET plan == Compile(Plan, q, available) IN
           /\ DOMAIN plan = PrintFields
           /\ plan.scope \in Seq(Tasks) /\ plan.order = plan.scope
           /\ plan.requested = Sourced(q.adapter, q.adapter # AutoAdapter)
           /\ plan.adapter = Chosen(q.adapter, available)
           /\ DOMAIN plan.tasks = Listed(plan.scope)
           /\ \A t \in Listed(plan.scope) :
                 /\ t \in Tasks
                 /\ DOMAIN plan.tasks[t] = {"deps", "root", "needs", "bound"}
                 /\ plan.tasks[t].deps = file[t].deps
<1> DEFINE scope == Scope(Plan, q.sel)
<1>1. scope \in Seq(Tasks)
  <2>1. Drained(Plan) \in [1..Len(Order) -> Tasks]
    BY PlanTasks DEF Compiles, ValidGraph
  <2> QED BY <2>1, PlanTasks, OnlyType DEF Scope
<1>2. \A t \in Listed(scope) : t \in Tasks /\ TaskOf(Plan, t) = file[t]
  <2> HIDE DEF scope
  <2> QED BY <1>1, PlanTasks DEF Listed
<1> DEFINE plan == Compile(Plan, q, available)
<1>3. /\ DOMAIN plan = PrintFields /\ plan.scope = scope /\ plan.order = scope
      /\ plan.requested = Sourced(q.adapter, q.adapter # AutoAdapter)
      /\ plan.adapter = Chosen(q.adapter, available)
      /\ plan.tasks = [t \in Listed(scope) |-> CompiledTask(TaskOf(Plan, t), q)]
  BY DEF Compile, PrintFields
<1> HIDE DEF plan, scope
<1>4. ASSUME NEW t \in Listed(scope)
      PROVE  /\ DOMAIN plan.tasks[t] = {"deps", "root", "needs", "bound"}
             /\ plan.tasks[t].deps = file[t].deps
  BY <1>2, <1>3, <1>4 DEF CompiledTask
<1>5. DOMAIN plan.tasks = Listed(scope)
  BY <1>3
<1> QED BY <1>1, <1>2, <1>3, <1>4, <1>5 DEF plan

-----------------------------------------------------------------------------
(* Working on a run                                                        *)

(* A run whose fields are right, which no step of the work can spoil.      *)
Good(r) == RunOK(r) /\ WellFormed(r)

(* Everything a request is held to is the same.                            *)
Steady(a, b) ==
    /\ a.scope = b.scope /\ a.print = b.print /\ a.requested = b.requested
    /\ a.adapter = b.adapter /\ a.model = b.model /\ a.chain = b.chain
    /\ a.runtime = b.runtime /\ a.bind = b.bind /\ a.contract = b.contract
    /\ a.revs = b.revs /\ a.pledge = b.pledge /\ a.by = b.by
    /\ DOMAIN a.status = DOMAIN b.status

(* What the executor leaves behind is only added to.                       *)
Grows(a, b) ==
    /\ Steady(a, b) /\ b.files \subseteq a.files
    /\ \A t \in DOMAIN b.status : a.gen[t] >= b.gen[t]

(* The part of a run that its invocations work on.                         *)
Progress(r) ==
    LET T == DOMAIN r.status
    IN  /\ r.state \in {"running", "verified"}
        /\ r.status \in [T -> {"to_do", "in_progress", "done"}]
        /\ r.gen \in [T -> Nat \ {0}] /\ r.failed \in [T -> Seq(Nat)]
        /\ \A t \in T : Listed(r.failed[t]) \subseteq 1..(r.gen[t] - 1)
        /\ r.pending \subseteq r.evidence /\ r.evidence \subseteq T

(* A good run has its fields and is right about its progress.              *)
LEMMA GoodFields ==
    ASSUME NEW r, Good(r)
    PROVE  DOMAIN r = RunFields /\ Progress(r)
BY DEF Good, RunOK, WellFormed, Progress

(* A run that is steady and right about its progress is good.              *)
LEMMA ProgressIsGood ==
    ASSUME NEW r, Good(r), NEW q, DOMAIN q = RunFields, Steady(q, r), Progress(q)
    PROVE  Good(q)
<1>1. RunOK(q)
  BY DEF Good, RunOK, Steady, Progress
<1>2. WellFormed(q)
  BY DEF Good, WellFormed, Steady, Progress
<1> QED BY <1>1, <1>2 DEF Good

(* How the steps of an invocation change a run.                            *)

(* Taking a task, or waiting for its precondition.                         *)
LEMMA Started ==
    ASSUME NEW r, Good(r), NEW t \in DOMAIN r.status,
           NEW q, q = [r EXCEPT !.status[t] = "in_progress"]
    PROVE  Good(q) /\ Grows(q, r) /\ q.gen = r.gen
<1>0. DOMAIN r = RunFields
  BY GoodFields
<1>1. DOMAIN q = RunFields /\ Steady(q, r)
  BY <1>0 DEF RunFields, Steady
<1>2. /\ q.state = r.state /\ q.status = [r.status EXCEPT ![t] = "in_progress"] /\ q.gen = r.gen
      /\ q.failed = r.failed /\ q.files = r.files
      /\ q.evidence = r.evidence /\ q.pending = r.pending
  BY <1>0 DEF RunFields
<1>3. Progress(q)
  BY <1>2, GoodFields DEF Progress
<1>4. Good(q)
  BY <1>1, <1>3, ProgressIsGood
<1>5. Grows(q, r)
  BY <1>1, <1>2, GoodFields DEF Grows, Progress
<1> QED BY <1>2, <1>4, <1>5

(* Consuming a generation.                                                 *)
LEMMA Launched ==
    ASSUME NEW r, Good(r), NEW t \in DOMAIN r.status, NEW F,
           NEW q, q = [r EXCEPT !.gen[t] = @ + 1, !.files = @ \cup F]
    PROVE  Good(q) /\ Grows(q, r) /\ q.gen[t] >= 2
<1>0. DOMAIN r = RunFields
  BY GoodFields
<1>1. DOMAIN q = RunFields /\ Steady(q, r)
  BY <1>0 DEF RunFields, Steady
<1>2. /\ q.state = r.state /\ q.status = r.status
      /\ q.gen = [r.gen EXCEPT ![t] = @ + 1]
      /\ q.failed = r.failed /\ q.files = r.files \cup F
      /\ q.evidence = r.evidence /\ q.pending = r.pending
  BY <1>0 DEF RunFields
<1>a. q.gen \in [DOMAIN r.status -> Nat \ {0}] /\ q.gen[t] = r.gen[t] + 1
      /\ r.gen[t] \in Nat \ {0}
  BY <1>2, GoodFields DEF Progress
<1>b. ASSUME NEW u \in DOMAIN r.status
      PROVE  Listed(q.failed[u]) \subseteq 1..(q.gen[u] - 1)
  <2>1. /\ r.gen[u] \in Nat /\ (q.gen[u] = r.gen[u] \/ q.gen[u] = r.gen[u] + 1)
        /\ Listed(r.failed[u]) \subseteq 1..(r.gen[u] - 1)
    BY <1>2, GoodFields DEF Progress
  <2> QED BY <1>2, <2>1
<1>3. Progress(q)
  BY <1>2, <1>a, <1>b, GoodFields DEF Progress
<1>4. Good(q)
  BY <1>1, <1>3, ProgressIsGood
<1>5. Grows(q, r)
  BY <1>1, <1>2, GoodFields DEF Grows, Progress
<1> QED BY <1>2, <1>a, <1>4, <1>5

(* A launch that failed.                                                   *)
LEMMA Failed ==
    ASSUME NEW r, Good(r), NEW t \in DOMAIN r.status, NEW F, r.gen[t] >= 2,
           NEW q, q = [r EXCEPT !.failed[t] = Append(@, r.gen[t] - 1), !.files = @ \cup F]
    PROVE  Good(q) /\ Grows(q, r) /\ q.gen = r.gen
<1>0. DOMAIN r = RunFields
  BY GoodFields
<1>1. DOMAIN q = RunFields /\ Steady(q, r)
  BY <1>0 DEF RunFields, Steady
<1>2. /\ q.state = r.state /\ q.status = r.status /\ q.gen = r.gen
      /\ q.failed = [r.failed EXCEPT ![t] = Append(@, r.gen[t] - 1)] /\ q.files = r.files \cup F
      /\ q.evidence = r.evidence /\ q.pending = r.pending
  BY <1>0 DEF RunFields
<1>a. r.failed[t] \in Seq(Nat) /\ r.gen[t] \in Nat /\ r.gen[t] - 1 \in Nat
  BY GoodFields DEF Progress
<1>b. q.failed \in [DOMAIN r.status -> Seq(Nat)]
  BY <1>2, <1>a, GoodFields DEF Progress
<1>c. Listed(Append(r.failed[t], r.gen[t] - 1))
         \subseteq Listed(r.failed[t]) \cup {r.gen[t] - 1}
  BY <1>a DEF Listed
<1>d. ASSUME NEW u \in DOMAIN r.status
      PROVE  Listed(q.failed[u]) \subseteq 1..(r.gen[u] - 1)
  <2>1. Listed(r.failed[u]) \subseteq 1..(r.gen[u] - 1) /\ r.gen[u] \in Nat
    BY GoodFields DEF Progress
  <2>2. CASE u = t
    <3>1. q.failed[u] = Append(r.failed[t], r.gen[t] - 1)
      BY <1>2, <2>2, GoodFields DEF Progress
    <3>2. r.gen[t] - 1 \in 1..(r.gen[t] - 1)
      BY <1>a
    <3> QED BY <1>c, <2>1, <2>2, <3>1, <3>2
  <2>3. CASE u # t
    BY <1>2, <2>1, <2>3, GoodFields DEF Progress
  <2> QED BY <2>2, <2>3
<1>3. Progress(q)
  BY <1>2, <1>b, <1>d, GoodFields DEF Progress
<1>4. Good(q)
  BY <1>1, <1>3, ProgressIsGood
<1>5. Grows(q, r)
  BY <1>1, <1>2, GoodFields DEF Grows, Progress
<1> QED BY <1>2, <1>4, <1>5

(* Report, manifest and diff.                                              *)
LEMMA Filed ==
    ASSUME NEW r, Good(r), NEW F,
           NEW q, q = [r EXCEPT !.files = @ \cup F]
    PROVE  Good(q) /\ Grows(q, r) /\ q.gen = r.gen /\ q.files = r.files \cup F
<1>0. DOMAIN r = RunFields
  BY GoodFields
<1>1. DOMAIN q = RunFields /\ Steady(q, r)
  BY <1>0 DEF RunFields, Steady
<1>2. /\ q.state = r.state /\ q.status = r.status /\ q.gen = r.gen
      /\ q.failed = r.failed /\ q.files = r.files \cup F
      /\ q.evidence = r.evidence /\ q.pending = r.pending
  BY <1>0 DEF RunFields
<1>3. Progress(q)
  BY <1>2, GoodFields DEF Progress
<1>4. Good(q)
  BY <1>1, <1>3, ProgressIsGood
<1>5. Grows(q, r)
  BY <1>1, <1>2, GoodFields DEF Grows, Progress
<1> QED BY <1>2, <1>4, <1>5

(* Recording what was promoted.                                            *)
LEMMA Evidenced ==
    ASSUME NEW r, Good(r), NEW t \in DOMAIN r.status,
           NEW q, q = [r EXCEPT !.evidence = @ \cup {t}, !.pending = @ \cup {t}]
    PROVE  Good(q) /\ Grows(q, r) /\ q.gen = r.gen
<1>0. DOMAIN r = RunFields
  BY GoodFields
<1>1. DOMAIN q = RunFields /\ Steady(q, r)
  BY <1>0 DEF RunFields, Steady
<1>2. /\ q.state = r.state /\ q.status = r.status /\ q.gen = r.gen
      /\ q.failed = r.failed /\ q.files = r.files
      /\ q.evidence = r.evidence \cup {t} /\ q.pending = r.pending \cup {t}
  BY <1>0 DEF RunFields
<1>3. Progress(q)
  BY <1>2, GoodFields DEF Progress
<1>4. Good(q)
  BY <1>1, <1>3, ProgressIsGood
<1>5. Grows(q, r)
  BY <1>1, <1>2, GoodFields DEF Grows, Progress
<1> QED BY <1>2, <1>4, <1>5

(* A gate that passed.                                                     *)
LEMMA Completed ==
    ASSUME NEW r, Good(r), NEW t \in DOMAIN r.status,
           NEW q, q = [r EXCEPT !.status[t] = "done", !.pending = @ \ {t}]
    PROVE  Good(q) /\ Grows(q, r) /\ q.gen = r.gen
<1>0. DOMAIN r = RunFields
  BY GoodFields
<1>1. DOMAIN q = RunFields /\ Steady(q, r)
  BY <1>0 DEF RunFields, Steady
<1>2. /\ q.state = r.state /\ q.status = [r.status EXCEPT ![t] = "done"] /\ q.gen = r.gen
      /\ q.failed = r.failed /\ q.files = r.files
      /\ q.evidence = r.evidence /\ q.pending = r.pending \ {t}
  BY <1>0 DEF RunFields
<1>3. Progress(q)
  BY <1>2, GoodFields DEF Progress
<1>4. Good(q)
  BY <1>1, <1>3, ProgressIsGood
<1>5. Grows(q, r)
  BY <1>1, <1>2, GoodFields DEF Grows, Progress
<1> QED BY <1>2, <1>4, <1>5

(* A gate that failed or waits.                                            *)
LEMMA Awaited ==
    ASSUME NEW r, Good(r), NEW P, P \subseteq r.pending,
           NEW q, q = [r EXCEPT !.pending = P]
    PROVE  Good(q) /\ Grows(q, r) /\ q.gen = r.gen
<1>0. DOMAIN r = RunFields
  BY GoodFields
<1>1. DOMAIN q = RunFields /\ Steady(q, r)
  BY <1>0 DEF RunFields, Steady
<1>2. /\ q.state = r.state /\ q.status = r.status /\ q.gen = r.gen
      /\ q.failed = r.failed /\ q.files = r.files
      /\ q.evidence = r.evidence /\ q.pending = P
  BY <1>0 DEF RunFields
<1>3. Progress(q)
  BY <1>2, GoodFields DEF Progress
<1>4. Good(q)
  BY <1>1, <1>3, ProgressIsGood
<1>5. Grows(q, r)
  BY <1>1, <1>2, GoodFields DEF Grows, Progress
<1> QED BY <1>2, <1>4, <1>5

(* The end of the loop.                                                    *)
LEMMA Closed ==
    ASSUME NEW r, Good(r), NEW s \in {"running", "verified"},
           NEW q, q = [r EXCEPT !.state = s]
    PROVE  Good(q) /\ Grows(q, r) /\ q.gen = r.gen
<1>0. DOMAIN r = RunFields
  BY GoodFields
<1>1. DOMAIN q = RunFields /\ Steady(q, r)
  BY <1>0 DEF RunFields, Steady
<1>2. /\ q.state = s /\ q.status = r.status /\ q.gen = r.gen
      /\ q.failed = r.failed /\ q.files = r.files
      /\ q.evidence = r.evidence /\ q.pending = r.pending
  BY <1>0 DEF RunFields
<1>3. Progress(q)
  BY <1>2, GoodFields DEF Progress
<1>4. Good(q)
  BY <1>1, <1>3, ProgressIsGood
<1>5. Grows(q, r)
  BY <1>1, <1>2, GoodFields DEF Grows, Progress
<1> QED BY <1>2, <1>4, <1>5

(* The run an invocation is at work on.                                    *)
Mine == run[proc.feature]

(* The run at work is there and good, and its tasks are those of the plan. *)
LEMMA MineIsGood ==
    ASSUME RunsKept, Bound, proc # Idle
    PROVE  /\ proc.feature \in Features /\ Exists(proc.feature) /\ Good(Mine)
           /\ Listed(proc.plan.scope) = DOMAIN Mine.status
           /\ proc.task \subseteq DOMAIN Mine.status
BY DEF RunsKept, Bound, Mine, Good, RunOK

(* The steps after the opening.                                            *)
Work(t) == Turn(t) \/ DoneTaskBlocks \/ Acquire \/ Finish

(* They belong to an invocation, ...                                       *)
LEMMA WorkIsOfProc ==
    ASSUME NEW t, Work(t)
    PROVE  /\ proc # Idle /\ proc.stage # "opening"
           /\ UNCHANGED <<inputs, calm, bounds>>
<1>1. CASE Waits(t) \/ Take(t)
  <2>1. Next1(t) /\ UNCHANGED <<inputs, calm, bounds>>
    BY <1>1 DEF Waits, Take
  <2>2. proc.stage = "running"
    BY <2>1 DEF Next1
  <2> QED BY <2>1, <2>2 DEF Idle
<1>2. ASSUME AmendmentRequired(t) \/ Launch(t) \/ LaunchFails(t)
      PROVE  proc.stage \in {"baseline", "launched"} /\ UNCHANGED <<inputs, calm, bounds>>
  BY <1>2, Zenon DEF AmendmentRequired, Launch, LaunchFails
<1>3. ASSUME Promote(t) \/ Record(t) \/ Verified(t) \/ NotVerified(t)
      PROVE  /\ proc.stage \in {"launched", "promoted", "review"}
             /\ UNCHANGED <<inputs, calm, bounds>>
  BY <1>3, Zenon DEF Promote, Record, Verified, NotVerified
<1>4. ASSUME DoneTaskBlocks \/ Acquire \/ Finish
      PROVE  proc.stage \in {"opened", "running"} /\ UNCHANGED <<inputs, calm, bounds>>
  BY <1>4, Zenon DEF DoneTaskBlocks, Acquire, Finish
<1>5. proc.stage \in {"opened", "running", "baseline", "launched", "promoted", "review"}
      => proc # Idle /\ proc.stage # "opening"
  BY DEF Idle
<1> QED BY <1>1, <1>2, <1>3, <1>4, <1>5 DEF Work, Turn

(* ... and add to the progress of its run.                                 *)
LEMMA WorkStep ==
    ASSUME Types, RunsKept, Bound, NEW t, Work(t)
    PROVE  \/ run' = run
           \/ \E q : /\ run' = [run EXCEPT ![proc.feature] = q]
                     /\ Good(q) /\ Grows(q, Mine)
<1>0. /\ proc.feature \in Features /\ Exists(proc.feature) /\ Good(Mine)
      /\ Listed(proc.plan.scope) = DOMAIN Mine.status
      /\ proc.task \subseteq DOMAIN Mine.status
  BY WorkIsOfProc, MineIsGood
<1>1. ASSUME Next1(t) PROVE t \in DOMAIN Mine.status
  BY <1>0, <1>1 DEF Next1, Actionable
<1>2. CASE Waits(t) \/ Take(t)
  <2> DEFINE q == [Mine EXCEPT !.status[t] = "in_progress"]
  <2>1. run' = [run EXCEPT ![proc.feature] = q]
    BY <1>2 DEF Waits, Take, Mine
  <2>2. Good(q) /\ Grows(q, Mine)
    BY <1>0, <1>1, <1>2, Started DEF Waits, Take
  <2> HIDE DEF q
  <2> QED BY <2>1, <2>2
<1>3. CASE Launch(t)
  <2> DEFINE F == {<<t, "prompt", Mine.gen[t]>>}
             q == [Mine EXCEPT !.gen[t] = @ + 1, !.files = @ \cup F]
  <2>1. run' = [run EXCEPT ![proc.feature] = q]
    BY <1>3 DEF Launch, Mine
  <2>2. t \in DOMAIN Mine.status
    BY <1>0, <1>3 DEF Launch
  <2>3. Good(q) /\ Grows(q, Mine)
    <3> HIDE DEF F
    <3> QED BY <1>0, <2>2, Launched
  <2> HIDE DEF q
  <2> QED BY <2>1, <2>3
<1>4. CASE LaunchFails(t)
  <2>1. PICK report \in SUBSET {"report"}, diagnostic \in {"failure", "protocol"} :
          run' = [run EXCEPT ![proc.feature].failed[t] = Append(@, Generation(t)),
                             ![proc.feature].files =
                                 @ \cup {<<t, k, Generation(t)>> : k \in report \cup {diagnostic}}]
    BY <1>4 DEF LaunchFails
  <2> DEFINE F == {<<t, k, Generation(t)>> : k \in report \cup {diagnostic}}
             q == [Mine EXCEPT !.failed[t] = Append(@, Mine.gen[t] - 1),
                               !.files = @ \cup F]
  <2>2. run' = [run EXCEPT ![proc.feature] = q]
    BY <2>1 DEF Generation, Mine
  <2>3. t \in DOMAIN Mine.status /\ Mine.gen[t] >= 2
    BY <1>0, <1>4, WorkIsOfProc DEF LaunchFails, Bound, Mine
  <2>4. Good(q) /\ Grows(q, Mine)
    <3> HIDE DEF F
    <3> QED BY <1>0, <2>3, Failed
  <2> HIDE DEF q
  <2> QED BY <2>2, <2>4
<1>5. CASE Promote(t)
  <2> DEFINE F == {<<t, k, Generation(t)>> : k \in {"report", "window"}}
             q == [Mine EXCEPT !.files = @ \cup F]
  <2>1. run' = [run EXCEPT ![proc.feature] = q]
    BY <1>5 DEF Promote, Mine
  <2>2. Good(q) /\ Grows(q, Mine)
    <3> HIDE DEF F
    <3> QED BY <1>0, Filed
  <2> HIDE DEF q
  <2> QED BY <2>1, <2>2
<1>6. CASE Record(t)
  <2> DEFINE q == [Mine EXCEPT !.evidence = @ \cup {t}, !.pending = @ \cup {t}]
  <2>1. run' = [run EXCEPT ![proc.feature] = q]
    BY <1>6 DEF Record, Mine
  <2>2. Good(q) /\ Grows(q, Mine)
    BY <1>0, <1>6, Evidenced DEF Record
  <2> HIDE DEF q
  <2> QED BY <2>1, <2>2
<1>7. CASE Verified(t)
  <2> DEFINE q == [Mine EXCEPT !.status[t] = "done", !.pending = @ \ {t}]
  <2>1. run' = [run EXCEPT ![proc.feature] = q]
    BY <1>7 DEF Verified, Mine
  <2>2. Good(q) /\ Grows(q, Mine)
    BY <1>0, <1>7, Completed DEF Verified
  <2> HIDE DEF q
  <2> QED BY <2>1, <2>2
<1>8. CASE NotVerified(t)
  <2>1. PICK waiting \in BOOLEAN :
          run' = [run EXCEPT ![proc.feature].pending = IF waiting THEN @ ELSE @ \ {t}]
    BY <1>8 DEF NotVerified
  <2> DEFINE P == IF waiting THEN Mine.pending ELSE Mine.pending \ {t}
             q == [Mine EXCEPT !.pending = P]
  <2>2. run' = [run EXCEPT ![proc.feature] = q]
    BY <2>1 DEF Mine
  <2>3. Good(q) /\ Grows(q, Mine)
    <3>1. P \subseteq Mine.pending
      OBVIOUS
    <3> HIDE DEF P
    <3> QED BY <1>0, <3>1, Awaited
  <2> HIDE DEF q
  <2> QED BY <2>2, <2>3
<1>9. CASE Finish
  <2> DEFINE s == IF Listed(proc.plan.scope) \subseteq Done(Mine) THEN "verified"
                  ELSE Mine.state
             q == [Mine EXCEPT !.state = s]
  <2>1. run' = [run EXCEPT ![proc.feature] = q]
    BY <1>9 DEF Finish, Mine
  <2>2. s \in {"running", "verified"}
    BY <1>0 DEF Good, RunOK
  <2>3. Good(q) /\ Grows(q, Mine)
    <3> HIDE DEF s
    <3> QED BY <1>0, <2>2, Closed
  <2> HIDE DEF q
  <2> QED BY <2>1, <2>3
<1>10. CASE AmendmentRequired(t) \/ DoneTaskBlocks \/ Acquire
  BY <1>10 DEF AmendmentRequired, DoneTaskBlocks, Acquire
<1> QED BY <1>2, <1>3, <1>4, <1>5, <1>6, <1>7, <1>8, <1>9, <1>10 DEF Work, Turn

-----------------------------------------------------------------------------
(* Opening a run                                                           *)

(* An adapter that was chosen and can run is one of the known ones.        *)
LEMMA ChosenIsKnown ==
    ASSUME Types, NEW a, Resolvable(a, available)
    PROVE  Chosen(a, available) \in Listed(Known)
<1>1. Listed(Known) = {"claude", "codex"}
  BY DEF Listed, Known
<1>2. FirstAvailable(available) \in {"claude", "codex"}
  BY DEF FirstAvailable, Known
<1> QED BY <1>1, <1>2 DEF Types, Resolvable, Chosen

(* What initialize writes is a run with nothing in it.                     *)
LEMMA NewRunKept ==
    ASSUME Types, NEW q, Compiles(Plan, q, available), Resolvable(q.adapter, available)
    PROVE  Good(NewRun(q)) /\ Printed(NewRun(q)) /\ Pledged(NewRun(q))
<1> DEFINE plan == Compile(Plan, q, available)
           T == Listed(plan.scope)
           r == NewRun(q)
<1>1. /\ DOMAIN plan = PrintFields
      /\ plan.scope \in Seq(Tasks) /\ plan.order = plan.scope
      /\ plan.requested = Sourced(q.adapter, q.adapter # AutoAdapter)
      /\ plan.adapter = Chosen(q.adapter, available)
      /\ DOMAIN plan.tasks = T /\ T \subseteq Tasks
      /\ \A t \in T : DOMAIN plan.tasks[t] = {"deps", "root", "needs", "bound"}
  BY Compiled
<1>2. /\ DOMAIN r = RunFields /\ r.state = "running" /\ r.scope = plan.scope
      /\ r.print = plan /\ r.requested = q.adapter /\ r.adapter = plan.adapter
      /\ r.bind = Binding(plan.scope)
      /\ r.status = [t \in T |-> "to_do"] /\ r.contract = [t \in T |-> {}]
      /\ r.revs = [t \in T |-> << >>] /\ r.gen = [t \in T |-> 1]
      /\ r.failed = [t \in T |-> << >>]
      /\ r.evidence = {} /\ r.pending = {}
      /\ r.pledge = [t \in T |-> Terms(q, t)]
  BY DEF NewRun, RunFields
<1> HIDE DEF plan, T, r
<1>3. DOMAIN r.status = T
  BY <1>2
<1>4. r.adapter \in Listed(Known)
  BY <1>1, <1>2, ChosenIsKnown
<1>5. r.bind \in Heads \cup {NoRef}
  BY <1>2 DEF Binding, Types
<1>6. \A t \in T : Cardinality(r.contract[t]) <= 1
  BY <1>2, FS_EmptySet
<1>7. \A t \in T : Listed(r.failed[t]) \subseteq 1..(r.gen[t] - 1)
  BY <1>2 DEF Listed
<1>8. RunOK(r)
  BY <1>1, <1>2, <1>3, <1>4, <1>5, <1>6, <1>7 DEF RunOK, T
<1>9. /\ r.failed \in [T -> Seq(Nat)]
      /\ r.revs \in [T -> Seq({Canonical(a.new) : a \in Amendments})]
      /\ r.gen \in [T -> Nat \ {0}]
      /\ r.status \in [T -> {"to_do", "in_progress", "done"}]
      /\ \A t \in T : DOMAIN r.pledge[t] = TermFields
  BY <1>2 DEF Terms, TermFields
<1>10. WellFormed(r)
  BY <1>1, <1>2, <1>3, <1>9 DEF WellFormed
<1>11. Printed(r)
  BY <1>1, <1>2, <1>3 DEF Printed
<1>12. Pledged(r)
  BY <1>2, <1>3 DEF Pledged, Amended
<1> QED BY <1>8, <1>10, <1>11, <1>12 DEF Good, r

(* What the save that ends the opening makes of a run.                     *)
Opened(p, r) ==
    /\ DOMAIN p = RunFields /\ p.print = proc.plan
    /\ p.state = r.state /\ p.status = r.status /\ p.revs = r.revs /\ p.gen = r.gen
    /\ p.failed = r.failed /\ p.files = r.files /\ p.evidence = r.evidence
    /\ p.pending = r.pending /\ p.origin = r.origin /\ p.pledge = r.pledge
    /\ p.by = r.by
    /\ p.scope = r.scope /\ p.requested = r.requested /\ p.adapter = r.adapter
    /\ p.model = r.model /\ p.chain = r.chain /\ p.runtime = r.runtime
    /\ p.bind = r.bind
    /\ DOMAIN p.contract = DOMAIN r.status
    /\ \A t \in DOMAIN r.status :
          p.contract[t] = IF Amended(r, t) THEN r.contract[t] ELSE {proc.terms[t]}

(* The save of _open_run writes the opened run.                            *)
LEMMA PersistStep ==
    ASSUME RunsKept, Bound, OpeningAgrees, Persist
    PROVE  /\ proc # Idle
           /\ \E p : run' = [run EXCEPT ![proc.feature] = p] /\ Opened(p, Mine)
<1>0. proc # Idle
  BY DEF Persist, Idle
<1>1. /\ proc.feature \in Features /\ Exists(proc.feature) /\ Good(Mine)
      /\ DOMAIN Mine = RunFields /\ DOMAIN Mine.contract = DOMAIN Mine.status
      /\ proc.plan.scope = Mine.scope /\ DOMAIN proc.terms = DOMAIN Mine.status
      /\ proc.resume \in BOOLEAN
  BY <1>0, MineIsGood DEF Bound, Good, WellFormed, Mine
<1> DEFINE q == proc.asked
           r == IF proc.resume THEN Rewritten(Mine, q) ELSE Mine
           c == [t \in DOMAIN r.contract |->
                    IF t \in DOMAIN proc.terms /\ ~Amended(r, t)
                    THEN {proc.terms[t]} ELSE r.contract[t]]
           p == [Contracted(r) EXCEPT !.requested = q.adapter, !.adapter = proc.plan.adapter]
<1>2. run' = [run EXCEPT ![proc.feature] = p]
  BY DEF Persist, Mine
<1>3. /\ Mine.bind = proc.bind /\ Mine.adapter = proc.plan.adapter
      /\ Mine.requested = q.adapter /\ Mine.model = q.model
      /\ Mine.chain = ChainOf(Mine, q)
      /\ IF proc.resume THEN Mine.runtime = q.runtime ELSE Mine.print = proc.plan
  BY <1>0 DEF OpeningAgrees, Persist, Mine
<1>4. /\ DOMAIN r = RunFields /\ r.print = proc.plan
      /\ r.state = Mine.state /\ r.status = Mine.status /\ r.revs = Mine.revs
      /\ r.gen = Mine.gen /\ r.failed = Mine.failed /\ r.files = Mine.files
      /\ r.evidence = Mine.evidence /\ r.pending = Mine.pending
      /\ r.origin = Mine.origin /\ r.pledge = Mine.pledge /\ r.by = Mine.by
      /\ r.scope = Mine.scope /\ r.requested = Mine.requested
      /\ r.adapter = Mine.adapter /\ r.model = Mine.model /\ r.chain = Mine.chain
      /\ r.runtime = Mine.runtime /\ r.bind = Mine.bind /\ r.contract = Mine.contract
  <2>1. CASE proc.resume
    <3>1. r = Rewritten(Mine, q)
      BY <2>1
    <3> HIDE DEF r
    <3> QED BY <1>1, <1>3, <2>1, <3>1 DEF Rewritten, RunFields
  <2>2. CASE ~proc.resume
    BY <1>1, <1>3, <2>2
  <2> QED BY <2>1, <2>2
<1> HIDE DEF r, q
<1>5. Contracted(r) = [r EXCEPT !.contract = c]
  BY DEF Contracted
<1>6. /\ DOMAIN c = DOMAIN Mine.status
      /\ \A t \in DOMAIN Mine.status :
            c[t] = IF Amended(Mine, t) THEN Mine.contract[t] ELSE {proc.terms[t]}
  BY <1>1, <1>4 DEF Amended
<1> HIDE DEF c
<1>7. /\ DOMAIN p = RunFields /\ p.contract = c
      /\ p.requested = q.adapter /\ p.adapter = proc.plan.adapter
      /\ p.print = r.print /\ p.state = r.state /\ p.status = r.status
      /\ p.revs = r.revs /\ p.gen = r.gen /\ p.failed = r.failed
      /\ p.files = r.files /\ p.evidence = r.evidence /\ p.pending = r.pending
      /\ p.origin = r.origin /\ p.pledge = r.pledge /\ p.by = r.by
      /\ p.scope = r.scope /\ p.model = r.model /\ p.chain = r.chain
      /\ p.runtime = r.runtime /\ p.bind = r.bind
  <2> DEFINE d == Contracted(r)
  <2>1. /\ d = [r EXCEPT !.contract = c]
        /\ p = [d EXCEPT !.requested = q.adapter, !.adapter = proc.plan.adapter]
    BY <1>5
  <2> HIDE DEF d, p
  <2> QED BY <1>4, <2>1 DEF RunFields
<1> HIDE DEF p
<1>8. Opened(p, Mine)
  BY <1>3, <1>4, <1>6, <1>7 DEF Opened
<1> QED BY <1>0, <1>2, <1>8

(* The saved run is what was opened.                                       *)
LEMMA OpenedKept ==
    ASSUME Types, RunsKept, Bound, OpeningAgrees, proc # Idle, proc.stage = "opening",
           NEW p, Opened(p, Mine)
    PROVE  Good(p) /\ Printed(p) /\ Pledged(p)
<1> DEFINE q == proc.asked
           T == DOMAIN Mine.status
<1>1. Good(Mine) /\ Listed(proc.plan.scope) = T /\ Pledged(Mine)
  BY MineIsGood DEF RunsKept, Mine
<1>2. /\ proc.plan = Compile(Plan, q, available) /\ Compiles(Plan, q, available)
      /\ Mine.requested = q.adapter
  BY DEF OpeningAgrees, Mine, Admissible
<1>3. proc.plan.scope = Mine.scope /\ DOMAIN proc.terms = T
      /\ \A t \in T : ~Amended(Mine, t) => proc.terms[t] = Mine.pledge[t]
  BY DEF Bound, Mine
<1>4. /\ DOMAIN proc.plan = PrintFields /\ proc.plan.order = proc.plan.scope
      /\ proc.plan.requested = Sourced(q.adapter, q.adapter # AutoAdapter)
      /\ DOMAIN proc.plan.tasks = T
      /\ \A t \in T : DOMAIN proc.plan.tasks[t] = {"deps", "root", "needs", "bound"}
  BY <1>1, <1>2, Compiled
<1> HIDE DEF q
<1>5. Printed(p)
  BY <1>2, <1>3, <1>4 DEF Printed, Opened
<1>6. \A t \in T : Amended(p, t) <=> Amended(Mine, t)
  BY DEF Amended, Opened
<1>7. Pledged(p)
  <2>1. /\ DOMAIN p.status = T /\ p.pledge = Mine.pledge /\ p.revs = Mine.revs
        /\ \A t \in T : p.contract[t] = IF Amended(Mine, t) THEN Mine.contract[t]
                                        ELSE {proc.terms[t]}
    BY DEF Opened
  <2>2. ASSUME NEW t \in T, Amended(Mine, t)
        PROVE  /\ Mine.pledge[t].scope = Latest(Mine, t).scope
               /\ Mine.pledge[t].bound = Latest(Mine, t).bound
    BY <1>1, <2>2 DEF Pledged
  <2>3. \A t \in T : Latest(p, t) = Latest(Mine, t)
    BY <2>1 DEF Latest
  <2> HIDE DEF T
  <2>4. ASSUME NEW t \in T
        PROVE  IF Amended(p, t) THEN /\ p.pledge[t].scope = Latest(p, t).scope
                                     /\ p.pledge[t].bound = Latest(p, t).bound
                                ELSE p.contract[t] \subseteq {p.pledge[t]}
    <3>1. CASE Amended(Mine, t)
      BY <1>6, <2>1, <2>2, <2>3, <3>1
    <3>2. CASE ~Amended(Mine, t)
      BY <1>3, <1>6, <2>1, <3>2
    <3> QED BY <3>1, <3>2
  <2> QED BY <2>1, <2>4 DEF Pledged
<1>8. \A t \in T : Cardinality(p.contract[t]) <= 1
  <2>1. \A t \in T : Cardinality(Mine.contract[t]) <= 1
    BY <1>1 DEF Good, RunOK
  <2>2. \A x : Cardinality({x}) = 1
    BY FS_Singleton
  <2>3. \A t \in T : p.contract[t] = Mine.contract[t] \/ p.contract[t] = {proc.terms[t]}
    BY DEF Opened
  <2> SUFFICES ASSUME NEW t \in T PROVE Cardinality(p.contract[t]) <= 1
    OBVIOUS
  <2>4. CASE p.contract[t] = Mine.contract[t]
    BY <2>1, <2>4
  <2>5. CASE p.contract[t] = {proc.terms[t]}
    <3>1. Cardinality({proc.terms[t]}) = 1
      BY <2>2, Zenon
    <3> QED BY <2>5, <3>1
  <2> QED BY <2>3, <2>4, <2>5
<1>9. RunOK(p)
  BY <1>1, <1>8 DEF Good, RunOK, Opened
<1>10. WellFormed(p)
  BY <1>1 DEF Good, WellFormed, Opened
<1> QED BY <1>5, <1>7, <1>9, <1>10 DEF Good

(* Two records of a run that agree on what a resume is held to.            *)
Controls(a, b) ==
    /\ a.adapter = b.adapter /\ a.requested = b.requested /\ a.model = b.model
    /\ a.runtime = b.runtime /\ a.chain = b.chain /\ a.bind = b.bind
    /\ a.print.selection = b.print.selection /\ a.scope = b.scope

(* An amendment appends its revision, and what was promised follows it.    *)
LEMMA AmendStep ==
    ASSUME RunsKept, NEW f \in Features, NEW t \in Tasks, NEW a \in Amendments,
           Amend(f, t, a)
    PROVE  \E p : /\ run' = [run EXCEPT ![f] = p]
                  /\ Good(p) /\ Printed(p) /\ Pledged(p)
                  /\ Controls(p, run[f]) /\ p.files = run[f].files
                  /\ p.gen = run[f].gen
<1> DEFINE o == run[f]
           T == DOMAIN o.status
           new == Canonical(a.new)
           r == [o EXCEPT !.revs[t] = Append(@, new), !.contract[t] = {},
                          !.pending = @ \ {t},
                          !.pledge[t].scope = new.scope, !.pledge[t].bound = new.bound]
           s == [r EXCEPT !.print.tasks[t].bound = Sourced(new.bound, FALSE)]
           p == IF "bound" \in DOMAIN a.new THEN s ELSE r
<1>1. run' = [run EXCEPT ![f] = p] /\ t \in T /\ Exists(f)
  BY DEF Amend
<1>2. Good(o) /\ Printed(o) /\ Pledged(o)
  BY <1>1 DEF RunsKept, Good
<1>3. /\ DOMAIN o = RunFields /\ DOMAIN o.pledge = T /\ DOMAIN o.contract = T
      /\ DOMAIN o.pledge[t] = TermFields
      /\ o.revs \in [T -> Seq({Canonical(b.new) : b \in Amendments})]
  BY <1>1, <1>2 DEF Good, WellFormed
<1> HIDE DEF o, new
<1>4. /\ DOMAIN r = RunFields /\ r.status = o.status /\ r.gen = o.gen
      /\ r.state = o.state /\ r.failed = o.failed /\ r.files = o.files
      /\ r.evidence = o.evidence /\ r.pending = o.pending \ {t}
      /\ r.print = o.print
      /\ r.scope = o.scope /\ r.requested = o.requested
      /\ r.adapter = o.adapter /\ r.model = o.model /\ r.chain = o.chain
      /\ r.runtime = o.runtime /\ r.bind = o.bind
      /\ r.revs = [o.revs EXCEPT ![t] = Append(@, new)]
      /\ r.contract = [o.contract EXCEPT ![t] = {}]
  BY <1>3 DEF RunFields
<1>5. /\ DOMAIN r.pledge = T
      /\ \A u \in T : u # t => r.pledge[u] = o.pledge[u]
      /\ DOMAIN r.pledge[t] = TermFields
      /\ r.pledge[t].scope = new.scope /\ r.pledge[t].bound = new.bound
  BY <1>1, <1>3 DEF RunFields, TermFields
<1> HIDE DEF r
<1>6. /\ DOMAIN p = RunFields /\ p.status = o.status /\ p.gen = o.gen
      /\ p.state = o.state /\ p.failed = o.failed /\ p.files = o.files
      /\ p.evidence = o.evidence /\ p.pending = o.pending \ {t}
      /\ p.scope = o.scope /\ p.requested = o.requested
      /\ p.adapter = o.adapter /\ p.model = o.model /\ p.chain = o.chain
      /\ p.runtime = o.runtime /\ p.bind = o.bind
      /\ p.revs = r.revs /\ p.contract = r.contract /\ p.pledge = r.pledge
  BY <1>4 DEF RunFields
<1>7. /\ DOMAIN p.print = PrintFields /\ DOMAIN p.print.tasks = DOMAIN o.print.tasks
      /\ \A u \in T : DOMAIN p.print.tasks[u] = DOMAIN o.print.tasks[u]
      /\ p.print.scope = o.print.scope /\ p.print.order = o.print.order
      /\ p.print.requested = o.print.requested
      /\ p.print.selection = o.print.selection
  <2>1. /\ DOMAIN o.print = PrintFields /\ DOMAIN o.print.tasks = T
        /\ DOMAIN o.print.tasks[t] = {"deps", "root", "needs", "bound"}
    BY <1>1, <1>2 DEF Printed
  <2> QED BY <1>1, <1>4, <2>1 DEF RunFields, PrintFields
<1> HIDE DEF p
<1>8. Printed(p)
  BY <1>2, <1>6, <1>7 DEF Printed
<1>9. /\ new \in {Canonical(b.new) : b \in Amendments}
      /\ o.revs[t] \in Seq({Canonical(b.new) : b \in Amendments})
  BY <1>1, <1>3 DEF new
<1>10. /\ p.revs[t] = Append(o.revs[t], new) /\ p.revs[t] # << >>
       /\ p.revs[t][Len(p.revs[t])] = new
       /\ p.revs \in [T -> Seq({Canonical(b.new) : b \in Amendments})]
       /\ \A u \in T : u # t => p.revs[u] = o.revs[u]
  <2>1. /\ p.revs[t] = Append(o.revs[t], new)
        /\ \A u \in T : u # t => p.revs[u] = o.revs[u]
    BY <1>1, <1>3, <1>4, <1>6
  <2>2. Append(o.revs[t], new) \in Seq({Canonical(b.new) : b \in Amendments})
    BY <1>9
  <2>3. DOMAIN p.revs = T /\ p.revs = [u \in T |-> p.revs[u]]
    BY <1>3, <1>4, <1>6
  <2>4. p.revs \in [T -> Seq({Canonical(b.new) : b \in Amendments})]
    BY <1>3, <2>1, <2>2, <2>3
  <2>5. Append(o.revs[t], new) # << >>
        /\ Append(o.revs[t], new)[Len(Append(o.revs[t], new))] = new
    BY <1>9
  <2> QED BY <2>1, <2>4, <2>5
<1>11. ASSUME NEW u \in T
       PROVE  IF Amended(p, u) THEN /\ p.pledge[u].scope = Latest(p, u).scope
                                    /\ p.pledge[u].bound = Latest(p, u).bound
                               ELSE p.contract[u] \subseteq {p.pledge[u]}
  <2>1. CASE u = t
    BY <1>1, <1>3, <1>5, <1>6, <1>10, <2>1 DEF Amended, Latest
  <2>2. CASE u # t
    <3>1. /\ p.revs[u] = o.revs[u] /\ p.pledge[u] = o.pledge[u]
          /\ p.contract[u] = o.contract[u]
      BY <1>3, <1>4, <1>5, <1>6, <1>10, <2>2
    <3>2. IF Amended(o, u) THEN /\ o.pledge[u].scope = Latest(o, u).scope
                                /\ o.pledge[u].bound = Latest(o, u).bound
                           ELSE o.contract[u] \subseteq {o.pledge[u]}
      BY <1>2 DEF Pledged
    <3>3. Amended(p, u) <=> Amended(o, u)
      BY <1>3, <1>10, <3>1 DEF Amended
    <3> QED BY <3>1, <3>2, <3>3 DEF Latest
  <2> QED BY <2>1, <2>2
<1>12. Pledged(p)
  BY <1>6, <1>11 DEF Pledged
<1>13. Good(p)
  <2>1. \A u \in T : Cardinality(p.contract[u]) <= 1
    <3>1. \A u \in T : p.contract[u] = o.contract[u] \/ p.contract[u] = {}
      BY <1>3, <1>4, <1>6
    <3>2. \A u \in T : Cardinality(o.contract[u]) <= 1
      BY <1>2 DEF Good, RunOK
    <3>3. Cardinality({}) = 0
      BY FS_EmptySet
    <3> SUFFICES ASSUME NEW u \in T PROVE Cardinality(p.contract[u]) <= 1
      OBVIOUS
    <3>4. CASE p.contract[u] = o.contract[u]
      BY <3>2, <3>4
    <3>5. CASE p.contract[u] = {}
      BY <3>3, <3>5
    <3> QED BY <3>1, <3>4, <3>5
  <2>2. RunOK(p)
    BY <1>2, <1>6, <2>1 DEF Good, RunOK
  <2>3. \A u \in T : DOMAIN p.pledge[u] = TermFields
    BY <1>2, <1>5, <1>6 DEF Good, WellFormed
  <2>4. DOMAIN p.pledge = T /\ DOMAIN p.contract = T
    BY <1>3, <1>4, <1>5, <1>6
  <2>5. WellFormed(p)
    BY <1>2, <1>6, <1>10, <2>3, <2>4 DEF Good, WellFormed
  <2> QED BY <2>2, <2>5 DEF Good
<1>14. Controls(p, o) /\ p.files = o.files /\ p.gen = o.gen
  BY <1>6, <1>7 DEF Controls
<1> QED BY <1>1, <1>8, <1>12, <1>13, <1>14 DEF o

(* A resume keeps what it does not complete.                               *)
LEMMA HydratedFields ==
    ASSUME NEW r, NEW q, DOMAIN q = RequestFields
    PROVE  LET h == Hydrated(r, q) IN
           /\ DOMAIN h = RequestFields /\ h.feature = q.feature /\ h.resume = q.resume
           /\ h.opened = q.opened /\ h.sel = q.sel /\ h.chain = q.chain
           /\ h.repair = q.repair /\ h.recover = q.recover
           /\ h.adapter = (IF q.adapter = AutoAdapter /\ r.requested # AutoAdapter
                           THEN r.requested ELSE q.adapter)
           /\ h.model = (IF q.model = NoModel THEN r.model ELSE q.model)
           /\ h.runtime = (IF q.runtime = "unset" THEN r.runtime ELSE q.runtime)
BY DEF Hydrated, RequestFields

(* A plan that passes _ensure_plan_compatible has the recorded scope,      *)
(* selection and adapter request.                                          *)
LEMMA CompatiblePlan ==
    ASSUME NEW r, Good(r), Printed(r), NEW plan, NEW overlay,
           DOMAIN plan = PrintFields, plan.scope \in Seq(Tasks), plan.order = plan.scope,
           DOMAIN plan.tasks = Listed(plan.scope),
           Compatible(r.print, r.scope, Overlaid(plan, overlay))
    PROVE  /\ plan.scope = r.scope /\ plan.selection = r.print.selection
           /\ plan.requested = Sourced(r.requested, r.requested # AutoAdapter)
<1> DEFINE now == Overlaid(plan, overlay)
           old == [r.print EXCEPT !.scope = now.scope, !.order = now.order]
<1>1. /\ now.scope = plan.scope /\ now.order = plan.scope
      /\ now.selection = plan.selection /\ now.requested = plan.requested
      /\ DOMAIN now.tasks = Listed(plan.scope)
  BY DEF Overlaid, PrintFields
<1>2. old = now /\ Only(r.print.order, Listed(now.scope)) = now.order
  BY DEF Compatible
<1>3. /\ DOMAIN r.print = PrintFields /\ r.print.order = r.scope
      /\ DOMAIN r.print.tasks = Listed(r.scope) /\ r.scope \in Seq(Tasks)
      /\ r.print.requested = Sourced(r.requested, r.requested # AutoAdapter)
  BY DEF Good, RunOK, WellFormed, Printed
<1>4. /\ old.tasks = r.print.tasks /\ old.selection = r.print.selection
      /\ old.requested = r.print.requested
  BY <1>3 DEF PrintFields
<1> HIDE DEF now, old
<1>5. Listed(plan.scope) = Listed(r.scope)
  BY <1>1, <1>2, <1>3, <1>4
<1>6. plan.scope = Only(r.scope, Listed(r.scope))
  BY <1>1, <1>2, <1>3, <1>5
<1>7. plan.scope = r.scope
  BY <1>3, <1>6, OnlyAll
<1> QED BY <1>1, <1>2, <1>3, <1>4, <1>7

(* What a resume that is admitted has agreed to.                           *)
LEMMA AdmittedResume ==
    ASSUME Types, RunsKept, NEW q \in Requests, AdmitsResume(q)
    PROVE  LET r == run[q.feature]
               h == Hydrated(r, q)
               plan == Compile(Plan, h, available)
           IN  /\ q.feature \in Features /\ Exists(q.feature)
               /\ Good(r) /\ Printed(r) /\ Pledged(r)
               /\ Admissible(q, h)
               /\ plan.scope = r.scope /\ plan.selection = r.print.selection
               /\ r.requested = h.adapter /\ r.model = h.model
               /\ r.runtime = h.runtime /\ r.chain = ChainOf(r, h)
               /\ r.bind = Binding(plan.scope) /\ r.adapter = plan.adapter
               /\ \A t \in DOMAIN r.status :
                     /\ ~Amended(r, t) => /\ Effective(r, h, t) = Terms(h, t)
                                          /\ Terms(h, t) = r.pledge[t]
                     /\ Effective(r, h, t).scope = r.pledge[t].scope
                     /\ Effective(r, h, t).bound = r.pledge[t].bound
<1> DEFINE r == run[q.feature]
           h == Hydrated(r, q)
           plan == Compile(Plan, h, available)
<1>1. q.feature \in Features /\ Exists(q.feature)
  BY AdmissionAssumption DEF AdmitsResume
<1>2. Good(r) /\ Printed(r) /\ Pledged(r)
  BY <1>1 DEF RunsKept, Good
<1>3. /\ Compiles(Plan, q, available) /\ Compiles(Plan, h, available)
      /\ Resolvable(h.adapter, available) /\ q.opened
      /\ ControlsMatch(r, h, plan.scope)
      /\ \A t \in DOMAIN r.status : ContractMatches(r, t, Effective(r, h, t))
      /\ r.bind = Binding(plan.scope)
      /\ Compatible(r.print, r.scope, Overlaid(plan, AmendedBounds(r, h)))
      /\ r.adapter = plan.adapter
  BY DEF AdmitsResume
<1>4. /\ DOMAIN plan = PrintFields /\ plan.scope \in Seq(Tasks)
      /\ plan.order = plan.scope /\ DOMAIN plan.tasks = Listed(plan.scope)
      /\ plan.requested = Sourced(h.adapter, h.adapter # AutoAdapter)
  BY <1>3, Compiled
<1> HIDE DEF r, h, plan
<1>5. /\ plan.scope = r.scope /\ plan.selection = r.print.selection
      /\ plan.requested = Sourced(r.requested, r.requested # AutoAdapter)
  BY <1>2, <1>3, <1>4, CompatiblePlan
<1>6. r.requested = h.adapter
  <2>1. /\ plan.requested.value = r.requested
        /\ plan.requested.value = h.adapter
    <3>1. Sourced(r.requested, r.requested # AutoAdapter).value = r.requested
      BY DEF Sourced
    <3>2. Sourced(h.adapter, h.adapter # AutoAdapter).value = h.adapter
      BY DEF Sourced
    <3> QED BY <1>4, <1>5, <3>1, <3>2
  <2> QED BY <2>1
<1>7. r.model = h.model /\ r.runtime = h.runtime /\ r.chain = ChainOf(r, h)
  BY <1>3 DEF ControlsMatch
<1>8. ASSUME NEW t \in DOMAIN r.status
      PROVE  /\ ~Amended(r, t) => /\ Effective(r, h, t) = Terms(h, t)
                                  /\ Terms(h, t) = r.pledge[t]
             /\ Effective(r, h, t).scope = r.pledge[t].scope
             /\ Effective(r, h, t).bound = r.pledge[t].bound
  <2>1. CASE Amended(r, t)
    <3>1. /\ r.pledge[t].scope = Latest(r, t).scope
          /\ r.pledge[t].bound = Latest(r, t).bound
      BY <1>2, <2>1 DEF Pledged
    <3>2. /\ Effective(r, h, t).scope = Latest(r, t).scope
          /\ Effective(r, h, t).bound = Latest(r, t).bound
      BY <2>1 DEF Effective, Terms
    <3> QED BY <2>1, <3>1, <3>2
  <2>2. CASE ~Amended(r, t)
    <3>1. Effective(r, h, t) = Terms(h, t)
      BY <2>2 DEF Effective
    <3>2. r.contract[t] = {Effective(r, h, t)}
      BY <1>3, <2>2 DEF ContractMatches
    <3>3. r.contract[t] \subseteq {r.pledge[t]}
      BY <1>2, <2>2 DEF Pledged
    <3> QED BY <3>1, <3>2, <3>3
  <2> QED BY <2>1, <2>2
<1> QED BY <1>1, <1>2, <1>3, <1>5, <1>6, <1>7, <1>8 DEF r, h, plan, Admissible

-----------------------------------------------------------------------------
(* What a step makes of the runs                                           *)

(* A run with its fields is there.                                         *)
LEMMA GoodIsRun ==
    ASSUME NEW r, Good(r)
    PROVE  r # NoRun
<1>1. DOMAIN NoRun = {"state"} /\ DOMAIN r = RunFields
  BY GoodFields DEF NoRun
<1> QED BY <1>1 DEF RunFields

(* Writing one run leaves the others.                                      *)
LEMMA RunReplaced ==
    ASSUME Types, RunsKept, NEW f \in Features, NEW p,
           Good(p), Printed(p), Pledged(p), run' = [run EXCEPT ![f] = p]
    PROVE  /\ RunsKept' /\ Exists(f)' /\ run'[f] = p
           /\ \A g \in Features \ {f} : run'[g] = run[g]
           /\ \A g \in Features : Exists(g) => Exists(g)'
           /\ run' \in [Features -> {run'[g] : g \in Features}]
<1>1. /\ run'[f] = p /\ DOMAIN run' = Features
      /\ \A g \in Features \ {f} : run'[g] = run[g]
      /\ run' = [g \in Features |-> run'[g]]
  BY DEF Types
<1>2. p # NoRun
  BY GoodIsRun
<1>3. ASSUME NEW g \in Features, Exists(g)'
      PROVE  Good(run'[g]) /\ Printed(run'[g]) /\ Pledged(run'[g])
  <2>1. CASE g = f
    BY <1>1, <2>1
  <2>2. CASE g # f
    <3>1. run'[g] = run[g] /\ Exists(g)
      BY <1>1, <1>3, <2>2 DEF Exists
    <3> QED BY <3>1 DEF RunsKept, Good
  <2> QED BY <2>1, <2>2
<1>4. RunsKept'
  BY <1>3 DEF RunsKept, Good
<1> QED BY <1>1, <1>2, <1>4 DEF Exists

(* What the fingerprint and the promises are about stays as it is.         *)
LEMMA SteadyKeeps ==
    ASSUME NEW a, NEW b, Steady(a, b)
    PROVE  /\ Printed(b) => Printed(a)
           /\ Pledged(b) => Pledged(a)
           /\ \A t : Amended(a, t) <=> Amended(b, t)
<1>1. /\ a.scope = b.scope /\ a.print = b.print /\ a.requested = b.requested
      /\ a.contract = b.contract /\ a.revs = b.revs /\ a.pledge = b.pledge
      /\ DOMAIN a.status = DOMAIN b.status
  BY DEF Steady
<1>2. Printed(b) => Printed(a)
  BY <1>1 DEF Printed
<1>3. \A t : Amended(a, t) <=> Amended(b, t)
  BY <1>1 DEF Amended
<1>4. \A t : Latest(a, t) = Latest(b, t)
  BY <1>1 DEF Latest
<1>5. Pledged(b) => Pledged(a)
  BY <1>1, <1>3, <1>4 DEF Pledged
<1> QED BY <1>2, <1>3, <1>5

-----------------------------------------------------------------------------
(* Opening: the invocation and the run agree                               *)

(* p is the run as it was opened for q, h the request as it was completed: *)
(* the two agree, ...                                                      *)
Suits(q, p, h) ==
    LET plan == Compile(Plan, h, available)
    IN  /\ DOMAIN q = RequestFields /\ q.chain \in BOOLEAN
        /\ p.by = q /\ h = IF q.resume THEN Hydrated(p, q) ELSE q
        /\ Admissible(q, h)
        /\ plan.scope = p.scope /\ plan.selection = p.print.selection
        /\ p.requested = h.adapter /\ p.model = h.model /\ p.chain = ChainOf(p, h)
        /\ p.bind = Binding(plan.scope) /\ p.adapter = plan.adapter
        /\ IF q.resume THEN p.runtime = h.runtime
           ELSE /\ p.runtime = IF h.runtime = "unset" THEN "host" ELSE h.runtime
                /\ p.print = plan

(* ... the invocation starts on the terms that were promised, ...          *)
Begins(q, p, h) ==
    LET plan == Compile(Plan, h, available)
    IN  /\ DOMAIN proc' = ProcFields /\ proc'.stage = "opening"
        /\ proc'.feature = q.feature /\ proc'.resume = q.resume /\ proc'.task = {}
        /\ proc'.asked = h /\ proc'.plan = plan /\ proc'.bind = Binding(plan.scope)
        /\ DOMAIN proc'.terms = DOMAIN p.status
        /\ \A t \in DOMAIN p.status :
              /\ proc'.terms[t].scope = p.pledge[t].scope
              /\ proc'.terms[t].bound = p.pledge[t].bound
              /\ ~Amended(p, t) => /\ proc'.terms[t] = p.pledge[t]
                                   /\ proc'.terms[t] = Terms(h, t)

(* ... and nothing else is written.                                        *)
Entered(q, p, h) ==
    /\ proc = Idle /\ q.feature \in Features /\ q.resume \in BOOLEAN
    /\ run' = [run EXCEPT ![q.feature] = p]
    /\ Good(p) /\ Printed(p) /\ Pledged(p)
    /\ Suits(q, p, h) /\ Begins(q, p, h)
    /\ IF q.resume THEN Exists(q.feature) /\ p = [run[q.feature] EXCEPT !.by = q]
       ELSE ~Exists(q.feature)
    /\ calm' = [calm EXCEPT ![q.feature] = FALSE]
    /\ UNCHANGED <<inputs, lock, locks, landed>>

(* A command line has the fields of a request.                             *)
LEMMA RequestType ==
    ASSUME NEW q \in Requests
    PROVE  /\ DOMAIN q = RequestFields /\ q.feature \in Features
           /\ q.resume \in BOOLEAN /\ q.chain \in BOOLEAN
BY AdmissionAssumption DEF RequestFields

(* The fields of what an invocation starts with.                           *)
LEMMA OpeningFields ==
    ASSUME NEW h, NEW terms, NEW o, o = Opening(h, terms)
    PROVE  LET plan == Compile(Plan, h, available)
           IN  /\ DOMAIN o = ProcFields /\ o.stage = "opening"
               /\ o.feature = h.feature /\ o.resume = h.resume /\ o.task = {}
               /\ o.asked = h /\ o.plan = plan /\ o.bind = Binding(plan.scope)
               /\ o.terms = terms
BY DEF Opening, ProcFields

(* A new run.                                                              *)
LEMMA FreshStep ==
    ASSUME Types, RunsKept, NEW q \in Requests, Fresh(q)
    PROVE  Entered(q, NewRun(q), q)
<1> DEFINE plan == Compile(Plan, q, available)
           T == Listed(plan.scope)
           p == NewRun(q)
<1>1. /\ proc = Idle /\ run' = [run EXCEPT ![q.feature] = p]
      /\ proc' = Opening(q, p.pledge)
      /\ calm' = [calm EXCEPT ![q.feature] = FALSE]
      /\ UNCHANGED <<inputs, lock, locks, landed>>
  BY DEF Fresh
<1>2. /\ ~q.resume /\ q.opened /\ ~Exists(q.feature)
      /\ Compiles(Plan, q, available) /\ Resolvable(q.adapter, available)
  BY DEF Fresh, AdmitsFresh
<1>3. Good(p) /\ Printed(p) /\ Pledged(p)
  BY <1>2, NewRunKept
<1>4. /\ p.scope = plan.scope /\ p.print = plan /\ p.requested = q.adapter
      /\ p.adapter = plan.adapter /\ p.model = q.model /\ p.chain = q.chain
      /\ p.runtime = (IF q.runtime = "unset" THEN "host" ELSE q.runtime)
      /\ p.bind = Binding(plan.scope) /\ p.by = q
      /\ p.status = [t \in T |-> "to_do"]
      /\ p.pledge = [t \in T |-> Terms(q, t)]
  BY DEF NewRun
<1>5. /\ DOMAIN proc' = ProcFields /\ proc'.stage = "opening"
      /\ proc'.feature = q.feature /\ proc'.resume = q.resume /\ proc'.task = {}
      /\ proc'.asked = q /\ proc'.plan = plan /\ proc'.bind = Binding(plan.scope)
      /\ proc'.terms = p.pledge
  <2> HIDE DEF p, plan
  <2> QED BY <1>1, OpeningFields DEF plan
<1> HIDE DEF p, plan
<1>6. p.chain = ChainOf(p, q)
  BY <1>4, RequestType DEF ChainOf
<1>7. Admissible(q, q)
  BY <1>2 DEF Admissible
<1>8. /\ DOMAIN p.status = T /\ DOMAIN p.pledge = T
      /\ \A t \in T : p.pledge[t] = Terms(q, t)
  BY <1>4
<1>9. Suits(q, p, q)
  <2>1. plan.selection = p.print.selection
    BY <1>4
  <2>2. /\ p.requested = q.adapter /\ p.model = q.model /\ p.bind = Binding(plan.scope)
        /\ p.adapter = plan.adapter /\ plan.scope = p.scope /\ p.by = q
        /\ p.print = plan /\ ~q.resume
        /\ p.runtime = (IF q.runtime = "unset" THEN "host" ELSE q.runtime)
    BY <1>2, <1>4
  <2> QED BY <1>6, <1>7, <2>1, <2>2, RequestType DEF Suits, plan
<1>10. Begins(q, p, q)
  BY <1>5, <1>8 DEF Begins, plan
<1>11. Entered(q, p, q)
  BY <1>1, <1>2, <1>3, <1>9, <1>10, RequestType DEF Entered
<1> QED BY <1>11 DEF p

(* A resume.                                                               *)
LEMMA ResumeStep ==
    ASSUME Types, RunsKept, NEW q \in Requests, Resume(q)
    PROVE  Entered(q, [run[q.feature] EXCEPT !.by = q], Hydrated(run[q.feature], q))
<1> DEFINE r == run[q.feature]
           h == Hydrated(r, q)
           plan == Compile(Plan, h, available)
           terms == [t \in Listed(plan.scope) |-> Effective(r, h, t)]
           p == [r EXCEPT !.by = q]
<1>1. /\ proc = Idle /\ AdmitsResume(q) /\ proc' = Opening(h, terms)
      /\ run' = [run EXCEPT ![q.feature] = p]
      /\ calm' = [calm EXCEPT ![q.feature] = FALSE]
      /\ UNCHANGED <<inputs, lock, locks, landed>>
  BY DEF Resume
<1>2. /\ q.feature \in Features /\ Exists(q.feature)
      /\ Good(r) /\ Printed(r) /\ Pledged(r)
      /\ Admissible(q, h)
      /\ plan.scope = r.scope /\ plan.selection = r.print.selection
      /\ r.requested = h.adapter /\ r.model = h.model
      /\ r.runtime = h.runtime /\ r.chain = ChainOf(r, h)
      /\ r.bind = Binding(plan.scope) /\ r.adapter = plan.adapter
  BY <1>1, AdmittedResume
<1>3. \A t \in DOMAIN r.status :
         /\ ~Amended(r, t) => /\ Effective(r, h, t) = Terms(h, t)
                              /\ Terms(h, t) = r.pledge[t]
         /\ Effective(r, h, t).scope = r.pledge[t].scope
         /\ Effective(r, h, t).bound = r.pledge[t].bound
  BY <1>1, AdmittedResume
<1>4. q.resume = TRUE
  BY <1>1, RequestType DEF AdmitsResume
<1>5. h.feature = q.feature /\ h.resume = q.resume
  BY HydratedFields, RequestType
<1>6. /\ DOMAIN proc' = ProcFields /\ proc'.stage = "opening"
      /\ proc'.feature = q.feature /\ proc'.resume = q.resume /\ proc'.task = {}
      /\ proc'.asked = h /\ proc'.plan = plan /\ proc'.bind = Binding(plan.scope)
      /\ proc'.terms = terms
  <2> HIDE DEF r, h, plan, terms
  <2> QED BY <1>1, <1>5, OpeningFields DEF plan
<1> HIDE DEF h, r
<1>7. /\ DOMAIN p = RunFields /\ p.by = q /\ Steady([p EXCEPT !.by = r.by], r)
      /\ p.state = r.state /\ p.status = r.status /\ p.gen = r.gen
      /\ p.failed = r.failed /\ p.evidence = r.evidence /\ p.pending = r.pending
      /\ p.scope = r.scope /\ p.print = r.print /\ p.requested = r.requested
      /\ p.adapter = r.adapter /\ p.model = r.model /\ p.chain = r.chain
      /\ p.runtime = r.runtime /\ p.bind = r.bind /\ p.contract = r.contract
      /\ p.revs = r.revs /\ p.pledge = r.pledge
  <2>1. DOMAIN r = RunFields
    BY <1>2, GoodFields
  <2> QED BY <2>1 DEF RunFields, Steady
<1> HIDE DEF p
<1>8. Good(p)
  <2>1. RunOK(p)
    BY <1>2, <1>7 DEF Good, RunOK
  <2>2. WellFormed(p)
    BY <1>2, <1>7 DEF Good, WellFormed
  <2> QED BY <2>1, <2>2 DEF Good
<1>9. Printed(p)
  BY <1>2, <1>7 DEF Printed
<1>10. \A t : (Amended(p, t) <=> Amended(r, t)) /\ Latest(p, t) = Latest(r, t)
  BY <1>7 DEF Amended, Latest
<1>11. Pledged(p)
  BY <1>2, <1>7, <1>10 DEF Pledged
<1>12. h = Hydrated(p, q) /\ p.chain = ChainOf(p, h)
  BY <1>2, <1>7 DEF Hydrated, ChainOf, h
<1>13. Listed(plan.scope) = DOMAIN p.status /\ DOMAIN terms = DOMAIN p.status
  <2>1. Listed(r.scope) = DOMAIN r.status
    BY <1>2 DEF Good, RunOK
  <2>2. plan.scope = r.scope
    BY <1>2
  <2> HIDE DEF plan
  <2> QED BY <1>7, <2>1, <2>2
<1>14. \A t \in DOMAIN p.status :
          /\ ~Amended(p, t) => /\ terms[t] = Terms(h, t) /\ Terms(h, t) = p.pledge[t]
          /\ terms[t].scope = p.pledge[t].scope
          /\ terms[t].bound = p.pledge[t].bound
  BY <1>3, <1>7, <1>10, <1>13
<1> HIDE DEF terms, plan
<1>15. p = [run[q.feature] EXCEPT !.by = q] /\ h = Hydrated(run[q.feature], q)
  BY DEF p, r, h
<1>16. Suits(q, p, h)
  <2>1. /\ plan.scope = p.scope /\ plan.selection = p.print.selection
        /\ p.requested = h.adapter /\ p.model = h.model /\ p.runtime = h.runtime
        /\ p.bind = Binding(plan.scope) /\ p.adapter = plan.adapter /\ p.by = q
    BY <1>2, <1>7
  <2> QED BY <1>2, <1>4, <1>12, <2>1, RequestType DEF Suits, plan
<1>17. Begins(q, p, h)
  BY <1>6, <1>13, <1>14 DEF Begins, plan
<1>18. Entered(q, p, h)
  <2>1. q.resume /\ p = [run[q.feature] EXCEPT !.by = q] /\ run' = [run EXCEPT ![q.feature] = p]
    BY <1>1, <1>4, <1>15
  <2> QED BY <1>1, <1>2, <1>8, <1>9, <1>11, <1>16, <1>17, <2>1, RequestType DEF Entered
<1> QED BY <1>15, <1>18
(* While the inputs stay, a request means what it meant.                   *)
LEMMA InputsKept ==
    ASSUME UNCHANGED inputs
    PROVE  /\ file' = file /\ available' = available /\ head' = head /\ Plan' = Plan
           /\ \A q, t : Terms(q, t)' = Terms(q, t)
           /\ \A s : Binding(s)' = Binding(s)
           /\ \A q : Compile(Plan, q, available)' = Compile(Plan, q, available)
           /\ \A b, h : Admissible(b, h)' <=> Admissible(b, h)
<1>1. file' = file /\ available' = available /\ head' = head
  BY DEF inputs
<1>2. Plan' = Plan
  BY <1>1 DEF Plan
<1>3. \A q, t : Terms(q, t)' = Terms(q, t)
  BY <1>1 DEF Terms
<1>4. \A s : Binding(s)' = Binding(s)
  BY <1>1 DEF Binding
<1>5. \A q : Compile(Plan, q, available)' = Compile(Plan, q, available)
  BY <1>1, <1>2
<1>6. \A b, h : Admissible(b, h)' <=> Admissible(b, h)
  BY <1>1, <1>2 DEF Admissible
<1> QED BY <1>1, <1>2, <1>3, <1>4, <1>5, <1>6

(* Runs that were calm and are not written stay as their request has them. *)
LEMMA CalmKept ==
    ASSUME CalmAgrees, UNCHANGED inputs, NEW f \in Features, Exists(f), calm[f],
           NEW p, Steady(p, run[f]), NEW h, h = Hydrated(p, p.by)
    PROVE  /\ DOMAIN p.by = RequestFields /\ p.by.feature = f
           /\ Admissible(p.by, h)'
           /\ p.print = Compile(Plan, h, available)'
           /\ p.bind = Binding(p.print.scope)' /\ p.adapter = p.print.adapter
           /\ p.chain = ChainOf(p, h) /\ p.model = h.model /\ p.runtime = h.runtime
           /\ \A t \in DOMAIN p.status :
                 ~Amended(p, t) => p.contract[t] = {Terms(h, t)'}
<1> DEFINE r == run[f]
<1>1. /\ p.print = r.print /\ p.requested = r.requested
      /\ p.adapter = r.adapter /\ p.model = r.model /\ p.chain = r.chain
      /\ p.runtime = r.runtime /\ p.bind = r.bind /\ p.contract = r.contract
      /\ p.by = r.by /\ DOMAIN p.status = DOMAIN r.status
  BY DEF Steady
<1>2. h = Hydrated(r, r.by)
  BY <1>1 DEF Hydrated
<1>3. /\ DOMAIN r.by = RequestFields /\ r.by.feature = f /\ Admissible(r.by, h)
      /\ r.print = Compile(Plan, h, available) /\ r.bind = Binding(r.print.scope)
      /\ r.adapter = r.print.adapter
      /\ r.chain = ChainOf(r, h) /\ r.model = h.model /\ r.runtime = h.runtime
      /\ \A t \in DOMAIN r.status : ~Amended(r, t) => r.contract[t] = {Terms(h, t)}
  BY <1>2 DEF CalmAgrees, AsRequested
<1>4. ChainOf(p, h) = ChainOf(r, h)
  BY <1>1 DEF ChainOf
<1>5. \A t : Amended(p, t) <=> Amended(r, t)
  BY SteadyKeeps
<1> HIDE DEF r
<1>6. Compile(Plan, h, available)' = Compile(Plan, h, available)
  BY InputsKept
<1>7. Binding(p.print.scope)' = Binding(p.print.scope)
  BY InputsKept
<1>8. Admissible(p.by, h)'
  BY <1>1, <1>3, InputsKept
<1>9. \A t : Terms(h, t)' = Terms(h, t)
  BY InputsKept
<1>10. \A t \in DOMAIN p.status : ~Amended(p, t) => p.contract[t] = {Terms(h, t)'}
  BY <1>1, <1>3, <1>5, <1>9
<1> QED BY <1>1, <1>3, <1>4, <1>6, <1>7, <1>8, <1>10
(* So calm is kept by whatever keeps calm runs steady.                     *)
LEMMA CalmFramed ==
    ASSUME CalmAgrees, UNCHANGED inputs,
           \A g \in Features : Exists(g)' /\ calm'[g] =>
               Exists(g) /\ calm[g] /\ Steady(run'[g], run[g])
    PROVE  CalmAgrees'
<1> SUFFICES ASSUME NEW f \in Features, Exists(f)', calm'[f]
             PROVE  AsRequested(f)'
  BY DEF CalmAgrees
<1>1. PICK p : p = run'[f]
  OBVIOUS
<1>2. PICK h : h = Hydrated(p, p.by)
  OBVIOUS
<1>3. Exists(f) /\ calm[f] /\ Steady(p, run[f])
  BY <1>1
<1>4. /\ DOMAIN p.by = RequestFields /\ p.by.feature = f
      /\ Admissible(p.by, h)'
      /\ p.print = Compile(Plan, h, available)'
      /\ p.bind = Binding(p.print.scope)' /\ p.adapter = p.print.adapter
      /\ p.chain = ChainOf(p, h) /\ p.model = h.model /\ p.runtime = h.runtime
      /\ \A t \in DOMAIN p.status :
            ~Amended(p, t) => p.contract[t] = {Terms(h, t)'}
  BY <1>2, <1>3, CalmKept
<1> QED BY <1>1, <1>2, <1>4 DEF AsRequested
(* Windows stay where files are only added.                                *)
LEMMA WindowsKept ==
    ASSUME WindowsStay, landed' = landed,
           \A f \in Features : Exists(f) => Exists(f)' /\ run[f].files \subseteq run'[f].files
    PROVE  WindowsStay'
BY DEF WindowsStay

(* Fresh or resumed, what a request enters suits it.                       *)
LEMMA OpenStep ==
    ASSUME Types, RunsKept, NEW q \in Requests, Open(q)
    PROVE  \E p, h : Entered(q, p, h)
BY FreshStep, ResumeStep DEF Open

(* Opening a run keeps the invariant.                                      *)
LEMMA EnteredKeeps ==
    ASSUME IInv, NEW q, NEW p, NEW h, Entered(q, p, h)
    PROVE  IInv'
<1> DEFINE f == q.feature
<1>1. /\ proc = Idle /\ f \in Features /\ q.resume \in BOOLEAN
      /\ run' = [run EXCEPT ![f] = p]
      /\ Good(p) /\ Printed(p) /\ Pledged(p)
      /\ Suits(q, p, h) /\ Begins(q, p, h)
      /\ calm' = [calm EXCEPT ![f] = FALSE]
      /\ UNCHANGED <<inputs, lock, locks, landed>>
  BY DEF Entered
<1>2. /\ RunsKept' /\ Exists(f)' /\ run'[f] = p
      /\ \A g \in Features \ {f} : run'[g] = run[g]
      /\ \A g \in Features : Exists(g) => Exists(g)'
      /\ run' \in [Features -> {run'[g] : g \in Features}]
  BY <1>1, RunReplaced DEF IInv
<1>3. UNCHANGED inputs /\ landed' = landed /\ lock' = lock /\ locks' = locks
  BY <1>1
<1>4. /\ proc'.stage = "opening" /\ DOMAIN proc' = ProcFields
      /\ proc'.feature = f /\ proc'.resume = q.resume /\ proc'.task = {}
      /\ proc'.asked = h /\ proc'.plan = Compile(Plan, h, available)
      /\ proc'.bind = Binding(proc'.plan.scope)
      /\ DOMAIN proc'.terms = DOMAIN p.status
      /\ \A t \in DOMAIN p.status :
            /\ proc'.terms[t].scope = p.pledge[t].scope
            /\ proc'.terms[t].bound = p.pledge[t].bound
            /\ ~Amended(p, t) => /\ proc'.terms[t] = p.pledge[t]
                                 /\ proc'.terms[t] = Terms(h, t)
  BY <1>1 DEF Begins
<1>5. /\ DOMAIN q = RequestFields /\ q.chain \in BOOLEAN
      /\ p.by = q /\ h = (IF q.resume THEN Hydrated(p, q) ELSE q)
      /\ Admissible(q, h)
      /\ proc'.plan.scope = p.scope /\ proc'.plan.selection = p.print.selection
      /\ p.requested = h.adapter /\ p.model = h.model /\ p.chain = ChainOf(p, h)
      /\ p.bind = proc'.bind /\ p.adapter = proc'.plan.adapter
      /\ IF q.resume THEN p.runtime = h.runtime
         ELSE /\ p.runtime = (IF h.runtime = "unset" THEN "host" ELSE h.runtime)
              /\ p.print = proc'.plan
  BY <1>1, <1>4 DEF Suits
<1>6. DOMAIN h = RequestFields /\ h.chain \in BOOLEAN /\ h.feature = f
  <2>1. CASE q.resume
    BY <1>5, <2>1, HydratedFields
  <2>2. CASE ~q.resume
    BY <1>5, <2>2
  <2> QED BY <2>1, <2>2
<1> HIDE DEF f
<1>7. Types'
  <2>1. calm' \in [Features -> BOOLEAN]
    BY <1>1 DEF IInv, Types
  <2> QED BY <1>2, <1>3, <2>1, InputsKept DEF IInv, Types
<1>8. Bound'
  BY <1>1, <1>2, <1>4, <1>5, <1>6 DEF Bound
<1>9. OpeningAgrees'
  <2>1. /\ Compile(Plan, h, available)' = Compile(Plan, h, available)
        /\ Admissible(q, h)'
        /\ \A t : Terms(h, t)' = Terms(h, t)
    BY <1>3, <1>5, InputsKept
  <2>2. PICK s : s = proc'.plan.scope
    OBVIOUS
  <2>3. Binding(s)' = Binding(s)
    BY <1>3, InputsKept
  <2>4. proc'.bind = Binding(proc.plan.scope)'
    BY <1>4, <2>2, <2>3
  <2>5. run'[proc'.feature] = p /\ proc'.asked = h /\ proc'.resume = q.resume /\ p.by = q
    BY <1>2, <1>4, <1>5
  <2>6. Admissible(run[proc.feature].by, proc.asked)'
    BY <2>1, <2>5
  <2>7. (proc.plan = Compile(Plan, proc.asked, available))'
    BY <1>4, <2>1, <2>5
  <2>8. (proc.asked = IF proc.resume THEN Hydrated(run[proc.feature], run[proc.feature].by)
                      ELSE run[proc.feature].by)'
    BY <1>5, <2>5
  <2>9. (\A t \in DOMAIN run[proc.feature].status :
            ~Amended(run[proc.feature], t) => proc.terms[t] = Terms(proc.asked, t))'
    BY <1>4, <2>1, <2>5
  <2>10. (run[proc.feature].chain = ChainOf(run[proc.feature], proc.asked))'
    BY <1>5, <2>5
  <2>11. (IF proc.resume THEN run[proc.feature].runtime = proc.asked.runtime
          ELSE /\ run[proc.feature].runtime =
                      IF proc.asked.runtime = "unset" THEN "host" ELSE proc.asked.runtime
               /\ run[proc.feature].print = proc.plan)'
    BY <1>5, <2>5
  <2>12. (LET r == run[proc.feature]
              a == proc.asked
          IN  /\ DOMAIN a = RequestFields /\ a.chain \in BOOLEAN
              /\ DOMAIN r.by = RequestFields /\ r.by.feature = proc.feature
              /\ r.bind = proc.bind /\ r.adapter = proc.plan.adapter
              /\ r.requested = a.adapter /\ r.model = a.model
              /\ r.print.selection = proc.plan.selection)'
    BY <1>4, <1>5, <1>6, <2>5 DEF f
  <2> QED BY <2>4, <2>6, <2>7, <2>8, <2>9, <2>10, <2>11, <2>12 DEF OpeningAgrees
<1>10. CalmAgrees'
  <2>1. \A g \in Features : Exists(g)' /\ calm'[g] =>
            Exists(g) /\ calm[g] /\ Steady(run'[g], run[g])
    <3> SUFFICES ASSUME NEW g \in Features, Exists(g)', calm'[g]
                 PROVE  Exists(g) /\ calm[g] /\ Steady(run'[g], run[g])
      OBVIOUS
    <3>0. calm \in [Features -> BOOLEAN]
      BY DEF IInv, Types
    <3>1. g # f /\ calm'[g] = calm[g]
      BY <1>1, <3>0
    <3>2. run'[g] = run[g]
      BY <1>2, <3>1
    <3> QED BY <3>1, <3>2 DEF Exists, Steady
  <2> QED BY <1>3, <2>1, CalmFramed DEF IInv
<1>11. WindowsStay'
  <2>1. ASSUME NEW g \in Features, Exists(g)
        PROVE  Exists(g)' /\ run[g].files \subseteq run'[g].files
    <3>1. CASE g # f
      BY <1>2, <2>1, <3>1
    <3>2. CASE g = f
      <4>1. q.resume /\ p = [run[f] EXCEPT !.by = q]
        BY <2>1, <3>2 DEF Entered, f
      <4>2. DOMAIN run[f] = RunFields
        BY <2>1, <3>2 DEF IInv, RunsKept, WellFormed
      <4>3. p.files = run[f].files
        BY <4>1, <4>2 DEF RunFields
      <4> QED BY <1>2, <3>2, <4>3
    <3> QED BY <3>1, <3>2
  <2> QED BY <1>3, <2>1, WindowsKept DEF IInv
<1> QED BY <1>2, <1>7, <1>8, <1>9, <1>10, <1>11 DEF IInv
-----------------------------------------------------------------------------
(* Working: the invocation goes on or is gone                              *)

(* The stages after the opening.                                           *)
Later == {"opened", "running", "baseline", "launched", "promoted", "review"}

(* A step of the work ends the invocation or takes it to another stage;    *)
(* once it has launched, the generation is consumed.                       *)
LEMMA WorkProc ==
    ASSUME Types, RunsKept, Bound, NEW t, Work(t)
    PROVE  \/ proc' = Idle
           \/ \E s \in Later, T \in SUBSET DOMAIN Mine.status :
                 /\ proc' = [proc EXCEPT !.stage = s, !.task = T]
                 /\ s \in {"launched", "promoted"} =>
                       \A u \in T : run'[proc.feature].gen[u] >= 2
<1>0. /\ proc.feature \in Features /\ Exists(proc.feature) /\ Good(Mine)
      /\ Listed(proc.plan.scope) = DOMAIN Mine.status
      /\ proc.task \subseteq DOMAIN Mine.status
  BY WorkIsOfProc, MineIsGood
<1>a. DOMAIN proc = ProcFields
  BY WorkIsOfProc DEF Bound
<1>b. ASSUME NEW s
      PROVE  [proc EXCEPT !.stage = s] = [proc EXCEPT !.stage = s, !.task = proc.task]
  <2> DEFINE x == [proc EXCEPT !.stage = s]
             y == [proc EXCEPT !.stage = s, !.task = proc.task]
  <2>1. DOMAIN x = DOMAIN y /\ x = [k \in DOMAIN x |-> x[k]] /\ y = [k \in DOMAIN y |-> y[k]]
    OBVIOUS
  <2>2. \A k \in DOMAIN x : x[k] = y[k]
    BY <1>a DEF ProcFields
  <2> HIDE DEF x, y
  <2>3. x = y
    BY <2>1, <2>2
  <2> QED BY <2>3 DEF x, y
<1>1. CASE Acquire
  BY <1>0, <1>1, <1>b DEF Acquire, Later
<1>2. CASE Take(t)
  <2>1. t \in DOMAIN Mine.status
    BY <1>0, <1>2 DEF Take, Next1, Actionable
  <2> DEFINE s == IF t \in run[proc.feature].pending THEN "review" ELSE "baseline"
  <2>2. proc' = [proc EXCEPT !.task = {t}, !.stage = s]
    BY <1>2 DEF Take
  <2>3. s \in Later /\ s \notin {"launched", "promoted"}
    BY DEF Later
  <2> HIDE DEF s
  <2>4. proc' = [proc EXCEPT !.stage = s, !.task = {t}]
    BY <1>a, <2>2 DEF ProcFields
  <2>5. {t} \in SUBSET DOMAIN Mine.status
    BY <2>1
  <2>6. s \in {"launched", "promoted"} => \A u \in {t} : run'[proc.feature].gen[u] >= 2
    BY <2>3
  <2> QED BY <2>3, <2>4, <2>5, <2>6
<1>3. CASE Launch(t)
  <2>1. proc' = [proc EXCEPT !.stage = "launched", !.task = proc.task] /\ proc.task = {t}
    BY <1>3, <1>b DEF Launch
  <2> DEFINE F == {<<t, "prompt", Mine.gen[t]>>}
  <2>2. PICK q : q = [Mine EXCEPT !.gen[t] = @ + 1, !.files = @ \cup F]
    OBVIOUS
  <2>3. run'[proc.feature] = q
    BY <1>0, <1>3, <2>2 DEF Launch, Mine, Types
  <2>4. q.gen[t] >= 2
    <3> HIDE DEF F
    <3> QED BY <1>0, <2>1, <2>2, Launched
  <2> QED BY <1>0, <2>1, <2>3, <2>4 DEF Later
<1>4. CASE Promote(t)
  <2>1. /\ proc' = [proc EXCEPT !.stage = "promoted", !.task = proc.task]
        /\ proc.task = {t} /\ proc.stage = "launched"
    BY <1>4, <1>b DEF Promote
  <2>2. Mine.gen[t] >= 2
    BY <2>1, WorkIsOfProc DEF Bound, Mine
  <2>3. run'[proc.feature].gen = Mine.gen
    <3>1. DOMAIN Mine = RunFields
      BY <1>0, GoodFields
    <3> QED BY <1>0, <1>4, <3>1 DEF Promote, Mine, Types, RunFields
  <2> QED BY <1>0, <2>1, <2>2, <2>3 DEF Later
<1>5. CASE Record(t)
  BY <1>0, <1>5, <1>b DEF Record, Later
<1>6. CASE Verified(t)
  <2>1. proc' = [proc EXCEPT !.stage = "running", !.task = {}]
    BY <1>6 DEF Verified
  <2>2. "running" \in Later /\ {} \in SUBSET DOMAIN Mine.status
    BY DEF Later
  <2>3. "running" \in {"launched", "promoted"} =>
           \A u \in {} : run'[proc.feature].gen[u] >= 2
    OBVIOUS
  <2> QED BY <2>1, <2>2, <2>3
<1>7. CASE \/ Waits(t) \/ AmendmentRequired(t) \/ LaunchFails(t) \/ NotVerified(t)
           \/ Finish \/ DoneTaskBlocks
  BY <1>7 DEF Waits, AmendmentRequired, LaunchFails, NotVerified, Finish, DoneTaskBlocks,
     Stop, Leave
<1> QED BY <1>1, <1>2, <1>3, <1>4, <1>5, <1>6, <1>7 DEF Work, Turn

(* What a step of the work does to the locks and to the tree.              *)
LEMMA WorkTypes ==
    ASSUME Types, RunsKept, Bound, NEW t, Work(t)
    PROVE  /\ lock' \in BOOLEAN /\ locks' \subseteq Tasks
           /\ \/ landed' = landed
              \/ /\ Promote(t) /\ t \in Tasks
                 /\ landed' = landed \cup {<<proc.feature, t>>}
<1>0. /\ proc.feature \in Features /\ Good(Mine)
      /\ Listed(proc.plan.scope) = DOMAIN Mine.status
      /\ proc.task \subseteq DOMAIN Mine.status
      /\ DOMAIN Mine.status \subseteq Tasks
  BY WorkIsOfProc, MineIsGood DEF Good, RunOK
<1>1. lock \in BOOLEAN /\ locks \subseteq Tasks
  BY DEF Types
<1>2. CASE Take(t)
  BY <1>0, <1>1, <1>2 DEF Take, Next1, Actionable
<1>3. CASE Promote(t)
  BY <1>0, <1>1, <1>3 DEF Promote
<1>4. CASE Acquire \/ DoneTaskBlocks \/ Launch(t) \/ Record(t) \/ Verified(t)
  BY <1>1, <1>4 DEF Acquire, DoneTaskBlocks, Launch, Record, Verified
<1>5. CASE \/ Waits(t) \/ AmendmentRequired(t) \/ LaunchFails(t) \/ NotVerified(t) \/ Finish
  BY <1>1, <1>5 DEF Waits, AmendmentRequired, LaunchFails, NotVerified, Finish, Stop
<1> QED BY <1>2, <1>3, <1>4, <1>5 DEF Work, Turn
(* Runs only grow while an invocation works.                               *)
LEMMA WorkRuns ==
    ASSUME Types, RunsKept, Bound, NEW t, Work(t)
    PROVE  /\ RunsKept' /\ run' \in [Features -> {run'[g] : g \in Features}]
           /\ \A g \in Features : Exists(g)' <=> Exists(g)
           /\ \A g \in Features : Exists(g) => Grows(run'[g], run[g])
<1>1. ASSUME NEW g \in Features, Exists(g)
      PROVE  Grows(run[g], run[g])
  <2>1. Good(run[g])
    BY <1>1 DEF RunsKept, Good
  <2>2. \A u \in DOMAIN run[g].status : run[g].gen[u] \in Nat
    BY <2>1 DEF Good, WellFormed
  <2> QED BY <2>2 DEF Grows, Steady
<1>2. CASE run' = run
  BY <1>1, <1>2 DEF RunsKept, Exists, Types
<1>3. CASE \E q : /\ run' = [run EXCEPT ![proc.feature] = q]
                  /\ Good(q) /\ Grows(q, Mine)
  <2>1. PICK q : /\ run' = [run EXCEPT ![proc.feature] = q]
                 /\ Good(q) /\ Grows(q, Mine)
    BY <1>3
  <2>2. proc.feature \in Features /\ Exists(proc.feature)
    BY WorkIsOfProc, MineIsGood
  <2>3. Printed(q) /\ Pledged(q)
    BY <2>1, <2>2, SteadyKeeps DEF Grows, RunsKept, Mine
  <2>a. PICK f : f = proc.feature
    OBVIOUS
  <2>b. f \in Features /\ run' = [run EXCEPT ![f] = q]
    BY <2>1, <2>2, <2>a
  <2>c. /\ RunsKept' /\ Exists(f)' /\ run'[f] = q
        /\ \A g \in Features \ {f} : run'[g] = run[g]
        /\ run' \in [Features -> {run'[g] : g \in Features}]
    BY <2>1, <2>3, <2>b, RunReplaced
  <2>4. /\ RunsKept' /\ run'[proc.feature] # NoRun /\ run'[proc.feature] = q
        /\ \A g \in Features \ {proc.feature} : run'[g] = run[g]
        /\ run' \in [Features -> {run'[g] : g \in Features}]
    BY <2>a, <2>c DEF Exists
  <2>5. ASSUME NEW g \in Features
        PROVE  (Exists(g)' <=> Exists(g)) /\ (Exists(g) => Grows(run'[g], run[g]))
    <3>1. CASE g = proc.feature
      BY <2>1, <2>2, <2>4, <3>1 DEF Exists, Mine
    <3>2. CASE g # proc.feature
      BY <1>1, <2>4, <3>2 DEF Exists
    <3> QED BY <3>1, <3>2
  <2> QED BY <2>4, <2>5
<1> QED BY <1>2, <1>3, WorkStep

(* The work keeps the invariant.                                           *)
LEMMA WorkKeeps ==
    ASSUME IInv, NEW t, Work(t)
    PROVE  IInv'
<1>1. Types /\ RunsKept /\ Bound /\ OpeningAgrees /\ CalmAgrees /\ WindowsStay
  BY DEF IInv
<1>2. /\ proc # Idle /\ proc.stage # "opening" /\ UNCHANGED inputs /\ calm' = calm
      /\ proc.feature \in Features /\ Exists(proc.feature)
  BY <1>1, WorkIsOfProc, MineIsGood
<1>3. /\ RunsKept' /\ run' \in [Features -> {run'[g] : g \in Features}]
      /\ \A g \in Features : Exists(g)' <=> Exists(g)
      /\ \A g \in Features : Exists(g) => Grows(run'[g], run[g])
  BY <1>1, WorkRuns
<1>4. /\ lock' \in BOOLEAN /\ locks' \subseteq Tasks
      /\ \/ landed' = landed
         \/ /\ Promote(t) /\ t \in Tasks
            /\ landed' = landed \cup {<<proc.feature, t>>}
  BY <1>1, WorkTypes
<1>5. Types'
  <2>1. landed' \subseteq Features \X Tasks
    BY <1>1, <1>2, <1>4 DEF Types
  <2>2. /\ file' = file /\ available' = available /\ head' = head
    BY <1>2, InputsKept
  <2> QED BY <1>1, <1>2, <1>3, <1>4, <2>1, <2>2 DEF Types
<1>6. Bound' /\ OpeningAgrees'
  <2>1. CASE proc' = Idle
    BY <2>1 DEF Bound, OpeningAgrees, Idle
  <2>2. CASE proc' # Idle
    <3>1. PICK s \in Later, T \in SUBSET DOMAIN Mine.status :
             /\ proc' = [proc EXCEPT !.stage = s, !.task = T]
             /\ s \in {"launched", "promoted"} => \A u \in T : run'[proc.feature].gen[u] >= 2
      BY <1>1, <2>2, WorkProc
    <3>2. DOMAIN proc = ProcFields
      BY <1>1, <1>2 DEF Bound
    <3>3. /\ DOMAIN proc' = ProcFields /\ proc'.stage = s /\ proc'.task = T
          /\ proc'.feature = proc.feature /\ proc'.resume = proc.resume
          /\ proc'.plan = proc.plan /\ proc'.bind = proc.bind
          /\ proc'.asked = proc.asked /\ proc'.terms = proc.terms
      BY <3>1, <3>2 DEF ProcFields
    <3>4. Steady(run'[proc.feature], Mine) /\ run'[proc.feature] # NoRun
      BY <1>2, <1>3 DEF Grows, Mine, Exists
    <3>5. /\ run'[proc.feature].scope = Mine.scope
          /\ run'[proc.feature].pledge = Mine.pledge
          /\ DOMAIN run'[proc.feature].status = DOMAIN Mine.status
      BY <3>4 DEF Steady
    <3>6. \A u : Amended(run'[proc.feature], u) <=> Amended(Mine, u)
      <4>1. PICK q : q = run'[proc.feature]
        OBVIOUS
      <4> QED BY <3>4, <4>1, SteadyKeeps
    <3>7. /\ proc.resume \in BOOLEAN
          /\ proc.asked.feature = proc.feature
          /\ proc.plan.scope = Mine.scope
          /\ DOMAIN proc.terms = DOMAIN Mine.status
          /\ \A u \in DOMAIN Mine.status :
                /\ proc.terms[u].scope = Mine.pledge[u].scope
                /\ proc.terms[u].bound = Mine.pledge[u].bound
                /\ ~Amended(Mine, u) => proc.terms[u] = Mine.pledge[u]
      BY <1>1, <1>2 DEF Bound, Mine
    <3>8. s # "opening"
      BY DEF Later
    <3>9. OpeningAgrees'
      BY <3>3, <3>8 DEF OpeningAgrees
    <3>10. Bound'
      <4>1. (Exists(proc.feature))' /\ proc'.feature \in Features
        BY <1>2, <3>3, <3>4 DEF Exists
      <4>2. \A u \in T : s \in {"launched", "promoted"} => run'[proc'.feature].gen[u] >= 2
        BY <3>1, <3>3
      <4>3. (\A u \in DOMAIN run[proc.feature].status :
               /\ proc.terms[u].scope = run[proc.feature].pledge[u].scope
               /\ proc.terms[u].bound = run[proc.feature].pledge[u].bound
               /\ ~Amended(run[proc.feature], u) =>
                     proc.terms[u] = run[proc.feature].pledge[u])'
        BY <3>3, <3>5, <3>6, <3>7
      <4> QED BY <3>3, <3>5, <3>7, <4>1, <4>2, <4>3 DEF Bound, Later
    <3> QED BY <3>9, <3>10
  <2> QED BY <2>1, <2>2
<1>7. CalmAgrees'
  BY <1>1, <1>2, <1>3, CalmFramed DEF Grows
<1>8. WindowsStay'
  <2>1. \A g \in Features : Exists(g) => Exists(g)' /\ run[g].files \subseteq run'[g].files
    BY <1>3 DEF Grows
  <2>2. CASE landed' = landed
    BY <1>1, <2>1, <2>2, WindowsKept
  <2>3. CASE Promote(t) /\ t \in Tasks /\ landed' = landed \cup {<<proc.feature, t>>}
    <3>1. <<t, "window", Generation(t)>> \in run'[proc.feature].files
      <4>1. DOMAIN run[proc.feature] = RunFields
        BY <1>1, <1>2 DEF RunsKept, WellFormed
      <4> QED BY <1>1, <1>2, <2>3, <4>1 DEF Promote, Types, RunFields
    <3>2. \E x \in run'[proc.feature].files : x[1] = t /\ x[2] = "window"
      BY <3>1
    <3> QED BY <1>1, <1>2, <2>1, <2>3, <3>2 DEF WindowsStay
  <2> QED BY <1>4, <2>2, <2>3
<1> QED BY <1>3, <1>5, <1>6, <1>7, <1>8 DEF IInv
-----------------------------------------------------------------------------
(* The save that ends an opening                                           *)

(* Request b, completed from the saved run, is what was asked.             *)
LEMMA SavedRequest ==
    ASSUME Types, RunsKept, Bound, OpeningAgrees, proc # Idle, proc.stage = "opening",
           NEW p, Opened(p, Mine), NEW h, h = Hydrated(p, p.by)
    PROVE  /\ DOMAIN p.by = RequestFields /\ p.by.feature = proc.feature
           /\ SameControls(h, proc.asked)
           /\ Admissible(p.by, h)
           /\ p.chain = ChainOf(p, h) /\ p.model = h.model /\ p.runtime = h.runtime
<1> DEFINE q == proc.asked
           b == Mine.by
<1>1. /\ DOMAIN q = RequestFields /\ q.chain \in BOOLEAN
      /\ DOMAIN b = RequestFields /\ b.feature = proc.feature
      /\ q = (IF proc.resume THEN Hydrated(Mine, b) ELSE b)
      /\ Admissible(b, q)
      /\ Mine.requested = q.adapter /\ Mine.model = q.model /\ Mine.chain = ChainOf(Mine, q)
      /\ IF proc.resume THEN Mine.runtime = q.runtime
         ELSE Mine.runtime = (IF q.runtime = "unset" THEN "host" ELSE q.runtime)
  BY DEF OpeningAgrees, Mine
<1>2. /\ p.by = b /\ p.requested = Mine.requested /\ p.model = Mine.model
      /\ p.chain = Mine.chain /\ p.runtime = Mine.runtime
  BY DEF Opened
<1> HIDE DEF q, b
<1>3. /\ h.sel = b.sel /\ h.chain = b.chain /\ h.repair = b.repair /\ h.opened = b.opened
      /\ h.adapter = (IF b.adapter = AutoAdapter /\ p.requested # AutoAdapter
                      THEN p.requested ELSE b.adapter)
      /\ h.model = (IF b.model = NoModel THEN p.model ELSE b.model)
      /\ h.runtime = (IF b.runtime = "unset" THEN p.runtime ELSE b.runtime)
  BY <1>1, <1>2, HydratedFields
<1>4. SameControls(h, q) /\ h.model = p.model /\ h.runtime = p.runtime /\ h.chain = q.chain
  <2>1. CASE proc.resume
    <3>1. h = q
      BY <1>1, <1>2, <2>1 DEF Hydrated
    <3> QED BY <1>1, <1>2, <2>1, <3>1 DEF SameControls
  <2>2. CASE ~proc.resume
    <3>1. q = b /\ p.requested = b.adapter /\ p.model = b.model
          /\ p.runtime = (IF b.runtime = "unset" THEN "host" ELSE b.runtime)
      BY <1>1, <1>2, <2>2
    <3>2. h.adapter = b.adapter /\ h.model = b.model /\ h.runtime = p.runtime
      BY <1>3, <3>1
    <3> QED BY <1>3, <3>1, <3>2 DEF SameControls
  <2> QED BY <2>1, <2>2
<1>5. p.chain = ChainOf(p, h)
  BY <1>1, <1>2, <1>4 DEF ChainOf
<1>6. Admissible(b, h)
  <2>1. Compiles(Plan, h, available) = Compiles(Plan, q, available)
    BY <1>4, SamePlan
  <2>2. h.adapter = q.adapter
    BY <1>4 DEF SameControls
  <2> QED BY <1>1, <2>1, <2>2 DEF Admissible
<1> QED BY <1>1, <1>2, <1>4, <1>5, <1>6 DEF q

(* The save keeps the invariant: from then on the run is as its request    *)
(* has it.                                                                 *)
LEMMA PersistKeeps ==
    ASSUME IInv, Persist
    PROVE  IInv'
<1>1. Types /\ RunsKept /\ Bound /\ OpeningAgrees /\ CalmAgrees /\ WindowsStay
  BY DEF IInv
<1>2. proc # Idle
  BY <1>1, PersistStep
<1>3. PICK p : run' = [run EXCEPT ![proc.feature] = p] /\ Opened(p, Mine)
  BY <1>1, PersistStep
<1>4. PICK f : f = proc.feature
  OBVIOUS
<1>5. /\ f \in Features /\ Exists(f) /\ Good(Mine) /\ proc.stage = "opening"
      /\ UNCHANGED inputs /\ lock' = lock /\ locks' = locks /\ landed' = landed
      /\ calm' = [calm EXCEPT ![f] = TRUE]
      /\ proc' = [proc EXCEPT !.stage = "opened"]
  BY <1>1, <1>2, <1>4, MineIsGood DEF Persist
<1>6. Good(p) /\ Printed(p) /\ Pledged(p)
  BY <1>1, <1>2, <1>3, <1>5, OpenedKept
<1>7. /\ RunsKept' /\ Exists(f)' /\ run'[f] = p
      /\ \A g \in Features \ {f} : run'[g] = run[g]
      /\ \A g \in Features : Exists(g) => Exists(g)'
      /\ run' \in [Features -> {run'[g] : g \in Features}]
  BY <1>1, <1>3, <1>4, <1>5, <1>6, RunReplaced
<1>8. Types'
  BY <1>1, <1>5, <1>7, InputsKept DEF Types
<1>9. /\ DOMAIN proc' = ProcFields /\ proc'.stage = "opened" /\ proc'.task = proc.task
      /\ proc'.feature = f /\ proc'.resume = proc.resume
      /\ proc'.plan = proc.plan /\ proc'.asked = proc.asked /\ proc'.terms = proc.terms
  <2>1. DOMAIN proc = ProcFields
    BY <1>1, <1>2 DEF Bound
  <2> QED BY <1>4, <1>5, <2>1 DEF ProcFields
<1>10. \A t : Amended(p, t) <=> Amended(Mine, t)
  BY <1>3 DEF Amended, Opened
<1>11. Bound'
  <2>1. /\ proc.resume \in BOOLEAN
        /\ proc.asked.feature = proc.feature
        /\ proc.plan.scope = Mine.scope
        /\ DOMAIN proc.terms = DOMAIN Mine.status
        /\ proc.task \subseteq DOMAIN Mine.status
        /\ \A u \in DOMAIN Mine.status :
              /\ proc.terms[u].scope = Mine.pledge[u].scope
              /\ proc.terms[u].bound = Mine.pledge[u].bound
              /\ ~Amended(Mine, u) => proc.terms[u] = Mine.pledge[u]
    BY <1>1, <1>2 DEF Bound, Mine
  <2>2. p.scope = Mine.scope /\ p.pledge = Mine.pledge /\ p.status = Mine.status
    BY <1>3 DEF Opened
  <2>3. (\A u \in DOMAIN run[proc.feature].status :
           /\ proc.terms[u].scope = run[proc.feature].pledge[u].scope
           /\ proc.terms[u].bound = run[proc.feature].pledge[u].bound
           /\ ~Amended(run[proc.feature], u) =>
                 proc.terms[u] = run[proc.feature].pledge[u])'
    BY <1>7, <1>9, <1>10, <2>1, <2>2
  <2> QED BY <1>4, <1>5, <1>7, <1>9, <2>1, <2>2, <2>3 DEF Bound
<1>12. OpeningAgrees'
  BY <1>9 DEF OpeningAgrees
<1>13. AsRequested(f)'
  <2>1. PICK h : h = Hydrated(p, p.by)
    OBVIOUS
  <2>2. /\ DOMAIN p.by = RequestFields /\ p.by.feature = f
        /\ SameControls(h, proc.asked) /\ Admissible(p.by, h)
        /\ p.chain = ChainOf(p, h) /\ p.model = h.model /\ p.runtime = h.runtime
    BY <1>1, <1>2, <1>3, <1>4, <1>5, <2>1, SavedRequest
  <2>3. /\ Compile(Plan, h, available) = Compile(Plan, proc.asked, available)
        /\ \A t : Terms(h, t) = Terms(proc.asked, t)
    BY <2>2, SamePlan
  <2>4. /\ p.print = Compile(Plan, h, available) /\ p.bind = Binding(p.print.scope)
        /\ p.adapter = p.print.adapter
    BY <1>1, <1>2, <1>3, <1>5, <2>3 DEF OpeningAgrees, Opened, Mine
  <2>5. \A t \in DOMAIN p.status : ~Amended(p, t) => p.contract[t] = {Terms(h, t)}
    <3>1. \A t \in DOMAIN Mine.status :
             ~Amended(Mine, t) => proc.terms[t] = Terms(proc.asked, t)
      BY <1>1, <1>2, <1>5 DEF OpeningAgrees, Mine
    <3>2. /\ p.status = Mine.status
          /\ \A t \in DOMAIN Mine.status :
                p.contract[t] = IF Amended(Mine, t) THEN Mine.contract[t]
                                ELSE {proc.terms[t]}
      BY <1>3 DEF Opened
    <3> QED BY <1>10, <2>3, <3>1, <3>2
  <2>6. /\ Compile(Plan, h, available)' = Compile(Plan, h, available)
        /\ Admissible(p.by, h)'
        /\ \A t : Terms(h, t)' = Terms(h, t)
        /\ Binding(p.print.scope)' = Binding(p.print.scope)
    BY <1>5, <2>2, InputsKept
  <2> QED BY <1>7, <2>1, <2>2, <2>4, <2>5, <2>6 DEF AsRequested
<1>14. CalmAgrees'
  <2> SUFFICES ASSUME NEW g \in Features, Exists(g)', calm'[g]
               PROVE  AsRequested(g)'
    BY DEF CalmAgrees
  <2>1. CASE g = f
    BY <1>13, <2>1
  <2>2. CASE g # f
    <3>0. calm \in [Features -> BOOLEAN]
      BY <1>1 DEF Types
    <3>1. run'[g] = run[g] /\ calm[g] /\ Exists(g)
      BY <1>5, <1>7, <2>2, <3>0 DEF Exists
    <3>2. PICK r : r = run[g]
      OBVIOUS
    <3>3. PICK h : h = Hydrated(r, r.by)
      OBVIOUS
    <3>4. Steady(r, run[g])
      BY <3>2 DEF Steady
    <3>5. /\ DOMAIN r.by = RequestFields /\ r.by.feature = g
          /\ Admissible(r.by, h)'
          /\ r.print = Compile(Plan, h, available)'
          /\ r.bind = Binding(r.print.scope)' /\ r.adapter = r.print.adapter
          /\ r.chain = ChainOf(r, h) /\ r.model = h.model /\ r.runtime = h.runtime
          /\ \A t \in DOMAIN r.status :
                ~Amended(r, t) => r.contract[t] = {Terms(h, t)'}
      BY <1>1, <1>5, <3>1, <3>3, <3>4, CalmKept
    <3> QED BY <3>1, <3>2, <3>3, <3>5 DEF AsRequested
  <2> QED BY <2>1, <2>2
<1>15. WindowsStay'
  <2>1. ASSUME NEW g \in Features, Exists(g)
        PROVE  Exists(g)' /\ run[g].files \subseteq run'[g].files
    <3>1. p.files = Mine.files
      BY <1>3 DEF Opened
    <3> QED BY <1>4, <1>7, <2>1, <3>1 DEF Mine
  <2> QED BY <1>1, <1>5, <2>1, WindowsKept
<1> QED BY <1>7, <1>8, <1>11, <1>12, <1>14, <1>15 DEF IInv
-----------------------------------------------------------------------------
(* Nobody is at work                                                       *)

(* The process died, or another run cleared its locks away.                *)
LEMMA GoneKeeps ==
    ASSUME IInv, proc' = Idle, UNCHANGED <<inputs, run, calm, landed>>,
           lock' \in BOOLEAN, locks' \subseteq Tasks
    PROVE  IInv'
<1>1. Types /\ RunsKept /\ CalmAgrees /\ WindowsStay
  BY DEF IInv
<1>2. Types'
  BY <1>1, InputsKept DEF Types
<1>3. RunsKept'
  BY <1>1 DEF RunsKept, Exists
<1>4. Bound' /\ OpeningAgrees'
  BY DEF Bound, OpeningAgrees
<1>5. CalmAgrees'
  BY <1>1, CalmFramed DEF Exists, Steady
<1>6. WindowsStay'
  BY <1>1 DEF WindowsStay, Exists
<1> QED BY <1>2, <1>3, <1>4, <1>5, <1>6 DEF IInv

(* An amendment keeps the invariant.                                       *)
LEMMA AmendKeeps ==
    ASSUME IInv, NEW f \in Features, NEW t \in Tasks, NEW a \in Amendments, Amend(f, t, a)
    PROVE  IInv'
<1>1. Types /\ RunsKept /\ CalmAgrees /\ WindowsStay
  BY DEF IInv
<1>2. /\ proc = Idle /\ proc' = Idle /\ Exists(f)
      /\ calm' = [calm EXCEPT ![f] = FALSE]
      /\ UNCHANGED inputs /\ lock' = lock /\ locks' = locks /\ landed' = landed
  BY DEF Amend
<1>3. PICK p : /\ run' = [run EXCEPT ![f] = p]
               /\ Good(p) /\ Printed(p) /\ Pledged(p) /\ p.files = run[f].files
  BY <1>1, AmendStep
<1>4. /\ RunsKept' /\ Exists(f)' /\ run'[f] = p
      /\ \A g \in Features \ {f} : run'[g] = run[g]
      /\ \A g \in Features : Exists(g) => Exists(g)'
      /\ run' \in [Features -> {run'[g] : g \in Features}]
  BY <1>1, <1>3, RunReplaced
<1>5. calm \in [Features -> BOOLEAN]
  BY <1>1 DEF Types
<1>6. Types'
  BY <1>1, <1>2, <1>4, <1>5, InputsKept DEF Types
<1>7. Bound' /\ OpeningAgrees'
  BY <1>2 DEF Bound, OpeningAgrees
<1>8. CalmAgrees'
  <2>1. \A g \in Features : Exists(g)' /\ calm'[g] =>
            Exists(g) /\ calm[g] /\ Steady(run'[g], run[g])
    <3> SUFFICES ASSUME NEW g \in Features, Exists(g)', calm'[g]
                 PROVE  Exists(g) /\ calm[g] /\ Steady(run'[g], run[g])
      OBVIOUS
    <3>1. g # f /\ calm'[g] = calm[g]
      BY <1>2, <1>5
    <3>2. run'[g] = run[g]
      BY <1>4, <3>1
    <3> QED BY <3>1, <3>2 DEF Exists, Steady
  <2> QED BY <1>1, <1>2, <2>1, CalmFramed
<1>9. WindowsStay'
  <2>1. ASSUME NEW g \in Features, Exists(g)
        PROVE  Exists(g)' /\ run[g].files \subseteq run'[g].files
    BY <1>3, <1>4, <2>1
  <2> QED BY <1>1, <1>2, <2>1, WindowsKept
<1> QED BY <1>4, <1>6, <1>7, <1>8, <1>9 DEF IInv

(* An edit, a move of the head, an adapter that came or went.              *)
LEMMA DisturbKeeps ==
    ASSUME IInv, Disturb, UNCHANGED <<run, proc, lock, locks, landed>>,
           file' \in [Tasks -> UNION {Listed(Drafts[t]) : t \in Tasks}],
           \A t \in Tasks : file'[t] \in Listed(Drafts[t]),
           available' \subseteq Listed(Known), head' \in Heads
    PROVE  IInv'
<1>1. Types /\ RunsKept /\ WindowsStay
  BY DEF IInv
<1>2. proc' = Idle /\ calm' = [f \in Features |-> FALSE]
  BY DEF Disturb
<1>3. Types'
  BY <1>1, <1>2 DEF Types
<1>4. RunsKept'
  BY <1>1 DEF RunsKept, Exists
<1>5. Bound' /\ OpeningAgrees'
  BY <1>2 DEF Bound, OpeningAgrees
<1>6. CalmAgrees'
  BY <1>2 DEF CalmAgrees
<1>7. WindowsStay'
  BY <1>1 DEF WindowsStay, Exists
<1> QED BY <1>3, <1>4, <1>5, <1>6, <1>7 DEF IInv

-----------------------------------------------------------------------------
(* The invariant holds                                                     *)

(* It holds initially ...                                                  *)
LEMMA Initially == Init => IInv
<1> SUFFICES ASSUME Init PROVE IInv
  OBVIOUS
<1>1. /\ file = [t \in Tasks |-> Drafts[t][1]] /\ available = {"claude", "codex"}
      /\ head \in Heads /\ run = [f \in Features |-> NoRun] /\ proc = Idle
      /\ lock = FALSE /\ locks = {} /\ landed = {} /\ calm = [f \in Features |-> FALSE]
  BY DEF Init
<1>2. \A f \in Features : ~Exists(f)
  BY <1>1 DEF Exists
<1>3. ASSUME NEW t \in Tasks
      PROVE  file[t] \in Listed(Drafts[t])
  <2>1. Drafts[t] # << >> /\ Drafts[t] \in Seq(Listed(Drafts[t]))
    BY AdmissionAssumption
  <2> QED BY <1>1, <2>1 DEF Listed
<1>4. Types
  <2>1. file \in [Tasks -> UNION {Listed(Drafts[t]) : t \in Tasks}]
    BY <1>1, <1>3
  <2>2. available \subseteq Listed(Known)
    BY <1>1 DEF Listed, Known
  <2> QED BY <1>1, <1>3, <2>1, <2>2 DEF Types
<1>5. RunsKept /\ CalmAgrees
  BY <1>2 DEF RunsKept, CalmAgrees
<1>6. Bound /\ OpeningAgrees /\ WindowsStay
  BY <1>1 DEF Bound, OpeningAgrees, WindowsStay
<1> QED BY <1>4, <1>5, <1>6 DEF IInv

(* ... and every step keeps it.                                            *)
LEMMA EveryStep == IInv /\ [Next]_vars => IInv'
<1> SUFFICES ASSUME IInv, [Next]_vars PROVE IInv'
  OBVIOUS
<1>0. Types
  BY DEF IInv
<1>1. CASE \E q \in Requests : Open(q)
  BY <1>0, <1>1, OpenStep, EnteredKeeps DEF IInv
<1>2. CASE Persist
  BY <1>2, PersistKeeps
<1>3. CASE \E t : Work(t)
  BY <1>3, WorkKeeps
<1>4. CASE Crash
  BY <1>0, <1>4, GoneKeeps DEF Crash, Leave, Types
<1>5. CASE Reclaimed
  BY <1>0, <1>5, GoneKeeps DEF Reclaimed, Types
<1>6. CASE \E t \in Tasks : Edit(t)
  <2>1. PICK t \in Tasks : Edit(t)
    BY <1>6
  <2>2. PICK d \in Listed(Drafts[t]) : file' = [file EXCEPT ![t] = d]
    BY <2>1 DEF Edit
  <2>3. /\ file' \in [Tasks -> UNION {Listed(Drafts[u]) : u \in Tasks}]
        /\ \A u \in Tasks : file'[u] \in Listed(Drafts[u])
    BY <1>0, <2>2 DEF Types
  <2>4. /\ Disturb /\ UNCHANGED <<run, proc, lock, locks, landed>>
        /\ available' = available /\ head' = head
    BY <2>1 DEF Edit
  <2> QED BY <1>0, <2>3, <2>4, DisturbKeeps DEF Types
<1>7. CASE MoveHead
  BY <1>0, <1>7, DisturbKeeps DEF MoveHead, Types
<1>8. CASE ComeOrGo
  BY <1>0, <1>8, DisturbKeeps DEF ComeOrGo, Types
<1>9. CASE \E f \in Features, t \in Tasks, a \in Amendments : Amend(f, t, a)
  BY <1>9, AmendKeeps
<1>10. CASE UNCHANGED vars
  <2>1. /\ UNCHANGED <<inputs, run, calm, landed>> /\ proc' = proc
        /\ lock' = lock /\ locks' = locks
    BY <1>10 DEF vars, inputs
  <2>2. UNCHANGED inputs /\ file' = file /\ available' = available /\ head' = head
    BY <1>10 DEF vars, inputs
  <2>3. Types' /\ RunsKept' /\ Bound' /\ WindowsStay'
    BY <2>1, <2>2 DEF IInv, Types, RunsKept, Bound, WindowsStay, Exists
  <2>4. OpeningAgrees'
    BY <1>10 DEF IInv, vars, OpeningAgrees, Admissible, Binding, Plan, Terms
  <2>5. CalmAgrees'
    BY <2>1, <2>2, CalmFramed DEF IInv, Exists, Steady
  <2> QED BY <2>3, <2>4, <2>5 DEF IInv
<1> QED BY <1>1, <1>2, <1>3, <1>4, <1>5, <1>6, <1>7, <1>8, <1>9, <1>10 DEF Next, Work

(* The invariant holds in every state.                                     *)
LEMMA AlwaysKept == Spec => []IInv
BY Initially, EveryStep, PTL DEF Spec
-----------------------------------------------------------------------------
(* What a step may never do                                                *)

(* Which run a step writes, and what it leaves of it.                      *)
LEMMA RunSteps ==
    ASSUME IInv, [Next]_vars
    PROVE  \/ run' = run
           \/ \E q \in Requests : \E p, h : Entered(q, p, h)
           \/ \E p : /\ proc # Idle /\ proc.feature \in Features /\ Exists(proc.feature)
                     /\ run' = [run EXCEPT ![proc.feature] = p]
                     /\ Good(p) /\ Grows(p, Mine)
           \/ \E p : /\ proc # Idle /\ proc.feature \in Features /\ Exists(proc.feature)
                     /\ run' = [run EXCEPT ![proc.feature] = p]
                     /\ p.gen = Mine.gen /\ Good(p) /\ Fixed(p) = Fixed(Mine)
           \/ \E f \in Features : \E p :
                 /\ Exists(f) /\ run' = [run EXCEPT ![f] = p]
                 /\ p.gen = run[f].gen /\ Good(p) /\ Fixed(p) = Fixed(run[f])
<1>0. Types /\ RunsKept /\ Bound /\ OpeningAgrees
  BY DEF IInv
<1>1. CASE \E q \in Requests : Open(q)
  BY <1>0, <1>1, OpenStep
<1>2. CASE Persist
  <2>1. proc # Idle /\ proc.feature \in Features /\ Exists(proc.feature)
        /\ proc.stage = "opening"
    BY <1>0, <1>2, PersistStep, MineIsGood DEF Persist
  <2>2. PICK p : run' = [run EXCEPT ![proc.feature] = p] /\ Opened(p, Mine)
    BY <1>0, <1>2, PersistStep
  <2>3. Good(p)
    BY <1>0, <2>1, <2>2, OpenedKept
  <2>4. p.gen = Mine.gen /\ Fixed(p) = Fixed(Mine)
    <3>1. p.print.selection = Mine.print.selection
      BY <1>0, <2>1, <2>2 DEF OpeningAgrees, Opened, Mine
    <3> QED BY <2>2, <3>1 DEF Opened, Fixed
  <2> QED BY <2>1, <2>2, <2>3, <2>4
<1>3. CASE \E t : Work(t)
  BY <1>0, <1>3, WorkStep, WorkIsOfProc, MineIsGood
<1>4. CASE \E f \in Features, t \in Tasks, a \in Amendments : Amend(f, t, a)
  <2>1. PICK f \in Features, t \in Tasks, a \in Amendments : Amend(f, t, a)
    BY <1>4
  <2>2. PICK p : /\ run' = [run EXCEPT ![f] = p] /\ Good(p)
                 /\ Controls(p, run[f]) /\ p.gen = run[f].gen
    BY <1>0, <2>1, AmendStep
  <2>3. Exists(f) /\ Fixed(p) = Fixed(run[f])
    BY <2>1, <2>2 DEF Amend, Controls, Fixed
  <2> QED BY <2>2, <2>3
<1>5. CASE \/ Crash \/ Reclaimed \/ MoveHead \/ ComeOrGo \/ UNCHANGED vars
           \/ \E t \in Tasks : Edit(t)
  BY <1>5 DEF Crash, Reclaimed, MoveHead, ComeOrGo, Edit, vars
<1> QED BY <1>1, <1>2, <1>3, <1>4, <1>5 DEF Next, Work

(* Writing a run, by name.                                                 *)
LEMMA Written ==
    ASSUME Types, NEW f \in Features, NEW p, run' = [run EXCEPT ![f] = p]
    PROVE  run'[f] = p /\ \A g \in Features \ {f} : run'[g] = run[g]
BY DEF Types

(* The fields of a run that only its opening record changes.               *)
LEMMA ReopenedFields ==
    ASSUME NEW r, Good(r), NEW q, NEW p, p = [r EXCEPT !.by = q]
    PROVE  p.gen = r.gen /\ Fixed(p) = Fixed(r)
<1>1. DOMAIN r = RunFields
  BY GoodFields
<1> QED BY <1>1 DEF RunFields, Fixed

(* Each step leaves the controls of a run as they are.                     *)
LEMMA FixedStep ==
    ASSUME IInv, [Next]_vars, NEW f \in Features, Exists(f)
    PROVE  Fixed(run'[f]) = Fixed(run[f])
<1>0. Types /\ RunsKept
  BY DEF IInv
<1>1. CASE run' = run
  BY <1>1
<1>2. CASE \E q \in Requests : \E p, h : Entered(q, p, h)
  <2>0. PICK q \in Requests : \E p, h : Entered(q, p, h)
    BY <1>2
  <2>1. PICK p, h : Entered(q, p, h)
    BY <2>0
  <2>2. PICK g : g = q.feature
    OBVIOUS
  <2>3. /\ g \in Features /\ run' = [run EXCEPT ![g] = p]
        /\ Exists(g) => p = [run[g] EXCEPT !.by = q]
    BY <2>1, <2>2 DEF Entered
  <2>4. Good(run[f])
    BY <1>0 DEF RunsKept, Good
  <2> QED BY <1>0, <2>3, <2>4, Written, ReopenedFields
<1>3. CASE \E p : /\ proc # Idle /\ proc.feature \in Features /\ Exists(proc.feature)
                  /\ run' = [run EXCEPT ![proc.feature] = p]
                  /\ Good(p) /\ Grows(p, Mine)
  <2>1. PICK p : /\ proc.feature \in Features
                 /\ run' = [run EXCEPT ![proc.feature] = p] /\ Grows(p, Mine)
    BY <1>3
  <2>2. Fixed(p) = Fixed(Mine)
    BY <2>1 DEF Grows, Steady, Fixed
  <2> QED BY <1>0, <2>1, <2>2 DEF Mine, Types
<1>4. CASE \E p : /\ proc # Idle /\ proc.feature \in Features /\ Exists(proc.feature)
                  /\ run' = [run EXCEPT ![proc.feature] = p]
                  /\ p.gen = Mine.gen /\ Good(p) /\ Fixed(p) = Fixed(Mine)
  BY <1>0, <1>4 DEF Mine, Types
<1>5. CASE \E g \in Features : \E p :
              /\ Exists(g) /\ run' = [run EXCEPT ![g] = p]
              /\ p.gen = run[g].gen /\ Good(p) /\ Fixed(p) = Fixed(run[g])
  BY <1>0, <1>5 DEF Types
<1> QED BY <1>1, <1>2, <1>3, <1>4, <1>5, RunSteps

(* No resume, amendment or launch changes a control of a run.              *)
THEOREM ControlsStand == Spec => ControlsImmutable
<1>1. IInv /\ [Next]_vars =>
         [\A f \in Features : Exists(f) => Fixed(run'[f]) = Fixed(run[f])]_vars
  BY FixedStep
<1> QED BY <1>1, AlwaysKept, PTL DEF Spec, ControlsImmutable

(* Only the invocation that is at work on a run consumes its generations.  *)
LEMMA LaunchStep ==
    ASSUME IInv, [Next]_vars, NEW f \in Features, NEW t \in Tasks, Launches(f, t)
    PROVE  LET now == proc.terms[t]
               promised == run[f].pledge[t]
           IN  /\ now.scope = promised.scope /\ now.bound = promised.bound
               /\ ~Amended(run[f], t) => now = promised
<1>0. Types /\ RunsKept /\ Bound
  BY DEF IInv
<1>1. Exists(f) /\ t \in DOMAIN run[f].gen /\ run'[f].gen[t] > run[f].gen[t]
  BY DEF Launches
<1>2. Good(run[f])
  BY <1>0, <1>1 DEF RunsKept, Good
<1>3. t \in DOMAIN run[f].status /\ run[f].gen[t] \in Nat
  BY <1>1, <1>2 DEF Good, WellFormed
<1>4. run'[f].gen # run[f].gen
  <2> SUFFICES ASSUME run'[f].gen = run[f].gen PROVE FALSE
    OBVIOUS
  <2>1. run[f].gen[t] > run[f].gen[t]
    BY <1>1
  <2> QED BY <1>3, <2>1
<1>5. proc # Idle /\ f = proc.feature
  <2>1. CASE run' = run
    BY <1>4, <2>1
  <2>2. CASE \E q \in Requests : \E p, h : Entered(q, p, h)
    <3>0. PICK q \in Requests : \E p, h : Entered(q, p, h)
      BY <2>2
    <3>1. PICK p, h : Entered(q, p, h)
      BY <3>0
    <3>2. PICK g : g = q.feature
      OBVIOUS
    <3>3. /\ g \in Features /\ run' = [run EXCEPT ![g] = p]
          /\ Exists(g) => p = [run[g] EXCEPT !.by = q]
      BY <3>1, <3>2 DEF Entered
    <3> QED BY <1>0, <1>1, <1>2, <1>4, <3>3, Written, ReopenedFields
  <2>3. CASE \E p : /\ proc # Idle /\ proc.feature \in Features /\ Exists(proc.feature)
                    /\ run' = [run EXCEPT ![proc.feature] = p]
                    /\ Good(p) /\ Grows(p, Mine)
    BY <1>0, <1>4, <2>3 DEF Types
  <2>4. CASE \E p : /\ proc # Idle /\ proc.feature \in Features /\ Exists(proc.feature)
                    /\ run' = [run EXCEPT ![proc.feature] = p]
                    /\ p.gen = Mine.gen /\ Good(p) /\ Fixed(p) = Fixed(Mine)
    BY <1>0, <1>4, <2>4 DEF Types, Mine
  <2>5. CASE \E g \in Features : \E p :
                /\ Exists(g) /\ run' = [run EXCEPT ![g] = p]
                /\ p.gen = run[g].gen /\ Good(p) /\ Fixed(p) = Fixed(run[g])
    BY <1>0, <1>4, <2>5 DEF Types
  <2> QED BY <2>1, <2>2, <2>3, <2>4, <2>5, RunSteps
<1> QED BY <1>0, <1>3, <1>5 DEF Bound

(* Every launch is on the terms that were promised of its task.            *)
THEOREM LaunchesAreGoverned == Spec => GovernedByRecord
<1>1. IInv /\ [Next]_vars =>
         [\A f \in Features, t \in Tasks : Launches(f, t) =>
             LET now == proc.terms[t]
                 promised == run[f].pledge[t]
             IN  /\ now.scope = promised.scope /\ now.bound = promised.bound
                 /\ ~Amended(run[f], t) => now = promised]_vars
  BY LaunchStep
<1> QED BY <1>1, AlwaysKept, PTL DEF Spec, GovernedByRecord

(* A replacement appears only by way of a fresh opening, which has looked  *)
(* at the files beside the run it replaces.                                *)
LEMMA ReplaceStep ==
    ASSUME IInv, [Next]_vars, ~Exists(Replacement), run'[Replacement] # NoRun,
           NEW t \in run'[Replacement].origin
    PROVE  <<Source, t>> \notin landed
<1>0. Types /\ RunsKept /\ WindowsStay /\ Replacement \in Features /\ Source \in Features
  BY DEF IInv, Features
<1>1. run'[Replacement] # run[Replacement]
  BY DEF Exists
<1>2. \E q \in Requests : Open(q) /\ q.feature = Replacement
  <2>1. CASE \E q \in Requests : Open(q)
    <3>1. PICK q \in Requests : Open(q)
      BY <2>1
    <3>2. PICK p, h : Entered(q, p, h)
      BY <1>0, <3>1, OpenStep
    <3>3. run' = [run EXCEPT ![q.feature] = p] /\ q.feature \in Features
      BY <3>2 DEF Entered
    <3>4. q.feature = Replacement
      BY <1>0, <1>1, <3>3 DEF Types
    <3> QED BY <3>1, <3>4
  <2>2. CASE Persist \/ \E u : Work(u)
    <3>1. proc.feature \in Features /\ Exists(proc.feature)
      BY <1>0, <2>2, PersistStep, WorkIsOfProc, MineIsGood DEF IInv
    <3>2. run' = run \/ \E p : run' = [run EXCEPT ![proc.feature] = p]
      BY <1>0, <2>2, PersistStep, WorkStep DEF IInv
    <3> QED BY <1>0, <1>1, <3>1, <3>2 DEF Types
  <2>3. CASE \E f \in Features, u \in Tasks, a \in Amendments : Amend(f, u, a)
    <3>1. PICK f \in Features, u \in Tasks, a \in Amendments : Amend(f, u, a)
      BY <2>3
    <3>2. Exists(f) /\ \E p : run' = [run EXCEPT ![f] = p]
      BY <1>0, <3>1, AmendStep DEF Amend
    <3> QED BY <1>0, <1>1, <3>2 DEF Types
  <2>4. CASE \/ Crash \/ Reclaimed \/ MoveHead \/ ComeOrGo \/ UNCHANGED vars
             \/ \E u \in Tasks : Edit(u)
    BY <1>1, <2>4 DEF Crash, Reclaimed, MoveHead, ComeOrGo, Edit, vars
  <2> QED BY <2>1, <2>2, <2>3, <2>4 DEF Next, Work
<1>3. PICK q \in Requests : Open(q) /\ q.feature = Replacement
  BY <1>2
<1>4. Fresh(q)
  BY <1>3 DEF Open, Resume, AdmitsResume
<1>5. run'[Replacement].origin = q.recover
  <2>1. run' = [run EXCEPT ![Replacement] = NewRun(q)]
    BY <1>3, <1>4 DEF Fresh
  <2>2. NewRun(q).origin = q.recover
    BY DEF NewRun
  <2> QED BY <1>0, <2>1, <2>2 DEF Types
<1>6. MayReplace(q, t)
  BY <1>4, <1>5 DEF Fresh, AdmitsFresh
<1>7. OnlyOneFailure(run[Source], t)
  BY <1>6 DEF MayReplace
<1>8. \A x \in run[Source].files : x[2] # "window"
  BY <1>7 DEF OnlyOneFailure
<1> QED BY <1>0, <1>8 DEF WindowsStay

(* A replacement run never redoes work that has reached the tree.          *)
THEOREM ReplacementIsSafe == Spec => NeverReplacesWork
<1>1. IInv /\ [Next]_vars =>
         [~Exists(Replacement) /\ run'[Replacement] # NoRun =>
             \A t \in run'[Replacement].origin : <<Source, t>> \notin landed]_vars
  BY ReplaceStep
<1> QED BY <1>1, AlwaysKept, PTL DEF Spec, NeverReplacesWork
-----------------------------------------------------------------------------
(* What is recorded stays admissible                                       *)

(* A plan nothing is written over is compatible with itself.               *)
LEMMA UnamendedPlan ==
    ASSUME NEW plan, plan = [k \in PrintFields |-> plan[k]], plan.scope \in Seq(Tasks),
           plan.order = plan.scope, DOMAIN plan.tasks = Listed(plan.scope),
           plan.tasks = [t \in DOMAIN plan.tasks |-> plan.tasks[t]],
           NEW overlay, DOMAIN overlay = {}
    PROVE  Compatible(plan, plan.scope, Overlaid(plan, overlay))
<1>0. DOMAIN plan = PrintFields
  OBVIOUS
<1> DEFINE over == [t \in DOMAIN plan.tasks |->
                      IF t \in DOMAIN overlay
                      THEN [plan.tasks[t] EXCEPT !.bound = Sourced(overlay[t], FALSE)]
                      ELSE plan.tasks[t]]
<1>1. over = plan.tasks
  <2>1. over = [t \in DOMAIN plan.tasks |-> plan.tasks[t]]
    OBVIOUS
  <2> HIDE DEF over
  <2> QED BY <2>1
<1>2. Overlaid(plan, overlay) = [plan EXCEPT !.tasks = plan.tasks]
  <2>1. Overlaid(plan, overlay) = [plan EXCEPT !.tasks = over]
    BY DEF Overlaid
  <2> HIDE DEF over
  <2> QED BY <1>1, <2>1
<1>3. ASSUME NEW q, q = [plan EXCEPT !.tasks = plan.tasks]
      PROVE  q = plan
  <2>1. \A k \in PrintFields : q[k] = plan[k]
    BY <1>0, <1>3 DEF PrintFields
  <2>2. q = [k \in PrintFields |-> q[k]]
    BY <1>0, <1>3
  <2> QED BY <2>1, <2>2
<1>4. ASSUME NEW q, q = [plan EXCEPT !.scope = plan.scope, !.order = plan.order]
      PROVE  q = plan
  <2>1. \A k \in PrintFields : q[k] = plan[k]
    BY <1>0, <1>4 DEF PrintFields
  <2>2. q = [k \in PrintFields |-> q[k]]
    BY <1>0, <1>4
  <2> QED BY <2>1, <2>2
<1>5. Overlaid(plan, overlay) = plan
  BY <1>2, <1>3
<1>6. Only(plan.order, Listed(plan.scope)) = plan.order
  BY OnlyAll
<1> QED BY <1>4, <1>5, <1>6 DEF Compatible

(* A compiled plan is a record of its fields.                              *)
LEMMA CompiledRecord ==
    ASSUME NEW q, NEW plan, plan = Compile(Plan, q, available)
    PROVE  /\ plan = [k \in PrintFields |-> plan[k]]
           /\ plan.tasks = [t \in DOMAIN plan.tasks |-> plan.tasks[t]]
<1>1. plan.tasks = [t \in Listed(Scope(Plan, q.sel)) |-> CompiledTask(TaskOf(Plan, t), q)]
  BY DEF Compile
<1>2. plan.tasks = [t \in DOMAIN plan.tasks |-> plan.tasks[t]]
  BY <1>1
<1>3. DOMAIN plan = PrintFields
  BY DEF Compile, PrintFields
<1>4. plan = [k \in DOMAIN plan |-> plan[k]]
  BY DEF Compile
<1> QED BY <1>2, <1>3, <1>4

(* Repeated with --resume, the command line that opened a run as it stands *)
(* is admitted.                                                            *)
LEMMA RequestRepeats ==
    ASSUME Types, RunsKept, NEW f \in Features, Exists(f), AsRequested(f),
           \A t \in DOMAIN run[f].status : ~Amended(run[f], t)
    PROVE  AdmitsResume([run[f].by EXCEPT !.resume = TRUE, !.recover = {}])
<1> DEFINE r == run[f]
           b == r.by
           q == [b EXCEPT !.resume = TRUE, !.recover = {}]
           h == Hydrated(r, b)
           k == Hydrated(r, q)
           plan == Compile(Plan, h, available)
<1>1. Good(r) /\ Printed(r)
  BY DEF RunsKept, Good
<1>2. /\ DOMAIN b = RequestFields /\ b.feature = f
      /\ Admissible(b, h)
      /\ r.print = plan /\ r.bind = Binding(plan.scope) /\ r.adapter = plan.adapter
      /\ r.chain = ChainOf(r, h) /\ r.model = h.model /\ r.runtime = h.runtime
      /\ \A t \in DOMAIN r.status : r.contract[t] = {Terms(h, t)}
  BY DEF AsRequested
<1> HIDE DEF r, b
<1>3. /\ DOMAIN q = RequestFields /\ q.resume = TRUE /\ q.recover = {}
      /\ q.feature = f /\ q.opened = b.opened /\ q.sel = b.sel
      /\ q.adapter = b.adapter /\ q.model = b.model /\ q.chain = b.chain
      /\ q.repair = b.repair /\ q.runtime = b.runtime
  BY <1>2 DEF RequestFields
<1> HIDE DEF q
<1>4. /\ h.sel = b.sel /\ h.chain = b.chain /\ h.repair = b.repair
      /\ h.adapter = (IF b.adapter = AutoAdapter /\ r.requested # AutoAdapter
                      THEN r.requested ELSE b.adapter)
      /\ h.model = (IF b.model = NoModel THEN r.model ELSE b.model)
      /\ h.runtime = (IF b.runtime = "unset" THEN r.runtime ELSE b.runtime)
  BY <1>2, HydratedFields
<1>5. /\ k.sel = q.sel /\ k.chain = q.chain /\ k.repair = q.repair
      /\ k.adapter = (IF q.adapter = AutoAdapter /\ r.requested # AutoAdapter
                      THEN r.requested ELSE q.adapter)
      /\ k.model = (IF q.model = NoModel THEN r.model ELSE q.model)
      /\ k.runtime = (IF q.runtime = "unset" THEN r.runtime ELSE q.runtime)
  BY <1>3, HydratedFields
<1> HIDE DEF h, k
<1>6. SameControls(k, h) /\ k.runtime = h.runtime /\ k.model = h.model
      /\ k.chain = h.chain /\ k.adapter = h.adapter
  BY <1>3, <1>4, <1>5 DEF SameControls
<1>7. SameControls(q, b)
  BY <1>3 DEF SameControls
<1>8. /\ Compile(Plan, k, available) = plan
      /\ Compiles(Plan, k, available) /\ Compiles(Plan, q, available)
      /\ Compiles(Plan, h, available)
      /\ \A t : Terms(k, t) = Terms(h, t)
  BY <1>2, <1>6, <1>7, SamePlan DEF Admissible
<1>9. /\ plan.scope \in Seq(Tasks) /\ plan.order = plan.scope
      /\ DOMAIN plan.tasks = Listed(plan.scope)
      /\ \A t \in Listed(plan.scope) : plan.tasks[t].deps = file[t].deps
  BY <1>8, Compiled
<1>10. /\ plan = [x \in PrintFields |-> plan[x]]
       /\ plan.tasks = [t \in DOMAIN plan.tasks |-> plan.tasks[t]]
  BY CompiledRecord
<1> HIDE DEF plan
<1>11. plan.scope = r.scope /\ Listed(r.scope) = DOMAIN r.status /\ DOMAIN r.revs = DOMAIN r.status
  BY <1>1, <1>2 DEF Printed, Good, RunOK, WellFormed
<1>12. \A t : ~Amended(r, t)
  BY <1>11 DEF Amended, r
<1>13. Compatible(r.print, r.scope, Overlaid(plan, AmendedBounds(r, k)))
  <2>1. DOMAIN AmendedBounds(r, k) = {}
    BY <1>12 DEF AmendedBounds
  <2>2. PICK overlay : overlay = AmendedBounds(r, k)
    OBVIOUS
  <2>3. Compatible(plan, plan.scope, Overlaid(plan, overlay))
    BY <1>9, <1>10, <2>1, <2>2, UnamendedPlan
  <2> QED BY <1>2, <1>11, <2>2, <2>3
<1>14. ControlsMatch(r, k, plan.scope)
  <2>1. ChainOf(r, k) = ChainOf(r, h)
    BY <1>6 DEF ChainOf
  <2> QED BY <1>2, <1>6, <1>11, <2>1 DEF ControlsMatch
<1>15. \A t \in DOMAIN r.status : ContractMatches(r, t, Effective(r, k, t))
  <2>1. \A t : Effective(r, k, t) = Terms(k, t)
    BY <1>12 DEF Effective
  <2> QED BY <1>2, <1>8, <2>1 DEF ContractMatches
<1>16. TaskSetMatches(r, plan.scope)
  <2>1. Listed(plan.scope) \cap DOMAIN r.status = DOMAIN r.status
    BY <1>11
  <2>2. \A t \in DOMAIN r.status : file[t].deps = r.print.tasks[t].deps
    BY <1>2, <1>9, <1>11
  <2> QED BY <2>1, <2>2 DEF TaskSetMatches
<1>17. q.opened /\ Resolvable(k.adapter, available)
  BY <1>2, <1>3, <1>6 DEF Admissible
<1>18. AdmitsResume(q)
  <2>1. run[q.feature] = r /\ Exists(q.feature)
    BY <1>3 DEF r
  <2>2. k = Hydrated(run[q.feature], q)
    BY <2>1 DEF k
  <2> QED BY <1>2, <1>3, <1>8, <1>13, <1>14, <1>15, <1>16, <1>17, <2>1, <2>2
          DEF AdmitsResume
<1> QED BY <1>18 DEF q, b, r

(* run.json stays well formed, and what opened a run opens it again.       *)
THEOREM Admissions == Spec => []RunsStayAdmissible
<1>1. IInv => TypeOK
  <2> SUFFICES ASSUME IInv PROVE TypeOK
    OBVIOUS
  <2>1. Types /\ RunsKept /\ Bound
    BY DEF IInv
  <2>2. proc # Idle => Exists(proc.feature) /\ proc.task \subseteq DOMAIN proc.terms
    BY <2>1 DEF Bound
  <2> QED BY <2>1, <2>2 DEF TypeOK, Types, RunsKept
<1>2. IInv => SameRequestAdmitted
  <2> SUFFICES ASSUME IInv, NEW f \in Features, TurnedAway(f),
                      \A t \in DOMAIN run[f].status : ~Amended(run[f], t)
               PROVE  FALSE
    BY DEF SameRequestAdmitted
  <2>1. Exists(f) /\ calm[f]
        /\ ~AdmitsResume([run[f].by EXCEPT !.resume = TRUE, !.recover = {}])
    BY DEF TurnedAway
  <2>2. AsRequested(f)
    BY <2>1 DEF IInv, CalmAgrees
  <2> QED BY <2>1, <2>2, RequestRepeats DEF IInv
<1> QED BY <1>1, <1>2, AlwaysKept, PTL DEF RunsStayAdmissible
=============================================================================
