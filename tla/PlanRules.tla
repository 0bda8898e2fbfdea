------------------------------ MODULE PlanRules ------------------------------
(***************************************************************************)
(* How an execute request becomes a plan, and when a plan may continue a   *)
(* recorded run: the task graph (domain/graph.py), selection               *)
(* (application/selection.py), compile_run_plan                            *)
(* (application/compile_plan.py), adapter resolution                       *)
(* (pipeline_core/adapter_resolution.py), amendments                       *)
(* (pipeline_core/plan.py) and the plan fingerprint                        *)
(* (pipeline_core/execution.py).  All of it is pure.                       *)
(*                                                                         *)
(* A plan is the sequence of its task files in the order it lists them.    *)
(* Of a task file the rules tell apart: its dependencies, the storage tree *)
(* its type is routed to, its allowed scope, its repair bound, whether it  *)
(* needs a published ref, and everything else (body).                      *)
(***************************************************************************)
EXTENDS Naturals, Sequences, FiniteSets

CONSTANT NoBound              \* the bound an amendment leaves out

Ids(plan) == {plan[i].id : i \in DOMAIN plan}
TaskOf(plan, t) == plan[CHOOSE i \in DOMAIN plan : plan[i].id = t]
Listed(s) == {s[i] : i \in DOMAIN s}

(* s without the elements outside S: the k-th of what is kept comes k-th.  *)
Kept(s, S) == {i \in DOMAIN s : s[i] \in S}
Rank(s, S, i) == Cardinality({j \in Kept(s, S) : j <= i})
Only(s, S) ==
    [k \in 1..Cardinality(Kept(s, S)) |->
        s[CHOOSE i \in Kept(s, S) : Rank(s, S, i) = k]]

---------------------------------------------------------------------------
(* TaskGraph                                                               *)

(* Among the tasks whose dependencies are scheduled, the one listed first. *)
NextReady(plan, done) ==
    {i \in DOMAIN plan : plan[i].id \notin Listed(done) /\ plan[i].deps \subseteq Listed(done)}

(* One pass drains the graph; what a cycle holds back is missing from it.  *)
Drained(plan) ==
    LET pass[k \in 0..Len(plan)] ==
            IF k = 0 THEN << >>
            ELSE LET ready == NextReady(plan, pass[k - 1])
                 IN  IF ready = {} THEN pass[k - 1]
                     ELSE Append(pass[k - 1],
                                 plan[CHOOSE i \in ready : \A j \in ready : i <= j].id)
    IN  pass[Len(plan)]

ValidGraph(plan) ==
    /\ \A i, j \in DOMAIN plan : plan[i].id = plan[j].id => i = j
    /\ \A i \in DOMAIN plan : plan[i].deps \subseteq Ids(plan) \ {plan[i].id}
    /\ Drained(plan) \in [DOMAIN plan -> Ids(plan)]    \* every task has drained

(* Every transitive dependency of S, and S.                                *)
Closure(plan, S) ==
    LET reach[k \in 0..Len(plan)] ==
            IF k = 0 THEN S
            ELSE reach[k - 1] \cup UNION {TaskOf(plan, t).deps : t \in reach[k - 1]}
    IN  reach[Len(plan)]

(* --task, --through or neither.  A prefix must hold its own closure.      *)
SelectionLoads(plan, sel) ==
    /\ sel.mode # "all" => sel.id \in Ids(plan)
    /\ sel.mode = "through" =>
           LET cut == CHOOSE i \in DOMAIN plan : plan[i].id = sel.id
               prefix == {plan[i].id : i \in 1..cut}
           IN  Closure(plan, prefix) = prefix

Selected(plan, sel) ==
    CASE sel.mode = "task" -> <<sel.id>>
      [] sel.mode = "through" ->
           [i \in 1..(CHOOSE j \in DOMAIN plan : plan[j].id = sel.id) |-> plan[i].id]
      [] OTHER -> [i \in DOMAIN plan |-> plan[i].id]

---------------------------------------------------------------------------
(* Adapters, in the order auto prefers them.                               *)
Known == <<"claude", "codex">>
AutoAdapter == "auto"
NoModel == "none"

(* resolve_adapter at launch time: what is asked for, or the first of the  *)
(* available ones; nothing is put in its place.                            *)
Resolvable(requested, available) ==
    IF requested = AutoAdapter THEN available # {} ELSE requested \in available

FirstAvailable(available) ==
    IF Known[1] \in available \/ available = {} THEN Known[1] ELSE Known[2]

(* The compiler picks the adapter without asking whether it can run.       *)
Chosen(requested, available) ==
    IF requested = AutoAdapter THEN FirstAvailable(available) ELSE requested

(* The one model each adapter takes; it is given with its effort or not at *)
(* all (q.model is the pair; half a pair does not parse).                  *)
Supports(adapter, model) ==
    \/ model = NoModel
    \/ adapter = "claude" /\ model = "sonnet"
    \/ adapter = "codex"  /\ model = "terra"

---------------------------------------------------------------------------
(* compile_run_plan                                                        *)

(* A control that was given is explicit, and so is a bound given to all.   *)
Sourced(value, given) == [value |-> value, explicit |-> given]

CompiledTask(d, q) ==
    [deps |-> d.deps, root |-> d.root, needs |-> d.needs,
     bound |-> Sourced(IF q.repair # NoBound THEN q.repair ELSE d.bound, q.repair # NoBound)]

Scope(plan, sel) ==
    Only(Drained(plan), Closure(plan, Listed(Selected(plan, sel))))

Compiles(plan, q, available) ==
    /\ ValidGraph(plan)
    /\ SelectionLoads(plan, q.sel)
    /\ Supports(Chosen(q.adapter, available), q.model)
    /\ Cardinality({TaskOf(plan, t).root : t \in Listed(Scope(plan, q.sel))}) <= 1

(* CompiledRunPlan, as far as _plan_fingerprint writes it down.            *)
Compile(plan, q, available) ==
    LET scope == Scope(plan, q.sel)
    IN  [mode      |-> q.sel.mode,
         selection |-> Selected(plan, q.sel),
         scope     |-> scope,
         order     |-> scope,
         requested |-> Sourced(q.adapter, q.adapter # AutoAdapter),
         adapter   |-> Chosen(q.adapter, available),
         model     |-> Sourced(q.model, q.model # NoModel),
         chain     |-> Sourced(q.chain, q.chain),
         tasks     |-> [t \in Listed(scope) |-> CompiledTask(TaskOf(plan, t), q)]]

(* _ensure_plan_compatible: the plan compiled now, with the bounds of the  *)
(* approved amendments written over it, against the recorded one.  A       *)
(* narrower scope is let through, but not the fields of the tasks it       *)
(* loses.                                                                  *)
Overlaid(print, bounds) ==
    [print EXCEPT !.tasks = [t \in DOMAIN print.tasks |->
        IF t \in DOMAIN bounds THEN [print.tasks[t] EXCEPT !.bound = Sourced(bounds[t], FALSE)]
        ELSE print.tasks[t]]]

Compatible(recorded, recordedScope, now) ==
    /\ [recorded EXCEPT !.scope = now.scope, !.order = now.order] = now
    /\ Only(recorded.order, Listed(now.scope)) = now.order
    /\ Listed(now.scope) \subseteq Listed(recordedScope) \/ recorded.scope = now.scope

---------------------------------------------------------------------------
(* Amendments.  A contract is a function on the fields it names.           *)
Amendable == {"scope", "bound"}
Unsafe == {"outside"}         \* escapes the repository, or a control plane

Canonical(c) ==
    [scope |-> IF "scope" \in DOMAIN c THEN c.scope ELSE {},
     bound |-> IF "bound" \in DOMAIN c THEN c.bound ELSE NoBound]

(* build_amendment_revision: the words (rationale, approval, evidence) are *)
(* there, only amendable fields are named, no new path is unsafe, and      *)
(* something changes.  The prior contract is the caller's word for it.     *)
AmendmentLoads(status, a) ==
    /\ status # "done"
    /\ a.words
    /\ DOMAIN a.prior \cup DOMAIN a.new \subseteq Amendable
    /\ (Canonical(a.new).scope \ Canonical(a.prior).scope) \cap Unsafe = {}
    /\ a.added \cap Unsafe = {}
    /\ Canonical(a.prior) # Canonical(a.new)

(* classify_baseline_failure, for a command that failed where it can run.  *)
Baseline(path, scope) ==
    IF path \in scope THEN "task_attributable" ELSE "amendment_required"
=============================================================================
