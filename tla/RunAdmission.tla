---------------------------- MODULE RunAdmission ----------------------------
(***************************************************************************)
(* Which request may open which run, and under which terms its tasks are   *)
(* launched: bootstrap.run_execute and the opening half of                 *)
(* pipeline_core/execution.py, with run_amend and the recovery of a run    *)
(* whose only launch failed.  A run is opened afresh, resumed (from        *)
(* run.json alone), amended by a human while nobody executes it, or        *)
(* replaced by a linked run.  Between these the task files are edited, the *)
(* repository moves on, adapters come and go, and any process may crash.   *)
(*                                                                         *)
(* One invocation is alive at a time here (RunExecution lets several race  *)
(* for the lease), no evidence of other runs is reusable, and a repair is  *)
(* a launch like any other (TaskLoop).                                     *)
(***************************************************************************)
EXTENDS PlanRules

CONSTANTS Order,        \* the task ids in the order the plan lists them
          Drafts,       \* what each task file may say: [id -> sequence of drafts]
          Requests,     \* the command lines that are tried
          Amendments,   \* the amendment files that are tried
          Heads,        \* commits the precondition ref may stand at
          Source,       \* a feature
          Replacement,  \* replacement_feature(Source, "codex")
          MaxCalls,     \* bound: invocations
          MaxChanges,   \* bound: edits, moves of the head, adapters coming or going
          MaxAmends     \* bound: amendments

Tasks == Listed(Order)
Features == {Source, Replacement}
Paths == UNION {d.scope : d \in UNION {Listed(Drafts[t]) : t \in Tasks}}
             \cup UNION {Canonical(a.new).scope : a \in Amendments}

ASSUME AdmissionAssumption ==
    /\ Source # Replacement
    /\ Order \in Seq(Tasks)
    /\ \A t \in Tasks :
          /\ Drafts[t] \in Seq(Listed(Drafts[t])) /\ Drafts[t] # << >>
          /\ \A d \in Listed(Drafts[t]) : d.id = t
    /\ \A q \in Requests :
          /\ DOMAIN q = {"feature", "resume", "opened", "sel", "adapter", "model",
                         "chain", "repair", "runtime", "recover"}
          /\ q.feature \in Features /\ q.resume \in BOOLEAN /\ q.chain \in BOOLEAN
    /\ MaxCalls \in Nat /\ MaxChanges \in Nat /\ MaxAmends \in Nat

VARIABLES file,      \* the draft each task file holds
          available, \* adapters that can run here
          head,      \* commit of the ref that preconditions name
          run,       \* run.json of each feature, with the files beside it
          proc,      \* the invocation that is alive
          lock,      \* the pipeline lock file exists
          locks,     \* tasks whose lock file exists
          landed,    \* history: <<feature, task>> whose changes reached the tree
          calm,      \* history: nothing changed since the feature was last opened
          calls, changes, amends

vars == <<file, available, head, run, proc, lock, locks, landed, calm, calls, changes, amends>>
inputs == <<file, available, head>>
bounds == <<calls, changes, amends>>

NoRun == [state |-> "absent"]
Idle == [stage |-> "none"]
NoRef == "none"
Exists(f) == run[f] # NoRun

Plan == [i \in DOMAIN Order |-> file[Order[i]]]

Init ==
    /\ file = [t \in Tasks |-> Drafts[t][1]]
    /\ available = {"claude", "codex"}
    /\ head \in Heads
    /\ run = [f \in Features |-> NoRun]
    /\ proc = Idle
    /\ lock = FALSE /\ locks = {} /\ landed = {}
    /\ calm = [f \in Features |-> FALSE]
    /\ calls = 0 /\ changes = 0 /\ amends = 0

---------------------------------------------------------------------------
(* The terms of a task: its file, with a bound that was given to all tasks *)
(* or with the latest approved amendment written over it.                  *)
Terms(q, t) ==
    LET d == file[t]
    IN  [deps |-> d.deps, scope |-> d.scope, needs |-> d.needs, body |-> d.body,
         bound |-> IF q.repair # NoBound THEN q.repair ELSE d.bound]

Latest(r, t) == r.revs[t][Len(r.revs[t])]
Amended(r, t) == t \in DOMAIN r.revs /\ r.revs[t] # << >>

Effective(r, q, t) ==
    IF Amended(r, t)
    THEN [Terms(q, t) EXCEPT !.scope = Latest(r, t).scope, !.bound = Latest(r, t).bound]
    ELSE Terms(q, t)

\* Mutant: the digest leaves the body out.
BodylessDigest(r, t, terms) ==
    Amended(r, t) \/ \E c \in r.contract[t] : [c EXCEPT !.body = terms.body] = terms

(* task_contract_digest of the terms is the recorded one.  An amended task *)
(* is held to the amendment alone, which Effective has just applied.       *)
ContractMatches(r, t, terms) == Amended(r, t) \/ r.contract[t] = {terms}

(* bind_refs: the commit, when a task in the scope needs it.               *)
Binding(scope) == IF \E t \in Listed(scope) : file[t].needs THEN head ELSE NoRef

\* Mutant: the runtime is not completed.
RuntimeLeftOut(r, q) ==
    [q EXCEPT !.adapter = IF q.adapter = AutoAdapter /\ r.requested # AutoAdapter THEN r.requested ELSE q.adapter,
              !.model = IF q.model = NoModel THEN r.model ELSE q.model]

(* run_execute completes a resume from run.json before it compiles again:  *)
(* a named adapter, the model with its effort, the runtime.  The chain     *)
(* policy it leaves as it was given.                                       *)
Hydrated(r, q) ==
    [q EXCEPT !.adapter = IF q.adapter = AutoAdapter /\ r.requested # AutoAdapter THEN r.requested ELSE q.adapter,
              !.model = IF q.model = NoModel THEN r.model ELSE q.model,
              !.runtime = IF q.runtime = "unset" THEN r.runtime ELSE q.runtime]

(* _resolve_unset_dependency_chain_control, after the plan was compiled.   *)
ChainOf(r, q) == q.chain \/ r.chain

---------------------------------------------------------------------------
\* Mutant: the files beside run.json are not looked at.
ReportsFailure(r, t) == Len(r.failed[t]) = 1

(* recovery_provenance: the source is a run that launched one executor for *)
(* the task, which failed, and kept nothing else; the codex adapter takes  *)
(* over under the derived name.                                            *)
OnlyOneFailure(r, t) ==
    /\ Len(r.failed[t]) = 1
    /\ LET g == r.failed[t][1]
           must == {<<t, "prompt", g>>, <<t, "failure", g>>}
       IN  r.files \in {must, must \cup {<<t, "report", g>>}}

MayReplace(q, t) ==
    LET r == run[Source]
    IN  /\ q.adapter = "codex" /\ q.sel = [mode |-> "task", id |-> t]
        /\ Exists(Source) /\ ~Exists(Replacement)
        /\ r.state = "running" /\ t \in DOMAIN r.status /\ r.status[t] = "in_progress"
        /\ ~lock /\ t \notin locks
        /\ r.origin = {} /\ t \notin r.evidence
        /\ OnlyOneFailure(r, t)

(* Every condition execute_run has before it creates the run.              *)
AdmitsFresh(q) ==
    /\ ~q.resume /\ q.opened
    /\ ~Exists(q.feature)
    /\ Compiles(Plan, q, available) /\ Resolvable(q.adapter, available)
    /\ IF q.recover = {} THEN q.feature = Source
       ELSE q.feature = Replacement /\ \A t \in q.recover : MayReplace(q, t)

(* initialize: run.json with its controls, before the task contracts.      *)
NewRun(q) ==
    LET plan == Compile(Plan, q, available)
        T == Listed(plan.scope)
    IN  [state |-> "running", scope |-> plan.scope, print |-> plan,
         requested |-> q.adapter, adapter |-> plan.adapter,
         model |-> q.model, chain |-> q.chain,
         runtime |-> IF q.runtime = "unset" THEN "host" ELSE q.runtime,
         bind |-> Binding(plan.scope),
         status |-> [t \in T |-> "to_do"],
         contract |-> [t \in T |-> {}], revs |-> [t \in T |-> << >>],
         gen |-> [t \in T |-> 1], failed |-> [t \in T |-> << >>],
         files |-> {}, evidence |-> {}, pending |-> {}, origin |-> q.recover,
         pledge |-> [t \in T |-> Terms(q, t)],        \* history
         by |-> q]                                    \* history

(* What the invocation works out once and holds from then on.              *)
Opening(q, terms) ==
    LET plan == Compile(Plan, q, available)
    IN  [stage |-> "opening", feature |-> q.feature, resume |-> q.resume, plan |-> plan,
         bind |-> Binding(plan.scope), asked |-> q, terms |-> terms, task |-> {}]

Fresh(q) ==
    /\ proc = Idle /\ calls < MaxCalls /\ AdmitsFresh(q)
    /\ run' = [run EXCEPT ![q.feature] = NewRun(q)]
    /\ proc' = Opening(q, NewRun(q).pledge)
    /\ calm' = [calm EXCEPT ![q.feature] = FALSE]
    /\ calls' = calls + 1
    /\ UNCHANGED <<inputs, lock, locks, landed, changes, amends>>

---------------------------------------------------------------------------
(* Resume                                                                  *)

\* Mutant: the runtime is not compared.
AnyRuntime(r, q, scope) ==
    /\ r.scope = scope
    /\ r.chain = ChainOf(r, q)
    /\ r.model = q.model

(* _ensure_execution_controls_match                                        *)
ControlsMatch(r, q, scope) ==
    /\ \/ r.scope = scope
       \/ /\ Listed(scope) \subseteq Listed(r.scope)
          /\ \A t \in Listed(r.scope) \ Listed(scope) :
                t \in DOMAIN r.status => r.status[t] = "done"
    /\ r.chain = ChainOf(r, q)
    /\ r.model = q.model
    /\ r.runtime = q.runtime

AmendedBounds(r, q) ==
    [t \in {u \in Tasks : Amended(r, u)} |-> Effective(r, q, t).bound]

(* RunLifecycle._check_task_set, for the tasks of the scope the run has.   *)
TaskSetMatches(r, scope) ==
    LET here == Listed(scope) \cap DOMAIN r.status
    IN  /\ \A t \in DOMAIN r.status \ here : r.status[t] = "done"
        /\ \A t \in here : file[t].deps \cap here = r.print.tasks[t].deps \cap here

(* _validate_same_run_launch_recovery, when the resume names its own run   *)
(* and a task: the latest launch failed and left its diagnostic.           *)
OwnRecovery(r, q, t, plan) ==
    /\ q.sel = [mode |-> "task", id |-> t] /\ plan.scope = <<t>>
    /\ r.state = "running" /\ t \in DOMAIN r.status /\ r.status[t] = "in_progress"
    /\ plan.adapter = r.adapter
    /\ ~Amended(r, t) /\ r.contract[t] = {Terms(q, t)}
    /\ Compatible(r.print, r.scope, plan)
    /\ t \notin r.evidence
    /\ r.failed[t] # << >>
    /\ LET g == r.failed[t][Len(r.failed[t])]
       IN  g = r.gen[t] - 1 /\ <<t, "failure", g>> \in r.files

(* Everything a resume is held to.  ensure_pinned_adapter comes after a    *)
(* save, which changes nothing here: no status is rolled back.             *)
AdmitsResume(q) ==
    /\ q.resume /\ q.opened /\ Exists(q.feature)
    /\ LET r == run[q.feature]
           h == Hydrated(r, q)
           plan == Compile(Plan, h, available)
       IN  /\ Compiles(Plan, q, available) /\ Compiles(Plan, h, available)
           /\ Resolvable(h.adapter, available)
           /\ \A t \in q.recover : OwnRecovery(r, h, t, plan)
           /\ ControlsMatch(r, h, plan.scope)
           /\ \A t \in DOMAIN r.status : ContractMatches(r, t, Effective(r, h, t))
           /\ r.bind = Binding(plan.scope)
           /\ Compatible(r.print, r.scope, Overlaid(plan, AmendedBounds(r, h)))
           /\ TaskSetMatches(r, plan.scope)
           /\ r.adapter = plan.adapter

Resume(q) ==
    /\ proc = Idle /\ calls < MaxCalls /\ AdmitsResume(q)
    /\ LET r == run[q.feature]
           h == Hydrated(r, q)
           plan == Compile(Plan, h, available)
       IN  proc' = Opening(h, [t \in Listed(plan.scope) |-> Effective(r, h, t)])
    /\ calm' = [calm EXCEPT ![q.feature] = FALSE]
    /\ run' = [run EXCEPT ![q.feature].by = q]
    /\ calls' = calls + 1
    /\ UNCHANGED <<inputs, lock, locks, landed, changes, amends>>

(* An explicit control and every fact of the plan are written over the     *)
(* recorded ones: what the plan says, not what the amendments made of it.  *)
Rewritten(r, q) ==
    [r EXCEPT !.scope = proc.plan.scope,
              !.print = proc.plan,
              !.chain = ChainOf(r, q),
              !.model = IF q.model # NoModel THEN q.model ELSE @,
              !.runtime = IF q.runtime # "unset" THEN q.runtime ELSE @,
              !.bind = proc.bind]

(* persist_task_contracts leaves the digest of an approved amendment.      *)
Contracted(r) ==
    [r EXCEPT !.contract = [t \in DOMAIN r.contract |->
        IF t \in DOMAIN proc.terms /\ ~Amended(r, t) THEN {proc.terms[t]} ELSE r.contract[t]]]

Leave == proc' = Idle

(* The rest of _open_run: contracts, the adapter, and the save.            *)
Persist ==
    /\ proc.stage = "opening"
    /\ LET f == proc.feature
           q == proc.asked
           r == IF proc.resume THEN Rewritten(run[f], q) ELSE run[f]
       IN  /\ run' = [run EXCEPT ![f] =
                [Contracted(r) EXCEPT !.requested = q.adapter, !.adapter = proc.plan.adapter]]
           /\ calm' = [calm EXCEPT ![f] = TRUE]
    /\ proc' = [proc EXCEPT !.stage = "opened"]
    /\ UNCHANGED <<inputs, lock, locks, landed, bounds>>

---------------------------------------------------------------------------
(* Execution, as far as admission depends on what it leaves behind         *)

(* evaluate_preconditions: the published ref is read anew each time.       *)
Unmet(t, seen) == proc.terms[t].needs /\ seen # run[proc.feature].bind

Done(r) == {t \in DOMAIN r.status : r.status[t] = "done"}

(* A resume looks at the preconditions of what is done before it goes on.  *)
DoneTaskBlocks ==
    /\ proc.stage = "opened" /\ proc.resume
    /\ \E t \in Listed(proc.plan.scope) \cap Done(run[proc.feature]), seen \in Heads : Unmet(t, seen)
    /\ Leave
    /\ UNCHANGED <<inputs, run, lock, locks, landed, calm, bounds>>

(* The lease of a dead holder is reclaimed.                                *)
Acquire ==
    /\ proc.stage = "opened"
    /\ lock' = TRUE
    /\ proc' = [proc EXCEPT !.stage = "running"]
    /\ UNCHANGED <<inputs, run, locks, landed, calm, bounds>>

(* _next_actionable                                                        *)
Actionable(r) ==
    {t \in Listed(proc.plan.scope) \ Done(r) :
        r.print.tasks[t].deps \cap DOMAIN r.status \subseteq Done(r)}

Position(t) == CHOOSE i \in DOMAIN Order : Order[i] = t
Next1(t) ==
    /\ proc.stage = "running"
    /\ t \in Actionable(run[proc.feature])
    /\ \A u \in Actionable(run[proc.feature]) : Position(t) <= Position(u)

Stop == Leave /\ lock' = FALSE /\ locks' = locks \ proc.task

(* _prepare_executor: the wait is recorded, which starts the task.         *)
Waits(t) ==
    /\ Next1(t) /\ \E seen \in Heads : Unmet(t, seen)
    /\ run' = [run EXCEPT ![proc.feature].status[t] = "in_progress"]
    /\ Stop
    /\ UNCHANGED <<inputs, landed, calm, bounds>>

Take(t) ==
    /\ Next1(t) /\ \E seen \in Heads : ~Unmet(t, seen)
    /\ locks' = locks \cup {t}
    /\ proc' = [proc EXCEPT !.task = {t},
                  !.stage = IF t \in run[proc.feature].pending THEN "review" ELSE "baseline"]
    /\ run' = [run EXCEPT ![proc.feature].status[t] = "in_progress"]
    /\ UNCHANGED <<inputs, lock, landed, calm, bounds>>

(* diagnose_baseline: a declared check fails on a path.                    *)
AmendmentRequired(t) ==
    /\ proc.stage = "baseline" /\ proc.task = {t}
    /\ \E p \in Paths : Baseline(p, proc.terms[t].scope) = "amendment_required"
    /\ Stop
    /\ UNCHANGED <<inputs, run, landed, calm, bounds>>

(* dispatch_executor up to the launch: the generation is consumed and the  *)
(* prompt written beside run.json.                                         *)
Launch(t) ==
    /\ proc.stage = "baseline" /\ proc.task = {t}
    /\ LET f == proc.feature
           g == run[f].gen[t]
       IN  run' = [run EXCEPT ![f].gen[t] = @ + 1,
                              ![f].files = @ \cup {<<t, "prompt", g>>}]
    /\ proc' = [proc EXCEPT !.stage = "launched"]
    /\ UNCHANGED <<inputs, lock, locks, landed, calm, bounds>>

Generation(t) == run[proc.feature].gen[t] - 1

(* _retryable_failure: nothing of the disposable copy is taken over.       *)
LaunchFails(t) ==
    /\ proc.stage = "launched" /\ proc.task = {t}
    /\ \E report \in SUBSET {"report"}, diagnostic \in {"failure", "protocol"} :
          run' = [run EXCEPT ![proc.feature].failed[t] = Append(@, Generation(t)),
                             ![proc.feature].files =
                                 @ \cup {<<t, k, Generation(t)>> : k \in report \cup {diagnostic}}]
    /\ Stop
    /\ UNCHANGED <<inputs, landed, calm, bounds>>

(* Report, manifest and diff are written, then the changes promoted into   *)
(* the tree; run.json follows with the next save.                          *)
Promote(t) ==
    /\ proc.stage = "launched" /\ proc.task = {t}
    /\ run' = [run EXCEPT ![proc.feature].files =
                    @ \cup {<<t, k, Generation(t)>> : k \in {"report", "window"}}]
    /\ landed' = landed \cup {<<proc.feature, t>>}
    /\ proc' = [proc EXCEPT !.stage = "promoted"]
    /\ UNCHANGED <<inputs, lock, locks, calm, bounds>>

Record(t) ==
    /\ proc.stage = "promoted" /\ proc.task = {t}
    /\ run' = [run EXCEPT ![proc.feature].evidence = @ \cup {t},
                          ![proc.feature].pending = @ \cup {t}]
    /\ proc' = [proc EXCEPT !.stage = "review"]
    /\ UNCHANGED <<inputs, lock, locks, landed, calm, bounds>>

Verified(t) ==
    /\ proc.stage = "review" /\ proc.task = {t}
    /\ run' = [run EXCEPT ![proc.feature].status[t] = "done",
                          ![proc.feature].pending = @ \ {t}]
    /\ locks' = locks \ {t}
    /\ proc' = [proc EXCEPT !.stage = "running", !.task = {}]
    /\ UNCHANGED <<inputs, lock, landed, calm, bounds>>

NotVerified(t) ==
    /\ proc.stage = "review" /\ proc.task = {t}
    /\ \E waiting \in BOOLEAN :
          run' = [run EXCEPT ![proc.feature].pending = IF waiting THEN @ ELSE @ \ {t}]
    /\ Stop
    /\ UNCHANGED <<inputs, landed, calm, bounds>>

Finish ==
    /\ proc.stage = "running" /\ Actionable(run[proc.feature]) = {}
    /\ run' = [run EXCEPT ![proc.feature].state =
                  IF Listed(proc.plan.scope) \subseteq Done(run[proc.feature]) THEN "verified" ELSE @]
    /\ Stop
    /\ UNCHANGED <<inputs, landed, calm, bounds>>

(* The process dies; its lock files stay.                                  *)
Crash ==
    /\ proc # Idle
    /\ Leave
    /\ UNCHANGED <<inputs, run, lock, locks, landed, calm, bounds>>

(* A run of another feature reclaims the dead leases and releases them.    *)
Reclaimed ==
    /\ proc = Idle /\ lock
    /\ lock' = FALSE
    /\ locks' \in SUBSET locks
    /\ UNCHANGED <<inputs, run, proc, landed, calm, bounds>>
---------------------------------------------------------------------------
(* The world between and during invocations                                *)

(* run_amend: the revision is appended, the contract digest becomes the    *)
(* amendment's, and a bound it names is written into the fingerprint.      *)
Amend(f, t, a) ==
    /\ proc = Idle /\ amends < MaxAmends
    /\ Exists(f) /\ t \in DOMAIN run[f].status
    /\ AmendmentLoads(run[f].status[t], a)
    /\ LET new == Canonical(a.new)
           r == [run[f] EXCEPT !.revs[t] = Append(@, new), !.contract[t] = {}, !.pending = @ \ {t},
                               !.pledge[t].scope = new.scope, !.pledge[t].bound = new.bound]
       IN  run' = [run EXCEPT ![f] =
                IF "bound" \in DOMAIN a.new
                THEN [r EXCEPT !.print.tasks[t].bound = Sourced(new.bound, FALSE)] ELSE r]
    /\ calm' = [calm EXCEPT ![f] = FALSE]
    /\ amends' = amends + 1
    /\ UNCHANGED <<inputs, proc, lock, locks, landed, calls, changes>>

(* A live invocation has read its inputs: what changes under it is for the *)
(* next one to see, and waits for it here.                                 *)
Disturb ==
    /\ proc = Idle /\ changes < MaxChanges
    /\ calm' = [f \in Features |-> FALSE]
    /\ changes' = changes + 1

Edit(t) ==
    /\ \E d \in Listed(Drafts[t]) \ {file[t]} : file' = [file EXCEPT ![t] = d]
    /\ Disturb
    /\ UNCHANGED <<available, head, run, proc, lock, locks, landed, calls, amends>>

MoveHead ==
    /\ head' \in Heads \ {head}
    /\ Disturb
    /\ UNCHANGED <<file, available, run, proc, lock, locks, landed, calls, amends>>

ComeOrGo ==
    /\ available' \in SUBSET Listed(Known) \ {available}
    /\ Disturb
    /\ UNCHANGED <<file, head, run, proc, lock, locks, landed, calls, amends>>

Open(q) == Fresh(q) \/ Resume(q)

Turn(t) ==
    \/ Waits(t) \/ Take(t) \/ AmendmentRequired(t) \/ Launch(t) \/ LaunchFails(t)
    \/ Promote(t) \/ Record(t) \/ Verified(t) \/ NotVerified(t)

Next ==
    \/ \E q \in Requests : Open(q)
    \/ Persist \/ DoneTaskBlocks \/ Acquire \/ Finish \/ Crash \/ Reclaimed
    \/ \E t \in Tasks : Turn(t) \/ Edit(t)
    \/ \E f \in Features, t \in Tasks, a \in Amendments : Amend(f, t, a)
    \/ MoveHead \/ ComeOrGo

Spec == Init /\ [][Next]_vars

---------------------------------------------------------------------------
(* Properties                                                              *)

RunOK(r) ==
    LET T == DOMAIN r.status
    IN  /\ r.state \in {"running", "verified"} /\ T \subseteq Tasks /\ Listed(r.scope) = T
        /\ \A t \in T : r.status[t] \in {"to_do", "in_progress", "done"}
        /\ \A t \in T : Cardinality(r.contract[t]) <= 1
        /\ r.pending \subseteq r.evidence /\ r.evidence \subseteq T
        /\ \A t \in T : Listed(r.failed[t]) \subseteq 1..(r.gen[t] - 1)
        /\ r.adapter \in Listed(Known) /\ r.bind \in Heads \cup {NoRef}

(* run.json is well formed whatever opened, amended or abandoned it: a     *)
(* task carries at most one contract, and every failed launch it lists has *)
(* consumed its generation.                                                *)
TypeOK ==
    /\ \A t \in Tasks : file[t] \in Listed(Drafts[t])
    /\ available \subseteq Listed(Known) /\ head \in Heads
    /\ \A f \in Features : Exists(f) => RunOK(run[f])
    /\ proc # Idle => Exists(proc.feature) /\ proc.task \subseteq DOMAIN proc.terms
    /\ lock \in BOOLEAN /\ locks \subseteq Tasks
    /\ landed \subseteq Features \X Tasks

Launches(f, t) ==
    Exists(f) /\ t \in DOMAIN run[f].gen /\ run'[f].gen[t] > run[f].gen[t]

(* Every launch of a task is under the scope and the repair bound it was   *)
(* given when the run was created or by the latest amendment, and, until a *)
(* first amendment, under the whole contract of its creation - however the *)
(* task files were edited and whatever bound a resume asked for.           *)
GovernedByRecord ==
    [][\A f \in Features, t \in Tasks : Launches(f, t) =>
          LET now == proc.terms[t]
              promised == run[f].pledge[t]
          IN  /\ now.scope = promised.scope /\ now.bound = promised.bound
              /\ ~Amended(run[f], t) => now = promised]_vars

(* No resume, bare or with flags of its own, after any change of the       *)
(* machine or the repository, gives a run another adapter, model, runtime, *)
(* chain policy, selection or ref binding than it was created with.        *)
Fixed(r) ==
    <<r.adapter, r.requested, r.model, r.runtime, r.chain, r.bind, r.print.selection, r.scope>>
ControlsImmutable ==
    [][\A f \in Features : Exists(f) => Fixed(run'[f]) = Fixed(run[f])]_vars

(* A replacement run is only created when nothing an executor of the       *)
(* replaced task did has reached the tree, also when the process died      *)
(* between promoting the changes and recording them and another run has    *)
(* cleared its leases away.                                                *)
NeverReplacesWork ==
    [][~Exists(Replacement) /\ run'[Replacement] # NoRun =>
          \A t \in run'[Replacement].origin : <<Source, t>> \notin landed]_vars

(* f was opened, nothing was edited, moved, amended or missing since, and  *)
(* the command line that opened it would be refused if it were repeated    *)
(* with --resume.                                                          *)
TurnedAway(f) ==
    /\ proc = Idle /\ Exists(f) /\ calm[f]
    /\ ~AdmitsResume([run[f].by EXCEPT !.resume = TRUE, !.recover = {}])

(* What an unchanged run admitted once it admits again, also after the     *)
(* crash of whatever it was doing, as long as it was never amended.        *)
SameRequestAdmitted ==
    \A f \in Features : TurnedAway(f) => \E t \in DOMAIN run[f].status : Amended(run[f], t)

(* run.json stays well formed, and what is in it stays admissible.         *)
RunsStayAdmissible == TypeOK /\ SameRequestAdmitted

(* NOT an invariant (run it with admission_amended.cfg).                   *)
(* run_amend keeps "the strict-resume fingerprint aligned with             *)
(* amendment-governed repair policy" (cli/use_cases.py), so that an        *)
(* amended run that was resumed can be resumed again.                      *)
AmendedRunResumes == \A f \in Features : ~TurnedAway(f)
=============================================================================
