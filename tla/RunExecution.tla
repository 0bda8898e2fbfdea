---------------------------- MODULE RunExecution ----------------------------
(***************************************************************************)
(* Several invocations of the runner on one run directory: execute_run     *)
(* opens or resumes the run, takes the pipeline lease, dispatches the      *)
(* scope in dependency order and ends (pipeline_core/execution.py,         *)
(* lifecycle.py), while run_amend and run_live_probe may rewrite the same  *)
(* run.json (cli/use_cases.py).                                            *)
(*                                                                         *)
(* disk is run.json; mem[r] is the copy invocation r loaded or created.    *)
(* Run.save writes the whole copy, whoever saved in between.  The lease    *)
(* is used as Mutex promises it; FileLease is how it is made.  A task's    *)
(* repairs and gates are in TaskLoop: here a turn is one executor window   *)
(* that ends in a verified task or ends the invocation.                    *)
(***************************************************************************)
EXTENDS Naturals

CONSTANTS
    Runner,      \* invocations
    Nobody,      \* the lease is free
    Task,        \* the tasks of the plan
    NoTask,      \* no task, and no replacement
    Rank,        \* position in the authored plan
    DependsOn,   \* declared dependencies
    ReplacedBy,  \* the task that declares to supersede this one, or NoTask
    Selected,    \* the tasks --task, --through or neither selects
    Elsewhere,   \* tasks that other runs have verified
    MaxGen,      \* bound: executor windows of a task
    MaxRev       \* bound: amendment revisions of a task

(* u ends the chain of replacements that begins with t: it is replaced by  *)
(* nothing, and belongs to every set that holds t and what replaces its    *)
(* members.                                                                *)
Final(t, u) ==
    /\ ReplacedBy[u] = NoTask
    /\ \A c \in SUBSET Task :
          t \in c /\ (\A v \in c : ReplacedBy[v] \in c \cup {NoTask}) => u \in c

ASSUME PlanAssumption ==
    /\ NoTask \notin Task /\ Nobody \notin Runner
    /\ Rank \in [Task -> Nat]
    /\ \A t, u \in Task : Rank[t] = Rank[u] => t = u
    /\ DependsOn \in [Task -> SUBSET Task]
    /\ ReplacedBy \in [Task -> Task \cup {NoTask}]
    /\ \A t \in Task : \E u \in Task : Final(t, u)   \* cycles are refused
    /\ Selected \subseteq Task /\ Selected # {}
    /\ Elsewhere \subseteq Task

(* Cycles of dependencies are refused (graph.py): the tasks of the plan    *)
(* can be drained in an order that puts each one behind what it needs.     *)
Topological(order) == \A t \in Task : \A d \in DependsOn[t] : order[d] < order[t]
ASSUME OrderAssumption ==
    \E order \in [Task -> {Rank[t] : t \in Task}] : Topological(order)

ASSUME BoundsAssumption == MaxGen \in [Task -> Nat] /\ MaxRev \in [Task -> Nat]

VARIABLES
    disk,      \* run.json
    mem,       \* mem[r]: the copy of invocation r
    pc,        \* pc[r]: where invocation r is
    task,      \* task[r]: the task it has dispatched, or is amending
    toReuse,   \* toReuse[r]: tasks it has yet to fast-forward
    owner,     \* holder of the pipeline lease
    verified,  \* history: tasks a gate of this run has passed
    overlap    \* history: two invocations were under way at once

vars  == <<disk, mem, pc, task, toReuse, owner, verified, overlap>>
local == <<task, toReuse>>

Lease == INSTANCE Mutex WITH Proc <- Runner

(* What run.json holds.  No tasks: there is no run directory yet.          *)
Run == [tasks : SUBSET Task, done : SUBSET Task,
        gen : [Task -> Nat], rev : [Task -> Nat]]

NewRun(tasks) == [tasks |-> tasks, done |-> {},
                  gen |-> [t \in Task |-> 0], rev |-> [t \in Task |-> 0]]
NoRun == NewRun({})

Locations == {"idle", "fresh", "reusing", "opening", "locking", "parting",
              "loop", "running", "succeeded", "ended", "amending"}
(* Between lease.acquire and lease.release.                                *)
Holding   == {"loop", "running", "succeeded", "ended"}

TypeOK ==
    /\ disk \in Run /\ mem \in [Runner -> Run]
    /\ pc \in [Runner -> Locations]
    /\ task \in [Runner -> Task \cup {NoTask}]
    /\ toReuse \in [Runner -> SUBSET Task]
    /\ owner \in Runner \cup {Nobody}
    /\ verified \subseteq Task
    /\ overlap \in BOOLEAN

Init ==
    /\ disk = NoRun
    /\ mem = [r \in Runner |-> NoRun]
    /\ pc = [r \in Runner |-> "idle"]
    /\ task = [r \in Runner |-> NoTask]
    /\ toReuse = [r \in Runner |-> {}]
    /\ owner = Nobody
    /\ verified = {}
    /\ overlap = FALSE

-----------------------------------------------------------------------------
(* The scope                                                               *)

(* Everything the tasks S depend on, directly or not: what every set has   *)
(* that holds their dependencies and is closed under DependsOn.            *)
Ancestors(S) ==
    LET Closed(c) == \A t \in c : DependsOn[t] \subseteq c
    IN  {a \in Task : \A c \in SUBSET Task :
            (\A t \in S : DependsOn[t] \subseteq c) /\ Closed(c) => a \in c}

(* The dependency closure of the selection.                                *)
Closure == Selected \cup Ancestors(Selected)

Live(t) == CHOOSE u \in Task : Final(t, u)

(* --verify-dependency-chain: everything is verified again, and retired    *)
(* tasks that are not selected give way to what replaced them.             *)
ChainScope == {IF t \in Selected THEN t ELSE Live(t) : t \in Closure}

(* resolve_default_reuse: evidence of the task itself or, for a retired    *)
(* one, of its replacement.                                                *)
Reused == {t \in Closure \ Selected :
              t \in Elsewhere \/ ReplacedBy[t] \in Elsewhere}

(* A retired task without evidence is never dispatched again: the run is   *)
(* not opened.                                                             *)
Denied == \E t \in Closure \ Selected :
              t \notin Reused /\ ReplacedBy[t] # NoTask

(* prune_reused_ancestors; a task its replacement stands for leaves too.   *)
DefaultScope ==
    (Closure \ (Ancestors(Reused) \ Selected)) \ (Reused \ Elsewhere)

-----------------------------------------------------------------------------
(* Run.save, and leaving an invocation                                     *)

Save(r, run) == mem' = [mem EXCEPT ![r] = run] /\ disk' = run

At(r, location) == pc[r] = location

Goto(r, location) ==
    /\ pc' = [pc EXCEPT ![r] = location]
    /\ overlap' = (overlap \/ \E o \in Runner \ {r} : pc[o] # "idle")

(* The process is gone, and with it its copy.                              *)
Leave(r) ==
    /\ Goto(r, "idle")
    /\ mem' = [mem EXCEPT ![r] = NoRun]
    /\ task' = [task EXCEPT ![r] = NoTask]
    /\ toReuse' = [toReuse EXCEPT ![r] = {}]

-----------------------------------------------------------------------------
(* Opening the run                                                         *)

(* Mutant: a fresh invocation may find a run directory.                    *)
FreshAlways(r) ==
    /\ At(r, "idle")
    /\ Goto(r, "fresh")
    /\ UNCHANGED <<disk, mem, local, owner, verified>>

(* request.run_dir.exists(), looked at before the run is created.          *)
FreshCheck(r) ==
    /\ At(r, "idle") /\ disk = NoRun
    /\ Goto(r, "fresh")
    /\ UNCHANGED <<disk, mem, local, owner, verified>>

(* RunLifecycle.initialize saves the new run: everything or what reusable  *)
(* evidence leaves.                                                        *)
FreshCreate(r) ==
    /\ At(r, "fresh")
    /\ \E chain \in BOOLEAN :
          /\ chain \/ ~Denied
          /\ Save(r, NewRun(IF chain THEN ChainScope ELSE DefaultScope))
          /\ toReuse' = [toReuse EXCEPT ![r] =
                            IF chain THEN {} ELSE Reused \cap DefaultScope]
    /\ Goto(r, "reusing")
    /\ UNCHANGED <<task, owner, verified>>

(* reuse_completed_task, one save for each.                                *)
ReuseTask(r) ==
    /\ At(r, "reusing")
    /\ \E t \in toReuse[r] :
          /\ Save(r, [mem[r] EXCEPT !.done = @ \cup {t}])
          /\ toReuse' = [toReuse EXCEPT ![r] = @ \ {t}]
    /\ Goto(r, "reusing")
    /\ UNCHANGED <<task, owner, verified>>

ReuseEnds(r) ==
    /\ At(r, "reusing") /\ toReuse[r] = {}
    /\ Goto(r, "opening")
    /\ UNCHANGED <<disk, mem, local, owner, verified>>

(* Run.load for --resume.                                                  *)
Resume(r) ==
    /\ At(r, "idle") /\ disk # NoRun
    /\ mem' = [mem EXCEPT ![r] = disk]
    /\ Goto(r, "opening")
    /\ UNCHANGED <<disk, local, owner, verified>>

(* The invocation saves what it holds: RunLifecycle.resume, the contracts  *)
(* and controls, projections and preconditions before the lease is asked   *)
(* for; operations, commands and projections of a turn later.              *)
SaveCopy(r) ==
    /\ pc[r] \in {"reusing", "opening", "loop", "running"}
    /\ Save(r, mem[r])
    /\ Goto(r, pc[r])
    /\ UNCHANGED <<local, owner, verified>>

(* The last save before the lease; _open_run has at least one.             *)
Opened(r) ==
    /\ At(r, "opening")
    /\ Save(r, mem[r])
    /\ Goto(r, "locking")
    /\ UNCHANGED <<local, owner, verified>>

-----------------------------------------------------------------------------
(* The pipeline lease                                                      *)

Acquire(r) ==
    /\ At(r, "locking")
    /\ Lease!Grant(r)
    /\ Goto(r, "loop")
    /\ UNCHANGED <<disk, mem, local, verified>>

(* LeaseHeldError.                                                         *)
Refused(r) ==
    /\ At(r, "locking") /\ owner # Nobody
    /\ Goto(r, "parting")
    /\ UNCHANGED <<disk, mem, local, owner, verified>>

(* The wait for the lease, or the evidence of a probe, is recorded in the  *)
(* copy, and the copy is saved.                                            *)
PartingSave(r) ==
    /\ At(r, "parting")
    /\ disk' = mem[r]
    /\ Leave(r)
    /\ UNCHANGED <<owner, verified>>

-----------------------------------------------------------------------------
(* The scheduler                                                           *)

(* Recorded dependencies: those inside the recorded scope.                 *)
Edges(run, t) == DependsOn[t] \cap run.tasks

(* Mutant: a task that has been dispatched before is passed over.          *)
ActionableOnce(run) ==
    {t \in run.tasks \ run.done : Edges(run, t) \subseteq run.done
                                  /\ run.gen[t] = 0}

(* Mutant: dependencies are left to the order of the plan.                 *)
ActionableInPlanOrder(run) == run.tasks \ run.done

(* Every task the loop could move forward.                                 *)
Actionable(run) ==
    {t \in run.tasks \ run.done : Edges(run, t) \subseteq run.done}

(* _next_actionable, and the turn up to the executor: the generation is    *)
(* consumed and saved.                                                     *)
Dispatch(r) ==
    /\ At(r, "loop")
    /\ \E t \in Actionable(mem[r]) :
          /\ \A u \in Actionable(mem[r]) : Rank[t] <= Rank[u]
          /\ mem[r].gen[t] < MaxGen[t]
          /\ Save(r, [mem[r] EXCEPT !.gen[t] = @ + 1])
          /\ task' = [task EXCEPT ![r] = t]
    /\ Goto(r, "running")
    /\ UNCHANGED <<toReuse, owner, verified>>

(* Both verifiers passed the task.                                         *)
Complete(r) ==
    /\ At(r, "running")
    /\ Save(r, [mem[r] EXCEPT !.done = @ \cup {task[r]}])
    /\ verified' = verified \cup {task[r]}
    /\ task' = [task EXCEPT ![r] = NoTask]
    /\ Goto(r, "loop")
    /\ UNCHANGED <<toReuse, owner>>

(* Mutant: whatever the turn came to, the task counts as done.             *)
NotDoneDone(r) ==
    /\ At(r, "running")
    /\ Save(r, [mem[r] EXCEPT !.done = @ \cup {task[r]}])
    /\ Goto(r, "ended")
    /\ UNCHANGED <<local, owner, verified>>

(* The turn did not finish the task, or could not begin: it is recorded    *)
(* and the invocation ends, blocked or retryable.                          *)
NotDone(r) ==
    /\ At(r, "running") \/ (At(r, "loop") /\ Actionable(mem[r]) # {})
    /\ Save(r, mem[r])
    /\ Goto(r, "ended")
    /\ UNCHANGED <<local, owner, verified>>

(* ExecutionError, DispatchError: nothing more is saved.                   *)
TurnFails(r) ==
    /\ At(r, "running") \/ (At(r, "loop") /\ Actionable(mem[r]) # {})
    /\ Goto(r, "ended")
    /\ UNCHANGED <<disk, mem, local, owner, verified>>

(* Nothing is actionable and nothing pending: "ok".  ScopeNeverStuck says  *)
(* why the pending branch after the loop is not taken.                     *)
EndOk(r) ==
    /\ At(r, "loop")
    /\ Actionable(mem[r]) = {} /\ mem[r].tasks \subseteq mem[r].done
    /\ Save(r, mem[r])
    /\ Goto(r, "succeeded")
    /\ UNCHANGED <<local, owner, verified>>

Release(r) ==
    /\ pc[r] \in {"succeeded", "ended"}
    /\ Lease!Free(r)
    /\ Leave(r)
    /\ UNCHANGED <<disk, verified>>

(* The process dies, or an error ends it before the lease: what it had not *)
(* saved is lost.  The lease of a dead process is free to be taken.        *)
Crash(r) ==
    /\ pc[r] # "idle"
    /\ Leave(r)
    /\ IF pc[r] \in Holding THEN Lease!Free(r) ELSE UNCHANGED owner
    /\ UNCHANGED <<disk, verified>>

-----------------------------------------------------------------------------
(* run_amend and run_live_probe: load, work, save; they take no lease      *)

AmendLoad(r) ==
    /\ At(r, "idle") /\ disk # NoRun
    /\ \E t \in disk.tasks \ disk.done :
          disk.rev[t] < MaxRev[t] /\ task' = [task EXCEPT ![r] = t]
    /\ mem' = [mem EXCEPT ![r] = disk]
    /\ Goto(r, "amending")
    /\ UNCHANGED <<disk, toReuse, owner, verified>>

AmendSave(r) ==
    /\ At(r, "amending")
    /\ disk' = [mem[r] EXCEPT !.rev[task[r]] = @ + 1]
    /\ Leave(r)
    /\ UNCHANGED <<owner, verified>>

(* A probe launches its adapter between the load and the save.             *)
ProbeLoad(r) ==
    /\ At(r, "idle") /\ disk # NoRun
    /\ mem' = [mem EXCEPT ![r] = disk]
    /\ Goto(r, "parting")
    /\ UNCHANGED <<disk, local, owner, verified>>

-----------------------------------------------------------------------------

Open(r) == \/ FreshCheck(r) \/ FreshCreate(r) \/ ReuseTask(r) \/ ReuseEnds(r)
           \/ Resume(r) \/ SaveCopy(r) \/ Opened(r)
Lock(r) == Acquire(r) \/ Refused(r) \/ PartingSave(r) \/ Release(r)
Schedule(r) == Dispatch(r) \/ Complete(r) \/ NotDone(r) \/ TurnFails(r)
               \/ EndOk(r)
Amend(r) == AmendLoad(r) \/ AmendSave(r) \/ ProbeLoad(r)

Next == \E r \in Runner :
            Open(r) \/ Lock(r) \/ Schedule(r) \/ Amend(r) \/ Crash(r)

Spec == Init /\ [][Next]_vars
-----------------------------------------------------------------------------
(* Properties                                                              *)

(* Somebody has verified the task, or the task that replaced it.           *)
Proven(t) == {t, ReplacedBy[t]} \cap (verified \cup Elsewhere) # {}

(* No executor works on a task while one of its declared dependencies has  *)
(* been verified nowhere: pruning by reused evidence, the recorded edges   *)
(* and stale copies of run.json together (_next_actionable).               *)
DependenciesFirst ==
    \A r \in Runner :
        At(r, "running") => \A d \in DependsOn[task[r]] : Proven(d)

(* execute_run: "the run never reports success while any selected task is  *)
(* non-terminal": every selected task has passed a gate, also when the     *)
(* invocation worked on a stale copy.                                      *)
SuccessIsTruthful ==
    \A r \in Runner :
        At(r, "succeeded") => \A t \in Selected : Proven(t)

(* Two invocations never have executors at work at the same time.          *)
OneAtATime ==
    \A r, o \in Runner : At(r, "running") /\ At(o, "running") => r = o

(* Types, one executor at a time, and an "ok" that is true.                *)
SuccessIsEarned == TypeOK /\ OneAtATime /\ SuccessIsTruthful

(* The loop never runs dry with work left: with acyclic dependencies and   *)
(* edges cut to the scope some unfinished task is always actionable, so    *)
(* failed and interrupted tasks are picked up again.                       *)
ScopeNeverStuck ==
    \A r \in Runner :
        At(r, "loop") /\ Actionable(mem[r]) = {} => mem[r].tasks \subseteq mem[r].done

(* a keeps all of b: nothing finished, consumed or amended is forgotten.   *)
Keeps(a, b) ==
    /\ b.tasks # {} => a.tasks = b.tasks
    /\ b.done \subseteq a.done
    /\ \A t \in Task : b.gen[t] <= a.gen[t] /\ b.rev[t] <= a.rev[t]

(* As long as invocations have come one after another, crashes included,   *)
(* run.json has lost no finished task, no generation and no amendment.     *)
AloneLosesNothing == [][~overlap' => Keeps(disk', disk)]_disk

-----------------------------------------------------------------------------
(* What the sources say and the code does not do (run_stale.cfg,           *)
(* run_pruned.cfg, run_retired.cfg)                                        *)

(* state.py, consume_launch_generation: the counter "never resets, so      *)
(* generations stay monotonic across resume".                              *)
GenerationsMonotonic ==
    [][\A t \in Task : disk.gen[t] <= disk'.gen[t]]_disk

(* selection.py, prune_reused_ancestors: "Remove prerequisites whose       *)
(* reusable dependent evidence already covers them": the prerequisites of  *)
(* a retired task go too, and its replacement's evidence covers none.      *)
PrunedWasCovered ==
    \A r \in Runner : At(r, "running") =>
        \A d \in DependsOn[task[r]] \ mem[r].tasks :
            ReplacedBy[d] = NoTask => Proven(d)

(* supersession.py: "Once the declaring task is independently verified,    *)
(* any task that still depends on the blocked predecessor has that one     *)
(* dependency satisfied": not before.                                      *)
ReplacementFirst ==
    \A r \in Runner : At(r, "running") =>
        \A d \in DependsOn[task[r]] : ReplacedBy[d] # NoTask => Proven(d)
=============================================================================
