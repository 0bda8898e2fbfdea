------------------------- MODULE RunExecutionProofs -------------------------
(***************************************************************************)
(* Theorems about RunExecution for every plan, every number of invocations *)
(* and every bound.                                                        *)
(***************************************************************************)
EXTENDS RunExecution, WellFoundedInduction, TLAPS

USE DEF At

(* A run that has just been created is a run.                              *)
LEMMA NewRunType == ASSUME NEW S \in SUBSET Task PROVE NewRun(S) \in Run
BY DEF NewRun, Run

(* So is the run of a directory that does not exist.                       *)
LEMMA NoRunType == NoRun \in Run
BY NewRunType DEF NoRun

(* Fields of a run, and the runs the actions make of it.                   *)
LEMMA RunFields ==
    ASSUME NEW run \in Run
    PROVE  /\ run.tasks \subseteq Task /\ run.done \subseteq Task
           /\ run.gen \in [Task -> Nat] /\ run.rev \in [Task -> Nat]
           /\ \A S \in SUBSET Task : [run EXCEPT !.done = @ \cup S] \in Run
           /\ \A t \in Task : [run EXCEPT !.gen[t] = @ + 1] \in Run
           /\ \A t \in Task : [run EXCEPT !.rev[t] = @ + 1] \in Run
BY DEF Run

(* Finishing tasks, consuming a generation and amending: what becomes of   *)
(* the other fields.                                                       *)
LEMMA Changes ==
    ASSUME NEW run \in Run
    PROVE  /\ \A S \in SUBSET Task :
                 LET new == [run EXCEPT !.done = @ \cup S]
                 IN  new.tasks = run.tasks /\ new.done = run.done \cup S /\ Keeps(new, run)
           /\ \A t \in Task :
                 LET new == [run EXCEPT !.gen[t] = @ + 1]
                 IN  new.tasks = run.tasks /\ new.done = run.done /\ Keeps(new, run)
           /\ \A t \in Task :
                 LET new == [run EXCEPT !.rev[t] = @ + 1]
                 IN  new.tasks = run.tasks /\ new.done = run.done /\ Keeps(new, run)
           /\ Keeps(run, run) /\ Keeps(run, NoRun)
           /\ NoRun.tasks = {} /\ NoRun.done = {}
<1> USE DEF Run, Keeps
<1>1. ASSUME NEW S \in SUBSET Task
      PROVE  LET new == [run EXCEPT !.done = @ \cup S]
             IN  new.tasks = run.tasks /\ new.done = run.done \cup S /\ Keeps(new, run)
  OBVIOUS
<1>2. ASSUME NEW t \in Task
      PROVE  LET new == [run EXCEPT !.gen[t] = @ + 1]
             IN  new.tasks = run.tasks /\ new.done = run.done /\ Keeps(new, run)
  OBVIOUS
<1>3. ASSUME NEW t \in Task
      PROVE  LET new == [run EXCEPT !.rev[t] = @ + 1]
             IN  new.tasks = run.tasks /\ new.done = run.done /\ Keeps(new, run)
  OBVIOUS
<1>4. /\ Keeps(run, run) /\ Keeps(run, NoRun)
      /\ NoRun.tasks = {} /\ NoRun.done = {}
  BY DEF NoRun, NewRun
<1> QED
  BY <1>1, <1>2, <1>3, <1>4

(* Scopes are sets of tasks that hold the selection.                       *)
LEMMA ScopeOfTasks ==
    /\ Closure \subseteq Task
    /\ DefaultScope \subseteq Task /\ Selected \subseteq DefaultScope
    /\ Reused \cap DefaultScope \subseteq Elsewhere
BY PlanAssumption DEF Closure, Ancestors, DefaultScope, Reused

(* So is the scope of --verify-dependency-chain.                           *)
LEMMA ChainOfTasks ==
    ChainScope \subseteq Task /\ Selected \subseteq ChainScope
<1>1. \A t \in Task : Live(t) \in Task
  BY PlanAssumption DEF Live
<1> QED
  BY <1>1, ScopeOfTasks, PlanAssumption DEF ChainScope, Closure

-----------------------------------------------------------------------------
(* Types                                                                   *)

(* The helpers of the actions keep the types of what they write.           *)
LEMMA SaveType ==
    ASSUME TypeOK, NEW r \in Runner, NEW run \in Run, Save(r, run)
    PROVE  disk' \in Run /\ mem' \in [Runner -> Run]
BY DEF TypeOK, Save

(* Goto moves one invocation to a location.                                *)
LEMMA GotoType ==
    ASSUME TypeOK, NEW r \in Runner, NEW l \in Locations, Goto(r, l)
    PROVE  pc' \in [Runner -> Locations] /\ overlap' \in BOOLEAN
<1>1. pc' \in [Runner -> Locations]
  BY DEF TypeOK, Goto
<1>2. overlap' \in BOOLEAN
  BY Zenon DEF TypeOK, Goto
<1> QED
  BY <1>1, <1>2

(* Leave clears what the invocation held.                                  *)
LEMMA LeaveType ==
    ASSUME TypeOK, NEW r \in Runner, Leave(r)
    PROVE  /\ mem' \in [Runner -> Run]
           /\ pc' \in [Runner -> Locations] /\ overlap' \in BOOLEAN
           /\ task' \in [Runner -> Task \cup {NoTask}]
           /\ toReuse' \in [Runner -> SUBSET Task]
<1>1. "idle" \in Locations
  BY DEF Locations
<1>2. pc' \in [Runner -> Locations] /\ overlap' \in BOOLEAN
  BY <1>1, GotoType DEF Leave
<1> QED
  BY <1>2, NoRunType DEF TypeOK, Leave

(* Who dispatches or amends has a task in hand.                            *)
InHand == \A r \in Runner : pc[r] \in {"running", "amending"} => task[r] \in Task

(* No step takes it away, nor puts a runner to work without one.           *)
LEMMA InHandKept == TypeOK /\ InHand /\ [Next]_vars => InHand'
<1> SUFFICES ASSUME TypeOK, InHand, [Next]_vars PROVE InHand'
  OBVIOUS
<1> USE DEF InHand, TypeOK
<1>1. ASSUME NEW r \in Runner, Open(r) PROVE InHand'
  BY <1>1 DEF Open, FreshCheck, FreshCreate, ReuseTask, ReuseEnds, Resume, SaveCopy,
              Opened, Goto, local
<1>2. ASSUME NEW r \in Runner, Lock(r) PROVE InHand'
  BY <1>2 DEF Lock, Acquire, Refused, PartingSave, Release, Leave, Goto, local
<1>3. ASSUME NEW r \in Runner, Schedule(r) PROVE InHand'
  <2>1. CASE Dispatch(r)
    BY <2>1 DEF Dispatch, Actionable, Goto, Run
  <2> QED
    BY <1>3, <2>1 DEF Schedule, Complete, NotDone, TurnFails, EndOk, Goto, local
<1>4. ASSUME NEW r \in Runner, Amend(r) PROVE InHand'
  <2>1. CASE AmendLoad(r)
    <3>1. PICK t \in disk.tasks : task' = [task EXCEPT ![r] = t]
      BY <2>1 DEF AmendLoad
    <3>2. t \in Task
      BY <3>1, RunFields
    <3> QED
      BY <2>1, <3>1, <3>2 DEF AmendLoad, Goto
  <2>2. CASE AmendSave(r)
    BY <2>2 DEF AmendSave, Leave, Goto
  <2>3. CASE ProbeLoad(r)
    BY <2>3 DEF ProbeLoad, Goto, local
  <2> QED
    BY <1>4, <2>1, <2>2, <2>3 DEF Amend
<1>5. ASSUME NEW r \in Runner, Crash(r) PROVE InHand'
  BY <1>5 DEF Crash, Leave, Goto
<1>6. CASE UNCHANGED vars
  BY <1>6 DEF vars
<1> QED
  BY <1>1, <1>2, <1>3, <1>4, <1>5, <1>6 DEF Next

(* Every variable keeps its type.                                          *)
THEOREM TypeCorrect == Spec => [](TypeOK /\ InHand)
<1>1. Init => TypeOK /\ InHand
  BY NoRunType DEF Init, TypeOK, Locations, InHand
<1>2. TypeOK /\ InHand /\ [Next]_vars => TypeOK'
  <2> SUFFICES ASSUME TypeOK, InHand, [Next]_vars PROVE TypeOK'
    OBVIOUS
  <2>1. ASSUME NEW r \in Runner, Open(r) PROVE TypeOK'
    <3>0. mem[r] \in Run /\ {"fresh", "reusing", "opening", "locking", pc[r]} \subseteq Locations
      BY DEF TypeOK, Locations
    <3>1. CASE FreshCheck(r)
      BY <3>0, <3>1, GotoType DEF FreshCheck, TypeOK, local
    <3>2. CASE FreshCreate(r)
      <4>1. pc' \in [Runner -> Locations] /\ overlap' \in BOOLEAN
        BY <3>0, <3>2, GotoType DEF FreshCreate
      <4>2. PICK chain \in BOOLEAN :
              /\ Save(r, NewRun(IF chain THEN ChainScope ELSE DefaultScope))
              /\ toReuse' = [toReuse EXCEPT ![r] =
                               IF chain THEN {} ELSE Reused \cap DefaultScope]
        BY <3>2 DEF FreshCreate
      <4>3. disk' \in Run /\ mem' \in [Runner -> Run]
        <5>1. CASE chain
          BY <5>1, <4>2, ChainOfTasks, NewRunType, SaveType
        <5>2. CASE ~chain
          BY <5>2, <4>2, ScopeOfTasks, NewRunType, SaveType
        <5> QED
          BY <5>1, <5>2
      <4>4. toReuse' \in [Runner -> SUBSET Task]
        BY <4>2, ScopeOfTasks DEF TypeOK
      <4> QED
        BY <3>2, <4>1, <4>3, <4>4 DEF FreshCreate, TypeOK
    <3>3. CASE ReuseTask(r)
      <4>1. pc' \in [Runner -> Locations] /\ overlap' \in BOOLEAN
        BY <3>0, <3>3, GotoType DEF ReuseTask
      <4>2. PICK t \in toReuse[r] :
              /\ Save(r, [mem[r] EXCEPT !.done = @ \cup {t}])
              /\ toReuse' = [toReuse EXCEPT ![r] = @ \ {t}]
        BY <3>3 DEF ReuseTask
      <4>3. {t} \in SUBSET Task
        BY DEF TypeOK
      <4>4. disk' \in Run /\ mem' \in [Runner -> Run]
        BY <3>0, <4>2, <4>3, RunFields, SaveType
      <4> QED
        BY <3>3, <4>1, <4>2, <4>4 DEF ReuseTask, TypeOK
    <3>4. CASE ReuseEnds(r)
      BY <3>0, <3>4, GotoType DEF ReuseEnds, TypeOK, local
    <3>5. CASE Resume(r)
      BY <3>0, <3>5, GotoType DEF Resume, TypeOK, local
    <3>6. CASE SaveCopy(r)
      BY <3>0, <3>6, GotoType, SaveType DEF SaveCopy, TypeOK, local
    <3>7. CASE Opened(r)
      BY <3>0, <3>7, GotoType, SaveType DEF Opened, TypeOK, local
    <3> QED
      BY <2>1, <3>1, <3>2, <3>3, <3>4, <3>5, <3>6, <3>7 DEF Open
  <2>2. ASSUME NEW r \in Runner, Lock(r) PROVE TypeOK'
    <3>0. mem[r] \in Run /\ {"loop", "parting"} \subseteq Locations
      BY DEF TypeOK, Locations
    <3>1. CASE Acquire(r)
      BY <3>0, <3>1, GotoType DEF Acquire, Lease!Grant, TypeOK, local
    <3>2. CASE Refused(r)
      BY <3>0, <3>2, GotoType DEF Refused, TypeOK, local
    <3>3. CASE PartingSave(r)
      BY <3>0, <3>3, LeaveType DEF PartingSave, TypeOK
    <3>4. CASE Release(r)
      BY <3>4, LeaveType DEF Release, Lease!Free, TypeOK
    <3> QED
      BY <2>2, <3>1, <3>2, <3>3, <3>4 DEF Lock
  <2>3. ASSUME NEW r \in Runner, Schedule(r) PROVE TypeOK'
    <3>0. mem[r] \in Run /\ {"loop", "running", "ended", "succeeded"} \subseteq Locations
      BY DEF TypeOK, Locations
    <3>1. CASE Dispatch(r)
      <4>1. pc' \in [Runner -> Locations] /\ overlap' \in BOOLEAN
        BY <3>0, <3>1, GotoType DEF Dispatch
      <4>2. PICK t \in Actionable(mem[r]) :
              /\ Save(r, [mem[r] EXCEPT !.gen[t] = @ + 1])
              /\ task' = [task EXCEPT ![r] = t]
        BY <3>1 DEF Dispatch
      <4>3. t \in Task
        BY <3>0, RunFields DEF Actionable
      <4>4. disk' \in Run /\ mem' \in [Runner -> Run]
        BY <3>0, <4>2, <4>3, RunFields, SaveType
      <4> QED
        BY <3>1, <4>1, <4>2, <4>3, <4>4 DEF Dispatch, TypeOK
    <3>2. CASE Complete(r)
      <4>1. pc' \in [Runner -> Locations] /\ overlap' \in BOOLEAN
        BY <3>0, <3>2, GotoType DEF Complete
      <4>2. task[r] \in Task
        BY <3>2 DEF Complete, InHand
      <4>3. [mem[r] EXCEPT !.done = @ \cup {task[r]}] \in Run
        <5>1. {task[r]} \in SUBSET Task
          BY <4>2
        <5> QED
          BY <3>0, <5>1, RunFields
      <4>4. disk' \in Run /\ mem' \in [Runner -> Run]
        BY <3>2, <4>3, SaveType DEF Complete
      <4> QED
        BY <3>2, <4>1, <4>2, <4>4 DEF Complete, TypeOK
    <3>3. CASE NotDone(r)
      BY <3>0, <3>3, GotoType, SaveType DEF NotDone, TypeOK, local
    <3>4. CASE TurnFails(r)
      BY <3>0, <3>4, GotoType DEF TurnFails, TypeOK, local
    <3>5. CASE EndOk(r)
      BY <3>0, <3>5, GotoType, SaveType DEF EndOk, TypeOK, local
    <3> QED
      BY <2>3, <3>1, <3>2, <3>3, <3>4, <3>5 DEF Schedule
  <2>4. ASSUME NEW r \in Runner, Amend(r) PROVE TypeOK'
    <3>0. mem[r] \in Run /\ "amending" \in Locations
      BY DEF TypeOK, Locations
    <3>1. CASE AmendLoad(r)
      <4>1. pc' \in [Runner -> Locations] /\ overlap' \in BOOLEAN
        BY <3>0, <3>1, GotoType DEF AmendLoad
      <4>2. task' \in [Runner -> Task \cup {NoTask}]
        BY <3>1, RunFields DEF AmendLoad, TypeOK
      <4> QED
        BY <3>1, <4>1, <4>2 DEF AmendLoad, TypeOK
    <3>2. CASE AmendSave(r)
      <4>1. task[r] \in Task
        BY <3>2 DEF AmendSave, InHand
      <4>2. disk' \in Run
        BY <3>0, <3>2, <4>1, RunFields DEF AmendSave
      <4> QED
        BY <3>2, <4>2, LeaveType DEF AmendSave, TypeOK
    <3>3. CASE ProbeLoad(r)
      <4>1. "parting" \in Locations
        BY DEF Locations
      <4> QED
        BY <3>3, <4>1, GotoType DEF ProbeLoad, TypeOK, local
    <3> QED
      BY <2>4, <3>1, <3>2, <3>3 DEF Amend
  <2>5. ASSUME NEW r \in Runner, Crash(r) PROVE TypeOK'
    BY <2>5, LeaveType DEF Crash, Lease!Free, TypeOK
  <2>6. CASE UNCHANGED vars
    BY <2>6 DEF vars, TypeOK
  <2> QED
    BY <2>1, <2>2, <2>3, <2>4, <2>5, <2>6 DEF Next
<1> QED
  BY <1>1, <1>2, InHandKept, PTL DEF Spec

-----------------------------------------------------------------------------
(* The lease                                                               *)

(* Whoever has passed lease.acquire is the owner until it lets go.         *)
HolderOwns == \A r \in Runner : pc[r] \in Holding => owner = r

(* At most one executor is at work, whatever else the other invocations    *)
(* do to run.json.                                                         *)
THEOREM Exclusion == Spec => []OneAtATime
<1> USE DEF HolderOwns, Holding, TypeOK
<1>1. Init => HolderOwns
  BY DEF Init
<1>2. TypeOK /\ HolderOwns /\ [Next]_vars => HolderOwns'
  <2> SUFFICES ASSUME TypeOK, HolderOwns, [Next]_vars PROVE HolderOwns'
    OBVIOUS
  <2>1. ASSUME NEW r \in Runner, Open(r) PROVE HolderOwns'
    BY <2>1 DEF Open, FreshCheck, FreshCreate, ReuseTask, ReuseEnds, Resume, SaveCopy,
                Opened, Goto
  <2>2. ASSUME NEW r \in Runner, Lock(r) PROVE HolderOwns'
    BY <2>2, PlanAssumption DEF Lock, Acquire, Refused, PartingSave, Release, Leave, Goto,
                Lease!Grant, Lease!Free
  <2>3. ASSUME NEW r \in Runner, Schedule(r) PROVE HolderOwns'
    BY <2>3 DEF Schedule, Dispatch, Complete, NotDone, TurnFails, EndOk, Goto
  <2>4. ASSUME NEW r \in Runner, Amend(r) PROVE HolderOwns'
    BY <2>4 DEF Amend, AmendLoad, AmendSave, ProbeLoad, Leave, Goto
  <2>5. ASSUME NEW r \in Runner, Crash(r) PROVE HolderOwns'
    BY <2>5 DEF Crash, Leave, Goto, Lease!Free
  <2>6. CASE UNCHANGED vars
    BY <2>6 DEF vars
  <2> QED
    BY <2>1, <2>2, <2>3, <2>4, <2>5, <2>6 DEF Next
<1>3. HolderOwns => OneAtATime
  BY DEF OneAtATime
<1> QED
  BY <1>1, <1>2, <1>3, TypeCorrect, PTL DEF Spec

-----------------------------------------------------------------------------
(* One invocation after another                                            *)

(* While invocations have not overlapped one at most is under way, and its *)
(* copy is what run.json holds; before it creates the run there is none.   *)
CopyIsCurrent ==
    ~overlap =>
        /\ \A r, o \in Runner : pc[r] # "idle" /\ pc[o] # "idle" => r = o
        /\ \A r \in Runner : pc[r] \notin {"idle", "fresh"} => mem[r] = disk
        /\ \A r \in Runner : pc[r] = "fresh" => disk = NoRun

(* What a step of r leaves to be shown: nothing, if another is under way.  *)
LEMMA OnlyOne ==
    ASSUME TypeOK, CopyIsCurrent, NEW r \in Runner, NEW l, Goto(r, l), ~overlap'
    PROVE  /\ ~overlap
           /\ \A o \in Runner \ {r} : pc[o] = "idle" /\ pc'[o] = "idle"
           /\ pc'[r] = l
           /\ pc[r] \notin {"idle", "fresh"} => mem[r] = disk
           /\ pc[r] = "fresh" => disk = NoRun
BY DEF Goto, TypeOK, CopyIsCurrent

(* As long as invocations come one after another, no step loses finished   *)
(* tasks, generations or amendments that run.json holds.                   *)
THEOREM NothingLost == Spec => AloneLosesNothing
<1>1. Init => CopyIsCurrent
  BY DEF Init, CopyIsCurrent
<1>2. TypeOK /\ InHand /\ CopyIsCurrent /\ [Next]_vars
        => CopyIsCurrent' /\ (~overlap' => Keeps(disk', disk))
  <2> SUFFICES ASSUME TypeOK, InHand, CopyIsCurrent, [Next]_vars
               PROVE  CopyIsCurrent' /\ (~overlap' => Keeps(disk', disk))
    OBVIOUS
  <2>0. disk \in Run /\ \A r \in Runner : mem[r] \in Run
    BY DEF TypeOK
  <2>1. ASSUME NEW r \in Runner, NEW l, Goto(r, l), ~overlap',
               \/ /\ disk' = disk
                  /\ \/ l = "idle"
                     \/ l = "fresh" /\ disk = NoRun
                     \/ l # "fresh" /\ mem'[r] = disk
                     \/ l # "fresh" /\ mem' = mem /\ pc[r] \notin {"idle", "fresh"}
               \/ /\ pc[r] \notin {"idle", "fresh"} /\ l # "fresh"
                  /\ Keeps(disk', mem[r]) /\ (l = "idle" \/ mem'[r] = disk')
               \/ /\ pc[r] = "fresh" /\ l # "fresh"
                  /\ Keeps(disk', NoRun) /\ mem'[r] = disk'
        PROVE  CopyIsCurrent' /\ Keeps(disk', disk)
    <3>1. Keeps(disk', disk)
      BY <2>0, <2>1, OnlyOne, Changes
    <3>2. CopyIsCurrent'
      BY <2>1, OnlyOne DEF CopyIsCurrent
    <3> QED
      BY <3>1, <3>2
  <2> SUFFICES ASSUME ~overlap' PROVE CopyIsCurrent' /\ Keeps(disk', disk)
    BY DEF CopyIsCurrent
  <2>2. ASSUME NEW r \in Runner, Open(r) PROVE CopyIsCurrent' /\ Keeps(disk', disk)
    <3>1. CASE FreshCheck(r)
      BY <3>1, <2>1 DEF FreshCheck
    <3>2. CASE FreshCreate(r)
      <4>1. PICK S \in SUBSET Task : Save(r, NewRun(S))
        BY <3>2, ChainOfTasks, ScopeOfTasks DEF FreshCreate
      <4>2. Keeps(disk', NoRun) /\ mem'[r] = disk'
        BY <4>1, NewRunType, Changes DEF Save, TypeOK
      <4> QED
        BY <3>2, <4>2, <2>1 DEF FreshCreate
    <3>3. CASE ReuseTask(r)
      <4>1. PICK t \in toReuse[r] : Save(r, [mem[r] EXCEPT !.done = @ \cup {t}])
        BY <3>3 DEF ReuseTask
      <4>2. {t} \in SUBSET Task
        BY DEF TypeOK
      <4>3. Keeps(disk', mem[r]) /\ mem'[r] = disk'
        BY <2>0, <4>1, <4>2, Changes DEF Save, TypeOK
      <4> QED
        BY <3>3, <4>3, <2>1 DEF ReuseTask
    <3>4. CASE ReuseEnds(r)
      BY <3>4, <2>1 DEF ReuseEnds
    <3>5. CASE Resume(r)
      BY <3>5, <2>1 DEF Resume, TypeOK
    <3>6. CASE SaveCopy(r)
      BY <2>0, <3>6, <2>1, Changes DEF SaveCopy, Save, TypeOK
    <3>7. CASE Opened(r)
      BY <2>0, <3>7, <2>1, Changes DEF Opened, Save, TypeOK
    <3> QED
      BY <2>2, <3>1, <3>2, <3>3, <3>4, <3>5, <3>6, <3>7 DEF Open
  <2>3. ASSUME NEW r \in Runner, Lock(r) PROVE CopyIsCurrent' /\ Keeps(disk', disk)
    <3>1. CASE Acquire(r)
      BY <3>1, <2>1 DEF Acquire
    <3>2. CASE Refused(r)
      BY <3>2, <2>1 DEF Refused
    <3>3. CASE PartingSave(r)
      BY <2>0, <3>3, <2>1, Changes DEF PartingSave, Leave
    <3>4. CASE Release(r)
      <4>1. Goto(r, "idle") /\ disk' = disk
        BY <3>4 DEF Release, Leave
      <4> QED
        BY <4>1, <2>1
    <3> QED
      BY <2>3, <3>1, <3>2, <3>3, <3>4 DEF Lock
  <2>4. ASSUME NEW r \in Runner, Schedule(r) PROVE CopyIsCurrent' /\ Keeps(disk', disk)
    <3>1. CASE Dispatch(r)
      <4>1. PICK t \in Task : Save(r, [mem[r] EXCEPT !.gen[t] = @ + 1])
        BY <2>0, <3>1 DEF Dispatch, Actionable, Run
      <4>2. Keeps(disk', mem[r]) /\ mem'[r] = disk'
        BY <2>0, <4>1, Changes DEF Save, TypeOK
      <4> QED
        BY <3>1, <4>2, <2>1 DEF Dispatch
    <3>2. CASE Complete(r)
      <4>1. {task[r]} \in SUBSET Task
        BY <3>2 DEF Complete, InHand
      <4>2. Keeps(disk', mem[r]) /\ mem'[r] = disk'
        BY <2>0, <3>2, <4>1, Changes DEF Complete, Save, TypeOK
      <4> QED
        BY <3>2, <4>2, <2>1 DEF Complete
    <3>3. CASE NotDone(r)
      BY <2>0, <3>3, <2>1, Changes DEF NotDone, Save, TypeOK
    <3>4. CASE TurnFails(r)
      BY <3>4, <2>1 DEF TurnFails
    <3>5. CASE EndOk(r)
      BY <2>0, <3>5, <2>1, Changes DEF EndOk, Save, TypeOK
    <3> QED
      BY <2>4, <3>1, <3>2, <3>3, <3>4, <3>5 DEF Schedule
  <2>5. ASSUME NEW r \in Runner, Amend(r) PROVE CopyIsCurrent' /\ Keeps(disk', disk)
    <3>1. CASE AmendLoad(r)
      BY <3>1, <2>1 DEF AmendLoad, TypeOK
    <3>2. CASE AmendSave(r)
      <4>1. task[r] \in Task
        BY <3>2 DEF AmendSave, InHand
      <4>2. Keeps(disk', mem[r])
        BY <2>0, <3>2, <4>1, Changes DEF AmendSave
      <4> QED
        BY <3>2, <4>2, <2>1 DEF AmendSave, Leave
    <3>3. CASE ProbeLoad(r)
      BY <3>3, <2>1 DEF ProbeLoad, TypeOK
    <3> QED
      BY <2>5, <3>1, <3>2, <3>3 DEF Amend
  <2>6. ASSUME NEW r \in Runner, Crash(r) PROVE CopyIsCurrent' /\ Keeps(disk', disk)
    <3>1. Goto(r, "idle") /\ disk' = disk
      BY <2>6 DEF Crash, Leave
    <3> QED
      BY <3>1, <2>1
  <2>7. CASE UNCHANGED vars
    BY <2>0, <2>7, Changes DEF vars, CopyIsCurrent
  <2> QED
    BY <2>2, <2>3, <2>4, <2>5, <2>6, <2>7 DEF Next
<1> QED
  BY <1>1, <1>2, TypeCorrect, PTL DEF Spec, AloneLosesNothing, vars

-----------------------------------------------------------------------------
(* What run.json says of tasks                                             *)

(* Every copy, and run.json, call done only what somebody has verified.    *)
Truth ==
    /\ disk.done \subseteq verified \cup Elsewhere
    /\ \A r \in Runner : /\ mem[r].done \subseteq verified \cup Elsewhere
                         /\ toReuse[r] \subseteq Elsewhere

(* Every copy of an opened run holds the selection, and an invocation that *)
(* reports success has nothing left to do.                                 *)
WholeScope ==
    /\ disk = NoRun \/ Selected \subseteq disk.tasks
    /\ \A r \in Runner :
          /\ pc[r] \notin {"idle", "fresh"} => Selected \subseteq mem[r].tasks
          /\ pc[r] = "succeeded" => mem[r].tasks \subseteq mem[r].done

(* Stale copies forget, but never claim more than somebody has verified.   *)
LEMMA TruthAlways == Spec => [](Truth /\ WholeScope)
<1>1. Init => Truth /\ WholeScope
  BY Changes, NoRunType DEF Init, Truth, WholeScope
<1>2. TypeOK /\ InHand /\ Truth /\ WholeScope /\ [Next]_vars => Truth' /\ WholeScope'
  <2> SUFFICES ASSUME TypeOK, InHand, Truth, WholeScope, [Next]_vars
               PROVE  Truth' /\ WholeScope'
    OBVIOUS
  <2>0. disk \in Run /\ \A r \in Runner : mem[r] \in Run
    BY DEF TypeOK
  <2> DEFINE Good(run) == /\ run.done \subseteq verified' \cup Elsewhere
                          /\ run = NoRun \/ Selected \subseteq run.tasks
             Unmoved(o) == mem'[o] = mem[o] /\ toReuse'[o] = toReuse[o]
  <2>1. ASSUME NEW r \in Runner, NEW l, Goto(r, l),
               verified \subseteq verified', Good(disk'),
               \A o \in Runner \ {r} : Unmoved(o),
               mem'[r].done \subseteq verified' \cup Elsewhere,
               toReuse'[r] \subseteq Elsewhere,
               l \notin {"idle", "fresh"} => Selected \subseteq mem'[r].tasks,
               l = "succeeded" => mem'[r].tasks \subseteq mem'[r].done
        PROVE  Truth' /\ WholeScope'
    <3>1. Truth'
      BY <2>1 DEF Truth
    <3>2. WholeScope'
      BY <2>1 DEF WholeScope, Goto, TypeOK
    <3> QED
      BY <3>1, <3>2
  <2>2. ASSUME NEW r \in Runner, NEW l, Goto(r, l), UNCHANGED <<disk, mem, verified>>,
               toReuse'[r] \subseteq Elsewhere,
               \A o \in Runner \ {r} : toReuse'[o] = toReuse[o],
               l \in {"idle", "fresh"} \/ pc[r] \notin {"idle", "fresh"}, l # "succeeded"
        PROVE  Truth' /\ WholeScope'
    BY <2>1, <2>2 DEF Truth, WholeScope
  <2>3. ASSUME NEW r \in Runner, Leave(r), verified' = verified, Good(disk')
        PROVE  Truth' /\ WholeScope'
    <3>1. \A o \in Runner \ {r} : Unmoved(o)
      BY <2>3 DEF Leave, TypeOK
    <3>2. mem'[r].done = {} /\ toReuse'[r] = {}
      BY <2>3, <2>0, Changes DEF Leave, TypeOK
    <3> QED
      BY <2>1, <2>3, <3>1, <3>2 DEF Leave
  <2>4. ASSUME NEW r \in Runner, NEW l, Goto(r, l), pc[r] \notin {"idle", "fresh"},
               NEW run \in Run, Save(r, run), verified \subseteq verified',
               run.tasks = mem[r].tasks, run.done \subseteq verified' \cup Elsewhere,
               \A o \in Runner \ {r} : toReuse'[o] = toReuse[o],
               toReuse'[r] \subseteq toReuse[r],
               l = "succeeded" => run.tasks \subseteq run.done
        PROVE  Truth' /\ WholeScope'
    <3>1. disk' = run /\ mem'[r] = run /\ \A o \in Runner \ {r} : Unmoved(o)
      BY <2>4 DEF Save, TypeOK
    <3>2. Selected \subseteq run.tasks /\ toReuse'[r] \subseteq Elsewhere
      BY <2>4 DEF WholeScope, Truth
    <3> QED
      BY <2>1, <2>4, <3>1, <3>2
  <2>5. ASSUME NEW r \in Runner, Open(r) PROVE Truth' /\ WholeScope'
    <3> USE <2>0
    <3>1. CASE FreshCheck(r)
      BY <3>1, <2>2 DEF FreshCheck, local, Truth
    <3>2. CASE FreshCreate(r)
      <4>1. PICK chain \in BOOLEAN :
              /\ Save(r, NewRun(IF chain THEN ChainScope ELSE DefaultScope))
              /\ toReuse' = [toReuse EXCEPT ![r] =
                               IF chain THEN {} ELSE Reused \cap DefaultScope]
        BY <3>2 DEF FreshCreate
      <4>2. /\ disk'.done = {} /\ mem'[r] = disk' /\ Selected \subseteq disk'.tasks
            /\ \A o \in Runner \ {r} : mem'[o] = mem[o]
        BY <4>1, ChainOfTasks, ScopeOfTasks DEF Save, TypeOK, NewRun
      <4>3. /\ toReuse'[r] \subseteq Elsewhere
            /\ \A o \in Runner \ {r} : toReuse'[o] = toReuse[o]
        BY <4>1, ScopeOfTasks DEF TypeOK
      <4> QED
        BY <3>2, <4>2, <4>3, <2>1 DEF FreshCreate
    <3>3. CASE ReuseTask(r)
      <4>1. PICK t \in toReuse[r] :
              /\ Save(r, [mem[r] EXCEPT !.done = @ \cup {t}])
              /\ toReuse' = [toReuse EXCEPT ![r] = @ \ {t}]
        BY <3>3 DEF ReuseTask
      <4>2. {t} \in SUBSET Task /\ t \in Elsewhere
        BY <4>1 DEF TypeOK, Truth
      <4>3. PICK run \in Run : run = [mem[r] EXCEPT !.done = @ \cup {t}]
        BY <4>2, RunFields
      <4>4. run.tasks = mem[r].tasks /\ run.done = mem[r].done \cup {t}
        BY <4>2, <4>3, Changes
      <4>5. /\ toReuse'[r] \subseteq toReuse[r]
            /\ \A o \in Runner \ {r} : toReuse'[o] = toReuse[o]
        BY <4>1 DEF TypeOK
      <4>6. run.done \subseteq verified' \cup Elsewhere
        BY <3>3, <4>2, <4>4 DEF Truth, ReuseTask
      <4> QED
        BY <3>3, <4>1, <4>3, <4>4, <4>5, <4>6, <2>4 DEF ReuseTask
    <3>4. CASE ReuseEnds(r)
      BY <3>4, <2>2 DEF ReuseEnds, local, Truth
    <3>5. CASE Resume(r)
      <4>1. /\ mem'[r] = disk /\ disk' = disk /\ toReuse' = toReuse
            /\ Goto(r, "opening") /\ verified' = verified
            /\ \A o \in Runner \ {r} : mem'[o] = mem[o]
        BY <3>5 DEF Resume, TypeOK, local
      <4>2. Selected \subseteq disk.tasks
        BY <3>5 DEF Resume, WholeScope
      <4> QED
        BY <4>1, <4>2, <2>1 DEF Truth
    <3>6. CASE SaveCopy(r)
      <4>1. /\ Goto(r, pc[r]) /\ Save(r, mem[r]) /\ toReuse' = toReuse
            /\ verified' = verified /\ pc[r] \notin {"idle", "fresh", "succeeded"}
        BY <3>6 DEF SaveCopy, local
      <4> QED
        BY <4>1, <2>4 DEF Truth
    <3>7. CASE Opened(r)
      BY <3>7, <2>4 DEF Opened, local, Truth
    <3> QED
      BY <2>5, <3>1, <3>2, <3>3, <3>4, <3>5, <3>6, <3>7 DEF Open
  <2>6. ASSUME NEW r \in Runner, Lock(r) PROVE Truth' /\ WholeScope'
    <3> USE <2>0
    <3>1. CASE Acquire(r)
      BY <3>1, <2>2 DEF Acquire, local, Truth
    <3>2. CASE Refused(r)
      BY <3>2, <2>2 DEF Refused, local, Truth
    <3>3. CASE PartingSave(r)
      BY <3>3, <2>3 DEF PartingSave, Truth, WholeScope
    <3>4. CASE Release(r)
      BY <3>4, <2>3 DEF Release, Truth, WholeScope
    <3> QED
      BY <2>6, <3>1, <3>2, <3>3, <3>4 DEF Lock
  <2>7. ASSUME NEW r \in Runner, Schedule(r) PROVE Truth' /\ WholeScope'
    <3> USE <2>0
    <3>1. CASE Dispatch(r)
      <4>1. PICK t \in Task : Save(r, [mem[r] EXCEPT !.gen[t] = @ + 1])
        BY <3>1 DEF Dispatch, Actionable, Run
      <4>2. PICK run \in Run : run = [mem[r] EXCEPT !.gen[t] = @ + 1]
        BY RunFields
      <4>3. run.tasks = mem[r].tasks /\ run.done = mem[r].done
        BY <4>2, Changes
      <4> QED
        <5>1. /\ Goto(r, "running") /\ Save(r, run) /\ toReuse' = toReuse
              /\ verified' = verified /\ pc[r] \notin {"idle", "fresh"}
          BY <3>1, <4>1, <4>2 DEF Dispatch
        <5> QED
          BY <4>3, <5>1, <2>4 DEF Truth
    <3>2. CASE Complete(r)
      <4>1. {task[r]} \in SUBSET Task
        BY <3>2 DEF Complete, InHand
      <4>2. PICK run \in Run : run = [mem[r] EXCEPT !.done = @ \cup {task[r]}]
        BY <4>1, RunFields
      <4>3. run.tasks = mem[r].tasks /\ run.done = mem[r].done \cup {task[r]}
        BY <4>1, <4>2, Changes
      <4>4. run.done \subseteq verified' \cup Elsewhere
        BY <3>2, <4>3 DEF Complete, Truth
      <4> QED
        <5>1. /\ Goto(r, "loop") /\ Save(r, run) /\ toReuse' = toReuse
              /\ verified \subseteq verified' /\ pc[r] \notin {"idle", "fresh"}
          BY <3>2, <4>2 DEF Complete
        <5>2. run.tasks = mem[r].tasks
          BY <4>3
        <5> QED
          BY <4>4, <5>1, <5>2, <2>4
    <3>3. CASE NotDone(r)
      BY <3>3, <2>4 DEF NotDone, local, Truth
    <3>4. CASE TurnFails(r)
      BY <3>4, <2>2 DEF TurnFails, local, Truth
    <3>5. CASE EndOk(r)
      BY <3>5, <2>4 DEF EndOk, local, Truth
    <3> QED
      BY <2>7, <3>1, <3>2, <3>3, <3>4, <3>5 DEF Schedule
  <2>8. ASSUME NEW r \in Runner, Amend(r) PROVE Truth' /\ WholeScope'
    <3> USE <2>0
    <3>1. CASE AmendLoad(r)
      <4>1. /\ mem'[r] = disk /\ disk' = disk /\ toReuse' = toReuse
            /\ Goto(r, "amending") /\ verified' = verified
            /\ \A o \in Runner \ {r} : mem'[o] = mem[o]
        BY <3>1 DEF AmendLoad, TypeOK
      <4>2. Selected \subseteq disk.tasks
        BY <3>1 DEF AmendLoad, WholeScope
      <4> QED
        BY <4>1, <4>2, <2>1 DEF Truth
    <3>2. CASE AmendSave(r)
      <4>1. task[r] \in Task
        BY <3>2 DEF AmendSave, InHand
      <4>2. disk'.tasks = mem[r].tasks /\ disk'.done = mem[r].done
        BY <3>2, <4>1, Changes DEF AmendSave
      <4>3. Selected \subseteq mem[r].tasks /\ mem[r].done \subseteq verified \cup Elsewhere
        BY <3>2 DEF AmendSave, Truth, WholeScope
      <4> QED
        BY <3>2, <4>2, <4>3, <2>3 DEF AmendSave
    <3>3. CASE ProbeLoad(r)
      <4>1. /\ mem'[r] = disk /\ disk' = disk /\ toReuse' = toReuse
            /\ Goto(r, "parting") /\ verified' = verified
            /\ \A o \in Runner \ {r} : mem'[o] = mem[o]
        BY <3>3 DEF ProbeLoad, TypeOK, local
      <4>2. Selected \subseteq disk.tasks
        BY <3>3 DEF ProbeLoad, WholeScope
      <4> QED
        BY <4>1, <4>2, <2>1 DEF Truth
    <3> QED
      BY <2>8, <3>1, <3>2, <3>3 DEF Amend
  <2>9. ASSUME NEW r \in Runner, Crash(r) PROVE Truth' /\ WholeScope'
    BY <2>9, <2>3 DEF Crash, Truth, WholeScope
  <2>10. CASE UNCHANGED vars
    BY <2>10 DEF vars, Truth, WholeScope
  <2> QED
    BY <2>5, <2>6, <2>7, <2>8, <2>9, <2>10 DEF Next
<1> QED
  BY <1>1, <1>2, TypeCorrect, PTL DEF Spec

(* "ok" is only reported when every selected task has been verified, by    *)
(* this run or the one its evidence was reused from, whatever stale copies *)
(* were saved in between.                                                  *)
THEOREM Truthful == Spec => []SuccessIsTruthful
<1>1. Truth /\ WholeScope => SuccessIsTruthful
  BY PlanAssumption DEF Truth, WholeScope, SuccessIsTruthful, Proven
<1> QED
  BY <1>1, TruthAlways, PTL

(* Types, exclusion and truth together, as the run checks them.            *)
THEOREM Earned == Spec => []SuccessIsEarned
<1>1. TypeOK /\ InHand /\ OneAtATime /\ SuccessIsTruthful => SuccessIsEarned
  BY DEF SuccessIsEarned
<1> QED BY <1>1, TypeCorrect, Exclusion, Truthful, PTL

-----------------------------------------------------------------------------
(* The loop does not run dry                                               *)

(* Of any tasks that are left, one depends on none of the others: the one  *)
(* that comes first in a topological order.                                *)
LEMMA SomeTaskIsFirst ==
    ASSUME NEW S \in SUBSET Task, S # {}
    PROVE  \E t \in S : DependsOn[t] \cap S = {}
<1>1. PICK order \in [Task -> Nat] : Topological(order)
  BY OrderAssumption, PlanAssumption
<1> DEFINE places == {order[t] : t \in S}
<1>2. places \subseteq Nat /\ places # {}
  OBVIOUS
<1>3. PICK first \in places : \A p \in places : ~(<<p, first>> \in OpToRel(<, Nat))
  <2> HIDE DEF places
  <2> QED BY <1>2, NatLessThanWellFounded, WFMin, Zenon
<1>4. \A p \in places : ~(p < first)
  BY <1>2, <1>3, Zenon DEF OpToRel
<1>5. PICK t \in S : order[t] = first
  BY <1>3
<1>6. DependsOn[t] \subseteq Task
  BY <1>5, PlanAssumption
<1> QED BY <1>1, <1>4, <1>5, <1>6 DEF Topological

(* While a task of the scope is not done the scheduler has one to          *)
(* dispatch: what the first of them needs in the scope is done.            *)
LEMMA SomeTaskIsActionable ==
    ASSUME NEW run \in Run, ~(run.tasks \subseteq run.done)
    PROVE  Actionable(run) # {}
<1> DEFINE left == run.tasks \ run.done
<1>1. left \in SUBSET Task /\ left # {}
  BY RunFields
<1>2. PICK t \in left : DependsOn[t] \cap left = {}
  <2> HIDE DEF left
  <2> QED BY <1>1, SomeTaskIsFirst
<1>3. Edges(run, t) \subseteq run.done
  BY <1>2 DEF Edges
<1> QED BY <1>2, <1>3 DEF Actionable

(* _next_actionable finds nothing only when every task of the scope has    *)
(* been verified: the loop of execute_run is never stuck.                  *)
THEOREM NeverStuck == Spec => []ScopeNeverStuck
<1>1. TypeOK => ScopeNeverStuck
  <2> SUFFICES ASSUME TypeOK, NEW r \in Runner, Actionable(mem[r]) = {}
               PROVE  mem[r].tasks \subseteq mem[r].done
    BY DEF ScopeNeverStuck
  <2>1. mem[r] \in Run
    BY DEF TypeOK
  <2> QED BY <2>1, SomeTaskIsActionable
<1> QED BY <1>1, TypeCorrect, PTL

-----------------------------------------------------------------------------
(* Dependencies                                                            *)

(* The plans without retired tasks, ...                                    *)
NoneRetired == \A t \in Task : ReplacedBy[t] = NoTask
(* ... whose earlier runs have verified nothing before what it needs.      *)
ElsewhereInOrder == \A t \in Elsewhere : DependsOn[t] \subseteq Elsewhere

(* What a recorded task needs and the scope left out is verified elsewhere.*)
Covered(run) == \A t \in run.tasks : DependsOn[t] \ run.tasks \subseteq Elsewhere

(* The closure of a selection is closed, and pruning takes out only what   *)
(* earlier runs have verified.                                             *)
LEMMA ScopesCovered ==
    ASSUME NoneRetired, ElsewhereInOrder
    PROVE  Covered(NewRun(ChainScope)) /\ Covered(NewRun(DefaultScope))
<1> USE PlanAssumption
<1>1. \A S \in SUBSET Task, t \in Task :
         t \in S \cup Ancestors(S) => DependsOn[t] \subseteq Ancestors(S)
  BY DEF Ancestors
<1>2. \A t \in Closure : DependsOn[t] \subseteq Closure
  BY <1>1, ScopeOfTasks DEF Closure
<1>3. Reused \subseteq Elsewhere
  BY ScopeOfTasks DEF Reused, NoneRetired
<1>4. Ancestors(Reused) \subseteq Elsewhere
  <2>1. \A t \in Reused : DependsOn[t] \subseteq Elsewhere
    BY <1>3 DEF ElsewhereInOrder
  <2> QED
    BY <2>1 DEF Ancestors, ElsewhereInOrder
<1>5. ChainScope = Closure
  <2>1. \A t, u \in Task : Final(t, u) => u = t
    <3> SUFFICES ASSUME NEW t \in Task, NEW u \in Task, Final(t, u) PROVE u = t
      OBVIOUS
    <3>1. {t} \in SUBSET Task /\ t \in {t}
      OBVIOUS
    <3>2. \A v \in {t} : ReplacedBy[v] \in {t} \cup {NoTask}
      BY DEF NoneRetired
    <3>3. \A c \in SUBSET Task :
             t \in c /\ (\A v \in c : ReplacedBy[v] \in c \cup {NoTask}) => u \in c
      BY DEF Final
    <3> HIDE DEF Final
    <3> QED
      BY <3>1, <3>2, <3>3
  <2>2. \A t \in Task : Live(t) = t
    BY <2>1 DEF Live
  <2> QED
    BY <2>2, ScopeOfTasks DEF ChainScope
<1>6. Covered(NewRun(ChainScope))
  BY <1>2, <1>5 DEF Covered, NewRun
<1>7. Covered(NewRun(DefaultScope))
  BY <1>2, <1>3, <1>4 DEF Covered, NewRun, DefaultScope
<1> QED
  BY <1>6, <1>7

(* Every copy covers its scope, and a task under way is one whose recorded *)
(* dependencies its copy calls done.                                       *)
InOrder ==
    /\ Covered(disk)
    /\ \A r \in Runner :
          /\ Covered(mem[r])
          /\ pc[r] = "running" => /\ task[r] \in mem[r].tasks
                                  /\ Edges(mem[r], task[r]) \subseteq mem[r].done

(* No executor works on a task one of whose dependencies nobody verified,  *)
(* in every plan without retired tasks whose earlier runs verified no task *)
(* before what it depends on.                                              *)
THEOREM DependenciesVerified ==
    ASSUME NoneRetired, ElsewhereInOrder
    PROVE  Spec => []DependenciesFirst
<1>1. Init => InOrder
  BY Changes, NoRunType DEF Init, InOrder, Covered
<1>2. TypeOK /\ InHand /\ InOrder /\ [Next]_vars => InOrder'
  <2> SUFFICES ASSUME TypeOK, InHand, InOrder, [Next]_vars PROVE InOrder'
    OBVIOUS
  <2>0. disk \in Run /\ \A r \in Runner : mem[r] \in Run
    BY DEF TypeOK
  <2>1. ASSUME NEW r \in Runner, NEW l, Goto(r, l), Covered(disk'), Covered(mem'[r]),
               \A o \in Runner \ {r} : mem'[o] = mem[o] /\ task'[o] = task[o],
               l = "running" => /\ task'[r] \in mem'[r].tasks
                                /\ Edges(mem'[r], task'[r]) \subseteq mem'[r].done
        PROVE  InOrder'
    BY <2>1 DEF InOrder, Goto, TypeOK, Covered, Edges
  <2>2. ASSUME NEW r \in Runner, NEW l, Goto(r, l), UNCHANGED <<disk, mem, task>>,
               l # "running"
        PROVE  InOrder'
    BY <2>1, <2>2 DEF InOrder
  <2>3. ASSUME NEW r \in Runner, Leave(r), Covered(disk') PROVE InOrder'
    <3>1. /\ mem'[r] = NoRun
          /\ \A o \in Runner \ {r} : mem'[o] = mem[o] /\ task'[o] = task[o]
      BY <2>3 DEF Leave, TypeOK
    <3>2. Covered(mem'[r])
      BY <3>1, Changes, NoRunType DEF Covered
    <3> QED
      BY <2>1, <2>3, <3>1, <3>2 DEF Leave
  <2>4. ASSUME NEW r \in Runner, NEW l, Goto(r, l), NEW run \in Run, Save(r, run),
               run.tasks = mem[r].tasks,
               \A o \in Runner \ {r} : task'[o] = task[o],
               l = "running" => /\ task'[r] \in run.tasks
                                /\ Edges(run, task'[r]) \subseteq run.done
        PROVE  InOrder'
    <3>1. /\ disk' = run /\ mem'[r] = run
          /\ \A o \in Runner \ {r} : mem'[o] = mem[o]
      BY <2>4 DEF Save, TypeOK
    <3>2. Covered(run)
      BY <2>4 DEF InOrder, Covered
    <3> QED
      BY <2>1, <2>4, <3>1, <3>2
  <2>5. ASSUME NEW r \in Runner, Open(r) PROVE InOrder'
    <3> USE <2>0
    <3>1. CASE FreshCheck(r)
      BY <3>1, <2>2 DEF FreshCheck, local
    <3>2. CASE FreshCreate(r)
      <4>1. PICK chain \in BOOLEAN :
              Save(r, NewRun(IF chain THEN ChainScope ELSE DefaultScope))
        BY <3>2 DEF FreshCreate
      <4>2. /\ Covered(disk') /\ mem'[r] = disk'
            /\ \A o \in Runner \ {r} : mem'[o] = mem[o]
        BY <4>1, ScopesCovered DEF Save, TypeOK
      <4> QED
        BY <3>2, <4>2, <2>1 DEF FreshCreate
    <3>3. CASE ReuseTask(r)
      <4>1. PICK t \in toReuse[r] : Save(r, [mem[r] EXCEPT !.done = @ \cup {t}])
        BY <3>3 DEF ReuseTask
      <4>2. {t} \in SUBSET Task
        BY DEF TypeOK
      <4>3. PICK run \in Run : run = [mem[r] EXCEPT !.done = @ \cup {t}]
        BY <4>2, RunFields
      <4>4. run.tasks = mem[r].tasks
        BY <4>2, <4>3, Changes
      <4> QED
        BY <3>3, <4>1, <4>3, <4>4, <2>4 DEF ReuseTask
    <3>4. CASE ReuseEnds(r)
      BY <3>4, <2>2 DEF ReuseEnds, local
    <3>5. CASE Resume(r)
      <4>1. /\ mem'[r] = disk /\ disk' = disk /\ task' = task /\ Goto(r, "opening")
            /\ \A o \in Runner \ {r} : mem'[o] = mem[o]
        BY <3>5 DEF Resume, TypeOK, local
      <4> QED
        BY <4>1, <2>1 DEF InOrder
    <3>6. CASE SaveCopy(r)
      <4>1. Goto(r, pc[r]) /\ Save(r, mem[r]) /\ task' = task
        BY <3>6 DEF SaveCopy, local
      <4> QED
        BY <4>1, <2>4 DEF InOrder
    <3>7. CASE Opened(r)
      BY <3>7, <2>4 DEF Opened, local
    <3> QED
      BY <2>5, <3>1, <3>2, <3>3, <3>4, <3>5, <3>6, <3>7 DEF Open
  <2>6. ASSUME NEW r \in Runner, Lock(r) PROVE InOrder'
    <3>1. CASE Acquire(r)
      BY <3>1, <2>2 DEF Acquire, local
    <3>2. CASE Refused(r)
      BY <3>2, <2>2 DEF Refused, local
    <3>3. CASE PartingSave(r)
      BY <3>3, <2>3 DEF PartingSave, InOrder
    <3>4. CASE Release(r)
      BY <3>4, <2>3 DEF Release, InOrder
    <3> QED
      BY <2>6, <3>1, <3>2, <3>3, <3>4 DEF Lock
  <2>7. ASSUME NEW r \in Runner, Schedule(r) PROVE InOrder'
    <3> USE <2>0
    <3>1. CASE Dispatch(r)
      <4>1. PICK t \in Actionable(mem[r]) :
              /\ Save(r, [mem[r] EXCEPT !.gen[t] = @ + 1])
              /\ task' = [task EXCEPT ![r] = t]
        BY <3>1 DEF Dispatch
      <4>2. t \in Task /\ t \in mem[r].tasks /\ Edges(mem[r], t) \subseteq mem[r].done
        BY RunFields DEF Actionable
      <4>3. PICK run \in Run : run = [mem[r] EXCEPT !.gen[t] = @ + 1]
        BY <4>2, RunFields
      <4>4. run.tasks = mem[r].tasks /\ run.done = mem[r].done
        BY <4>2, <4>3, Changes
      <4>5. task'[r] = t /\ \A o \in Runner \ {r} : task'[o] = task[o]
        BY <4>1 DEF TypeOK
      <4>6. t \in run.tasks /\ Edges(run, t) \subseteq run.done
        BY <4>2, <4>4 DEF Edges
      <4>7. Goto(r, "running") /\ Save(r, run)
        BY <3>1, <4>1, <4>3 DEF Dispatch
      <4> QED
        BY <4>4, <4>5, <4>6, <4>7, <2>4
    <3>2. CASE Complete(r)
      <4>1. {task[r]} \in SUBSET Task
        BY <3>2 DEF Complete, InHand
      <4>2. PICK run \in Run : run = [mem[r] EXCEPT !.done = @ \cup {task[r]}]
        BY <4>1, RunFields
      <4>3. run.tasks = mem[r].tasks
        BY <4>1, <4>2, Changes
      <4>4. Goto(r, "loop") /\ Save(r, run)
        BY <3>2, <4>2 DEF Complete
      <4>5. \A o \in Runner \ {r} : task'[o] = task[o]
        BY <3>2 DEF Complete, TypeOK
      <4> QED
        BY <4>3, <4>4, <4>5, <2>4
    <3>3. CASE NotDone(r)
      BY <3>3, <2>4 DEF NotDone, local
    <3>4. CASE TurnFails(r)
      BY <3>4, <2>2 DEF TurnFails, local
    <3>5. CASE EndOk(r)
      BY <3>5, <2>4 DEF EndOk, local
    <3> QED
      BY <2>7, <3>1, <3>2, <3>3, <3>4, <3>5 DEF Schedule
  <2>8. ASSUME NEW r \in Runner, Amend(r) PROVE InOrder'
    <3> USE <2>0
    <3>1. CASE AmendLoad(r)
      <4>1. /\ mem'[r] = disk /\ disk' = disk /\ Goto(r, "amending")
            /\ \A o \in Runner \ {r} : mem'[o] = mem[o] /\ task'[o] = task[o]
        BY <3>1 DEF AmendLoad, TypeOK
      <4> QED
        BY <4>1, <2>1 DEF InOrder
    <3>2. CASE AmendSave(r)
      <4>1. task[r] \in Task
        BY <3>2 DEF AmendSave, InHand
      <4>2. disk'.tasks = mem[r].tasks
        BY <3>2, <4>1, Changes DEF AmendSave
      <4>3. Covered(disk')
        BY <4>2 DEF InOrder, Covered
      <4> QED
        BY <3>2, <4>3, <2>3 DEF AmendSave
    <3>3. CASE ProbeLoad(r)
      <4>1. /\ mem'[r] = disk /\ disk' = disk /\ task' = task /\ Goto(r, "parting")
            /\ \A o \in Runner \ {r} : mem'[o] = mem[o]
        BY <3>3 DEF ProbeLoad, TypeOK, local
      <4> QED
        BY <4>1, <2>1 DEF InOrder
    <3> QED
      BY <2>8, <3>1, <3>2, <3>3 DEF Amend
  <2>9. ASSUME NEW r \in Runner, Crash(r) PROVE InOrder'
    BY <2>9, <2>3 DEF Crash, InOrder
  <2>10. CASE UNCHANGED vars
    BY <2>10 DEF vars, InOrder, Covered, Edges
  <2> QED
    BY <2>5, <2>6, <2>7, <2>8, <2>9, <2>10 DEF Next
<1>3. TypeOK /\ Truth /\ InOrder => DependenciesFirst
  BY DEF TypeOK, Truth, InOrder, DependenciesFirst, Covered, Edges, Proven
<1> QED
  BY <1>1, <1>2, <1>3, TypeCorrect, TruthAlways, PTL DEF Spec
=============================================================================
