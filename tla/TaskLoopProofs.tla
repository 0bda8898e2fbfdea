--------------------------- MODULE TaskLoopProofs ---------------------------
(***************************************************************************)
(* What holds of TaskLoop for every repair budget, number of commands and  *)
(* acceptance contract.  The inductive invariant IInv relates the runner's *)
(* copy to run.json, each location to the status, the evidence to the      *)
(* tree, generations to launches, spent attempts to reports and gates that *)
(* have not begun to their empty command records.                          *)
(***************************************************************************)
EXTENDS TaskLoop, TLAPS

(* From reconciliation to the first look at the task's own status.         *)
Entering == {"reconcile", "prepare", "enter", "start", "started"}

(* Only at two locations does the runner know more than run.json, and then *)
(* only about evidence, commands and history.                              *)
MemoryOnDisk ==
    /\ pc \notin {"promoted", "verifiers"} => mem = disk
    /\ mem.status = disk.status /\ mem.verdicts = disk.verdicts
    /\ mem.attempts = disk.attempts /\ mem.rev = disk.rev
    /\ mem.nextGen = disk.nextGen
    /\ pc = "promoted" => mem.pending = disk.pending
    /\ pc = "verifiers" => mem.evidence.gen = disk.evidence.gen

(* Where each status can be met.                                           *)
StatusByLocation ==
    /\ disk.status = "done" => pc \in {"off", "reconcile", "done"}
    /\ pc = "start" => disk.status = "to_do"
    /\ pc \in InLoop \cup {"started"} => disk.status = "in_progress"
    /\ pc = "done" => disk.status = "done"
    /\ pc \in {"failed", "repair"} => P!Failed(disk.verdicts)

(* The evidence of a gate, running or to be continued, is of the tree.     *)
EvidenceOfTree ==
    /\ pc = "promoted" => mem.evidence.gen = tree /\ tree # 0
    /\ pc \in {"verify", "verifiers"} => mem.evidence.gen = tree /\ tree # 0
    /\ disk.pending => disk.evidence.gen = tree /\ tree # 0
    /\ pc \in {"running", "promoted"} => ~disk.pending
    /\ pc = "running" => window # 0

(* Generations are consumed before they are launched.                      *)
Generations ==
    /\ \A g \in launched : g < disk.nextGen
    /\ pc \in {"consumed", "running", "promoted"} => window < disk.nextGen
    /\ pc = "consumed" => window \notin launched /\ window # 0

(* Reports are written before the attempts they brief are spent.           *)
Reports ==
    /\ \A n \in 1..disk.attempts : <<disk.rev, n + 1>> \in reports
    /\ pc = "repair" => <<disk.rev, disk.attempts + 2>> \in reports

(* No command record belongs to a gate that has not begun.                 *)
FutureStage(s) ==
    \/ s[1] > disk.rev
    \/ s[1] = disk.rev /\ s[2] > disk.attempts + 1

FutureStagesEmpty ==
    /\ \A s \in Stages : FutureStage(s) =>
          disk.commands[s].count = 0 /\ mem.commands[s].count = 0
    /\ pc \in Entering => entry = disk.attempts
    /\ pc \in {"dispatch", "consumed", "running", "promoted", "verify"}
          /\ disk.attempts > entry => Records.count = 0

(* Reconciliation has brought the board up to date.                        *)
BoardCurrent ==
    pc \in {"prepare", "enter"} /\ disk.status = "in_progress"
        => board = "in_progress"

IInv == /\ TypeOK /\ MemoryOnDisk /\ StatusByLocation /\ EvidenceOfTree
        /\ Generations /\ Reports /\ FutureStagesEmpty /\ BoardCurrent
        /\ CompletedWorkIsVerified /\ RepairIsBriefed /\ FreshAfterRepair
        /\ BoardCurrentInLoop
-----------------------------------------------------------------------------
(* Type correctness                                                        *)

(* record_operation keeps a record a record, whatever the operation.       *)
LEMMA OpType ==
    ASSUME NEW rec \in TaskRecord, NEW kind, NEW outcome
    PROVE  Op(rec, kind, outcome) \in TaskRecord
BY DEF Op, TaskRecord

USE SpecAssumption, BoundsAssumption

(* An operation changes the history and nothing else.                      *)
LEMMA OpFields ==
    ASSUME NEW rec \in TaskRecord, NEW kind, NEW outcome
    PROVE  LET op == Op(rec, kind, outcome) IN
           /\ op.status = rec.status /\ op.verdicts = rec.verdicts
           /\ op.attempts = rec.attempts /\ op.rev = rec.rev
           /\ op.nextGen = rec.nextGen /\ op.evidence = rec.evidence
           /\ op.commands = rec.commands
           /\ op.pending = (kind = "verification" /\ outcome = "blocked")
BY DEF Op, TaskRecord

(* The commands of a gate touch their own stage's records, and remote      *)
(* observations nothing but the remote evidence.                           *)
LEMMA GateFields ==
    ASSUME TypeOK, ReuseCommands \/ RunCommands
    PROVE  /\ mem' \in TaskRecord /\ disk' = disk
           /\ mem'.status = mem.status /\ mem'.verdicts = mem.verdicts
           /\ mem'.attempts = mem.attempts /\ mem'.rev = mem.rev
           /\ mem'.nextGen = mem.nextGen
           /\ mem'.evidence.gen = mem.evidence.gen
           /\ mem'.pending => mem.pending
           /\ \A s \in Stages : s # Stage => mem'.commands[s] = mem.commands[s]
<1>0. mem \in TaskRecord /\ disk \in TaskRecord
  BY DEF TypeOK
<1>1. ASSUME NEW r \in TaskRecord, NEW o \in Observed(r)
      PROVE  /\ o \in TaskRecord
             /\ o.status = r.status /\ o.verdicts = r.verdicts
             /\ o.attempts = r.attempts /\ o.rev = r.rev /\ o.nextGen = r.nextGen
             /\ o.evidence.gen = r.evidence.gen /\ o.commands = r.commands
             /\ o.pending = r.pending
  <2>1. r.evidence \in [gen : 0..MaxGen, mutated : BOOLEAN, remote : BOOLEAN]
    BY DEF TaskRecord
  <2>2. [r.evidence EXCEPT !.remote = TRUE]
           \in [gen : 0..MaxGen, mutated : BOOLEAN, remote : BOOLEAN]
    BY <2>1
  <2>3. [r EXCEPT !.evidence = [r.evidence EXCEPT !.remote = TRUE]] \in TaskRecord
    BY <2>2 DEF TaskRecord
  <2>4. o = r \/ o = [r EXCEPT !.evidence.remote = TRUE]
    BY <1>1 DEF Observed
  <2>5. CASE o = r
    BY <2>5
  <2>6. CASE o = [r EXCEPT !.evidence.remote = TRUE]
    <3>1. o \in TaskRecord
      BY <2>3, <2>6
    <3>2. o.evidence = [r.evidence EXCEPT !.remote = TRUE]
      BY <2>6 DEF TaskRecord
    <3>3. o.evidence.gen = r.evidence.gen
      BY <2>1, <3>2
    <3>4. /\ o.status = r.status /\ o.verdicts = r.verdicts
          /\ o.attempts = r.attempts /\ o.rev = r.rev /\ o.nextGen = r.nextGen
          /\ o.commands = r.commands /\ o.pending = r.pending
      BY <2>6 DEF TaskRecord
    <3> QED BY <3>1, <3>3, <3>4
  <2> QED BY <2>4, <2>5, <2>6
<1>2. CASE ReuseCommands
  <2> DEFINE r == Op(mem, "verification", "resumed")
  <2> PICK o \in Observed(r) : Note(o)
    BY <1>2 DEF ReuseCommands
  <2>1. /\ r \in TaskRecord
        /\ r.status = mem.status /\ r.verdicts = mem.verdicts
        /\ r.attempts = mem.attempts /\ r.rev = mem.rev
        /\ r.nextGen = mem.nextGen /\ r.evidence = mem.evidence
        /\ r.commands = mem.commands /\ ~r.pending
    <3>1. r \in TaskRecord
      BY <1>0, OpType
    <3>2. /\ r.status = mem.status /\ r.verdicts = mem.verdicts
          /\ r.attempts = mem.attempts /\ r.rev = mem.rev
          /\ r.nextGen = mem.nextGen /\ r.evidence = mem.evidence
          /\ r.commands = mem.commands
      BY <1>0, OpFields
    <3>3. ~r.pending
      BY <1>0 DEF Op, TaskRecord
    <3> QED BY <3>1, <3>2, <3>3
  <2>2. mem' = o /\ disk' = disk
    BY DEF Note
  <2> HIDE DEF r
  <2>3. /\ o \in TaskRecord
        /\ o.status = r.status /\ o.verdicts = r.verdicts
        /\ o.attempts = r.attempts /\ o.rev = r.rev /\ o.nextGen = r.nextGen
        /\ o.evidence.gen = r.evidence.gen /\ o.commands = r.commands
        /\ o.pending = r.pending
    BY <1>1, <2>1
  <2> QED BY <2>1, <2>2, <2>3
<1>3. CASE RunCommands
  <2> PICK k \in 1..NCmds, stop \in BOOLEAN :
         \E o \in Observed([mem EXCEPT !.commands[Stage] = Appended(k, stop)]) :
            Note(o)
    BY <1>3 DEF RunCommands
  <2> DEFINE r == [mem EXCEPT !.commands[Stage] = Appended(k, stop)]
  <2> PICK o \in Observed(r) : Note(o)
    OBVIOUS
  <2>1. r \in TaskRecord
    <3>1. Stage \in Stages /\ Records \in StageRecords
      BY <1>0 DEF Stage, Stages, Records, TaskRecord
    <3>2. Appended(k, stop) \in StageRecords
      BY <3>1 DEF Appended, TooMany, StageRecords, TypeOK
    <3> QED BY <1>0, <3>2 DEF TaskRecord
  <2>2. /\ r.status = mem.status /\ r.verdicts = mem.verdicts
        /\ r.attempts = mem.attempts /\ r.rev = mem.rev
        /\ r.nextGen = mem.nextGen /\ r.evidence = mem.evidence
        /\ r.pending = mem.pending
        /\ \A s \in Stages : s # Stage => r.commands[s] = mem.commands[s]
    BY <1>0 DEF TaskRecord
  <2> HIDE DEF r
  <2> QED BY <1>1, <2>1, <2>2 DEF Note
<1> QED BY <1>2, <1>3

(* A record that init_run has just created is a record.                    *)
LEMMA FreshRecordType == FreshRecord \in TaskRecord
<1>1. [s \in Stages |-> NoRecords] \in [Stages -> StageRecords]
  <2>1. NoRecords \in StageRecords
    BY DEF NoRecords, StageRecords
  <2> QED BY <2>1
<1>2. /\ 0 \in 0..MaxRepair /\ 0 \in 0..MaxRev /\ 1 \in 1..MaxGen + 1
      /\ 0 \in 0..MaxGen
  OBVIOUS
<1>3. "to_do" \in Statuses
  BY DEF Statuses
<1> QED BY <1>1, <1>2, <1>3 DEF FreshRecord, TaskRecord

(* Types hold of a fresh run.                                              *)
LEMMA InitType == Init => TypeOK
<1> SUFFICES ASSUME Init PROVE TypeOK
  OBVIOUS
<1>1. mem \in TaskRecord /\ disk \in TaskRecord
  BY FreshRecordType DEF Init
<1>2. package \in Packages
  BY DEF Init, NoPackage, Packages
<1>3. pc \in Locations
  BY DEF Init, Locations
<1>4. /\ tree \in 0..MaxGen /\ window \in 0..MaxGen
      /\ repairOf \in 0..MaxRepair + 2 /\ entry \in 0..MaxRepair
  BY DEF Init
<1>5. external \in BOOLEAN /\ board \in Statuses
  BY Zenon DEF Init
<1>6. /\ reports \subseteq (0..MaxRev) \X (2..MaxRepair + 2)
      /\ launched \subseteq 0..MaxGen
  BY DEF Init
<1> HIDE DEF Init
<1> QED BY <1>1, <1>2, <1>3, <1>4, <1>5, <1>6 DEF TypeOK

(* What the runner and run.json hold stays a record.                       *)
LEMMA RecordStep ==
    ASSUME TypeOK, [Next]_vars
    PROVE  mem' \in TaskRecord /\ disk' \in TaskRecord
<1>0. mem \in TaskRecord /\ disk \in TaskRecord
  BY DEF TypeOK
<1>1. CASE UNCHANGED <<mem, disk>>
  BY <1>0, <1>1
<1>2. CASE Leave /\ UNCHANGED disk
  BY <1>0, <1>2 DEF Leave
<1>3. ASSUME NEW kind, NEW outcome, EndWith(kind, outcome)
      PROVE  mem' \in TaskRecord /\ disk' \in TaskRecord
  BY <1>0, <1>3, OpType DEF EndWith, Save
<1>4. CASE PrepareBlocks
  <2>1. [mem EXCEPT !.status = "in_progress"] \in TaskRecord
    BY <1>0 DEF TaskRecord, Statuses
  <2> QED BY <2>1, <1>4, OpType DEF PrepareBlocks, Save, BlockedBy
<1>5. CASE PreparePasses
  BY <1>0, <1>5, OpType DEF PreparePasses, Save
<1>6. CASE StartTask
  BY <1>0, <1>6 DEF StartTask, Save, TaskRecord, Statuses
<1>7. CASE ConsumeGeneration
  BY <1>0, <1>7 DEF ConsumeGeneration, Save, TaskRecord
<1>8. CASE Launch \/ ExecutorSucceeded \/ VerifierUnavailable \/ Escalate
  BY <1>0, <1>8, OpType DEF Launch, ExecutorSucceeded, VerifierUnavailable,
     Escalate, Save
<1>9. ASSUME NEW e \in Evidence, pc = "running"
      PROVE  [mem EXCEPT !.evidence = e] \in TaskRecord
  BY <1>0, <1>9 DEF Evidence, TaskRecord, TypeOK
<1>10. CASE ScopeBlocked \/ Promote
  <2>1. CASE ScopeBlocked
    <3> PICK e \in Evidence :
           Save(Op([mem EXCEPT !.evidence = e], "execution", "failed"))
      BY <2>1 DEF ScopeBlocked
    <3>1. pc = "running"
      BY <2>1 DEF ScopeBlocked
    <3> QED BY <3>1, <1>9, OpType DEF Save
  <2>2. CASE Promote
    <3> PICK e \in Evidence : Note([mem EXCEPT !.evidence = e])
      BY <2>2 DEF Promote
    <3>1. pc = "running"
      BY <2>2 DEF Promote
    <3> QED BY <3>1, <1>9, <1>0 DEF Note
  <2> QED BY <1>10, <2>1, <2>2
<1>14. CASE ReuseCommands \/ RunCommands
  BY <1>0, <1>14, GateFields
<1>15. CASE RecordVerdicts
  <2> PICK v \in VerdictPairs :
         Save(Op([mem EXCEPT !.verdicts = Settled(v),
                             !.status = IF P!Passed(Settled(v)) THEN "done" ELSE @],
                 "verification", OutcomeOf(Settled(v))))
    BY <1>15 DEF RecordVerdicts
  <2>1. Settled(v) \in VerdictPairs
    BY DEF Settled, VerdictPairs, P!Tokens
  <2>2. [mem EXCEPT !.verdicts = Settled(v),
                    !.status = IF P!Passed(Settled(v)) THEN "done" ELSE @]
           \in TaskRecord
    BY <2>1, <1>0 DEF TaskRecord, Statuses
  <2> QED BY <2>2, OpType DEF Save
<1>16. CASE BeginRepair
  <2>1. [mem EXCEPT !.attempts = @ + 1] \in TaskRecord
    BY <1>0, <1>16 DEF BeginRepair, TaskRecord
  <2> QED BY <2>1, <1>16, OpType DEF BeginRepair, Save
<1>17. CASE Amend
  <2>1. [disk EXCEPT !.rev = @ + 1, !.attempts = 0, !.verdicts = P!NoVerdicts]
           \in TaskRecord
    <3>1. disk.rev + 1 \in 0..MaxRev /\ 0 \in 0..MaxRepair
      BY <1>0, <1>17 DEF Amend, TaskRecord
    <3> QED BY <1>0, <3>1 DEF TaskRecord
  <2> QED BY <2>1, <1>17, OpType DEF Amend, Save
<1>18. CASE Scheduler \/ Enter
  BY <1>1, <1>2, <1>3, <1>4, <1>5, <1>6, <1>18 DEF Scheduler, Enter, Reconcile,
     TaskLeaseHeld, ProjectionFails, RecordFailedExecution, EnterToDo,
     ProjectStarted, EnterInProgress
<1>19. CASE Window
  BY <1>2, <1>3, <1>7, <1>8, <1>10, <1>19 DEF Window, AmendmentRequired,
     PreDispatchBlocks, DispatchRefused, LaunchFails, ExecutorBlocked
<1>20. CASE Gate \/ Repair
  BY <1>1, <1>2, <1>8, <1>14, <1>15, <1>16, <1>20 DEF Gate, Repair, ProjectDone,
     WriteRepairReport
<1>21. CASE Resume \/ Crash \/ UNCHANGED vars
  BY <1>1, <1>2, <1>21 DEF Resume, Crash, vars
<1> QED BY <1>17, <1>18, <1>19, <1>20, <1>21 DEF Next, Step

(* Everything else keeps its type: locations, reports and packages.        *)
LEMMA LocalStep ==
    ASSUME TypeOK, [Next]_vars
    PROVE  /\ tree' \in 0..MaxGen /\ board' \in Statuses /\ pc' \in Locations
           /\ reports' \subseteq (0..MaxRev) \X (2..MaxRepair + 2)
           /\ window' \in 0..MaxGen /\ repairOf' \in 0..MaxRepair + 2
           /\ package' \in Packages /\ external' \in BOOLEAN
           /\ entry' \in 0..MaxRepair /\ launched' \subseteq 0..MaxGen
<1> DEFINE OutsideOK == /\ tree' \in 0..MaxGen /\ board' \in Statuses
                        /\ reports' \subseteq (0..MaxRev) \X (2..MaxRepair + 2)
                        /\ launched' \subseteq 0..MaxGen
           LocalOK == /\ pc' \in Locations
                      /\ window' \in 0..MaxGen /\ repairOf' \in 0..MaxRepair + 2
                      /\ package' \in Packages /\ external' \in BOOLEAN
                      /\ entry' \in 0..MaxRepair
<1> USE DEF TypeOK, Outside, local
<1>0. /\ mem.status \in Statuses /\ mem.attempts \in 0..MaxRepair
      /\ mem.rev \in 0..MaxRev /\ mem.nextGen \in 1..MaxGen + 1
      /\ Records \in StageRecords
  BY DEF TaskRecord, Records, Stage, Stages
<1>1. Leave => LocalOK
  <2>1. NoPackage \in Packages /\ "off" \in Locations
    BY DEF Packages, NoPackage, Locations
  <2>2. 0 \in 0..MaxGen /\ 0 \in 0..MaxRepair + 2 /\ 0 \in 0..MaxRepair
    OBVIOUS
  <2>3. Leave => external' \in BOOLEAN
    BY Zenon DEF Leave
  <2> QED BY <2>1, <2>2, <2>3 DEF Leave
<1>2. UNCHANGED Outside => OutsideOK
  OBVIOUS
<1>3. \A kind, outcome : EndWith(kind, outcome) => OutsideOK /\ LocalOK
  BY <1>1, <1>2 DEF EndWith
<1>4. CASE Scheduler
  <2>1. CASE Reconcile
    BY <1>0, <1>1, <2>1 DEF Reconcile, Locations
  <2>2. CASE PrepareBlocks
    BY <1>1, <2>2 DEF PrepareBlocks, Statuses
  <2>3. CASE PreparePasses
    BY <1>2, <2>3 DEF PreparePasses, Locations
  <2>4. CASE ProjectionFails
    BY <1>1, <1>2, <2>4 DEF ProjectionFails
  <2> QED BY <1>3, <1>4, <2>1, <2>2, <2>3, <2>4 DEF Scheduler, TaskLeaseHeld,
      RecordFailedExecution
<1>5. CASE Enter
  BY <1>5 DEF Enter, EnterToDo, StartTask, ProjectStarted, EnterInProgress,
     Statuses, Locations
<1>6. CASE Window
  <2>1. CASE DispatchRefused
    BY <1>1, <1>2, <2>1 DEF DispatchRefused
  <2>2. CASE ConsumeGeneration
    BY <1>0, <1>2, <2>2 DEF ConsumeGeneration, Locations
  <2>3. CASE Launch
    BY <1>2, <2>3 DEF Launch, Locations
  <2>4. CASE ScopeBlocked
    BY <1>1, <1>2, <2>4 DEF ScopeBlocked
  <2>5. CASE Promote
    BY <2>5 DEF Promote, Locations
  <2>6. CASE ExecutorSucceeded
    BY <1>2, <2>6 DEF ExecutorSucceeded, Locations
  <2> QED BY <1>3, <1>6, <2>1, <2>2, <2>3, <2>4, <2>5, <2>6 DEF Window,
      AmendmentRequired, PreDispatchBlocks, LaunchFails, ExecutorBlocked
<1>7. CASE Gate
  <2>1. CASE ReuseCommands
    BY <1>0, <1>2, <2>1 DEF ReuseCommands, Packages, StageRecords, Locations
  <2>2. CASE RunCommands
    BY <1>2, <2>2 DEF RunCommands, Packages, Locations
  <2>3. CASE VerifierUnavailable
    BY <1>2, <2>3 DEF VerifierUnavailable, Locations
  <2>4. CASE RecordVerdicts
    BY <1>2, <2>4 DEF RecordVerdicts, AfterVerdicts, Locations, P!Blocked
  <2>5. CASE ProjectDone
    BY <1>1, <2>5 DEF ProjectDone, Statuses
  <2> QED BY <1>7, <2>1, <2>2, <2>3, <2>4, <2>5 DEF Gate
<1>8. CASE Repair
  <2>1. CASE WriteRepairReport
    BY <1>0, <2>1 DEF WriteRepairReport, Locations
  <2>2. CASE BeginRepair
    <3>1. NoPackage \in Packages
      BY DEF Packages, NoPackage
    <3>2. mem.attempts + 2 \in 0..MaxRepair + 2
      BY <1>0
    <3>3. external' \in BOOLEAN
      BY <2>2, Zenon DEF BeginRepair
    <3> QED BY <1>2, <2>2, <3>1, <3>2, <3>3 DEF BeginRepair, Locations
  <2>3. CASE Escalate
    BY <1>2, <2>3 DEF Escalate, Locations
  <2> QED BY <1>8, <2>1, <2>2, <2>3 DEF Repair
<1>9. CASE Resume \/ Amend \/ Crash \/ UNCHANGED vars
  BY <1>0, <1>1, <1>2, <1>9 DEF Resume, Amend, Crash, vars, Locations
<1> QED BY <1>4, <1>5, <1>6, <1>7, <1>8, <1>9 DEF Next, Step

(* Records, locations, reports and packages keep their types, for every    *)
(* budget, number of commands and kind of acceptance contract.             *)
THEOREM TypeCorrect == Spec => []TypeOK
<1>1. TypeOK /\ [Next]_vars => TypeOK'
  BY RecordStep, LocalStep DEF TypeOK
<1> QED BY InitType, <1>1, PTL DEF Spec
-----------------------------------------------------------------------------
(* Memory, run.json and locations                                          *)

(* Every save writes the whole copy, and leaving a process loses the rest. *)
LEMMA MemoryStep ==
    ASSUME TypeOK, MemoryOnDisk, [Next]_vars
    PROVE  MemoryOnDisk'
<1>0. mem \in TaskRecord /\ disk \in TaskRecord
  BY DEF TypeOK
<1>1. Leave => MemoryOnDisk'
  BY DEF Leave, MemoryOnDisk
<1>2. ASSUME NEW rec, Save(rec) PROVE MemoryOnDisk'
  BY <1>2 DEF Save, MemoryOnDisk
<1>3. \A kind, outcome : EndWith(kind, outcome) => MemoryOnDisk'
  BY <1>1 DEF EndWith
<1>4. CASE UNCHANGED <<mem, disk>> /\ pc \notin {"promoted", "verifiers"}
  BY <1>4 DEF MemoryOnDisk
<1>5. CASE Scheduler
  BY <1>1, <1>2, <1>3, <1>4, <1>5 DEF Scheduler, Reconcile, PrepareBlocks,
     PreparePasses, TaskLeaseHeld, ProjectionFails, RecordFailedExecution
<1>6. CASE Enter
  BY <1>2, <1>4, <1>6 DEF Enter, EnterToDo, StartTask, ProjectStarted, EnterInProgress
<1>7. CASE Promote
  <2> PICK e \in Evidence : Note([mem EXCEPT !.evidence = e])
    BY <1>7 DEF Promote
  <2>1. pc = "running" /\ pc' = "promoted"
    BY <1>7 DEF Promote
  <2> QED BY <1>0, <2>1 DEF MemoryOnDisk, Note, TaskRecord
<1>8. CASE Window
  BY <1>1, <1>2, <1>3, <1>7, <1>8 DEF Window, AmendmentRequired,
     PreDispatchBlocks, DispatchRefused, ConsumeGeneration, Launch, LaunchFails,
     ExecutorBlocked, ScopeBlocked, ExecutorSucceeded
<1>9. CASE ReuseCommands \/ RunCommands
  <2>1. pc = "verify" /\ pc' = "verifiers"
    BY <1>9 DEF ReuseCommands, RunCommands
  <2> QED BY <1>9, <2>1, GateFields DEF MemoryOnDisk
<1>12. CASE Gate
  BY <1>1, <1>2, <1>9, <1>12 DEF Gate, VerifierUnavailable,
     RecordVerdicts, ProjectDone
<1>13. CASE Repair
  BY <1>2, <1>4, <1>13 DEF Repair, WriteRepairReport, BeginRepair, Escalate
<1>14. CASE Resume \/ Amend \/ Crash
  BY <1>1, <1>2, <1>4, <1>14 DEF Resume, Amend, Crash
<1>15. CASE UNCHANGED vars
  BY <1>15 DEF vars, MemoryOnDisk
<1> QED BY <1>5, <1>6, <1>8, <1>12, <1>13, <1>14, <1>15 DEF Next, Step

(* The location of the loop and the status in run.json agree.              *)
LEMMA StatusStep ==
    ASSUME TypeOK, MemoryOnDisk, StatusByLocation, [Next]_vars
    PROVE  StatusByLocation'
<1>0. mem \in TaskRecord /\ disk \in TaskRecord
  BY DEF TypeOK
<1> USE DEF StatusByLocation, MemoryOnDisk, InLoop
<1>1. (Leave /\ disk'.status = disk.status) => StatusByLocation'
  BY DEF Leave
<1>2. \A kind, outcome : EndWith(kind, outcome) => StatusByLocation'
  BY <1>0, <1>1, OpFields DEF EndWith, Save, Leave
<1>3. CASE Scheduler
  <2>1. CASE Reconcile
    BY <1>1, <2>1 DEF Reconcile
  <2>2. CASE PrepareBlocks
    <3>1. [mem EXCEPT !.status = "in_progress"] \in TaskRecord
      BY <1>0 DEF TaskRecord, Statuses
    <3>2. disk'.status = "in_progress"
      BY <1>0, <2>2, <3>1, OpFields DEF PrepareBlocks, BlockedBy, Save, TaskRecord
    <3> QED BY <2>2, <3>2 DEF PrepareBlocks, Leave
  <2>3. CASE PreparePasses
    BY <1>0, <2>3, OpFields DEF PreparePasses, Save
  <2>4. CASE ProjectionFails
    BY <1>1, <2>4 DEF ProjectionFails
  <2> QED BY <1>2, <1>3, <2>1, <2>2, <2>3, <2>4 DEF Scheduler, TaskLeaseHeld,
      RecordFailedExecution
<1>4. CASE Enter
  <2>1. CASE StartTask
    BY <1>0, <2>1 DEF StartTask, Save, TaskRecord
  <2> QED BY <1>4, <2>1 DEF Enter, EnterToDo, ProjectStarted, EnterInProgress
<1>5. CASE Window
  <2>1. CASE ConsumeGeneration
    BY <1>0, <2>1 DEF ConsumeGeneration, Save, TaskRecord
  <2>2. CASE Launch \/ ExecutorSucceeded
    BY <1>0, <2>2, OpFields DEF Launch, ExecutorSucceeded, Save
  <2>3. CASE ScopeBlocked
    <3> PICK e \in Evidence :
           Save(Op([mem EXCEPT !.evidence = e], "execution", "failed"))
      BY <2>3 DEF ScopeBlocked
    <3>1. disk'.status = mem.status
      BY <1>0 DEF Save, Op, TaskRecord
    <3> QED BY <2>3, <3>1, <1>1 DEF ScopeBlocked
  <2>4. CASE Promote
    BY <2>4 DEF Promote, Note
  <2>5. CASE DispatchRefused
    BY <1>1, <2>5 DEF DispatchRefused
  <2> QED BY <1>2, <1>5, <2>1, <2>2, <2>3, <2>4, <2>5 DEF Window,
      AmendmentRequired, PreDispatchBlocks, LaunchFails, ExecutorBlocked
<1>6. CASE Gate
  <2>1. CASE ReuseCommands \/ RunCommands
    BY <2>1 DEF ReuseCommands, RunCommands, Note
  <2>2. CASE VerifierUnavailable
    BY <1>0, <2>2, OpFields DEF VerifierUnavailable, Save
  <2>3. CASE RecordVerdicts
    <3> PICK v \in VerdictPairs :
           /\ Save(Op([mem EXCEPT !.verdicts = Settled(v),
                        !.status = IF P!Passed(Settled(v)) THEN "done" ELSE @],
                      "verification", OutcomeOf(Settled(v))))
           /\ pc' = AfterVerdicts(Settled(v))
      BY <2>3 DEF RecordVerdicts
    <3>1. Settled(v) \in VerdictPairs
      BY DEF Settled, VerdictPairs, P!Tokens
    <3>2. disk'.verdicts = Settled(v)
      BY <1>0 DEF Save, Op, TaskRecord
    <3>3. disk'.status = IF P!Passed(Settled(v)) THEN "done" ELSE "in_progress"
      BY <1>0, <2>3 DEF Save, Op, TaskRecord, RecordVerdicts
    <3>4. Settled(v) # P!NoVerdicts
      BY <3>1 DEF VerdictPairs, P!Tokens, P!NoVerdicts
    <3> DEFINE w == Settled(v)
    <3> HIDE DEF w
    <3>5. /\ disk'.verdicts = w /\ w # P!NoVerdicts
          /\ disk'.status = IF P!Passed(w) THEN "done" ELSE "in_progress"
          /\ pc' = AfterVerdicts(w)
      BY <3>2, <3>3, <3>4 DEF w
    <3>6. CASE P!Passed(w)
      <4>1. pc' = "done" /\ disk'.status = "done"
        BY <3>5, <3>6 DEF AfterVerdicts, P!Blocked, P!Passed
      <4> QED BY <4>1
    <3>7. CASE ~P!Passed(w) /\ P!Blocked(w)
      <4>1. pc' = "waiting" /\ disk'.status = "in_progress"
        BY <3>5, <3>7 DEF AfterVerdicts
      <4> QED BY <4>1
    <3>8. CASE ~P!Passed(w) /\ ~P!Blocked(w)
      <4>1. pc' = "failed" /\ disk'.status = "in_progress"
        BY <3>5, <3>8 DEF AfterVerdicts
      <4>2. P!Failed(disk'.verdicts)
        BY <3>5, <3>8 DEF P!Failed
      <4> QED BY <4>1, <4>2
    <3> QED BY <3>6, <3>7, <3>8
  <2>4. CASE ProjectDone
    BY <1>1, <2>4 DEF ProjectDone
  <2> QED BY <1>6, <2>1, <2>2, <2>3, <2>4 DEF Gate
<1>7. CASE Repair
  <2>1. CASE BeginRepair
    BY <1>0, <2>1 DEF BeginRepair, Save, Op, TaskRecord
  <2> QED BY <1>0, <1>7, <2>1, OpFields DEF Repair, WriteRepairReport, Escalate, Save
<1>8. CASE Amend
  <2>1. disk'.status = disk.status /\ pc' = "off"
    BY <1>0, <1>8 DEF Amend, Save, Op, TaskRecord
  <2> QED BY <2>1
<1>9. CASE Resume \/ Crash \/ UNCHANGED vars
  BY <1>1, <1>9 DEF Resume, Crash, vars
<1> QED BY <1>3, <1>4, <1>5, <1>6, <1>7, <1>8, <1>9 DEF Next, Step
-----------------------------------------------------------------------------
(* Frame: which actions can change what                                    *)

(* Saving an operation on a record that says what run.json says of the     *)
(* product state changes none of it.                                       *)
LEMMA SaveOp ==
    ASSUME TypeOK, MemoryOnDisk, NEW kind, NEW outcome,
           Save(Op(mem, kind, outcome))
    PROVE  /\ disk'.status = disk.status /\ disk'.verdicts = disk.verdicts
           /\ disk'.attempts = disk.attempts /\ disk'.rev = disk.rev
           /\ disk'.nextGen = disk.nextGen
           /\ disk'.evidence = mem.evidence /\ disk'.commands = mem.commands
           /\ disk'.pending = (kind = "verification" /\ outcome = "blocked")
           /\ mem' = disk'
<1>1. mem \in TaskRecord
  BY DEF TypeOK
<1> QED BY <1>1, OpFields DEF Save, MemoryOnDisk

(* The product state changes only where state.py's own operations are      *)
(* called.                                                                 *)
LEMMA ProductFrame ==
    ASSUME TypeOK, MemoryOnDisk, [Next]_vars
    PROVE  /\ disk'.status = disk.status \/ StartTask \/ PrepareBlocks \/ RecordVerdicts
           /\ disk'.verdicts = disk.verdicts \/ RecordVerdicts \/ Amend
           /\ disk'.attempts = disk.attempts \/ BeginRepair \/ Amend
           /\ disk'.rev = disk.rev \/ Amend
           /\ disk'.nextGen = disk.nextGen \/ ConsumeGeneration
<1>0. mem \in TaskRecord /\ disk \in TaskRecord
  BY DEF TypeOK
<1> DEFINE Same == /\ disk'.status = disk.status /\ disk'.verdicts = disk.verdicts
                   /\ disk'.attempts = disk.attempts /\ disk'.rev = disk.rev
                   /\ disk'.nextGen = disk.nextGen
<1>1. UNCHANGED disk => Same
  OBVIOUS
<1>2. \A kind, outcome : Save(Op(mem, kind, outcome)) => Same
  BY SaveOp
<1>3. \A kind, outcome : EndWith(kind, outcome) => Same
  BY <1>2 DEF EndWith
<1>4. ASSUME NEW e, NEW kind, NEW outcome,
             Save(Op([mem EXCEPT !.evidence = e], kind, outcome))
      PROVE  Same
  BY <1>0, <1>4 DEF Save, Op, TaskRecord, MemoryOnDisk
<1>5. Save(mem) => Same
  BY DEF Save, MemoryOnDisk
<1>6. PrepareBlocks => /\ disk'.verdicts = disk.verdicts
                       /\ disk'.attempts = disk.attempts /\ disk'.rev = disk.rev
                       /\ disk'.nextGen = disk.nextGen
  BY <1>0 DEF PrepareBlocks, BlockedBy, Save, Op, TaskRecord, MemoryOnDisk
<1>7. StartTask => /\ disk'.verdicts = disk.verdicts
                   /\ disk'.attempts = disk.attempts /\ disk'.rev = disk.rev
                   /\ disk'.nextGen = disk.nextGen
  BY <1>0 DEF StartTask, Save, TaskRecord, MemoryOnDisk
<1>8. ConsumeGeneration => /\ disk'.status = disk.status
                           /\ disk'.verdicts = disk.verdicts
                           /\ disk'.attempts = disk.attempts /\ disk'.rev = disk.rev
  BY <1>0 DEF ConsumeGeneration, Save, TaskRecord, MemoryOnDisk
<1>9. RecordVerdicts => /\ disk'.attempts = disk.attempts /\ disk'.rev = disk.rev
                        /\ disk'.nextGen = disk.nextGen
  BY <1>0 DEF RecordVerdicts, Save, Op, TaskRecord, MemoryOnDisk
<1>10. BeginRepair => /\ disk'.status = disk.status
                      /\ disk'.verdicts = disk.verdicts
                      /\ disk'.rev = disk.rev /\ disk'.nextGen = disk.nextGen
  BY <1>0 DEF BeginRepair, Save, Op, TaskRecord, MemoryOnDisk
<1>11. Amend => disk'.status = disk.status /\ disk'.nextGen = disk.nextGen
  BY <1>0 DEF Amend, Save, Op, TaskRecord, MemoryOnDisk
<1>12. CASE Scheduler
  <2>1. CASE PreparePasses
    BY <1>2, <1>5, <2>1 DEF PreparePasses
  <2> QED BY <1>1, <1>3, <1>6, <1>12, <2>1 DEF Scheduler, Reconcile,
      TaskLeaseHeld, ProjectionFails, RecordFailedExecution
<1>13. CASE Enter
  BY <1>1, <1>7, <1>13 DEF Enter, EnterToDo, ProjectStarted, EnterInProgress
<1>14. CASE Window
  BY <1>1, <1>2, <1>3, <1>4, <1>8, <1>14 DEF Window, AmendmentRequired,
     PreDispatchBlocks, DispatchRefused, Launch, LaunchFails, ExecutorBlocked,
     ScopeBlocked, Promote, ExecutorSucceeded, Note
<1>15. CASE Gate
  BY <1>1, <1>2, <1>9, <1>15 DEF Gate, ReuseCommands, RunCommands, Note,
     VerifierUnavailable, ProjectDone
<1>16. CASE Repair
  BY <1>1, <1>2, <1>10, <1>16 DEF Repair, WriteRepairReport, Escalate
<1>17. CASE Resume \/ Crash \/ UNCHANGED vars
  BY <1>1, <1>17 DEF Resume, Crash, vars
<1> QED BY <1>11, <1>12, <1>13, <1>14, <1>15, <1>16, <1>17 DEF Next, Step

(* What outlives the process besides run.json changes in one place each,   *)
(* the board apart.                                                        *)
LEMMA OutsideFrame ==
    ASSUME [Next]_vars
    PROVE  /\ tree' = tree \/ Promote
           /\ reports' = reports \/ WriteRepairReport
           /\ launched' = launched \/ Launch
<1> USE DEF Outside
<1>1. CASE Scheduler \/ Enter
  BY <1>1 DEF Scheduler, Enter, Reconcile, PrepareBlocks, PreparePasses,
     TaskLeaseHeld, ProjectionFails, RecordFailedExecution, EndWith, EnterToDo,
     StartTask, ProjectStarted, EnterInProgress
<1>2. CASE Window
  BY <1>2 DEF Window, AmendmentRequired, PreDispatchBlocks, DispatchRefused,
     ConsumeGeneration, Launch, LaunchFails, ExecutorBlocked, ScopeBlocked,
     Promote, ExecutorSucceeded, EndWith
<1>3. CASE Gate \/ Repair
  BY <1>3 DEF Gate, Repair, ReuseCommands, RunCommands, VerifierUnavailable,
     RecordVerdicts, ProjectDone, WriteRepairReport, BeginRepair, Escalate
<1>4. CASE Resume \/ Amend \/ Crash \/ UNCHANGED vars
  BY <1>4 DEF Resume, Amend, Crash, vars
<1> QED BY <1>1, <1>2, <1>3, <1>4 DEF Next, Step
-----------------------------------------------------------------------------
(* Generations                                                             *)

(* A window's generation is saved as consumed, and new, when it is chosen. *)
LEMMA GenerationsStep ==
    ASSUME TypeOK, MemoryOnDisk, Generations, [Next]_vars
    PROVE  Generations'
<1>0. /\ mem \in TaskRecord /\ disk \in TaskRecord
      /\ disk.nextGen \in 1..MaxGen + 1 /\ launched \subseteq 0..MaxGen
      /\ window \in 0..MaxGen
  BY DEF TypeOK, TaskRecord
<1> USE DEF Generations
<1>1. CASE ConsumeGeneration
  <2>1. mem = disk /\ disk'.nextGen = disk.nextGen + 1 /\ window' = disk.nextGen
    BY <1>0, <1>1 DEF ConsumeGeneration, Save, TaskRecord, MemoryOnDisk
  <2>2. launched' = launched /\ pc' = "consumed"
    BY <1>1 DEF ConsumeGeneration, Outside
  <2>3. \A g \in launched : g < disk.nextGen
    OBVIOUS
  <2>4. \A g \in launched' : g < disk'.nextGen
    BY <1>0, <2>1, <2>2, <2>3
  <2>5. window' < disk'.nextGen /\ window' # 0
    BY <1>0, <2>1
  <2>6. window' \notin launched'
    BY <1>0, <2>1, <2>2, <2>3
  <2> QED BY <2>2, <2>4, <2>5, <2>6
<1>2. CASE Launch
  <2>1. pc = "consumed" /\ pc' = "running" /\ launched' = launched \cup {window}
        /\ window' = window
    BY <1>2 DEF Launch, local
  <2>2. disk'.nextGen = disk.nextGen
    BY <1>2, SaveOp DEF Launch
  <2> QED BY <2>1, <2>2
<1>3. CASE ~ConsumeGeneration /\ ~Launch
  <2>1. disk'.nextGen = disk.nextGen /\ launched' = launched
    BY <1>3, ProductFrame, OutsideFrame
  <2>2. CASE pc' \notin {"consumed", "running", "promoted"}
    BY <2>1, <2>2
  <2>3. CASE pc' \in {"consumed", "running", "promoted"}
    <3>1. Promote \/ UNCHANGED vars
      <4>1. ~Scheduler
        BY <2>3 DEF Scheduler, Reconcile, PrepareBlocks, PreparePasses,
           TaskLeaseHeld, ProjectionFails, RecordFailedExecution, EndWith, Leave
      <4>2. ~Enter
        BY <2>3 DEF Enter, EnterToDo, StartTask, ProjectStarted, EnterInProgress
      <4>3. Window => Promote
        BY <1>3, <2>3 DEF Window, AmendmentRequired, PreDispatchBlocks,
           DispatchRefused, LaunchFails, ExecutorBlocked, ScopeBlocked,
           ExecutorSucceeded, EndWith, Leave
      <4>4. ~Gate /\ ~Repair
        BY <2>3 DEF Gate, Repair, ReuseCommands, RunCommands,
           VerifierUnavailable, RecordVerdicts, AfterVerdicts, ProjectDone, Leave,
           WriteRepairReport, BeginRepair, Escalate
      <4>5. ~Resume /\ ~Amend /\ ~Crash
        BY <2>3 DEF Resume, Amend, Crash, Leave
      <4> QED BY <4>1, <4>2, <4>3, <4>4, <4>5 DEF Next, Step
    <3>2. CASE Promote
      BY <2>1, <3>2 DEF Promote, local
    <3>3. CASE UNCHANGED vars
      BY <3>3 DEF vars
    <3> QED BY <3>1, <3>2, <3>3
  <2> QED BY <2>2, <2>3
<1> QED BY <1>1, <1>2, <1>3
-----------------------------------------------------------------------------
(* Evidence and tree                                                       *)

(* Only a verification operation leaves a gate to be continued.            *)
LEMMA NotPending ==
    ASSUME NEW rec \in TaskRecord, NEW kind, NEW outcome, kind # "verification"
    PROVE  ~Op(rec, kind, outcome).pending
BY DEF Op, TaskRecord

(* The evidence a gate is run or continued on is that of the tree.         *)
LEMMA EvidenceStep ==
    ASSUME TypeOK, MemoryOnDisk, Generations, EvidenceOfTree, [Next]_vars
    PROVE  EvidenceOfTree'
<1>0. mem \in TaskRecord /\ disk \in TaskRecord /\ window \in 0..MaxGen
  BY DEF TypeOK
<1> USE DEF EvidenceOfTree
<1>1. Leave /\ UNCHANGED <<disk, tree>> => EvidenceOfTree'
  BY DEF Leave
<1>2. ASSUME NEW rec, Save(rec), ~rec.pending,
             pc' \notin {"verify", "verifiers", "promoted", "running"}
      PROVE  EvidenceOfTree'
  BY <1>2 DEF Save
<1>3. \A kind, outcome : EndWith(kind, outcome) /\ kind # "verification"
         => EvidenceOfTree'
  BY <1>0, <1>2, OpFields DEF EndWith, Leave
<1>4. CASE Scheduler
  <2>1. CASE Reconcile
    BY <1>1, <2>1 DEF Reconcile
  <2>2. CASE PrepareBlocks
    <3>1. ~BlockedBy(mem).pending
      BY <1>0 DEF BlockedBy, Op, TaskRecord
    <3> QED BY <1>2, <2>2, <3>1 DEF PrepareBlocks, Leave
  <2>3. CASE PreparePasses
    <3>1. pc' = "enter" /\ tree' = tree /\ mem = disk
      BY <2>3 DEF PreparePasses, Outside, MemoryOnDisk
    <3>2. CASE Save(mem)
      BY <3>1, <3>2 DEF Save
    <3>3. CASE Save(Op(mem, "precondition", "succeeded"))
      <4>1. ~disk'.pending
        BY <1>0, <3>3, NotPending DEF Save
      <4> QED BY <3>1, <4>1
    <3> QED BY <2>3, <3>2, <3>3 DEF PreparePasses
  <2>4. CASE ProjectionFails
    BY <1>1, <2>4 DEF ProjectionFails, Outside
  <2> QED BY <1>3, <1>4, <2>1, <2>2, <2>3, <2>4 DEF Scheduler, TaskLeaseHeld,
      RecordFailedExecution
<1>5. CASE Enter
  <2>1. CASE StartTask
    <3>1. mem = disk /\ tree' = tree /\ pc' = "started"
      BY <2>1 DEF StartTask, Outside, MemoryOnDisk
    <3>2. disk'.pending = disk.pending /\ disk'.evidence = disk.evidence
      BY <1>0, <2>1, <3>1 DEF StartTask, Save, TaskRecord
    <3> QED BY <3>1, <3>2
  <2>2. CASE EnterInProgress
    BY <2>2 DEF EnterInProgress, VerificationPending, MemoryOnDisk, Outside
  <2> QED BY <1>5, <2>1, <2>2 DEF Enter, EnterToDo, ProjectStarted
<1>6. CASE Window
  <2>1. CASE DispatchRefused
    BY <1>1, <2>1 DEF DispatchRefused, Outside
  <2>2. CASE ConsumeGeneration
    <3>1. mem = disk /\ tree' = tree /\ pc' = "consumed"
      BY <2>2 DEF ConsumeGeneration, Outside, MemoryOnDisk
    <3>2. disk'.pending = disk.pending /\ disk'.evidence = disk.evidence
      BY <1>0, <2>2, <3>1 DEF ConsumeGeneration, Save, TaskRecord
    <3> QED BY <3>1, <3>2
  <2>3. CASE Launch
    <3>1. ~disk'.pending
      BY <1>0, <2>3, NotPending DEF Launch, Save
    <3> QED BY <2>3, <3>1 DEF Launch, local, Generations
  <2>4. CASE ScopeBlocked
    <3> PICK e \in Evidence :
           Save(Op([mem EXCEPT !.evidence = e], "execution", "failed"))
      BY <2>4 DEF ScopeBlocked
    <3>1. ~disk'.pending
      BY <1>0 DEF Save, Op, TaskRecord
    <3> QED BY <2>4, <3>1 DEF ScopeBlocked, Leave
  <2>5. CASE Promote
    <3> PICK e \in Evidence : Note([mem EXCEPT !.evidence = e])
      BY <2>5 DEF Promote
    <3>1. pc = "running" /\ tree' = window /\ pc' = "promoted"
      BY <2>5 DEF Promote
    <3>2. mem'.evidence.gen = window /\ disk' = disk
      BY <1>0 DEF Note, Evidence, TaskRecord
    <3> QED BY <3>1, <3>2
  <2>6. CASE ExecutorSucceeded
    <3>1. ~disk'.pending /\ mem'.evidence = mem.evidence
      BY <2>6, SaveOp DEF ExecutorSucceeded
    <3> QED BY <2>6, <3>1 DEF ExecutorSucceeded, Outside
  <2> QED BY <1>3, <1>6, <2>1, <2>2, <2>3, <2>4, <2>5, <2>6 DEF Window,
      AmendmentRequired, PreDispatchBlocks, LaunchFails, ExecutorBlocked
<1>7. CASE Gate
  <2>1. CASE ReuseCommands \/ RunCommands
    <3>1. pc = "verify" /\ pc' = "verifiers" /\ tree' = tree
      BY <2>1 DEF ReuseCommands, RunCommands, Outside
    <3> QED BY <2>1, <3>1, GateFields
  <2>2. CASE VerifierUnavailable
    <3>1. disk'.evidence = mem.evidence
      BY <2>2, SaveOp DEF VerifierUnavailable
    <3> QED BY <2>2, <3>1 DEF VerifierUnavailable, Outside
  <2>3. CASE RecordVerdicts
    <3>1. pc = "verifiers" /\ tree' = tree
          /\ pc' \notin {"verify", "verifiers", "promoted", "running"}
      BY <2>3 DEF RecordVerdicts, Outside, AfterVerdicts
    <3>2. disk'.evidence = mem.evidence
      BY <1>0, <2>3 DEF RecordVerdicts, Save, Op, TaskRecord
    <3> QED BY <3>1, <3>2
  <2>4. CASE ProjectDone
    BY <1>1, <2>4 DEF ProjectDone
  <2> QED BY <1>7, <2>1, <2>2, <2>3, <2>4 DEF Gate
<1>8. CASE Repair
  <2>1. CASE WriteRepairReport
    BY <2>1 DEF WriteRepairReport
  <2>2. CASE BeginRepair
    <3>1. ~disk'.pending
      BY <1>0, <2>2 DEF BeginRepair, Save, Op, TaskRecord
    <3> QED BY <2>2, <3>1 DEF BeginRepair
  <2>3. CASE Escalate
    <3>1. ~disk'.pending
      BY <1>0, <2>3, NotPending DEF Escalate, Save
    <3> QED BY <2>3, <3>1 DEF Escalate
  <2> QED BY <1>8, <2>1, <2>2, <2>3 DEF Repair
<1>9. CASE Amend
  <2>1. ~disk'.pending /\ pc' = "off"
    BY <1>0, <1>9 DEF Amend, Save, Op, TaskRecord
  <2> QED BY <2>1
<1>10. CASE Resume \/ Crash \/ UNCHANGED vars
  BY <1>1, <1>10 DEF Resume, Crash, Outside, vars
<1> QED BY <1>4, <1>5, <1>6, <1>7, <1>8, <1>9, <1>10 DEF Next, Step
-----------------------------------------------------------------------------
(* Repair reports                                                          *)

(* A step into one of the loop's decision points is one of few.            *)
LEMMA Arrivals ==
    ASSUME [Next]_vars, ~UNCHANGED vars
    PROVE  /\ pc' = "repair" => WriteRepairReport
           /\ pc' = "dispatch" => EnterInProgress \/ BeginRepair
           /\ pc' = "verifiers" => ReuseCommands \/ RunCommands
<1> SUFFICES ASSUME pc' \in {"repair", "dispatch", "verifiers"}
             PROVE  \/ pc' = "repair" /\ WriteRepairReport
                    \/ pc' = "dispatch" /\ (EnterInProgress \/ BeginRepair)
                    \/ pc' = "verifiers" /\ (ReuseCommands \/ RunCommands)
  OBVIOUS
<1>1. ~Scheduler
  BY DEF Scheduler, Reconcile, PrepareBlocks, PreparePasses, TaskLeaseHeld,
     ProjectionFails, RecordFailedExecution, EndWith, Leave
<1>2. Enter => EnterInProgress /\ pc' = "dispatch"
  BY DEF Enter, EnterToDo, StartTask, ProjectStarted, EnterInProgress
<1>3. ~Window
  BY DEF Window, AmendmentRequired, PreDispatchBlocks, DispatchRefused,
     ConsumeGeneration, Launch, LaunchFails, ExecutorBlocked, ScopeBlocked,
     Promote, ExecutorSucceeded, EndWith, Leave
<1>4. Gate => pc' = "verifiers" /\ (ReuseCommands \/ RunCommands)
  BY DEF Gate, ReuseCommands, RunCommands, VerifierUnavailable, RecordVerdicts,
     AfterVerdicts, ProjectDone, Leave
<1>5. Repair => \/ pc' = "repair" /\ WriteRepairReport
                \/ pc' = "dispatch" /\ BeginRepair
  BY DEF Repair, WriteRepairReport, BeginRepair, Escalate
<1>6. ~Resume /\ ~Crash /\ (Amend => pc = "off" /\ pc' = pc)
  BY DEF Resume, Amend, Crash, Leave
<1> QED BY <1>1, <1>2, <1>3, <1>4, <1>5, <1>6 DEF Next, Step

(* The report comes before the attempt it reports on is spent.             *)
LEMMA ReportsStep ==
    ASSUME TypeOK, MemoryOnDisk, Reports, [Next]_vars
    PROVE  Reports'
<1>0. /\ mem \in TaskRecord /\ disk \in TaskRecord
      /\ disk.attempts \in 0..MaxRepair /\ disk.rev \in 0..MaxRev
      /\ mem.attempts = disk.attempts /\ mem.rev = disk.rev
  BY DEF TypeOK, TaskRecord, MemoryOnDisk
<1> USE DEF Reports
<1>1. CASE BeginRepair
  <2>1. disk'.attempts = disk.attempts + 1 /\ disk'.rev = disk.rev
    BY <1>0, <1>1 DEF BeginRepair, Save, Op, TaskRecord
  <2>2. pc = "repair" /\ pc' = "dispatch" /\ reports' = reports
    BY <1>1 DEF BeginRepair, Outside
  <2>3. \A n \in 1..disk'.attempts : n \in 1..disk.attempts \/ n + 1 = disk.attempts + 2
    BY <1>0, <2>1
  <2> QED BY <2>1, <2>2, <2>3
<1>2. CASE Amend
  <2>1. disk'.attempts = 0 /\ pc' = "off"
    BY <1>0, <1>2 DEF Amend, Save, Op, TaskRecord
  <2> QED BY <2>1
<1>3. CASE WriteRepairReport
  BY <1>0, <1>3 DEF WriteRepairReport
<1>4. CASE ~BeginRepair /\ ~Amend /\ ~WriteRepairReport
  <2>1. /\ disk'.attempts = disk.attempts /\ disk'.rev = disk.rev
        /\ reports' = reports
    BY <1>4, ProductFrame, OutsideFrame
  <2>2. pc' = "repair" => pc = "repair"
    BY <1>4, Arrivals DEF vars
  <2> QED BY <2>1, <2>2
<1> QED BY <1>1, <1>2, <1>3, <1>4

(* The newest report of the revision is that of the last spent attempt or  *)
(* of one that a crash kept from being spent.                              *)
LEMMA BriefedStep ==
    ASSUME TypeOK, MemoryOnDisk, Reports, RepairIsBriefed, [Next]_vars
    PROVE  RepairIsBriefed'
<1>0. /\ mem \in TaskRecord /\ disk \in TaskRecord
      /\ disk.attempts \in 0..MaxRepair /\ disk.rev \in 0..MaxRev
      /\ mem.attempts = disk.attempts /\ mem.rev = disk.rev
  BY DEF TypeOK, TaskRecord, MemoryOnDisk
<1>1. CASE EnterInProgress
  <2>1. /\ Newest(repairOf') /\ repairOf' \in 0..MaxRepair + 2
        /\ reports' = reports /\ mem' = mem
    BY <1>1 DEF EnterInProgress, Outside
  <2>2. repairOf' = 0 \/ <<mem.rev, repairOf'>> \in reports
    BY <2>1 DEF Newest
  <2>3. ASSUME mem.attempts > 0 PROVE repairOf' > mem.attempts
    <3>1. <<mem.rev, mem.attempts + 1>> \in reports
      BY <1>0, <2>3 DEF Reports
    <3>2. repairOf' >= mem.attempts + 1
      BY <2>1, <3>1 DEF Newest
    <3> QED BY <1>0, <2>1, <3>2
  <2> QED BY <2>1, <2>2, <2>3 DEF RepairIsBriefed, ReportOfRevision
<1>2. CASE BeginRepair
  <2>1. /\ mem'.attempts = mem.attempts + 1 /\ mem'.rev = mem.rev
        /\ repairOf' = mem.attempts + 2 /\ reports' = reports /\ pc = "repair"
    BY <1>0, <1>2 DEF BeginRepair, Save, Op, TaskRecord, Outside
  <2>2. <<mem.rev, mem.attempts + 2>> \in reports
    BY <1>0, <2>1 DEF Reports
  <2> QED BY <1>0, <2>1, <2>2 DEF RepairIsBriefed, ReportOfRevision
<1>3. CASE ~EnterInProgress /\ ~BeginRepair
  <2>1. CASE UNCHANGED vars
    BY <2>1 DEF vars, RepairIsBriefed, ReportOfRevision
  <2>2. CASE ~UNCHANGED vars
    BY <1>3, <2>2, Arrivals DEF RepairIsBriefed
  <2> QED BY <2>1, <2>2
<1> QED BY <1>1, <1>2, <1>3
-----------------------------------------------------------------------------
(* The board                                                               *)

(* The board is current once reconciled, until the loop has ended.         *)
LEMMA BoardStep ==
    ASSUME TypeOK, MemoryOnDisk, StatusByLocation, BoardCurrent,
           BoardCurrentInLoop, [Next]_vars
    PROVE  BoardCurrent' /\ BoardCurrentInLoop'
<1>0. mem \in TaskRecord /\ disk \in TaskRecord
  BY DEF TypeOK
<1> USE DEF BoardCurrent, BoardCurrentInLoop, InLoop
<1>1. pc' = "off" => BoardCurrent' /\ BoardCurrentInLoop'
  OBVIOUS
<1>2. CASE Scheduler
  <2>1. CASE Reconcile
    BY <1>1, <2>1 DEF Reconcile, Leave, MemoryOnDisk
  <2>2. CASE PreparePasses
    <3>1. disk'.status = disk.status
      BY <2>2, ProductFrame DEF PreparePasses, StartTask, PrepareBlocks,
         RecordVerdicts, Leave
    <3> QED BY <2>2, <3>1 DEF PreparePasses, Outside
  <2> QED BY <1>1, <1>2, <2>1, <2>2 DEF Scheduler, PrepareBlocks, TaskLeaseHeld,
      ProjectionFails, RecordFailedExecution, EndWith, Leave
<1>3. CASE Enter
  <2>1. CASE EnterInProgress
    BY <2>1 DEF EnterInProgress, MemoryOnDisk, Outside
  <2> QED BY <1>3, <2>1 DEF Enter, EnterToDo, StartTask, ProjectStarted
<1>4. CASE Window
  BY <1>1, <1>4 DEF Window, AmendmentRequired, PreDispatchBlocks, DispatchRefused,
     ConsumeGeneration, Launch, LaunchFails, ExecutorBlocked, ScopeBlocked,
     Promote, ExecutorSucceeded, EndWith, Leave, Outside
<1>5. CASE Gate
  BY <1>1, <1>5 DEF Gate, ReuseCommands, RunCommands, VerifierUnavailable,
     RecordVerdicts, AfterVerdicts, ProjectDone, Leave, Outside
<1>6. CASE Repair
  BY <1>6 DEF Repair, WriteRepairReport, BeginRepair, Escalate, Outside
<1>7. CASE Resume \/ Amend \/ Crash
  BY <1>1, <1>7 DEF Resume, Amend, Crash, Leave
<1>8. CASE UNCHANGED vars
  BY <1>8 DEF vars
<1> QED BY <1>2, <1>3, <1>4, <1>5, <1>6, <1>7, <1>8 DEF Next, Step
-----------------------------------------------------------------------------
(* Completion                                                              *)

(* Verdicts complete a task only where no runner fact forces a failure.    *)
LEMMA SettledPasses ==
    ASSUME NEW v, P!Passed(Settled(v))
    PROVE  ~ForcedFail(mem.evidence)
BY DEF Settled, P!Passed

(* Completion is recorded on the evidence of the tree, and then nothing    *)
(* changes either.                                                         *)
LEMMA CompletedStep ==
    ASSUME TypeOK, MemoryOnDisk, StatusByLocation, EvidenceOfTree,
           CompletedWorkIsVerified, [Next]_vars
    PROVE  CompletedWorkIsVerified'
<1>0. mem \in TaskRecord /\ disk \in TaskRecord
  BY DEF TypeOK
<1> SUFFICES ASSUME disk'.status = "done"
             PROVE  /\ P!Passed(disk'.verdicts)
                    /\ disk'.evidence.gen = tree' /\ tree' # 0
                    /\ ~ForcedFail(disk'.evidence)
  BY DEF CompletedWorkIsVerified
<1>1. CASE RecordVerdicts
  <2> PICK v \in VerdictPairs :
         Save(Op([mem EXCEPT !.verdicts = Settled(v),
                             !.status = IF P!Passed(Settled(v)) THEN "done" ELSE @],
                 "verification", OutcomeOf(Settled(v))))
    BY <1>1 DEF RecordVerdicts
  <2>1. pc = "verifiers" /\ tree' = tree
    BY <1>1 DEF RecordVerdicts, Outside
  <2>2. mem.status = "in_progress"
    BY <2>1 DEF StatusByLocation, InLoop, MemoryOnDisk
  <2>3. /\ disk'.verdicts = Settled(v) /\ disk'.evidence = mem.evidence
        /\ disk'.status = IF P!Passed(Settled(v)) THEN "done" ELSE mem.status
    BY <1>0 DEF Save, Op, TaskRecord
  <2>4. P!Passed(Settled(v))
    BY <2>2, <2>3
  <2>5. ~ForcedFail(mem.evidence)
    BY <2>4, SettledPasses
  <2> QED BY <2>1, <2>3, <2>4, <2>5 DEF EvidenceOfTree
<1>2. CASE ~RecordVerdicts
  <2>1. ~StartTask
    BY <1>0 DEF StartTask, Save, TaskRecord
  <2>2. ~PrepareBlocks
    BY <1>0 DEF PrepareBlocks, BlockedBy, Save, Op, TaskRecord
  <2>3. disk.status = "done" /\ pc \in {"off", "reconcile", "done"}
    BY <1>2, <2>1, <2>2, ProductFrame DEF StatusByLocation
  <2>4. UNCHANGED <<disk, tree>>
    <3>1. CASE Scheduler
      BY <2>2, <2>3, <3>1 DEF Scheduler, Reconcile, PreparePasses, TaskLeaseHeld,
         ProjectionFails, RecordFailedExecution, Outside
    <3>2. ~Enter
      BY <2>3 DEF Enter, EnterToDo, StartTask, ProjectStarted, EnterInProgress
    <3>3. ~Window
      BY <2>3 DEF Window, AmendmentRequired, PreDispatchBlocks, DispatchRefused,
         ConsumeGeneration, Launch, LaunchFails, ExecutorBlocked, ScopeBlocked,
         Promote, ExecutorSucceeded
    <3>4. CASE Gate \/ Repair
      BY <1>2, <2>3, <3>4 DEF Gate, ReuseCommands, RunCommands,
         VerifierUnavailable, ProjectDone, Repair, WriteRepairReport,
         BeginRepair, Escalate
    <3>5. CASE Resume \/ Amend \/ Crash \/ UNCHANGED vars
      BY <2>3, <3>5 DEF Resume, Amend, Crash, Outside, vars
    <3> QED BY <3>1, <3>2, <3>3, <3>4, <3>5 DEF Next, Step
  <2> QED BY <2>3, <2>4 DEF CompletedWorkIsVerified
<1> QED BY <1>1, <1>2
-----------------------------------------------------------------------------
(* Command records                                                         *)

(* Command records change at the gate only, and only the gate's own.       *)
LEMMA CommandsFrame ==
    ASSUME TypeOK, MemoryOnDisk, [Next]_vars, NEW s \in Stages
    PROVE  /\ disk'.commands[s] \in {disk.commands[s], mem.commands[s]}
           /\ \/ mem'.commands[s] \in {disk.commands[s], mem.commands[s]}
              \/ RunCommands /\ s = Stage
<1>0. mem \in TaskRecord /\ disk \in TaskRecord
  BY DEF TypeOK
<1> DEFINE Kept == /\ disk'.commands \in {disk.commands, mem.commands}
                   /\ mem'.commands \in {disk.commands, mem.commands}
<1>1. UNCHANGED disk /\ Leave => Kept
  BY DEF Leave
<1>2. \A kind, outcome : Save(Op(mem, kind, outcome)) => Kept
  BY SaveOp
<1>3. \A kind, outcome : EndWith(kind, outcome) => Kept
  BY <1>2 DEF EndWith
<1>4. ASSUME NEW e, NEW kind, NEW outcome,
             Save(Op([mem EXCEPT !.evidence = e], kind, outcome))
      PROVE  Kept
  BY <1>0, <1>4 DEF Save, Op, TaskRecord
<1>5. UNCHANGED <<disk, mem>> => Kept
  OBVIOUS
<1>6. CASE Scheduler
  <2>1. CASE PrepareBlocks
    BY <1>0, <2>1 DEF PrepareBlocks, BlockedBy, Save, Op, TaskRecord
  <2>2. CASE PreparePasses
    BY <1>2, <2>2 DEF PreparePasses, Save
  <2>3. CASE Reconcile
    BY <1>1, <2>3 DEF Reconcile
  <2>4. CASE TaskLeaseHeld \/ ProjectionFails \/ RecordFailedExecution
    BY <1>1, <1>3, <2>4 DEF TaskLeaseHeld, ProjectionFails, RecordFailedExecution
  <2> QED BY <1>6, <2>1, <2>2, <2>3, <2>4 DEF Scheduler
<1>7. CASE Enter
  <2>1. CASE StartTask
    BY <1>0, <2>1 DEF StartTask, Save, TaskRecord
  <2> QED BY <1>7, <2>1 DEF Enter, EnterToDo, ProjectStarted, EnterInProgress
<1>8. CASE Window
  <2>1. CASE ConsumeGeneration
    BY <1>0, <2>1 DEF ConsumeGeneration, Save, TaskRecord
  <2>2. CASE Promote
    BY <1>0, <2>2 DEF Promote, Note, TaskRecord
  <2>3. CASE ScopeBlocked
    BY <1>4, <2>3 DEF ScopeBlocked
  <2>4. CASE AmendmentRequired \/ PreDispatchBlocks \/ LaunchFails \/ ExecutorBlocked
    BY <1>3, <2>4 DEF AmendmentRequired, PreDispatchBlocks, LaunchFails,
       ExecutorBlocked
  <2>5. CASE DispatchRefused \/ Launch \/ ExecutorSucceeded
    BY <1>1, <1>2, <2>5 DEF DispatchRefused, Launch, ExecutorSucceeded
  <2> QED BY <1>8, <2>1, <2>2, <2>3, <2>4, <2>5 DEF Window
<1>9. CASE ReuseCommands
  <2> PICK o \in Observed(Op(mem, "verification", "resumed")) : Note(o)
    BY <1>9 DEF ReuseCommands
  <2>1. mem'.commands = mem.commands
    BY <1>0 DEF Observed, Note, Op, TaskRecord
  <2> QED BY <2>1 DEF Note
<1>10. CASE RunCommands
  <2>1. disk' = disk /\ (s # Stage => mem'.commands[s] = mem.commands[s])
    BY <1>10, GateFields
  <2> QED BY <1>10, <2>1
<1>11. CASE RecordVerdicts
  BY <1>0, <1>11 DEF RecordVerdicts, Save, Op, TaskRecord
<1>12. CASE VerifierUnavailable \/ ProjectDone
  BY <1>1, <1>2, <1>12 DEF VerifierUnavailable, ProjectDone
<1>13. CASE Repair
  <2>1. CASE BeginRepair
    BY <1>0, <2>1 DEF BeginRepair, Save, Op, TaskRecord
  <2> QED BY <1>2, <1>13, <2>1 DEF Repair, WriteRepairReport, Escalate
<1>14. CASE Amend
  BY <1>0, <1>14 DEF Amend, Save, Op, TaskRecord
<1>15. CASE Resume \/ Crash \/ UNCHANGED vars
  BY <1>1, <1>15 DEF Resume, Crash, vars
<1> QED BY <1>6, <1>7, <1>8, <1>9, <1>10, <1>11, <1>12, <1>13, <1>14, <1>15
    DEF Next, Step, Gate

(* Gates of later attempts and revisions start with no command records.    *)
LEMMA FutureStagesStep ==
    ASSUME TypeOK, MemoryOnDisk, FutureStagesEmpty, [Next]_vars
    PROVE  FutureStagesEmpty'
<1>0. /\ mem \in TaskRecord /\ disk \in TaskRecord
      /\ disk.attempts \in 0..MaxRepair /\ disk.rev \in 0..MaxRev
      /\ mem.attempts = disk.attempts /\ mem.rev = disk.rev
      /\ entry \in 0..MaxRepair
  BY DEF TypeOK, TaskRecord, MemoryOnDisk
<1>1. BeginRepair => /\ disk'.attempts = disk.attempts + 1
                     /\ mem'.attempts = disk.attempts + 1 /\ mem'.rev = disk.rev
                     /\ mem'.attempts \in 0..MaxRepair
  BY <1>0 DEF BeginRepair, Save, Op, TaskRecord
<1>2. Amend => disk'.attempts = 0 /\ disk'.rev = disk.rev + 1
  BY <1>0 DEF Amend, Save, Op, TaskRecord
<1>3. ASSUME NEW s \in Stages, FutureStage(s)'
      PROVE  disk'.commands[s].count = 0 /\ mem'.commands[s].count = 0
  <2>1. s[1] \in Nat /\ s[2] \in Nat
    BY DEF Stages
  <2>2. FutureStage(s)
    <3>1. CASE BeginRepair
      <4>1. disk'.rev = disk.rev
        BY <3>1, ProductFrame DEF BeginRepair, Amend
      <4> QED BY <1>0, <1>1, <1>3, <2>1, <3>1, <4>1 DEF FutureStage
    <3>2. CASE Amend
      BY <1>0, <1>2, <1>3, <2>1, <3>2 DEF FutureStage
    <3>3. CASE ~BeginRepair /\ ~Amend
      BY <1>3, <3>3, ProductFrame DEF FutureStage
    <3> QED BY <3>1, <3>2, <3>3
  <2>3. disk.commands[s].count = 0 /\ mem.commands[s].count = 0
    BY <2>2 DEF FutureStagesEmpty
  <2>4. s # Stage
    BY <1>0, <2>2 DEF FutureStage, Stage
  <2> QED BY <2>3, <2>4, CommandsFrame
<1>4. ASSUME pc' \in Entering
      PROVE  entry' = disk'.attempts
  <2> USE DEF Entering
  <2>1. CASE Resume
    BY <1>0, <2>1 DEF Resume
  <2>2. CASE ~Resume
    <3>1. ~BeginRepair /\ ~Amend
      BY <1>4 DEF BeginRepair, Amend
    <3>2. disk'.attempts = disk.attempts
      BY <3>1, ProductFrame
    <3>3. pc \in Entering /\ entry' = entry
      <4>1. CASE Scheduler \/ Enter
        BY <1>4, <4>1 DEF Scheduler, Enter, Reconcile, PrepareBlocks,
           PreparePasses, TaskLeaseHeld, ProjectionFails, RecordFailedExecution,
           EndWith, Leave, EnterToDo, StartTask, ProjectStarted,
           EnterInProgress, local
      <4>2. ~Window
        BY <1>4 DEF Window, AmendmentRequired, PreDispatchBlocks,
           DispatchRefused, ConsumeGeneration, Launch, LaunchFails,
           ExecutorBlocked, ScopeBlocked, Promote, ExecutorSucceeded, EndWith,
           Leave
      <4>3. ~Gate /\ ~Repair
        BY <1>4 DEF Gate, ReuseCommands, RunCommands, VerifierUnavailable,
           RecordVerdicts, AfterVerdicts, ProjectDone, Leave, Repair,
           WriteRepairReport, BeginRepair, Escalate
      <4>4. CASE Crash \/ UNCHANGED vars
        BY <1>4, <4>4 DEF Crash, Leave, vars
      <4> QED BY <2>2, <3>1, <4>1, <4>2, <4>3, <4>4 DEF Next, Step
    <3> QED BY <3>2, <3>3 DEF FutureStagesEmpty
  <2> QED BY <2>1, <2>2
<1> DEFINE Working == {"dispatch", "consumed", "running", "promoted", "verify"}
<1>5. ASSUME pc' \in Working, disk'.attempts > entry'
      PROVE  Records'.count = 0
  <2>1. CASE EnterInProgress
    <3>1. entry' = entry /\ disk' = disk /\ entry = disk.attempts
      BY <2>1 DEF EnterInProgress, FutureStagesEmpty, Entering
    <3> QED BY <1>0, <1>5, <3>1
  <2>2. CASE BeginRepair
    <3>1. Stage' = <<disk.rev, disk.attempts + 2>> /\ Stage' \in Stages
      BY <1>0, <1>1, <2>2 DEF Stage, Stages
    <3>2. FutureStage(Stage') /\ Stage' # Stage
      BY <1>0, <3>1 DEF FutureStage, Stage
    <3>3. disk.commands[Stage'].count = 0 /\ mem.commands[Stage'].count = 0
      BY <3>1, <3>2 DEF FutureStagesEmpty
    <3>4. mem'.commands[Stage'].count = 0
      BY <3>1, <3>2, <3>3, CommandsFrame
    <3> QED BY <3>4 DEF Records
  <2>3. CASE Window
    <3>1. ConsumeGeneration \/ Launch \/ Promote \/ ExecutorSucceeded
      BY <1>5, <2>3 DEF Window, AmendmentRequired, PreDispatchBlocks,
         DispatchRefused, LaunchFails, ExecutorBlocked, ScopeBlocked, EndWith,
         Leave
    <3>2. mem'.commands = mem.commands /\ mem'.rev = mem.rev
          /\ mem'.attempts = mem.attempts
      <4>1. CASE ConsumeGeneration
        BY <1>0, <4>1 DEF ConsumeGeneration, Save, TaskRecord
      <4>2. CASE Promote
        BY <1>0, <4>2 DEF Promote, Note, TaskRecord
      <4>3. CASE Launch \/ ExecutorSucceeded
        BY <1>0, <4>3, OpFields DEF Launch, ExecutorSucceeded, Save
      <4> QED BY <3>1, <4>1, <4>2, <4>3
    <3>3. entry' = entry /\ pc \in Working
      BY <3>1 DEF ConsumeGeneration, Launch, Promote, ExecutorSucceeded, local
    <3>4. disk'.attempts = disk.attempts
      BY <3>1, ProductFrame DEF ConsumeGeneration, Launch, Promote,
         ExecutorSucceeded, BeginRepair, Amend
    <3>5. Records.count = 0
      BY <1>5, <3>3, <3>4 DEF FutureStagesEmpty
    <3> QED BY <3>2, <3>5 DEF Records, Stage
  <2>4. CASE UNCHANGED vars
    BY <1>5, <2>4 DEF vars, FutureStagesEmpty, Records, Stage
  <2>5. ~Scheduler /\ ~Gate /\ (Repair => BeginRepair) /\ (Enter => EnterInProgress)
    BY <1>5 DEF Scheduler, Reconcile, PrepareBlocks, PreparePasses, TaskLeaseHeld,
       ProjectionFails, RecordFailedExecution, EndWith, Leave, Gate,
       ReuseCommands, RunCommands, VerifierUnavailable, RecordVerdicts,
       AfterVerdicts, ProjectDone, Repair, WriteRepairReport, Escalate, Enter,
       EnterToDo, StartTask, ProjectStarted
  <2>6. ~Resume /\ ~Amend /\ ~Crash
    BY <1>5 DEF Resume, Amend, Crash, Leave
  <2> QED BY <2>1, <2>2, <2>3, <2>4, <2>5, <2>6 DEF Next, Step
<1> QED BY <1>3, <1>4, <1>5 DEF FutureStagesEmpty

(* A gate after a spent attempt has no records to reuse.                   *)
LEMMA FreshStep ==
    ASSUME TypeOK, MemoryOnDisk, FutureStagesEmpty, FreshAfterRepair, [Next]_vars
    PROVE  FreshAfterRepair'
<1>0. /\ mem \in TaskRecord /\ mem.attempts = disk.attempts
      /\ NCmds \in Nat \ {0}
  BY DEF TypeOK, MemoryOnDisk
<1>1. CASE RunCommands
  <2>1. package'.gen = tree /\ tree' = tree
    BY <1>1 DEF RunCommands, Outside
  <2> QED BY <2>1 DEF FreshAfterRepair
<1>2. CASE ReuseCommands
  <2>1. pc = "verify" /\ Records.count # 0 /\ entry' = entry
    BY <1>0, <1>2 DEF ReuseCommands
  <2>2. ~(mem.attempts > entry)
    BY <1>0, <2>1 DEF FutureStagesEmpty
  <2>3. mem'.attempts = mem.attempts
    BY <1>2, GateFields
  <2> QED BY <2>1, <2>2, <2>3 DEF FreshAfterRepair
<1>3. CASE UNCHANGED vars
  BY <1>3 DEF vars, FreshAfterRepair
<1> QED BY <1>1, <1>2, <1>3, Arrivals DEF FreshAfterRepair
-----------------------------------------------------------------------------
(* The inductive invariant                                                 *)

(* The invariant holds of a fresh run.                                     *)
LEMMA InitInv == Init => IInv
<1> SUFFICES ASSUME Init PROVE IInv
  OBVIOUS
<1>1. TypeOK
  BY InitType
<1>2. /\ disk.status = "to_do" /\ disk.attempts = 0 /\ disk.rev = 0
      /\ disk.nextGen = 1 /\ ~disk.pending
  BY DEF Init, FreshRecord
<1>3. MemoryOnDisk /\ StatusByLocation
  BY <1>2 DEF Init, MemoryOnDisk, StatusByLocation, InLoop
<1>4. EvidenceOfTree /\ Generations /\ Reports
  BY <1>2 DEF Init, EvidenceOfTree, Generations, Reports
<1>5. \A s \in Stages : disk.commands[s].count = 0 /\ mem.commands[s].count = 0
  BY DEF Init, FreshRecord, NoRecords
<1>6. FutureStagesEmpty
  BY <1>2, <1>5 DEF Init, FutureStagesEmpty
<1>7. BoardCurrent /\ CompletedWorkIsVerified /\ RepairIsBriefed
      /\ FreshAfterRepair /\ BoardCurrentInLoop
  BY <1>2 DEF Init, BoardCurrent, CompletedWorkIsVerified, RepairIsBriefed,
     FreshAfterRepair, BoardCurrentInLoop, InLoop
<1> QED BY <1>1, <1>3, <1>4, <1>6, <1>7 DEF IInv

(* Every action preserves the invariant.                                   *)
LEMMA StepInv == IInv /\ [Next]_vars => IInv'
<1>1. TypeOK /\ [Next]_vars => TypeOK'
  BY RecordStep, LocalStep DEF TypeOK
<1> QED BY <1>1, MemoryStep, StatusStep, EvidenceStep, GenerationsStep,
    ReportsStep, FutureStagesStep, BoardStep, CompletedStep, BriefedStep,
    FreshStep DEF IInv

(* The invariant holds throughout.                                         *)
LEMMA Invariance == Spec => []IInv
BY InitInv, StepInv, PTL DEF Spec
-----------------------------------------------------------------------------
(* Theorems                                                                *)

(* record_verdicts completes a task only with two PASS verdicts over       *)
(* evidence of the work in the tree, whatever crashed, was amended or was  *)
(* resumed before.                                                         *)
THEOREM CompletedVerified == Spec => []CompletedWorkIsVerified
<1>1. IInv => CompletedWorkIsVerified
  BY DEF IInv
<1> QED BY <1>1, Invariance, PTL

(* No spent repair attempt is ever without its report, and the budget is   *)
(* kept: the order of _write_repair_report and begin_repair.               *)
THEOREM SpentReported == Spec => []SpentAttemptsReported
<1>1. IInv => SpentAttemptsReported
  <2> SUFFICES ASSUME IInv PROVE SpentAttemptsReported
    OBVIOUS
  <2>1. disk.attempts \in 0..MaxRepair
    BY DEF IInv, TypeOK, TaskRecord
  <2> QED BY <2>1 DEF IInv, Reports, SpentAttemptsReported
<1> QED BY <1>1, Invariance, PTL

(* Every executor of a repair is given the report of the failed gate or a  *)
(* later one of the same revision (newest_repair_report).                  *)
THEOREM Briefed == Spec => []RepairIsBriefed
<1>1. IInv => RepairIsBriefed
  BY DEF IInv
<1> QED BY <1>1, Invariance, PTL

(* The verifiers' executor evidence is of the generation in the primary    *)
(* worktree (_promote_reviewable_paths before record_executor_evidence).   *)
THEOREM VerifiersSee == Spec => []VerifiersSeeTree
<1>1. IInv => VerifiersSeeTree
  BY DEF IInv, EvidenceOfTree, VerifiersSeeTree
<1> QED BY <1>1, Invariance, PTL

(* After a repair spent by this invocation, no command record of older     *)
(* work is reused (verification_stage numbers the gates).                  *)
THEOREM FreshRepairs == Spec => []FreshAfterRepair
<1>1. IInv => FreshAfterRepair
  BY DEF IInv
<1> QED BY <1>1, Invariance, PTL

(* The account of the repair attempts and what a gate is shown, as the     *)
(* runs check them (TaskEngine.run, VerificationService.verify).           *)
THEOREM Accounted == Spec => []AttemptsAccounted
<1>1. TypeOK /\ SpentAttemptsReported /\ RepairIsBriefed => AttemptsAccounted
  BY DEF AttemptsAccounted
<1> QED BY <1>1, TypeCorrect, SpentReported, Briefed, PTL

(* What a gate shows its verifiers is of the tree, and after a repair      *)
(* within one invocation so are the command records.                       *)
THEOREM GatesFresh == Spec => []GateIsFresh
<1>1. VerifiersSeeTree /\ FreshAfterRepair => GateIsFresh
  BY DEF GateIsFresh
<1> QED BY <1>1, VerifiersSee, FreshRepairs, PTL

(* The board says in_progress throughout the loop: _reconcile_projection   *)
(* and _enter leave nothing stale behind.                                  *)
THEOREM BoardCorrect == Spec => []BoardCurrentInLoop
<1>1. IInv => BoardCurrentInLoop
  BY DEF IInv
<1> QED BY <1>1, Invariance, PTL

(* consume_launch_generation makes every launch a generation of its own,   *)
(* also after a crash between the consumption and the launch.              *)
THEOREM NeverRelaunched == Spec => NoRelaunch
<1>1. IInv => (pc = "consumed" => window \notin launched)
  BY DEF IInv, Generations
<1>2. IInv /\ [Next]_vars
         => [pc = "consumed" /\ pc' = "running" => window \notin launched]_vars
  BY <1>1
<1> QED BY <1>2, Invariance, PTL DEF Spec, NoRelaunch

(* The board only ever moves to the status run.json holds: every           *)
(* projection is of a transition that was saved before it (_project).      *)
THEOREM BoardFollows == Spec => BoardFollowsRunJson
<1>1. ASSUME IInv, [Next]_vars, board' # board
      PROVE  board' = disk'.status
  <2> USE DEF Outside
  <2>0. mem \in TaskRecord
    BY <1>1 DEF IInv, TypeOK
  <2>1. /\ pc \notin {"promoted", "verifiers"} => mem = disk
        /\ pc = "start" => disk.status = "to_do"
        /\ pc = "started" => disk.status = "in_progress"
        /\ pc = "done" => disk.status = "done"
    BY <1>1 DEF IInv, MemoryOnDisk, StatusByLocation
  <2>2. CASE Reconcile
    BY <2>1, <2>2 DEF Reconcile
  <2>3. CASE PrepareBlocks
    BY <1>1, <2>0, <2>3 DEF PrepareBlocks, BlockedBy, Save, Op, TaskRecord
  <2>4. CASE EnterToDo
    BY <2>1, <2>4 DEF EnterToDo
  <2>5. CASE ProjectStarted
    BY <2>1, <2>5 DEF ProjectStarted
  <2>6. CASE ProjectDone
    BY <2>1, <2>6 DEF ProjectDone
  <2>7. CASE Scheduler /\ ~Reconcile /\ ~PrepareBlocks
    BY <1>1, <2>7 DEF Scheduler, PreparePasses, TaskLeaseHeld, ProjectionFails,
       RecordFailedExecution, EndWith
  <2>8. CASE Enter /\ ~EnterToDo /\ ~ProjectStarted
    BY <1>1, <2>8 DEF Enter, StartTask, EnterInProgress
  <2>9. ~Window
    BY <1>1 DEF Window, AmendmentRequired, PreDispatchBlocks, DispatchRefused,
       ConsumeGeneration, Launch, LaunchFails, ExecutorBlocked, ScopeBlocked,
       Promote, ExecutorSucceeded, EndWith
  <2>10. CASE (Gate \/ Repair) /\ ~ProjectDone
    BY <1>1, <2>10 DEF Gate, Repair, ReuseCommands, RunCommands,
       VerifierUnavailable, RecordVerdicts, WriteRepairReport, BeginRepair,
       Escalate
  <2>11. ~Resume /\ ~Amend /\ ~Crash /\ ~UNCHANGED vars
    BY <1>1 DEF Resume, Amend, Crash, vars
  <2> QED BY <1>1, <2>2, <2>3, <2>4, <2>5, <2>6, <2>7, <2>8, <2>9, <2>10, <2>11
      DEF Next, Step
<1>2. IInv /\ [Next]_vars => [board' # board => board' = disk'.status]_vars
  BY <1>1
<1> QED BY <1>2, Invariance, PTL DEF Spec, BoardFollowsRunJson

(* On the way to a repair the verifiers did not report BLOCKED, or a       *)
(* runner fact overrode what they reported.                                *)
BlockedIsForced ==
    pc \in {"failed", "repair"} => ~external \/ ForcedFail(mem.evidence)

(* AfterVerdicts sends BLOCKED verdicts to the scheduler, so that the loop *)
(* reaches its repair with them only where _settled overrode them.         *)
LEMMA ForcedStep ==
    ASSUME TypeOK, BlockedIsForced, [Next]_vars
    PROVE  BlockedIsForced'
<1>0. mem \in TaskRecord
  BY DEF TypeOK
<1> USE DEF BlockedIsForced, ForcedFail
<1>1. CASE UNCHANGED vars
  BY <1>1 DEF vars, local
<1>2. CASE RecordVerdicts
  <2> SUFFICES ASSUME pc' = "failed"
               PROVE  ~external' \/ ForcedFail(mem'.evidence)
    BY <1>2 DEF RecordVerdicts, AfterVerdicts
  <2>1. PICK v \in VerdictPairs :
           /\ external' = P!Blocked(v)
           /\ Save(Op([mem EXCEPT !.verdicts = Settled(v),
                      !.status = IF P!Passed(Settled(v)) THEN "done" ELSE @],
                      "verification", OutcomeOf(Settled(v))))
           /\ pc' = AfterVerdicts(Settled(v))
    BY <1>2 DEF RecordVerdicts
  <2>2. mem'.evidence = mem.evidence
    BY <1>0, <2>1 DEF Save, Op, TaskRecord
  <2>3. CASE ForcedFail(mem.evidence)
    BY <2>2, <2>3
  <2>4. CASE ~ForcedFail(mem.evidence)
    <3>1. Settled(v) = v
      BY <2>4 DEF Settled
    <3>2. ~P!Blocked(v)
      BY <2>1, <3>1 DEF AfterVerdicts, P!Blocked, P!Passed
    <3> QED BY <2>1, <3>2
  <2> QED BY <2>3, <2>4
<1>3. CASE WriteRepairReport
  BY <1>3 DEF WriteRepairReport, local
<1>4. CASE ~UNCHANGED vars /\ ~RecordVerdicts /\ ~WriteRepairReport
  <2>1. pc' # "repair"
    BY <1>4, Arrivals
  <2>2. pc' # "failed"
    <3> SUFFICES ASSUME pc' = "failed" PROVE FALSE
      OBVIOUS
    <3>1. ~Scheduler
      BY DEF Scheduler, Reconcile, PrepareBlocks, PreparePasses, TaskLeaseHeld,
         ProjectionFails, RecordFailedExecution, EndWith, Leave
    <3>2. ~Enter
      BY DEF Enter, EnterToDo, StartTask, ProjectStarted, EnterInProgress
    <3>3. ~Window
      BY DEF Window, AmendmentRequired, PreDispatchBlocks, DispatchRefused,
         ConsumeGeneration, Launch, LaunchFails, ExecutorBlocked, ScopeBlocked,
         Promote, ExecutorSucceeded, EndWith, Leave
    <3>4. ~Gate /\ ~Repair
      BY <1>4 DEF Gate, Repair, ReuseCommands, RunCommands, VerifierUnavailable,
         ProjectDone, Leave, WriteRepairReport, BeginRepair, Escalate
    <3>5. ~Resume /\ ~Amend /\ ~Crash
      BY DEF Resume, Amend, Crash, Leave
    <3> QED BY <1>4, <3>1, <3>2, <3>3, <3>4, <3>5 DEF Next, Step
  <2> QED BY <2>1, <2>2
<1> QED BY <1>1, <1>2, <1>3, <1>4

(* A BLOCKED answer of a verifier costs no repair attempt, unless a runner *)
(* fact had settled the gate as failed (TaskEngine.run, record_verdicts).  *)
THEOREM BlockedSpends == Spec => BlockedSpendsOnlyIfForced
<1>1. Init => BlockedIsForced
  BY DEF Init, BlockedIsForced
<1>2. TypeOK /\ BlockedIsForced /\ [Next]_vars => BlockedIsForced'
  BY ForcedStep
<1>3. BlockedIsForced /\ [Next]_vars
         => [mem'.attempts > mem.attempts /\ pc = "repair" =>
                ~external \/ ForcedFail(mem.evidence)]_vars
  BY DEF BlockedIsForced
<1> QED BY <1>1, <1>2, <1>3, TypeCorrect, PTL DEF Spec, BlockedSpendsOnlyIfForced

(* run.json's four product fields follow TaskProgress: the loop, crashes   *)
(* and amendments included, only takes steps state.py promises.            *)
THEOREM Refinement == Spec => ImplementsProgress
<1>1. Init => P!Init
  BY DEF Init, P!Init, FreshRecord
<1>2. ASSUME IInv, [Next]_vars
      PROVE  [P!Next]_P!pvars
  <2> USE DEF P!pvars
  <2>0. /\ mem \in TaskRecord /\ disk \in TaskRecord
        /\ mem' \in TaskRecord /\ disk' \in TaskRecord
    BY <1>2, RecordStep DEF IInv, TypeOK
  <2>1. TypeOK /\ MemoryOnDisk /\ StatusByLocation
    BY <1>2 DEF IInv
  <2>2. CASE StartTask
    <3>1. pc = "start" /\ disk.status = "to_do" /\ mem = disk
      BY <2>1, <2>2 DEF StartTask, StatusByLocation, MemoryOnDisk
    <3>2. /\ disk'.status = "in_progress" /\ disk'.verdicts = disk.verdicts
          /\ disk'.attempts = disk.attempts /\ disk'.rev = disk.rev
      BY <2>0, <2>2, <3>1 DEF StartTask, Save, TaskRecord
    <3> QED BY <3>1, <3>2 DEF P!Next, P!Start
  <2>3. CASE PrepareBlocks
    <3>1. pc = "prepare" /\ disk.status \in {"to_do", "in_progress"} /\ mem = disk
      BY <2>0, <2>1, <2>3 DEF PrepareBlocks, StatusByLocation, MemoryOnDisk,
         TaskRecord, Statuses
    <3>2. /\ disk'.status = "in_progress" /\ disk'.verdicts = disk.verdicts
          /\ disk'.attempts = disk.attempts /\ disk'.rev = disk.rev
      BY <2>0, <2>3, <3>1 DEF PrepareBlocks, BlockedBy, Save, Op, TaskRecord
    <3> QED BY <3>1, <3>2 DEF P!Next, P!Start
  <2>4. CASE RecordVerdicts
    <3> PICK v \in VerdictPairs :
           Save(Op([mem EXCEPT !.verdicts = Settled(v),
                      !.status = IF P!Passed(Settled(v)) THEN "done" ELSE @],
                   "verification", OutcomeOf(Settled(v))))
      BY <2>4 DEF RecordVerdicts
    <3>1. disk.status = "in_progress" /\ mem.status = disk.status
      BY <2>1, <2>4 DEF RecordVerdicts, StatusByLocation, InLoop, MemoryOnDisk
    <3>2. Settled(v) \in VerdictPairs
      BY DEF Settled, VerdictPairs, P!Tokens
    <3>3. /\ disk'.verdicts = Settled(v)
          /\ disk'.status = IF P!Passed(Settled(v)) THEN "done" ELSE mem.status
      BY <2>0 DEF Save, Op, TaskRecord
    <3>4. disk'.attempts = disk.attempts /\ disk'.rev = disk.rev
      BY <1>2, <2>1, <2>4, ProductFrame DEF RecordVerdicts, BeginRepair, Amend
    <3> QED BY <3>1, <3>2, <3>3, <3>4 DEF P!Next, P!RecordVerdicts, VerdictPairs
  <2>5. CASE BeginRepair
    <3>1. /\ disk.status = "in_progress" /\ P!Failed(disk.verdicts)
          /\ mem = disk /\ disk.attempts < MaxRepair
      BY <2>1, <2>5 DEF BeginRepair, StatusByLocation, InLoop, MemoryOnDisk
    <3>2. /\ disk'.attempts = disk.attempts + 1 /\ disk'.rev = disk.rev
          /\ disk'.status = disk.status /\ disk'.verdicts = disk.verdicts
      BY <2>0, <2>5, <3>1 DEF BeginRepair, Save, Op, TaskRecord
    <3> QED BY <3>1, <3>2 DEF P!Next, P!BeginRepair
  <2>6. CASE Amend
    <3>1. /\ disk'.attempts = 0 /\ disk'.rev = disk.rev + 1
          /\ disk'.status = disk.status /\ disk'.verdicts = P!NoVerdicts
          /\ disk.status # "done"
      BY <2>0, <2>6 DEF Amend, Save, Op, TaskRecord
    <3> QED BY <3>1 DEF P!Next, P!Amend
  <2>7. CASE /\ ~StartTask /\ ~PrepareBlocks /\ ~RecordVerdicts
             /\ ~BeginRepair /\ ~Amend
    BY <1>2, <2>1, <2>7, ProductFrame
  <2> QED BY <2>2, <2>3, <2>4, <2>5, <2>6, <2>7
<1> QED BY <1>1, <1>2, Invariance, PTL DEF Spec, ImplementsProgress, P!Spec
=============================================================================
