------------------------- MODULE SharedFilesProofs -------------------------
(***************************************************************************)
(* Theorems about the two kinds of files that several processes write with *)
(* nobody to order them: the lock file (FileLease), for every set of PIDs  *)
(* and every bound, and the board with the task files (BoardProjection),   *)
(* for any runs, tasks, declared replacements, invocations and edits.      *)
(***************************************************************************)
EXTENDS FileLease, BoardProjection, FiniteSetTheorems, TLAPS

-----------------------------------------------------------------------------
(* The lock file                                                           *)

USE DEF At, Goto

(* Every record a process writes or reads is one.                          *)
LEMMA FreshRecordType ==
    ASSUME TypeOK, NEW p \in Proc
    PROVE  FreshRecord(p) \in Record
BY DEF TypeOK, FreshRecord, Record

(* The variables keep their types, whatever the processes, the clocks and  *)
(* the operating system do.                                                *)
THEOREM TypeCorrect == Spec => []TypeOK
<1>1. Init => TypeOK
  <2> SUFFICES ASSUME Init PROVE TypeOK
    OBVIOUS
  <2> USE BoundsAssumption DEF Init
  <2>1. life \in [Proc -> 0..MaxLife] /\ spins \in [Proc -> 0..MaxSpins]
    OBVIOUS
  <2>2. pc \in [Proc -> Locations]
    BY DEF Locations
  <2>3. file \in Record \cup {NoFile, Garbage}
    <3>1. 0 \in 0..MaxLife
      OBVIOUS
    <3>2. ASSUME NEW rec \in [pid : Proc, life : {0}, aged : {FALSE}]
          PROVE  rec \in [pid : Proc, life : 0..MaxLife, aged : BOOLEAN]
      <4> HIDE DEF Init
      <4> QED BY <3>1
    <3> QED BY <3>2 DEF Record
  <2>4. timeout \in [Proc -> Timeouts] /\ seen \in [Proc -> Record \cup {NoFile, Garbage}]
    BY DEF Timeouts
  <2>5. alive \in [Proc -> BOOLEAN] /\ usurped \in BOOLEAN
    OBVIOUS
  <2>6. expired \in [Proc -> BOOLEAN]
    BY Zenon
  <2> HIDE DEF Init
  <2> QED BY <2>1, <2>2, <2>3, <2>4, <2>5, <2>6 DEF TypeOK
<1>2. TypeOK /\ [Next]_vars => TypeOK'
  <2> SUFFICES ASSUME TypeOK, [Next]_vars PROVE TypeOK'
    OBVIOUS
  <2> USE DEF TypeOK, Locations, Acquiring, Holding
  <2>1. ASSUME NEW p \in Proc, Acquire(p) PROVE TypeOK'
    BY <2>1 DEF Acquire, local
  <2>2. ASSUME NEW p \in Proc, LinkFails(p) PROVE TypeOK'
    BY <2>2, BoundsAssumption DEF LinkFails, Leave, Timeouts
  <2>3. ASSUME NEW p \in Proc, Release(p) PROVE TypeOK'
    BY <2>3 DEF Release, local
  <2>4. ASSUME NEW p \in Proc, TouchRead(p) PROVE TypeOK'
    BY <2>4 DEF TouchRead, local
  <2>5. ASSUME NEW p \in Proc, Step(p) PROVE TypeOK'
    <3>1. CASE LinkCreates(p)
      BY <3>1, FreshRecordType, BoundsAssumption DEF LinkCreates, Leave, Timeouts
    <3>2. CASE LinkFindsLock(p)
      BY <3>2 DEF LinkFindsLock, local
    <3>3. ASSUME BumpSpins(p)
          PROVE  /\ pc' \in [Proc -> Locations]
                 /\ seen' \in [Proc -> Record \cup {NoFile, Garbage}]
                 /\ timeout' \in [Proc -> Timeouts]
                 /\ spins' \in [Proc -> 0..MaxSpins]
                 /\ expired' \in [Proc -> BOOLEAN]
      <4>1. CASE timeout[p] # "zero"
        BY <3>3, <4>1 DEF BumpSpins, local
      <4>2. CASE timeout[p] = "zero" /\ spins[p] < MaxSpins
        <5>1. spins[p] + 1 \in 0..MaxSpins
          BY <4>2, BoundsAssumption
        <5> QED BY <3>3, <4>2, <5>1 DEF BumpSpins
      <4>3. CASE timeout[p] = "zero" /\ ~(spins[p] < MaxSpins)
        <5>1. Leave(p, "idle")
          BY <3>3, <4>3 DEF BumpSpins
        <5> QED BY <5>1, BoundsAssumption DEF Leave, Timeouts
      <4> QED BY <4>1, <4>2, <4>3
    <3>4. CASE ReadFreed(p)
      BY <3>4, <3>3 DEF ReadFreed
    <3>5. CASE ReadRecord(p)
      BY <3>5 DEF ReadRecord
    <3>6. CASE JudgeReclaimable(p)
      BY <3>6 DEF JudgeReclaimable, local
    <3>7. CASE JudgeHeld(p) \/ JudgeTimedOut(p)
      <4>1. Leave(p, "idle") /\ UNCHANGED <<file, alive, life, usurped>>
        BY <3>7 DEF JudgeHeld, JudgeTimedOut
      <4> QED BY <4>1, BoundsAssumption DEF Leave, Timeouts
    <3>8. CASE JudgeWaits(p)
      BY <3>8 DEF JudgeWaits, local
    <3>9. CASE Reclaim(p)
      BY <3>9, <3>3 DEF Reclaim, LiveOther
    <3>10. CASE ReleaseRead(p)
      BY <3>10 DEF ReleaseRead, local
    <3>11. CASE ReleaseUnlink(p)
      BY <3>11 DEF ReleaseUnlink, local, LiveOther
    <3>12. CASE TouchReplace(p)
      BY <3>12, FreshRecordType DEF TouchReplace, local, LiveOther
    <3> QED BY <2>5, <3>1, <3>2, <3>4, <3>5, <3>6, <3>7, <3>8, <3>9, <3>10,
               <3>11, <3>12 DEF Step
  <2>6. ASSUME NEW p \in Proc, DeadlinePasses(p) PROVE TypeOK'
    BY <2>6 DEF DeadlinePasses
  <2>7. ASSUME NEW p \in Proc, Crash(p) PROVE TypeOK'
    BY <2>7, BoundsAssumption DEF Crash, Leave, Timeouts
  <2>8. ASSUME NEW p \in Proc, Start(p) PROVE TypeOK'
    <3>1. life[p] + 1 \in 0..MaxLife
      BY <2>8, BoundsAssumption DEF Start
    <3> QED BY <2>8, <3>1 DEF Start, local
  <2>9. ASSUME HeartbeatsAge PROVE TypeOK'
    <3>1. \A rec \in Record \cup {NoFile, Garbage} :
             Older(rec) \in Record \cup {NoFile, Garbage}
      BY DEF Older, Record
    <3> QED BY <2>9, <3>1 DEF HeartbeatsAge
  <2>10. CASE UNCHANGED vars
    BY <2>10 DEF vars
  <2> QED BY <2>1, <2>2, <2>3, <2>4, <2>5, <2>6, <2>7, <2>8, <2>9, <2>10 DEF Next
<1> QED BY <1>1, <1>2, PTL DEF Spec

-----------------------------------------------------------------------------
(* A process has a program counter exactly while it is alive.              *)
AliveOK == \A p \in Proc : alive[p] <=> pc[p] # "dead"

(* What a step leaves behind in the fields the invariants talk about: only *)
(* the program counter of the process that takes it moves.                 *)
OnlyMoves(p) == \A q \in Proc \ {p} : pc'[q] = pc[q] /\ seen'[q] = seen[q]

(* After a freed or reclaimed lock a process tries again or gives up; no    *)
(* other process moves (_bump_spins).                                       *)
LEMMA BumpSpinsMoves ==
    ASSUME TypeOK, NEW p \in Proc, BumpSpins(p)
    PROVE  /\ pc'[p] \in {"link", "idle"}
           /\ seen'[p] \in {seen[p], NoFile}
           /\ OnlyMoves(p)
<1>1. CASE timeout[p] # "zero"
  BY <1>1 DEF BumpSpins, local, TypeOK, OnlyMoves
<1>2. CASE timeout[p] = "zero" /\ spins[p] < MaxSpins
  BY <1>2 DEF BumpSpins, TypeOK, OnlyMoves
<1>3. CASE timeout[p] = "zero" /\ ~(spins[p] < MaxSpins)
  <2>1. Leave(p, "idle")
    BY <1>3 DEF BumpSpins
  <2> QED BY <2>1 DEF Leave, TypeOK, OnlyMoves
<1> QED BY <1>1, <1>2, <1>3

(* Every step of one process moves only that process.                      *)
LEMMA ProcessStepMoves ==
    ASSUME TypeOK, NEW p \in Proc,
           \/ Acquire(p) \/ LinkFails(p) \/ Release(p) \/ TouchRead(p)
           \/ Step(p) \/ DeadlinePasses(p) \/ Crash(p) \/ Start(p)
    PROVE  OnlyMoves(p)
<1> USE DEF OnlyMoves, TypeOK
<1>1. CASE Acquire(p) \/ LinkFails(p) \/ Release(p) \/ TouchRead(p)
  BY <1>1 DEF Acquire, LinkFails, Release, TouchRead, Leave, local
<1>2. CASE DeadlinePasses(p) \/ Crash(p) \/ Start(p)
  BY <1>2 DEF DeadlinePasses, Crash, Start, Leave, local
<1>3. CASE LinkCreates(p) \/ LinkFindsLock(p) \/ ReadRecord(p)
  BY <1>3 DEF LinkCreates, LinkFindsLock, ReadRecord, Leave, local
<1>4. CASE ReadFreed(p) \/ Reclaim(p)
  BY <1>4, BumpSpinsMoves DEF ReadFreed, Reclaim
<1>5. CASE JudgeReclaimable(p) \/ JudgeHeld(p) \/ JudgeTimedOut(p) \/ JudgeWaits(p)
  BY <1>5 DEF JudgeReclaimable, JudgeHeld, JudgeTimedOut, JudgeWaits, Leave, local
<1>6. CASE ReleaseRead(p) \/ ReleaseUnlink(p) \/ TouchReplace(p)
  BY <1>6 DEF ReleaseRead, ReleaseUnlink, TouchReplace, local
<1> QED BY <1>1, <1>2, <1>3, <1>4, <1>5, <1>6 DEF Step

(* The conjunction that is inductive: a holder is alive and owns the file  *)
(* while nothing was usurped.                                              *)
OwnershipInv == TypeOK /\ AliveOK /\ HolderOwnsFile

(* Every step keeps the holders alive and the file theirs: what a release   *)
(* or a heartbeat writes is the record it has just matched.                 *)
LEMMA OwnershipStep == OwnershipInv /\ TypeOK' /\ [Next]_vars => AliveOK' /\ HolderOwnsFile'
<1> SUFFICES ASSUME OwnershipInv, TypeOK', [Next]_vars
             PROVE  AliveOK' /\ HolderOwnsFile'
  OBVIOUS
<1> USE FileAssumption DEF OwnershipInv, TypeOK, AliveOK, HolderOwnsFile, InHold,
        Holding, Matches
<1>1. ASSUME NEW p \in Proc,
             Acquire(p) \/ LinkFails(p) \/ Release(p) \/ TouchRead(p) \/ DeadlinePasses(p)
      PROVE  AliveOK' /\ HolderOwnsFile'
  BY <1>1 DEF Acquire, LinkFails, Release, TouchRead, DeadlinePasses, Leave, local
<1>2. ASSUME NEW p \in Proc, Crash(p) \/ Start(p) PROVE AliveOK' /\ HolderOwnsFile'
  BY <1>2 DEF Crash, Start, Leave, local
<1>3. ASSUME NEW p \in Proc, Step(p) PROVE AliveOK' /\ HolderOwnsFile'
  <2>1. CASE LinkCreates(p)
    BY <2>1, FreshRecordType DEF LinkCreates, Leave, FreshRecord
  <2>2. CASE LinkFindsLock(p) \/ ReadRecord(p)
    BY <2>2 DEF LinkFindsLock, ReadRecord, local
  <2>3. CASE ReadFreed(p)
    BY <2>3, BumpSpinsMoves DEF ReadFreed, OnlyMoves
  <2>4. CASE JudgeReclaimable(p) \/ JudgeHeld(p) \/ JudgeTimedOut(p) \/ JudgeWaits(p)
    BY <2>4 DEF JudgeReclaimable, JudgeHeld, JudgeTimedOut, JudgeWaits, Leave, local
  <2>5. CASE Reclaim(p)
    BY <2>5, BumpSpinsMoves DEF Reclaim, OnlyMoves, LiveOther
  <2>6. CASE ReleaseRead(p) \/ ReleaseUnlink(p) \/ TouchReplace(p)
    BY <2>6, FreshRecordType DEF ReleaseRead, ReleaseUnlink, TouchReplace, local,
       LiveOther, FreshRecord
  <2> QED BY <1>3, <2>1, <2>2, <2>3, <2>4, <2>5, <2>6 DEF Step
<1>4. ASSUME HeartbeatsAge PROVE AliveOK' /\ HolderOwnsFile'
  BY <1>4 DEF HeartbeatsAge, Older, Record
<1>5. CASE UNCHANGED vars
  BY <1>5 DEF vars
<1> QED BY <1>1, <1>2, <1>3, <1>4, <1>5 DEF Next

(* Holders are alive, and own the file until a live record is removed.      *)
LEMMA OwnershipInvariant == Spec => []OwnershipInv
<1>1. Init => AliveOK /\ HolderOwnsFile
  BY DEF Init, AliveOK, HolderOwnsFile, InHold, Holding
<1> QED BY <1>1, OwnershipStep, TypeCorrect, PTL DEF Spec, OwnershipInv

(* However many processes contend, crash, restart with reused PIDs or take *)
(* over old heartbeats: until a running process's record is removed, a     *)
(* process in its critical section is alive and named by the lock file.    *)
THEOREM HolderOwnership == Spec => []HolderOwnsFile
BY OwnershipInvariant, PTL DEF OwnershipInv

(* Of all the steps that write or remove the lock file only a reclaim can  *)
(* be the first to take it from a running process.                         *)
THEOREM OnlyReclaim == Spec => OnlyReclaimUsurps
<1>1. OwnershipInv /\ [Next]_vars
        => [~usurped /\ usurped' => \E p \in Proc : At(p, "reclaim")]_vars
  <2> SUFFICES ASSUME OwnershipInv, [Next]_vars, ~usurped, usurped'
               PROVE  \E p \in Proc : At(p, "reclaim")
    OBVIOUS
  <2> USE DEF OwnershipInv, TypeOK
  <2>1. ~HeartbeatsAge /\ ~UNCHANGED vars
    BY DEF HeartbeatsAge, vars
  <2>2. PICK p \in Proc :
          \/ Acquire(p) \/ LinkFails(p) \/ Release(p) \/ TouchRead(p)
          \/ Step(p) \/ DeadlinePasses(p) \/ Crash(p) \/ Start(p)
    BY <2>1 DEF Next
  <2>3. Step(p)
    BY <2>2 DEF Acquire, LinkFails, Release, TouchRead, DeadlinePasses, Crash, Start
  <2>4. Reclaim(p) \/ ReleaseUnlink(p) \/ TouchReplace(p)
    BY <2>3 DEF Step, LinkCreates, LinkFindsLock, ReadFreed, ReadRecord,
       JudgeReclaimable, JudgeHeld, JudgeTimedOut, JudgeWaits, ReleaseRead
  <2>5. CASE ReleaseUnlink(p) \/ TouchReplace(p)
    <3>1. Matches(p, file)
      BY <2>5 DEF ReleaseUnlink, TouchReplace, HolderOwnsFile, InHold, Holding
    <3>2. ~LiveOther(p, file)
      BY <3>1 DEF LiveOther, Matches
    <3> QED BY <2>5, <3>2 DEF ReleaseUnlink, TouchReplace
  <2>6. CASE Reclaim(p)
    BY <2>6 DEF Reclaim
  <2> QED BY <2>4, <2>5, <2>6
<1> QED BY <1>1, OwnershipInvariant, PTL DEF Spec, OnlyReclaimUsurps

-----------------------------------------------------------------------------
(* Two PIDs, none of them given to a second process, no heartbeat policy   *)
(* (no caller in pipeline_core asks for one): then the lease is exclusive  *)
(* without any condition.  The reason is that a reclaimer's view cannot go *)
(* stale: the other PID is either gone for good or has yet to start, and   *)
(* in the second case the file still holds the record that was read.       *)
TwoRunners == /\ \E a, b \in Proc : Proc = {a, b}
              /\ MaxLife = 1
              /\ ~RequireHeartbeat

LivesOK ==
    /\ \A p \in Proc : alive[p] => life[p] = 1
    /\ file \in Record => file.life <= life[file.pid]
    /\ \A p \in Proc : seen[p] \in Record => seen[p].life <= life[seen[p].pid]

(* The record p judges, if its PID was never in use, is still the file's.  *)
JudgeFresh ==
    \A p \in Proc :
        At(p, "judge") /\ seen[p] \in Record /\ life[seen[p].pid] = 0
            => file = seen[p]

(* The record p reclaims belongs to another PID, which is gone for good or *)
(* is locked out by that very record.                                      *)
ReclaimSound ==
    \A p \in Proc :
        At(p, "reclaim") =>
            /\ seen[p] \in Record /\ seen[p].pid # p
            /\ \/ ~alive[seen[p].pid] /\ life[seen[p].pid] = 1
               \/ file = seen[p] /\ seen[p].life = 0

TwoInv == OwnershipInv /\ LivesOK /\ JudgeFresh /\ ReclaimSound /\ ~usurped

(* With two PIDs, a record judged dead stays what the file holds until it   *)
(* is reclaimed: its owner is the other process, and that one is dead.      *)
LEMMA TwoInvStep ==
    ASSUME TwoRunners, TwoInv, OwnershipInv', [Next]_vars
    PROVE  TwoInv'
<1> USE BoundsAssumption, FileAssumption
    DEF TwoInv, OwnershipInv, TypeOK, AliveOK, LivesOK, JudgeFresh, ReclaimSound
<1>a. \A p \in Proc : life[p] \in {0, 1} /\ life'[p] \in {0, 1}
  BY DEF TwoRunners
<1>b. \A p, q, r \in Proc : p # q => r = p \/ r = q
  BY DEF TwoRunners
<1>1. ASSUME NEW p \in Proc,
             Acquire(p) \/ LinkFails(p) \/ Release(p) \/ TouchRead(p) \/ DeadlinePasses(p)
      PROVE  TwoInv'
  BY <1>1 DEF Acquire, LinkFails, Release, TouchRead, DeadlinePasses, Leave, local
<1>2. ASSUME NEW p \in Proc, Crash(p) PROVE TwoInv'
  BY <1>2 DEF Crash, Leave
<1>3. ASSUME NEW p \in Proc, Start(p) PROVE TwoInv'
  <2>1. life[p] = 0 /\ life'[p] = 1
    BY <1>3, <1>a DEF Start, TwoRunners
  <2>2. LivesOK'
    BY <1>3, <2>1, <1>a DEF Start, local, Record
  <2>3. JudgeFresh' /\ ReclaimSound' /\ ~usurped'
    BY <1>3, <2>1 DEF Start, local, Record
  <2> QED BY <2>2, <2>3
<1>4. ASSUME NEW p \in Proc, Step(p) PROVE TwoInv'
  <2>1. CASE LinkCreates(p)
    <3>1. LivesOK'
      BY <2>1, <1>a DEF LinkCreates, Leave, FreshRecord, Record
    <3>2. JudgeFresh' /\ ReclaimSound' /\ ~usurped'
      BY <2>1, <1>a, <1>b DEF LinkCreates, Leave, FreshRecord, Record
    <3> QED BY <3>1, <3>2
  <2>2. CASE LinkFindsLock(p)
    BY <2>2 DEF LinkFindsLock, local
  <2>3. CASE ReadFreed(p)
    <3>1. pc'[p] \in {"link", "idle"} /\ OnlyMoves(p) /\ seen'[p] \in {seen[p], NoFile}
      BY <2>3, BumpSpinsMoves DEF ReadFreed
    <3>2. UNCHANGED <<file, alive, life, usurped>>
      BY <2>3 DEF ReadFreed
    <3> QED BY <3>1, <3>2 DEF OnlyMoves
  <2>4. CASE ReadRecord(p)
    BY <2>4 DEF ReadRecord
  <2>5. CASE JudgeReclaimable(p)
    BY <2>5, <1>a DEF JudgeReclaimable, Reclaimable, TwoRunners, Record, local
  <2>6. CASE JudgeHeld(p) \/ JudgeTimedOut(p) \/ JudgeWaits(p)
    BY <2>6 DEF JudgeHeld, JudgeTimedOut, JudgeWaits, Leave, local
  <2>7. CASE Reclaim(p)
    <3>1. /\ pc'[p] \in {"link", "idle"} /\ seen'[p] \in {seen[p], NoFile}
          /\ OnlyMoves(p) /\ file' = NoFile /\ UNCHANGED <<alive, life>>
      BY <2>7, BumpSpinsMoves DEF Reclaim
    <3>2. ~LiveOther(p, file)
      BY <2>7, <1>a, <1>b DEF Reclaim, LiveOther, Matches, Record
    <3>3. LivesOK'
      BY <3>1 DEF OnlyMoves
    <3>4. ASSUME NEW q \in Proc \ {p}
          PROVE  /\ ~At(q, "reclaim")
                 /\ At(q, "judge") /\ seen[q] \in Record => life[seen[q].pid] # 0
      BY <2>7, <1>a, <1>b DEF Reclaim, Record
    <3>5. JudgeFresh' /\ ReclaimSound'
      BY <3>1, <3>4 DEF OnlyMoves
    <3> QED BY <2>7, <3>2, <3>3, <3>5 DEF Reclaim
  <2>8. CASE ReleaseRead(p)
    BY <2>8 DEF ReleaseRead, local
  <2>9. CASE ReleaseUnlink(p) \/ TouchReplace(p)
    <3>1. Matches(p, file) /\ life[p] = 1
      BY <2>9 DEF ReleaseUnlink, TouchReplace, HolderOwnsFile, InHold, Holding
    <3>2. ~LiveOther(p, file)
      BY <3>1 DEF LiveOther, Matches
    <3>3. LivesOK'
      BY <2>9, <3>1 DEF ReleaseUnlink, TouchReplace, FreshRecord, local, Matches, Record
    <3>4. JudgeFresh'
      BY <2>9, <3>1, <1>b DEF ReleaseUnlink, TouchReplace, local, Matches, Record
    <3>5. ReclaimSound'
      BY <2>9, <3>1, <1>b DEF ReleaseUnlink, TouchReplace, local, Matches, Record
    <3> QED BY <2>9, <3>2, <3>3, <3>4, <3>5 DEF ReleaseUnlink, TouchReplace
  <2> QED BY <1>4, <2>1, <2>2, <2>3, <2>4, <2>5, <2>6, <2>7, <2>8, <2>9 DEF Step
<1>5. ~HeartbeatsAge
  BY DEF HeartbeatsAge, TwoRunners
<1>6. CASE UNCHANGED vars
  BY <1>6 DEF vars
<1> QED BY <1>1, <1>2, <1>3, <1>4, <1>5, <1>6 DEF Next

(* The invariant of two runners, for every run of the lock file.            *)
LEMMA TwoRunnersInvariant ==
    ASSUME TwoRunners PROVE Spec => []TwoInv
<1>1. Init => LivesOK /\ JudgeFresh /\ ReclaimSound /\ ~usurped
  <2> SUFFICES ASSUME Init PROVE LivesOK /\ JudgeFresh /\ ReclaimSound /\ ~usurped
    OBVIOUS
  <2>1. file \in Record => file.life = 0 /\ file.pid \in Proc
    BY FileAssumption DEF Init, Record
  <2>2. LivesOK
    <3>1. \A p \in Proc : seen[p] \notin Record
      BY FileAssumption DEF Init
    <3>2. \A p \in Proc : life[p] \in {0, 1} /\ (alive[p] => life[p] = 1)
      BY DEF Init
    <3> QED BY <2>1, <3>1, <3>2 DEF LivesOK
  <2>3. JudgeFresh /\ ReclaimSound /\ ~usurped
    BY DEF Init, JudgeFresh, ReclaimSound
  <2> QED BY <2>2, <2>3
<1>2. TwoInv /\ OwnershipInv' /\ [Next]_vars => TwoInv'
  BY TwoInvStep
<1> QED BY <1>1, <1>2, OwnershipInvariant, PTL DEF Spec, TwoInv

(* Two runners at most on one lease, PIDs not reused: never both inside,   *)
(* through crashes, restarts under a new PID and reclaimed locks.          *)
THEOREM TwoRunnersExclude ==
    ASSUME TwoRunners PROVE Spec => []MutualExclusion
<1>1. TwoInv => MutualExclusion
  BY FileAssumption DEF TwoInv, OwnershipInv, HolderOwnsFile, MutualExclusion, Matches, Record
<1> QED BY <1>1, TwoRunnersInvariant, PTL

(* And the lock file then implements the one-step lock of Mutex.           *)
THEOREM TwoRunnersRefine ==
    ASSUME TwoRunners PROVE Spec => ImplementsMutex
<1>1. Init => M!Init
  BY DEF Init, M!Init, Holder, InHold, Holding
<1>2. TwoInv /\ TwoInv' /\ [Next]_vars => [M!Next]_Holder
  <2> SUFFICES ASSUME TwoInv, TwoInv', [Next]_vars PROVE [M!Next]_Holder
    OBVIOUS
  <2>1. MutualExclusion /\ MutualExclusion'
    BY DEF TwoInv, OwnershipInv, HolderOwnsFile, MutualExclusion, Matches, TypeOK
  <2>2. \A p \in Proc : InHold(p) => Holder = p
    BY <2>1 DEF Holder, MutualExclusion
  <2>3. \A p \in Proc : InHold(p)' => Holder' = p
    BY <2>1 DEF Holder, MutualExclusion
  <2>4. CASE \A p \in Proc : ~InHold(p)
    <3>1. Holder = Nobody
      BY <2>4 DEF Holder
    <3>2. Holder' = Nobody \/ \E p \in Proc : Holder' = p
      BY <2>3 DEF Holder
    <3> QED BY <3>1, <3>2 DEF M!Next, M!Grant
  <2>5. ASSUME NEW p \in Proc, InHold(p), InHold(p)' PROVE [M!Next]_Holder
    BY <2>2, <2>3, <2>5
  <2>6. ASSUME NEW p \in Proc, InHold(p), ~InHold(p)' PROVE [M!Next]_Holder
    <3>1. pc'[p] # pc[p]
      BY <2>6 DEF InHold
    <3>2. OnlyMoves(p)
      <4>1. ~HeartbeatsAge /\ ~UNCHANGED vars
        BY <3>1 DEF HeartbeatsAge, vars
      <4>2. PICK q \in Proc :
              \/ Acquire(q) \/ LinkFails(q) \/ Release(q) \/ TouchRead(q)
              \/ Step(q) \/ DeadlinePasses(q) \/ Crash(q) \/ Start(q)
        BY <4>1 DEF Next
      <4>3. OnlyMoves(q)
        BY <4>2, ProcessStepMoves DEF TwoInv, OwnershipInv
      <4> QED BY <4>3, <3>1 DEF OnlyMoves
    <3>3. \A q \in Proc : ~InHold(q)'
      BY <3>2, <2>1, <2>6 DEF OnlyMoves, InHold, MutualExclusion
    <3>4. Holder = p /\ Holder' = Nobody
      BY <3>3, <2>2, <2>6 DEF Holder
    <3> QED BY <3>4 DEF M!Next, M!Free
  <2> QED BY <2>4, <2>5, <2>6
<1> QED BY <1>1, <1>2, TwoRunnersInvariant, PTL DEF ImplementsMutex, M!Spec, Spec

HIDE DEF At, Goto

-----------------------------------------------------------------------------
(* The board: the inductive invariant                                      *)

Bodies == [lines : Lines, eol : BOOLEAN]
Boards == [todo : Bodies, prog : Bodies, intact : BOOLEAN]
TaskFiles == [mark : States, results : Seq(Runs \cup {"human"}), intact : BOOLEAN]
Jobs == [op : {"project"}, task : Tasks, state : States, source : Runs]
        \cup [op : {"remove"}, tasks : SUBSET Tasks]
Outs == [board : SUBSET Boards, file : SUBSET TaskFiles, whole : BOOLEAN]
RunStages == {"off", "reconcile", "history", "again", "lease", "running", "starting", "working"}
Processes ==
    [stage : RunStages, resume : BOOLEAN, task : SUBSET Tasks, queue : Seq(Jobs), out : Outs]
Documents(r) == [status : [Scope(r) -> States], made : BOOLEAN, closed : BOOLEAN]

(* The values the variables have.                                          *)
Types ==
    /\ DOMAIN disk = Runs /\ \A r \in Runs : disk[r] \in Documents(r)
    /\ board \in Boards /\ board.todo.eol
    /\ taskFile \in [Tasks -> TaskFiles]
    /\ proc \in [Runs -> Processes]
    /\ \A r \in Runs : proc[r].task \subseteq Scope(r)
    /\ lease = {} \/ \E r \in Runs : lease = {r}
    /\ alone \subseteq Runs

(* What a Result of t that names s rests on, and the removal of t's card.  *)
Backed(t, s) ==
    \/ t \in Scope(s) /\ disk[s].status[t] = "done"
    \/ \E e \in Listed(Registry) :
          /\ e.old = t /\ e.completes /\ e.new \in Scope(s)
          /\ disk[s].closed /\ disk[s].status[e.new] = "done"
Replaced(t) ==
    \E s \in Runs, e \in Listed(Declared) \cup Listed(Registry) :
       /\ e.old = t /\ e.new \in Scope(s)
       /\ disk[s].closed /\ disk[s].status[e.new] = "done"
JobBacked(j) ==
    /\ j.op = "project" /\ j.state = "done" => Backed(j.task, j.source)
    /\ j.op = "remove" => \A t \in j.tasks : Replaced(t)

(* With process p, run r has still to write what was founded when it was   *)
(* queued, and a task it starts is still to do.                            *)
QueueIsSound(r, p) ==
    /\ p.queue = << >> => p.out = NoOut
    /\ p.stage = "lease" => p.queue = << >>
    /\ \A j \in Listed(p.queue) : JobBacked(j)
    /\ p.stage = "starting" => \A t \in p.task : disk[r].status[t] = "to_do"
OutIsSound(p) ==
    p.out # NoOut =>
       LET j == Head(p.queue) IN
       /\ p.out.board # {} \/ p.out.file # {}
       /\ \A b \in p.out.board : b.todo.eol
       /\ j.op = "remove" => p.out.file = {}
       /\ j.op = "project" =>
             /\ p.out.file # {}
             /\ \A f \in p.out.file, s \in Runs : s \in Listed(f.results) => Backed(j.task, s)

(* The cards of t on board b are those of a task in that state.            *)
CardShown(b, t, state) ==
    \A c \in Columns :
       IF state # "done" /\ c = (IF state = "to_do" THEN "todo" ELSE "prog")
       THEN \E i \in DOMAIN b[c].lines :
               CardsOf(b[c].lines, t) = {i} /\ b[c].lines[i] = Card(t)
       ELSE CardsOf(b[c].lines, t) = {}

(* With nobody in between: what was rendered is still what the files give, *)
(* and what is left to write completes what the board shows.               *)
FreshIsSound(r, p) ==
    r \in fresh /\ p.out # NoOut =>
       LET j == Head(p.queue) IN
       /\ j.op = "remove" => p.out.board = {RemoveHistorical(board, j.tasks)}
       /\ j.op = "project" =>
             /\ p.out.file = {TaskTransition(taskFile[j.task], j.state, j.source)}
             /\ p.out.board # {} => /\ p.out.board = {Transition(board, j.task, j.state)}
                                    /\ p.out.whole = board.prog.eol
             /\ p.out.board = {} /\ p.out.whole => CardShown(board, j.task, j.state)

(* How far the second reconciliation of r has got.                         *)
Progress(r, p) == Len(ScopeOf[r]) - Len(p.queue)
TaskShown(r, t) == Shows(board, taskFile[t], t, disk[r].status[t])
ShownSoFar(r, p) ==
    /\ Progress(r, p) \in 0..Len(ScopeOf[r])
    /\ \A i \in DOMAIN p.queue : p.queue[i] = Reconciliation(r)[Progress(r, p) + i]
    /\ \A i \in 1..Progress(r, p) : TaskShown(r, ScopeOf[r][i])
AloneIsSound(r, p) ==
    r \in alone =>
       /\ p.out # NoOut => r \in fresh /\ p.out.whole
       /\ p.stage \in {"reconcile", "history"} => p.resume
       /\ p.stage = "again" => ShownSoFar(r, p)
       /\ p.stage = "lease" => \A t \in Scope(r) : TaskShown(r, t)

ResultsBacked ==
    \A t \in Tasks, s \in Runs : s \in Listed(taskFile[t].results) => Backed(t, s)

Sound(r, p) == QueueIsSound(r, p) /\ OutIsSound(p) /\ FreshIsSound(r, p) /\ AloneIsSound(r, p)
BoardInv ==
    /\ Types /\ ResultsBacked
    /\ \A r \in Runs : \E p \in Processes : proc[r] = p /\ Sound(r, p)

-----------------------------------------------------------------------------
(* Sequences                                                               *)

Rank(S, i) == Cardinality({j \in S : j <= i})

(* Some of the first n numbers are a finite set.                           *)
LEMMA FiniteNumbers ==
    ASSUME NEW n \in Nat, NEW S \in SUBSET (1..n)
    PROVE  IsFiniteSet(S) /\ Cardinality(S) \in Nat
<1>1. IsFiniteSet(1..n)
  BY FS_Interval
<1> QED BY <1>1, FS_Subset, FS_CardinalityType

(* Each place has a rank of its own, and each rank its place.              *)
LEMMA Ranks ==
    ASSUME NEW n \in Nat, NEW S \in SUBSET (1..n)
    PROVE  /\ \A i \in S : Rank(S, i) \in 1..Cardinality(S)
           /\ \A i, j \in S : i < j => Rank(S, i) < Rank(S, j)
           /\ \A i, j \in S : Rank(S, i) = Rank(S, j) => i = j
           /\ \A k \in 1..Cardinality(S) : \E i \in S : Rank(S, i) = k
<1> DEFINE m == Cardinality(S)
           rank == [i \in S |-> Rank(S, i)]
<1>1. IsFiniteSet(S) /\ m \in Nat
  BY FiniteNumbers
<1>2. ASSUME NEW i \in S
      PROVE  Rank(S, i) \in 1..m
  <2> DEFINE low == {j \in S : j <= i}
  <2>1. low \in SUBSET S /\ i \in low
    <3>1. i \in Nat
      OBVIOUS
    <3> QED BY <3>1
  <2>2. IsFiniteSet(low) /\ Cardinality(low) <= m /\ Cardinality(low) \in Nat
    BY <1>1, <2>1, FS_Subset, FS_CardinalityType
  <2>3. Cardinality(low) # 0
    BY <2>1, <2>2, FS_EmptySet
  <2>4. Rank(S, i) = Cardinality(low)
    BY DEF Rank
  <2> HIDE DEF low, m
  <2> QED BY <1>1, <2>2, <2>3, <2>4
<1>3. ASSUME NEW i \in S, NEW j \in S, i < j
      PROVE  Rank(S, i) < Rank(S, j)
  <2> DEFINE low == {k \in S : k <= i}
             high == {k \in S : k <= j}
  <2>1. low \in SUBSET high /\ j \in high \ low
    <3>1. i \in Nat /\ j \in Nat /\ \A k \in S : k \in Nat
      OBVIOUS
    <3>2. \A k \in low : k \in high
      BY <1>3, <3>1
    <3>3. j \in high /\ j \notin low
      BY <1>3, <3>1
    <3> QED BY <3>2, <3>3
  <2>2. IsFiniteSet(high)
    <3>1. high \in SUBSET S
      OBVIOUS
    <3> QED BY <1>1, <3>1, FS_Subset
  <2>3. /\ Cardinality(low) <= Cardinality(high) /\ Cardinality(low) # Cardinality(high)
        /\ Cardinality(low) \in Nat /\ Cardinality(high) \in Nat
    <3> HIDE DEF low, high
    <3> QED BY <2>1, <2>2, FS_Subset, FS_CardinalityType
  <2>4. Cardinality(low) < Cardinality(high)
    <3> HIDE DEF low, high
    <3> QED BY <2>3
  <2> QED BY <2>4 DEF Rank
<1>4. \A i, j \in S : Rank(S, i) = Rank(S, j) => i = j
  <2> SUFFICES ASSUME NEW i \in S, NEW j \in S, Rank(S, i) = Rank(S, j), i # j
               PROVE  FALSE
    OBVIOUS
  <2>1. i < j \/ j < i
    OBVIOUS
  <2>2. Rank(S, i) \in Nat
    BY <1>1, <1>2
  <2> QED BY <2>1, <2>2, <1>3
<1>5. rank \in Surjection(S, 1..m)
  <2>1. rank \in Injection(S, 1..m)
    BY <1>2, <1>4 DEF Injection, IsInjective
  <2>2. IsFiniteSet(1..m) /\ Cardinality(1..m) = m
    <3>1. /\ IsFiniteSet(1..m)
          /\ Cardinality(1..m) = IF 1 > m THEN 0 ELSE m - 1 + 1
      <4> HIDE DEF m
      <4> QED BY <1>1, FS_Interval
    <3> HIDE DEF m
    <3> QED BY <1>1, <3>1
  <2> HIDE DEF rank
  <2> QED BY <2>1, <2>2, FS_Injection
<1>6. ASSUME NEW k \in 1..m
      PROVE  \E i \in S : Rank(S, i) = k
  BY <1>5, <1>6 DEF Surjection
<1> QED BY <1>2, <1>3, <1>4, <1>6

(* Kth lists the places in order.                                          *)
LEMMA KthIs ==
    ASSUME NEW n \in Nat, NEW S \in SUBSET (1..n)
    PROVE  /\ \A k \in 1..Cardinality(S) : Kth(S, k) \in S /\ Rank(S, Kth(S, k)) = k
           /\ \A i \in S : Kth(S, Rank(S, i)) = i
           /\ \A k, l \in 1..Cardinality(S) : Kth(S, k) = Kth(S, l) => k = l
           /\ \A k, l \in 1..Cardinality(S) : Kth(S, k) <= Kth(S, l) <=> k <= l
<1>0. /\ \A i \in S : Rank(S, i) \in 1..Cardinality(S)
      /\ \A i, j \in S : i < j => Rank(S, i) < Rank(S, j)
      /\ \A i, j \in S : Rank(S, i) = Rank(S, j) => i = j
      /\ \A k \in 1..Cardinality(S) : \E i \in S : Rank(S, i) = k
  BY Ranks
<1>1. \A k : Kth(S, k) = CHOOSE i \in S : Rank(S, i) = k
  BY DEF Kth, Rank
<1>2. \A k \in 1..Cardinality(S) : Kth(S, k) \in S /\ Rank(S, Kth(S, k)) = k
  BY <1>0, <1>1
<1>3. \A i \in S : Kth(S, Rank(S, i)) = i
  <2> SUFFICES ASSUME NEW i \in S
               PROVE  Kth(S, Rank(S, i)) = i
    OBVIOUS
  <2>1. PICK k \in 1..Cardinality(S) : k = Rank(S, i)
    BY <1>0
  <2>2. Kth(S, k) \in S /\ Rank(S, Kth(S, k)) = Rank(S, i)
    BY <1>2, <2>1
  <2> QED BY <1>0, <2>1, <2>2
<1>4. \A k, l \in 1..Cardinality(S) : Kth(S, k) <= Kth(S, l) <=> k <= l
  <2> SUFFICES ASSUME NEW k \in 1..Cardinality(S), NEW l \in 1..Cardinality(S)
               PROVE  Kth(S, k) <= Kth(S, l) <=> k <= l
    OBVIOUS
  <2>1. PICK i \in S, j \in S : i = Kth(S, k) /\ j = Kth(S, l)
                                /\ Rank(S, i) = k /\ Rank(S, j) = l
    BY <1>2
  <2>2. (i < j => k < l) /\ (j < i => l < k) /\ (i = j => k = l)
    BY <2>1, <1>0
  <2>3. i \in Nat /\ j \in Nat /\ k \in Nat /\ l \in Nat
    BY FiniteNumbers
  <2> QED BY <2>1, <2>2, <2>3
<1> QED BY <1>2, <1>3, <1>4

(* What Part takes out of a sequence.                                        *)
LEMMA Pieces ==
    ASSUME NEW X, NEW s \in Seq(X), NEW S \in SUBSET (DOMAIN s)
    PROVE  /\ Part(s, S) \in Seq(X) /\ Len(Part(s, S)) = Cardinality(S)
           /\ Cardinality(S) \in Nat /\ DOMAIN Part(s, S) = 1..Cardinality(S)
           /\ \A k \in 1..Cardinality(S) :
                 Kth(S, k) \in S /\ Part(s, S)[k] = s[Kth(S, k)]
           /\ \A i \in S : Rank(S, i) \in 1..Cardinality(S) /\ Part(s, S)[Rank(S, i)] = s[i]
<1>1. S \in SUBSET (1..Len(s)) /\ Len(s) \in Nat
  OBVIOUS
<1>2. Cardinality(S) \in Nat
  BY <1>1, FiniteNumbers
<1>3. /\ \A k \in 1..Cardinality(S) : Kth(S, k) \in S /\ Kth(S, k) \in DOMAIN s
      /\ \A i \in S : Kth(S, Rank(S, i)) = i
  BY <1>1, KthIs
<1>4. \A k \in 1..Cardinality(S) : s[Kth(S, k)] \in X
  BY <1>3
<1>5. DOMAIN Part(s, S) = 1..Cardinality(S)
      /\ \A k \in 1..Cardinality(S) : Part(s, S)[k] = s[Kth(S, k)]
  BY DEF Part
<1>6. Part(s, S) \in [1..Cardinality(S) -> X]
  BY <1>4 DEF Part
<1>7. Part(s, S) \in Seq(X) /\ Len(Part(s, S)) = Cardinality(S)
  BY <1>2, <1>6
<1>8. \A i \in S : Rank(S, i) \in 1..Cardinality(S)
  BY <1>1, Ranks
<1> QED BY <1>2, <1>3, <1>5, <1>7, <1>8

(* The first and the last of some places.                                  *)
LEMMA Extremes ==
    ASSUME NEW n \in Nat, NEW S \in SUBSET (1..n), S # {}
    PROVE  /\ Lowest(S) \in S /\ \A j \in S : Lowest(S) <= j
           /\ Highest(S) \in S /\ \A j \in S : Highest(S) >= j
<1>1. IsFiniteSet(S) /\ Cardinality(S) \in Nat
  BY FiniteNumbers
<1>2. Cardinality(S) # 0
  BY <1>1, FS_EmptySet
<1>3. 1 \in 1..Cardinality(S) /\ Cardinality(S) \in 1..Cardinality(S)
  BY <1>1, <1>2
<1>4. \A j \in S : Rank(S, j) \in 1..Cardinality(S) /\ Kth(S, Rank(S, j)) = j
  BY Ranks, KthIs
<1>5. PICK a \in S, b \in S : a = Kth(S, 1) /\ b = Kth(S, Cardinality(S))
  BY <1>3, KthIs
<1>6. ASSUME NEW j \in S
      PROVE  a <= j /\ b >= j
  <2>1. PICK k \in 1..Cardinality(S) : j = Kth(S, k)
    BY <1>4
  <2>2. 1 <= k /\ k <= Cardinality(S)
    BY <1>1
  <2>3. Kth(S, 1) <= Kth(S, k) /\ Kth(S, k) <= Kth(S, Cardinality(S))
    BY <1>3, <2>2, KthIs
  <2> QED BY <1>5, <2>1, <2>3
<1>7. Lowest(S) \in S /\ \A j \in S : Lowest(S) <= j
  BY <1>6 DEF Lowest
<1>8. Highest(S) \in S /\ \A j \in S : Highest(S) >= j
  BY <1>6 DEF Highest
<1> QED BY <1>7, <1>8

(* Taking some of what was taken is taking those.                          *)
LEMMA PiecesOfPieces ==
    ASSUME NEW X, NEW s \in Seq(X), NEW S \in SUBSET (DOMAIN s), NEW R \in SUBSET S
    PROVE  Part(Part(s, S), {k \in DOMAIN Part(s, S) : Kth(S, k) \in R}) = Part(s, R)
<1> DEFINE m == Cardinality(S)
           K == {k \in 1..m : Kth(S, k) \in R}
           kth == [k \in K |-> Kth(S, k)]
<1>1. PICK n \in Nat : n = Len(s) /\ DOMAIN s = 1..n
  OBVIOUS
<1>2. S \in SUBSET (1..n) /\ R \in SUBSET (1..n) /\ m \in Nat /\ K \in SUBSET (1..m)
      /\ IsFiniteSet(R) /\ IsFiniteSet(K) /\ Cardinality(K) \in Nat /\ Cardinality(R) \in Nat
  <2>1. S \in SUBSET (1..n) /\ R \in SUBSET (1..n) /\ K \in SUBSET (1..m)
    BY <1>1
  <2>2. m \in Nat /\ IsFiniteSet(R) /\ Cardinality(R) \in Nat
    BY <2>1, FiniteNumbers
  <2>3. IsFiniteSet(K) /\ Cardinality(K) \in Nat
    <3> HIDE DEF m, K
    <3> QED BY <2>1, <2>2, FiniteNumbers
  <2> QED BY <2>1, <2>2, <2>3
<1>3. /\ \A k \in 1..m : Kth(S, k) \in S /\ Rank(S, Kth(S, k)) = k
      /\ \A i \in S : Kth(S, Rank(S, i)) = i /\ Rank(S, i) \in 1..m
      /\ \A k, l \in 1..m : Kth(S, k) = Kth(S, l) => k = l
      /\ \A k, l \in 1..m : Kth(S, k) <= Kth(S, l) <=> k <= l
  BY <1>2, KthIs, Ranks
<1>4. DOMAIN Part(s, S) = 1..m
  BY Pieces
<1>5. \A L \in SUBSET K : Cardinality({Kth(S, k) : k \in L}) = Cardinality(L)
  <2> SUFFICES ASSUME NEW L \in SUBSET K
               PROVE  Cardinality({Kth(S, k) : k \in L}) = Cardinality(L)
    OBVIOUS
  <2> DEFINE P == {Kth(S, k) : k \in L}
             f == [k \in L |-> Kth(S, k)]
  <2>1. IsFiniteSet(L)
    <3> HIDE DEF K
    <3> QED BY <1>2, FS_Subset
  <2>2. f \in Bijection(L, P)
    <3>1. f \in [L -> P]
      OBVIOUS
    <3>2. \A k, l \in L : f[k] = f[l] => k = l
      BY <1>3
    <3>3. \A p \in P : \E k \in L : f[k] = p
      OBVIOUS
    <3> HIDE DEF P, f
    <3> QED BY <3>1, <3>2, <3>3 DEF Bijection, Injection, Surjection, IsInjective
  <2>3. P # {} \/ L = {}
    OBVIOUS
  <2>4. Cardinality(L) = Cardinality(P)
    <3> HIDE DEF P, f
    <3> QED BY <2>1, <2>2, FS_Bijection DEF ExistsBijection
  <2> QED BY <2>4
<1>6. {Kth(S, k) : k \in K} = R
  <2>1. ASSUME NEW i \in R
        PROVE  i \in {Kth(S, k) : k \in K}
    <3>1. i \in S /\ Kth(S, Rank(S, i)) = i /\ Rank(S, i) \in 1..m
      BY <1>3
    <3>2. Rank(S, i) \in K
      BY <3>1
    <3> QED BY <3>1, <3>2
  <2> QED BY <2>1
<1>7. Cardinality(K) = Cardinality(R)
  BY <1>5, <1>6
<1>8. ASSUME NEW q \in 1..Cardinality(K)
      PROVE  /\ Kth(K, q) \in 1..m /\ Kth(S, Kth(K, q)) = Kth(R, q)
  <2>1. PICK k \in K : k = Kth(K, q) /\ Rank(K, k) = q
    <3> HIDE DEF K, m
    <3> QED BY <1>2, KthIs
  <2>2. PICK i \in R : i = Kth(S, k)
    BY <1>6
  <2> DEFINE L == {l \in K : l <= k}
  <2>3. {Kth(S, l) : l \in L} = {j \in R : j <= i}
    <3>1. ASSUME NEW l \in L
          PROVE  Kth(S, l) \in R /\ Kth(S, l) <= i
      BY <1>3, <2>2
    <3>2. ASSUME NEW j \in R, j <= i
          PROVE  j \in {Kth(S, l) : l \in L}
      <4>1. PICK l \in K : j = Kth(S, l)
        BY <1>6
      <4>2. l <= k
        BY <1>3, <2>2, <3>2, <4>1
      <4> QED BY <4>1, <4>2
    <3> QED BY <3>1, <3>2
  <2>4. Rank(R, i) = q
    <3>1. Cardinality({Kth(S, l) : l \in L}) = Cardinality(L)
      <4>1. L \in SUBSET K
        OBVIOUS
      <4> HIDE DEF K, L
      <4> QED BY <1>5, <4>1
    <3>2. Cardinality(L) = q
      BY <2>1 DEF Rank
    <3> HIDE DEF L
    <3> QED BY <2>3, <3>1, <3>2 DEF Rank
  <2>5. Kth(R, q) = i
    BY <1>2, <2>4, KthIs
  <2> QED BY <2>1, <2>2, <2>5
<1>9. ASSUME NEW q \in 1..Cardinality(K)
      PROVE  Part(s, S)[Kth(K, q)] = s[Kth(R, q)]
  <2>1. Part(s, S)[Kth(K, q)] = s[Kth(S, Kth(K, q))]
    BY <1>8 DEF Part
  <2> QED BY <1>8, <2>1
<1>10. Part(Part(s, S), K) = Part(s, R)
  <2> HIDE DEF K
  <2> QED BY <1>7, <1>9 DEF Part
<1> QED BY <1>4, <1>10

-----------------------------------------------------------------------------
(* Columns                                                                 *)

(* What is a card of a task.                                               *)
LEMMA LinesOfTasks ==
    ASSUME NEW t \in Tasks
    PROVE  /\ Card(t) \in AnyLine /\ Card(t) # Note /\ IsCardOf(Card(t), t) /\ Card(t)[1] = t
           /\ \A x \in AnyLine : IsCardOf(x, t) <=> x = Card(t) \/ x = <<"x", t>>
           /\ \A x \in AnyLine : x[1] = t <=> x = Card(t)
<1>1. t # "x" /\ t # "note"
  BY NameAssumption
<1>2. ASSUME NEW x \in AnyLine
      PROVE  /\ IsCardOf(x, t) <=> x = Card(t) \/ x = <<"x", t>>
             /\ x[1] = t <=> x = Card(t)
  <2>1. CASE x = Note
    BY <1>1, <2>1 DEF Note, IsCardOf, Card
  <2>2. ASSUME NEW u \in Tasks, x = Card(u)
        PROVE  /\ IsCardOf(x, t) <=> x = Card(t) \/ x = <<"x", t>>
               /\ x[1] = t <=> x = Card(t)
    <3>1. u # "x" /\ u # "note"
      BY NameAssumption
    <3> QED BY <1>1, <2>2, <3>1 DEF Note, IsCardOf, Card
  <2>3. ASSUME NEW u \in Tasks, x = <<"x", u>>
        PROVE  /\ IsCardOf(x, t) <=> x = Card(t) \/ x = <<"x", t>>
               /\ x[1] = t <=> x = Card(t)
    <3>1. u # "x" /\ u # "note"
      BY NameAssumption
    <3> QED BY <1>1, <2>3, <3>1 DEF Note, IsCardOf, Card
  <2> QED BY <2>1, <2>2, <2>3 DEF AnyLine
<1>3. Card(t) \in AnyLine
  BY DEF AnyLine
<1>4. Card(t) # Note /\ IsCardOf(Card(t), t) /\ Card(t)[1] = t
  BY <1>1 DEF Card, Note, IsCardOf
<1> QED BY <1>2, <1>3, <1>4

(* A line is the card of one task at most.                               *)
LEMMA OneTask ==
    ASSUME NEW x \in AnyLine, NEW t \in Tasks, NEW u \in Tasks, IsCardOf(x, t), IsCardOf(x, u)
    PROVE  t = u
<1>1. /\ x = Card(t) \/ x = <<"x", t>>
      /\ x = Card(u) \/ x = <<"x", u>>
  BY LinesOfTasks
<1>2. t # "x" /\ u # "x"
  BY NameAssumption
<1> QED BY <1>1, <1>2 DEF Card

(* The canonical card of t is its only card.                               *)
Single(s, t) == \E i \in DOMAIN s : CardsOf(s, t) = {i} /\ s[i] = Card(t)

(* The lines of everybody but T.                                           *)
Rest(s, T) == {i \in DOMAIN s : \A t \in T : ~IsCardOf(s[i], t)}

(* What column s says of u, r says too.                                    *)
Stays(s, r, u) ==
    /\ CardsOf(s, u) = {} => CardsOf(r, u) = {}
    /\ Single(s, u) => Single(r, u)
    /\ Card(u) \in Listed(s) => Card(u) \in Listed(r)

(* Taking lines out leaves the cards that are not taken.                   *)
LEMMA CardsOfPieces ==
    ASSUME NEW s \in Lines, NEW S \in SUBSET (DOMAIN s), NEW u \in Tasks,
           CardsOf(s, u) \subseteq S
    PROVE  /\ CardsOf(Part(s, S), u) = {Rank(S, i) : i \in CardsOf(s, u)}
           /\ Stays(s, Part(s, S), u)
<1> DEFINE r == Part(s, S)
<1>1. /\ DOMAIN r = 1..Cardinality(S)
      /\ \A k \in DOMAIN r : Kth(S, k) \in S /\ r[k] = s[Kth(S, k)]
      /\ \A i \in S : Rank(S, i) \in DOMAIN r /\ r[Rank(S, i)] = s[i]
  BY Pieces DEF Lines
<1>2. \A k \in DOMAIN r : Rank(S, Kth(S, k)) = k
  <2>1. PICK n \in Nat : n = Len(s) /\ DOMAIN s = 1..n
    BY DEF Lines
  <2>2. S \in SUBSET (1..n)
    BY <2>1
  <2> QED BY <1>1, <2>2, KthIs
<1> HIDE DEF r
<1>3. \A k : k \in CardsOf(r, u) <=> k \in DOMAIN r /\ IsCardOf(r[k], u)
  BY DEF CardsOf
<1>4. \A i : i \in CardsOf(s, u) <=> i \in DOMAIN s /\ IsCardOf(s[i], u)
  BY DEF CardsOf
<1>5. CardsOf(r, u) = {Rank(S, i) : i \in CardsOf(s, u)}
  <2>1. ASSUME NEW k \in CardsOf(r, u)
        PROVE  k \in {Rank(S, i) : i \in CardsOf(s, u)}
    <3>1. Kth(S, k) \in CardsOf(s, u) /\ k = Rank(S, Kth(S, k))
      BY <1>1, <1>2, <1>3, <1>4, <2>1
    <3> QED BY <3>1
  <2>2. ASSUME NEW i \in CardsOf(s, u)
        PROVE  Rank(S, i) \in CardsOf(r, u)
    BY <1>1, <1>3, <1>4, <2>2
  <2> QED BY <2>1, <2>2
<1>6. CardsOf(s, u) = {} => CardsOf(r, u) = {}
  BY <1>5
<1>7. Single(s, u) => Single(r, u)
  <2> SUFFICES ASSUME NEW i \in DOMAIN s, CardsOf(s, u) = {i}, s[i] = Card(u)
               PROVE  Single(r, u)
    BY DEF Single
  <2>1. i \in S /\ CardsOf(r, u) = {Rank(S, i)}
    BY <1>5
  <2> QED BY <1>1, <2>1 DEF Single
<1>8. Card(u) \in Listed(s) => Card(u) \in Listed(r)
  <2> SUFFICES ASSUME NEW i \in DOMAIN s, s[i] = Card(u)
               PROVE  Card(u) \in Listed(r)
    BY DEF Listed
  <2>1. i \in CardsOf(s, u)
    BY <1>4, LinesOfTasks
  <2> QED BY <1>1, <2>1 DEF Listed
<1> QED BY <1>5, <1>6, <1>7, <1>8 DEF r, Stays

(* ... and the other lines in their order.                                 *)
LEMMA RestOfPieces ==
    ASSUME NEW s \in Lines, NEW S \in SUBSET (DOMAIN s), NEW T, Rest(s, T) \subseteq S
    PROVE  Part(Part(s, S), Rest(Part(s, S), T)) = Part(s, Rest(s, T))
<1> DEFINE r == Part(s, S)
<1>1. \A k \in DOMAIN r : Kth(S, k) \in S /\ r[k] = s[Kth(S, k)]
  BY Pieces DEF Lines
<1>2. Rest(r, T) = {k \in DOMAIN r : Kth(S, k) \in Rest(s, T)}
  <2> HIDE DEF r
  <2> QED BY <1>1 DEF Rest
<1> QED BY <1>2, PiecesOfPieces DEF Lines

(* What the rewriting of a column for t does.                              *)
Rewrites(old, new, t) ==
    /\ new \in Bodies
    /\ old.eol => new.eol
    /\ old.eol => /\ \A u \in Tasks \ {t} : Stays(old.lines, new.lines, u)
                  /\ Part(new.lines, Rest(new.lines, {t})) = Part(old.lines, Rest(old.lines, {t}))

(* Body makes a column of its lines.                                     *)
LEMMA BodyIs ==
    ASSUME NEW lines, NEW eol
    PROVE  /\ Body(lines, eol).lines = lines /\ Body(lines, eol).eol = eol
           /\ lines \in Lines /\ eol \in BOOLEAN => Body(lines, eol) \in Bodies
BY DEF Body, Bodies

(* Without takes all cards of the task out, and nobody else's.           *)
LEMMA WithoutGives ==
    ASSUME NEW body \in Bodies, NEW t \in Tasks
    PROVE  /\ Rewrites(body, Without(body, t), t)
           /\ CardsOf(Without(body, t).lines, t) = {}
<1> DEFINE s == body.lines
           S == (DOMAIN s) \ CardsOf(s, t)
           w == Without(body, t)
<1>1. s \in Lines /\ body.eol \in BOOLEAN /\ S \in SUBSET (DOMAIN s)
  BY DEF Bodies
<1>2. w = Body(Part(s, S), body.eol \/ Len(s) \in CardsOf(s, t))
  BY DEF Without
<1>3. Part(s, S) \in Lines
  BY <1>1, Pieces DEF Lines
<1>4. w \in Bodies /\ w.lines = Part(s, S) /\ (body.eol => w.eol)
  <2> HIDE DEF S, w
  <2> QED BY <1>1, <1>2, <1>3, BodyIs
<1>5. CardsOf(Part(s, S), t) = {}
  <2>1. \A k \in DOMAIN Part(s, S) : Kth(S, k) \in S /\ Part(s, S)[k] = s[Kth(S, k)]
    <3> HIDE DEF S, s
    <3> QED BY <1>1, Pieces DEF Lines
  <2>2. \A i \in S : ~IsCardOf(s[i], t)
    BY DEF CardsOf
  <2> HIDE DEF S
  <2> QED BY <2>1, <2>2 DEF CardsOf
<1>6. ASSUME NEW u \in Tasks \ {t}
      PROVE  Stays(s, Part(s, S), u)
  <2>1. CardsOf(s, u) \subseteq S
    <3>1. \A i \in DOMAIN s : s[i] \in AnyLine
      BY <1>1 DEF Lines
    <3> QED BY <3>1, OneTask DEF CardsOf
  <2> HIDE DEF S, s
  <2> QED BY <1>1, <2>1, CardsOfPieces
<1>7. Part(Part(s, S), Rest(Part(s, S), {t})) = Part(s, Rest(s, {t}))
  <2>1. Rest(s, {t}) \subseteq S
    BY DEF Rest, CardsOf
  <2> HIDE DEF S, s
  <2> QED BY <1>1, <2>1, RestOfPieces
<1> HIDE DEF S, w
<1> QED BY <1>4, <1>5, <1>6, <1>7 DEF Rewrites, w

(* All places but one.                                                     *)
LEMMA AllButOne ==
    ASSUME NEW n \in Nat, NEW p \in 1..(n + 1)
    PROVE  LET D == (1..(n + 1)) \ {p}
           IN  /\ Cardinality(D) = n
               /\ \A k \in 1..n : Kth(D, k) = IF k < p THEN k ELSE k + 1
<1> DEFINE D == (1..(n + 1)) \ {p}
<1>0. \A m \in Nat : IsFiniteSet(1..m) /\ Cardinality(1..m) = m
  <2> SUFFICES ASSUME NEW m \in Nat
               PROVE  IsFiniteSet(1..m) /\ Cardinality(1..m) = m
    OBVIOUS
  <2>1. IsFiniteSet(1..m) /\ Cardinality(1..m) = IF 1 > m THEN 0 ELSE m - 1 + 1
    BY FS_Interval
  <2> QED BY <2>1
<1>1. \A m \in Nat : p \in 1..m => Cardinality((1..m) \ {p}) = m - 1
  BY <1>0, FS_RemoveElement
<1>2. Cardinality(D) = n
  BY <1>1
<1>3. D \in SUBSET (1..(n + 1)) /\ n + 1 \in Nat
  OBVIOUS
<1>4. ASSUME NEW k \in 1..n
      PROVE  Kth(D, k) = IF k < p THEN k ELSE k + 1
  <2>1. CASE k < p
    <3>1. {j \in D : j <= k} = 1..k /\ k \in D /\ k \in Nat
      BY <2>1
    <3>2. Rank(D, k) = k
      <4> HIDE DEF D
      <4> QED BY <1>0, <3>1 DEF Rank
    <3> HIDE DEF D
    <3> QED BY <1>3, <2>1, <3>1, <3>2, KthIs
  <2>2. CASE ~(k < p)
    <3>1. {j \in D : j <= k + 1} = (1..(k + 1)) \ {p} /\ k + 1 \in D /\ k + 1 \in Nat
          /\ p \in 1..(k + 1)
      BY <2>2
    <3>2. Cardinality((1..(k + 1)) \ {p}) = k
      <4>1. PICK m \in Nat : m = k + 1
        BY <3>1
      <4>2. Cardinality((1..m) \ {p}) = m - 1
        BY <1>1, <3>1, <4>1
      <4> QED BY <4>1, <4>2
    <3>3. Rank(D, k + 1) = k
      <4> HIDE DEF D
      <4> QED BY <3>1, <3>2 DEF Rank
    <3> HIDE DEF D
    <3> QED BY <1>3, <2>2, <3>1, <3>3, KthIs
  <2> QED BY <2>1, <2>2
<1> QED BY <1>2, <1>4

(* Insert adds the card, and moves nobody else's.                        *)
LEMMA InsertGives ==
    ASSUME NEW body \in Bodies, NEW t \in Tasks, CardsOf(body.lines, t) = {}
    PROVE  /\ Rewrites(body, Insert(body, t), t)
           /\ body.eol => Single(Insert(body, t).lines, t)
<1> DEFINE s == body.lines
           cards == {i \in DOMAIN s : s[i] # Note}
           at == IF cards = {} THEN Len(s) ELSE Highest(cards)
           r == [i \in 1..(Len(s) + 1) |->
                   IF i <= at THEN s[i] ELSE IF i = at + 1 THEN Card(t) ELSE s[i - 1]]
           w == Insert(body, t)
<1>1. s \in Lines /\ body.eol \in BOOLEAN
  BY DEF Bodies
<1>2. PICK n \in Nat : n = Len(s) /\ DOMAIN s = 1..n /\ \A i \in 1..n : s[i] \in AnyLine
  BY <1>1 DEF Lines
<1>3. PICK a \in 0..n : a = at
  <2>1. CASE cards = {}
    BY <1>2, <2>1
  <2>2. CASE cards # {}
    <3>1. cards \in SUBSET (1..n)
      BY <1>2
    <3>2. Highest(cards) \in cards
      <4> HIDE DEF cards
      <4> QED BY <2>2, <3>1, Extremes
    <3>3. Highest(cards) \in 0..n
      BY <3>1, <3>2
    <3> HIDE DEF cards
    <3> QED BY <2>2, <3>3
  <2> QED BY <2>1, <2>2
<1>4. w = IF at = Len(s) /\ at > 0 /\ ~body.eol THEN Body(s, TRUE)
          ELSE Body(r, body.eol \/ at = Len(s))
  BY DEF Insert
<1>5. CASE ~body.eol
  <2>1. r \in Lines
    <3>1. Card(t) \in AnyLine
      BY LinesOfTasks
    <3>2. \A i \in 1..(n + 1) : r[i] \in AnyLine
      <4> HIDE DEF at
      <4> QED BY <1>2, <1>3, <3>1
    <3>3. r = [i \in 1..(n + 1) |-> r[i]]
      <4> HIDE DEF at
      <4> QED BY <1>2
    <3> HIDE DEF r
    <3> QED BY <3>2, <3>3 DEF Lines
  <2>2. (at = Len(s)) \in BOOLEAN
    OBVIOUS
  <2>3. w \in Bodies
    <3> HIDE DEF r, w, at
    <3> QED BY <1>1, <1>4, <2>1, <2>2, BodyIs
  <2> HIDE DEF w
  <2> QED BY <1>5, <2>3 DEF Rewrites, w
<1>6. CASE body.eol
  <2>1. w.lines = r /\ w.eol
    <3> HIDE DEF r, w, at
    <3> QED BY <1>4, <1>6, BodyIs
  <2>2. /\ DOMAIN r = 1..(n + 1) /\ r[a + 1] = Card(t) /\ a + 1 \in 1..(n + 1)
        /\ \A i \in 1..n : i <= a => r[i] = s[i]
        /\ \A i \in 1..n : ~(i <= a) => r[i + 1] = s[i]
        /\ \A q \in 1..(n + 1) : q # a + 1 =>
              \E i \in 1..n : r[q] = s[i] /\ q = IF i <= a THEN i ELSE i + 1
    <3>1. r = [i \in 1..(n + 1) |->
                   IF i <= a THEN s[i] ELSE IF i = a + 1 THEN Card(t) ELSE s[i - 1]]
      <4> HIDE DEF at
      <4> QED BY <1>2, <1>3
    <3> HIDE DEF r, s, at
    <3>2. /\ DOMAIN r = 1..(n + 1) /\ a + 1 \in 1..(n + 1)
          /\ \A q \in 1..(n + 1) : r[q] = IF q <= a THEN s[q]
                                          ELSE IF q = a + 1 THEN Card(t) ELSE s[q - 1]
      BY <3>1
    <3>3. r[a + 1] = Card(t)
      BY <3>2
    <3>4. \A i \in 1..n : (i <= a => r[i] = s[i]) /\ (~(i <= a) => r[i + 1] = s[i])
      BY <3>2
    <3>5. ASSUME NEW q \in 1..(n + 1), q # a + 1
          PROVE  \E i \in 1..n : r[q] = s[i] /\ q = IF i <= a THEN i ELSE i + 1
      <4>1. CASE q <= a
        <5>1. q \in 1..n /\ r[q] = s[q]
          BY <3>2, <4>1
        <5> QED BY <4>1, <5>1
      <4>2. CASE ~(q <= a)
        <5>1. q - 1 \in 1..n /\ ~(q - 1 <= a) /\ r[q] = s[q - 1] /\ q = (q - 1) + 1
          BY <3>2, <3>5, <4>2
        <5> QED BY <5>1
      <4> QED BY <4>1, <4>2
    <3> QED BY <3>2, <3>3, <3>4, <3>5
  <2>3. r \in Lines
    <3>1. Card(t) \in AnyLine
      BY LinesOfTasks
    <3>2. \A q \in 1..(n + 1) : r[q] \in AnyLine
      <4> HIDE DEF r
      <4> QED BY <1>2, <2>2, <3>1
    <3>3. r = [q \in 1..(n + 1) |-> r[q]]
      BY <1>2
    <3> HIDE DEF r
    <3> QED BY <3>2, <3>3 DEF Lines
  <2> HIDE DEF r, w, s
  <2>4. Single(r, t)
    <3>1. \A i \in 1..n : ~IsCardOf(s[i], t)
      BY <1>2 DEF CardsOf, s
    <3>2. IsCardOf(Card(t), t)
      BY LinesOfTasks
    <3>3. a + 1 \in CardsOf(r, t)
      BY <2>2, <3>2 DEF CardsOf
    <3>4. \A q \in CardsOf(r, t) : q = a + 1
      <4> SUFFICES ASSUME NEW q \in 1..(n + 1), IsCardOf(r[q], t), q # a + 1
                   PROVE  FALSE
        BY <2>2 DEF CardsOf
      <4>1. PICK i \in 1..n : r[q] = s[i]
        BY <2>2
      <4> QED BY <3>1, <4>1
    <3>5. CardsOf(r, t) = {a + 1}
      BY <3>3, <3>4
    <3> QED BY <2>2, <3>5 DEF Single
  <2>5. ASSUME NEW u \in Tasks \ {t}
        PROVE  Stays(s, r, u)
    <3>1. ~IsCardOf(Card(t), u)
      BY LinesOfTasks, OneTask
    <3>2. \A q \in CardsOf(r, u) : \E i \in CardsOf(s, u) : r[q] = s[i] /\ q = IF i <= a THEN i ELSE i + 1
      BY <1>2, <2>2, <3>1 DEF CardsOf
    <3>3. CardsOf(s, u) = {} => CardsOf(r, u) = {}
      BY <3>2
    <3>4. Single(s, u) => Single(r, u)
      <4> SUFFICES ASSUME NEW i \in 1..n, CardsOf(s, u) = {i}, s[i] = Card(u)
                   PROVE  Single(r, u)
        BY <1>2 DEF Single
      <4>1. PICK q \in 1..(n + 1) : q = (IF i <= a THEN i ELSE i + 1) /\ r[q] = s[i]
        BY <2>2
      <4>2. q \in CardsOf(r, u)
        BY <2>2, <4>1, LinesOfTasks DEF CardsOf
      <4>3. CardsOf(r, u) = {q}
        BY <3>2, <4>1, <4>2
      <4> QED BY <2>2, <4>1, <4>3 DEF Single
    <3>5. Card(u) \in Listed(s) => Card(u) \in Listed(r)
      <4> SUFFICES ASSUME NEW i \in 1..n, s[i] = Card(u)
                   PROVE  Card(u) \in Listed(r)
        BY <1>2 DEF Listed
      <4>1. PICK q \in 1..(n + 1) : r[q] = s[i]
        BY <2>2
      <4> QED BY <2>2, <4>1 DEF Listed
    <3> QED BY <3>3, <3>4, <3>5 DEF Stays
  <2>6. Part(r, Rest(r, {t})) = Part(s, Rest(s, {t}))
    <3> DEFINE D == (1..(n + 1)) \ {a + 1}
    <3>1. /\ Cardinality(D) = n
          /\ \A k \in 1..n : Kth(D, k) = IF k < a + 1 THEN k ELSE k + 1
      <4>1. PICK p \in 1..(n + 1) : p = a + 1
        BY <2>2
      <4> QED BY <4>1, AllButOne
    <3>2. \A k \in 1..n : r[Kth(D, k)] = s[k]
      <4> HIDE DEF D
      <4> QED BY <2>2, <3>1
    <3>3. Part(r, D) = s
      <4>1. Part(r, D) = [k \in 1..n |-> s[k]]
        <5> HIDE DEF D
        <5> QED BY <3>1, <3>2 DEF Part
      <4>2. s = [k \in 1..n |-> s[k]]
        BY <1>1, <1>2 DEF Lines
      <4> QED BY <4>1, <4>2
    <3>4. D \in SUBSET (DOMAIN r) /\ Rest(r, {t}) \subseteq D
      BY <2>2, LinesOfTasks DEF Rest
    <3> HIDE DEF D
    <3> QED BY <2>3, <3>3, <3>4, RestOfPieces
  <2>7. w \in Bodies
    <3>1. w = Body(r, TRUE)
      <4> HIDE DEF at
      <4> QED BY <1>4, <1>6 DEF r, s
    <3> QED BY <2>3, <3>1, BodyIs
  <2> QED BY <1>6, <2>1, <2>4, <2>5, <2>6, <2>7 DEF Rewrites, w, s
<1> QED BY <1>1, <1>5, <1>6

(* Upsert leaves one canonical card, and nobody else's changed.          *)
LEMMA UpsertGives ==
    ASSUME NEW body \in Bodies, NEW t \in Tasks
    PROVE  /\ Rewrites(body, Upsert(body, t), t)
           /\ body.eol => Single(Upsert(body, t).lines, t)
<1> DEFINE s == body.lines
           found == CardsOf(s, t)
           first == Lowest(found)
<1>1. CASE found = {}
  <2>1. Upsert(body, t) = Insert(body, t)
    BY <1>1 DEF Upsert
  <2> QED BY <1>1, <2>1, InsertGives
<1>2. CASE found # {}
  <2>0. s \in Lines /\ body.eol \in BOOLEAN
    BY DEF Bodies
  <2>1. PICK n \in Nat : n = Len(s) /\ DOMAIN s = 1..n /\ \A i \in 1..n : s[i] \in AnyLine
    BY <2>0 DEF Lines
  <2>2. PICK a \in found : a = first
    <3>1. found \in SUBSET (1..n)
      BY <2>1 DEF CardsOf
    <3> HIDE DEF found
    <3> QED BY <1>2, <3>1, Extremes
  <2> DEFINE s2 == [s EXCEPT ![a] = Card(t)]
             S == (DOMAIN s) \ (found \ {a})
             r == Part(s2, S)
             w == Upsert(body, t)
  <2>3. w = Body(r, body.eol \/ Len(s) \in found)
    BY <1>2, <2>2 DEF Upsert
  <2>4. /\ \A i : i \in found <=> i \in 1..n /\ IsCardOf(s[i], t)
        /\ a \in 1..n /\ IsCardOf(s[a], t)
    BY <2>1, <2>2 DEF CardsOf
  <2>5. /\ DOMAIN s2 = 1..n /\ s2[a] = Card(t) /\ Len(s2) = n
        /\ \A i \in 1..n : i # a => s2[i] = s[i]
    BY <2>0, <2>1, <2>4 DEF Lines
  <2>6. s2 \in Lines
    BY <2>0, <2>1, <2>4, LinesOfTasks DEF Lines
  <2>7. S \in SUBSET (1..n) /\ a \in S /\ \A i \in S : i \in found => i = a
    BY <2>1, <2>4
  <2> HIDE DEF s2, S, found, s
  <2>8. /\ DOMAIN r = 1..Cardinality(S) /\ r \in Lines
        /\ \A k \in DOMAIN r : Kth(S, k) \in S /\ r[k] = s2[Kth(S, k)]
        /\ \A i \in S : Rank(S, i) \in DOMAIN r /\ r[Rank(S, i)] = s2[i]
    <3>1. s2 \in Seq(AnyLine) /\ S \in SUBSET (DOMAIN s2)
      BY <2>5, <2>6, <2>7 DEF Lines
    <3>2. /\ r \in Seq(AnyLine) /\ DOMAIN r = 1..Cardinality(S)
          /\ \A k \in 1..Cardinality(S) : Kth(S, k) \in S /\ r[k] = s2[Kth(S, k)]
          /\ \A i \in S : Rank(S, i) \in 1..Cardinality(S) /\ r[Rank(S, i)] = s2[i]
      BY <3>1, Pieces
    <3> QED BY <3>2 DEF Lines
  <2>9. \A k \in DOMAIN r : Rank(S, Kth(S, k)) = k
    BY <2>7, <2>8, KthIs
  <2> HIDE DEF r, w
  <2>10. w \in Bodies /\ w.lines = r /\ (body.eol => w.eol)
    BY <2>0, <2>3, <2>8, BodyIs
  <2>11. Single(r, t)
    <3>1. IsCardOf(Card(t), t)
      BY LinesOfTasks
    <3>2. Rank(S, a) \in DOMAIN r /\ r[Rank(S, a)] = Card(t)
      BY <2>5, <2>7, <2>8
    <3>3. ASSUME NEW k \in DOMAIN r, IsCardOf(r[k], t)
          PROVE  k = Rank(S, a)
      <4>1. Kth(S, k) \in S /\ Kth(S, k) \in 1..n /\ IsCardOf(s2[Kth(S, k)], t)
        BY <2>7, <2>8, <3>3
      <4>2. Kth(S, k) = a
        BY <2>4, <2>5, <2>7, <4>1
      <4> QED BY <2>9, <4>2
    <3>4. CardsOf(r, t) = {Rank(S, a)}
      BY <3>1, <3>2, <3>3 DEF CardsOf
    <3> QED BY <3>2, <3>4 DEF Single
  <2>12. ASSUME NEW u \in Tasks \ {t}
         PROVE  Stays(s, r, u)
    <3>1. ~IsCardOf(Card(t), u) /\ ~IsCardOf(s[a], u)
      BY <2>1, <2>4, LinesOfTasks, OneTask
    <3>2. CardsOf(s2, u) = CardsOf(s, u) /\ a \notin CardsOf(s, u)
      BY <2>1, <2>4, <2>5, <3>1 DEF CardsOf
    <3>3. CardsOf(s2, u) \subseteq S
      <4>1. \A i \in CardsOf(s, u) : i \in 1..n /\ IsCardOf(s[i], u)
        BY <2>1 DEF CardsOf
      <4>2. \A i \in CardsOf(s, u) : i \notin found
        BY <2>1, <2>4, <4>1, OneTask
      <4>3. \A i \in 1..n : i \notin found => i \in S
        BY <2>1 DEF S
      <4> QED BY <3>2, <4>1, <4>2, <4>3
    <3>4. Stays(s2, r, u)
      BY <2>5, <2>6, <2>7, <3>3, CardsOfPieces DEF r
    <3>5. Card(u) \in Listed(s) => Card(u) \in Listed(s2)
      <4> SUFFICES ASSUME NEW i \in 1..n, s[i] = Card(u)
                   PROVE  Card(u) \in Listed(s2)
        BY <2>1 DEF Listed
      <4>1. IsCardOf(Card(u), u)
        BY LinesOfTasks
      <4>2. i # a /\ s2[i] = Card(u)
        BY <2>5, <3>1, <4>1
      <4> QED BY <2>5, <4>2 DEF Listed
    <3>6. Single(s, u) => Single(s2, u)
      <4> SUFFICES ASSUME NEW i \in 1..n, CardsOf(s, u) = {i}, s[i] = Card(u)
                   PROVE  Single(s2, u)
        BY <2>1 DEF Single
      <4>1. s2[i] = Card(u) /\ CardsOf(s2, u) = {i}
        BY <2>5, <3>2
      <4> QED BY <2>5, <4>1 DEF Single
    <3> QED BY <3>2, <3>4, <3>5, <3>6 DEF Stays
  <2>13. Part(r, Rest(r, {t})) = Part(s, Rest(s, {t}))
    <3>1. PICK R \in SUBSET (1..n) : R = Rest(s, {t})
      BY <2>1 DEF Rest
    <3>2. a \notin R /\ R \subseteq S
      BY <2>1, <2>4, <3>1 DEF Rest, S
    <3>3. Rest(s2, {t}) = R
      <4>1. IsCardOf(Card(t), t)
        BY LinesOfTasks
      <4> QED BY <2>1, <2>4, <2>5, <3>1, <4>1 DEF Rest
    <3>4. Part(r, Rest(r, {t})) = Part(s2, R)
      BY <2>5, <2>6, <2>7, <3>2, <3>3, RestOfPieces DEF r
    <3>5. \A k \in 1..Cardinality(R) : s2[Kth(R, k)] = s[Kth(R, k)]
      <4>1. \A k \in 1..Cardinality(R) : Kth(R, k) \in R
        BY KthIs
      <4> QED BY <2>5, <3>2, <4>1
    <3>6. Part(s2, R) = Part(s, R)
      BY <3>5 DEF Part
    <3> QED BY <3>1, <3>4, <3>6
  <2> QED BY <2>10, <2>11, <2>12, <2>13 DEF Rewrites, w, s
<1> QED BY <1>1, <1>2

(* Taking out the cards labelled with tasks of T.                          *)
LEMMA UnlabelledGives ==
    ASSUME NEW body \in Bodies, NEW T \in SUBSET Tasks
    PROVE  LET new == Unlabelled(body, T)
           IN  /\ new \in Bodies /\ (body.eol => new.eol)
               /\ \A u \in Tasks \ T : Stays(body.lines, new.lines, u)
               /\ \A u \in Tasks : CardsOf(body.lines, u) = {} => CardsOf(new.lines, u) = {}
               /\ Part(new.lines, Rest(new.lines, T)) = Part(body.lines, Rest(body.lines, T))
<1> DEFINE s == body.lines
           S == {i \in DOMAIN s : s[i][1] \notin T}
           gone == s # << >> /\ s[Len(s)][1] \in T
           new == Unlabelled(body, T)
<1>1. s \in Lines /\ body.eol \in BOOLEAN /\ S \in SUBSET (DOMAIN s) /\ gone \in BOOLEAN
  BY DEF Bodies
<1>2. new = Body(Part(s, S), body.eol \/ gone)
  BY DEF Unlabelled
<1>3. \A i \in DOMAIN s : s[i] \in AnyLine
  BY <1>1 DEF Lines
<1>4. \A i \in DOMAIN s : i \in S <=> s[i][1] \notin T
  OBVIOUS
<1> HIDE DEF s, S, gone, new
<1>5. /\ Part(s, S) \in Lines
      /\ \A k \in DOMAIN Part(s, S) : Kth(S, k) \in S /\ Part(s, S)[k] = s[Kth(S, k)]
  BY <1>1, Pieces DEF Lines
<1>6. new \in Bodies /\ new.lines = Part(s, S) /\ (body.eol => new.eol)
  BY <1>1, <1>2, <1>5, BodyIs
<1>7. ASSUME NEW u \in Tasks \ T
      PROVE  Stays(s, Part(s, S), u)
  <2>1. ASSUME NEW i \in CardsOf(s, u)
        PROVE  i \in S
    <3>1. i \in DOMAIN s /\ IsCardOf(s[i], u) /\ s[i] \in AnyLine
      BY <1>3 DEF CardsOf
    <3>2. s[i] = Card(u) \/ s[i] = <<"x", u>>
      BY <3>1, LinesOfTasks
    <3>3. "x" \notin T
      BY NameAssumption
    <3>4. s[i][1] \notin T
      BY <3>2, <3>3 DEF Card
    <3> QED BY <1>4, <3>1, <3>4
  <2> QED BY <1>1, <2>1, CardsOfPieces
<1>8. ASSUME NEW u \in Tasks, CardsOf(s, u) = {}
      PROVE  CardsOf(Part(s, S), u) = {}
  <2>1. CardsOf(s, u) \subseteq S
    BY <1>8
  <2> QED BY <1>1, <1>8, <2>1, CardsOfPieces DEF Stays
<1>9. Part(Part(s, S), Rest(Part(s, S), T)) = Part(s, Rest(s, T))
  <2>1. ASSUME NEW i \in Rest(s, T)
        PROVE  i \in S
    <3>1. i \in DOMAIN s /\ s[i] \in AnyLine /\ \A t \in T : ~IsCardOf(s[i], t)
      BY <1>3 DEF Rest
    <3>2. \A t \in T : s[i][1] # t
      BY <3>1, LinesOfTasks
    <3> QED BY <1>4, <3>1, <3>2
  <2> QED BY <1>1, <2>1, RestOfPieces
<1> QED BY <1>6, <1>7, <1>8, <1>9 DEF s, new

-----------------------------------------------------------------------------
(* Boards                                                                  *)

(* What board b shows of tasks not in T, board n shows too, and their      *)
(* lines are the same.                                                     *)
KeepsOthers(b, n, T) ==
    /\ \A u \in Tasks \ T : /\ \A state \in States : CardShown(b, u, state) => CardShown(n, u, state)
                            /\ HasCard(b, u) => HasCard(n, u)
    /\ OthersOf(n, T) = OthersOf(b, T)

(* Columns that keep what they say of others make boards that do.        *)
LEMMA ColumnsKeepOthers ==
    ASSUME NEW b \in Boards, NEW n \in Boards, NEW T \in SUBSET Tasks,
           \A c \in Columns :
              /\ \A u \in Tasks \ T : Stays(b[c].lines, n[c].lines, u)
              /\ Part(n[c].lines, Rest(n[c].lines, T)) = Part(b[c].lines, Rest(b[c].lines, T))
    PROVE  KeepsOthers(b, n, T)
<1>1. ASSUME NEW u \in Tasks \ T, NEW state \in States, CardShown(b, u, state)
      PROVE  CardShown(n, u, state)
  <2> SUFFICES ASSUME NEW c \in Columns
               PROVE  IF state # "done" /\ c = (IF state = "to_do" THEN "todo" ELSE "prog")
                      THEN Single(n[c].lines, u)
                      ELSE CardsOf(n[c].lines, u) = {}
    BY DEF CardShown, Single
  <2>1. IF state # "done" /\ c = (IF state = "to_do" THEN "todo" ELSE "prog")
        THEN Single(b[c].lines, u)
        ELSE CardsOf(b[c].lines, u) = {}
    BY <1>1 DEF CardShown, Single
  <2> QED BY <2>1 DEF Stays
<1>2. ASSUME NEW u \in Tasks \ T, HasCard(b, u)
      PROVE  HasCard(n, u)
  BY <1>2 DEF HasCard, Stays
<1>3. OthersOf(n, T) = OthersOf(b, T)
  BY DEF OthersOf, Rest
<1> QED BY <1>1, <1>2, <1>3 DEF KeepsOthers

(* Both columns rewritten for t.                                           *)
LEMMA BothRewritten ==
    ASSUME NEW b \in Boards, b.todo.eol, NEW t \in Tasks, NEW n,
           \E todo, prog : /\ Rewrites(b.todo, todo, t) /\ Rewrites(b.prog, prog, t)
                           /\ n = [b EXCEPT !.todo = todo, !.prog = prog]
    PROVE  /\ n \in Boards /\ n.todo.eol
           /\ b.prog.eol => n.prog.eol /\ KeepsOthers(b, n, {t})
<1>1. PICK todo, prog : /\ Rewrites(b.todo, todo, t) /\ Rewrites(b.prog, prog, t)
                        /\ n = [b EXCEPT !.todo = todo, !.prog = prog]
  OBVIOUS
<1>2. n \in Boards /\ n.todo = todo /\ n.prog = prog /\ n.todo.eol
  <2>1. todo \in Bodies /\ prog \in Bodies /\ todo.eol /\ (b.prog.eol => prog.eol)
    BY <1>1 DEF Rewrites
  <2> HIDE DEF Bodies
  <2> QED BY <1>1, <2>1 DEF Boards
<1>3. ASSUME b.prog.eol
      PROVE  n.prog.eol /\ KeepsOthers(b, n, {t})
  <2>1. ASSUME NEW c \in Columns
        PROVE  /\ \A u \in Tasks \ {t} : Stays(b[c].lines, n[c].lines, u)
               /\ Part(n[c].lines, Rest(n[c].lines, {t})) = Part(b[c].lines, Rest(b[c].lines, {t}))
    <3>1. CASE c = "todo"
      BY <1>1, <1>2, <3>1 DEF Rewrites
    <3>2. CASE c = "prog"
      BY <1>1, <1>2, <1>3, <3>2 DEF Rewrites
    <3> QED BY <3>1, <3>2 DEF Columns
  <2>2. KeepsOthers(b, n, {t})
    BY <1>2, <2>1, ColumnsKeepOthers
  <2> QED BY <1>1, <1>2, <1>3, <2>2 DEF Rewrites
<1> QED BY <1>2, <1>3

(* A transition keeps everybody else's cards and leaves the task one       *)
(* canonical card in the right column, or none.                            *)
LEMMA TransitionGives ==
    ASSUME NEW b \in Boards, b.todo.eol, NEW t \in Tasks, NEW state \in States
    PROVE  LET n == Transition(b, t, state)
           IN  /\ n \in Boards /\ n.todo.eol
               /\ b.prog.eol => /\ n.prog.eol /\ KeepsOthers(b, n, {t})
                                /\ CardShown(n, t, state)
                                /\ state # "done" => HasCard(n, t)
<1> DEFINE n == Transition(b, t, state)
<1>1. b.todo \in Bodies /\ b.prog \in Bodies
  BY DEF Boards
<1>2. /\ Rewrites(b.todo, Upsert(b.todo, t), t) /\ Rewrites(b.prog, Upsert(b.prog, t), t)
      /\ Rewrites(b.todo, Without(b.todo, t), t) /\ Rewrites(b.prog, Without(b.prog, t), t)
      /\ Single(Upsert(b.todo, t).lines, t) /\ (b.prog.eol => Single(Upsert(b.prog, t).lines, t))
      /\ CardsOf(Without(b.todo, t).lines, t) = {} /\ CardsOf(Without(b.prog, t).lines, t) = {}
  BY <1>1, UpsertGives, WithoutGives
<1>3. \A r : Single(r, t) => Card(t) \in Listed(r)
  BY DEF Single, Listed
<1>4. PICK todo, prog :
         /\ n = [b EXCEPT !.todo = todo, !.prog = prog]
         /\ Rewrites(b.todo, todo, t) /\ Rewrites(b.prog, prog, t)
         /\ state = "to_do" => Single(todo.lines, t) /\ CardsOf(prog.lines, t) = {}
         /\ state = "in_progress" => /\ CardsOf(todo.lines, t) = {}
                                     /\ b.prog.eol => Single(prog.lines, t)
         /\ state = "done" => CardsOf(todo.lines, t) = {} /\ CardsOf(prog.lines, t) = {}
  <2>1. CASE state = "to_do"
    <3>1. n = [b EXCEPT !.todo = Upsert(b.todo, t), !.prog = Without(b.prog, t)]
      BY <2>1 DEF Transition
    <3> HIDE DEF n
    <3> QED BY <1>2, <2>1, <3>1
  <2>2. CASE state = "in_progress"
    <3>1. n = [b EXCEPT !.todo = Without(b.todo, t), !.prog = Upsert(b.prog, t)]
      BY <2>2 DEF Transition
    <3> HIDE DEF n
    <3> QED BY <1>2, <2>2, <3>1
  <2>3. CASE state = "done"
    <3>1. n = [b EXCEPT !.todo = Without(b.todo, t), !.prog = Without(b.prog, t)]
      BY <2>3 DEF Transition
    <3> HIDE DEF n
    <3> QED BY <1>2, <2>3, <3>1
  <2> QED BY <2>1, <2>2, <2>3 DEF States
<1> HIDE DEF n
<1>5. /\ n \in Boards /\ n.todo.eol
      /\ b.prog.eol => n.prog.eol /\ KeepsOthers(b, n, {t})
  <2>1. \E left, right : /\ Rewrites(b.todo, left, t) /\ Rewrites(b.prog, right, t)
                         /\ n = [b EXCEPT !.todo = left, !.prog = right]
    BY <1>4
  <2> QED BY <2>1, BothRewritten
<1>6. n.todo = todo /\ n.prog = prog
  BY <1>4 DEF Boards
<1>7. ASSUME b.prog.eol
      PROVE  CardShown(n, t, state) /\ (state # "done" => HasCard(n, t))
  <2>1. ASSUME NEW c \in Columns
        PROVE  IF state # "done" /\ c = (IF state = "to_do" THEN "todo" ELSE "prog")
               THEN Single(n[c].lines, t)
               ELSE CardsOf(n[c].lines, t) = {}
    BY <1>4, <1>6, <1>7 DEF Columns, States
  <2>2. CardShown(n, t, state)
    BY <2>1 DEF CardShown, Single
  <2>3. state # "done" => HasCard(n, t)
    BY <1>3, <2>1 DEF HasCard, Columns
  <2> QED BY <2>2, <2>3
<1> QED BY <1>5, <1>7 DEF n

(* The removal of cards touches nobody else's.                             *)
LEMMA RemovalGives ==
    ASSUME NEW b \in Boards, b.todo.eol, NEW T \in SUBSET Tasks
    PROVE  LET n == RemoveHistorical(b, T)
           IN  n \in Boards /\ n.todo.eol /\ (b.prog.eol => n.prog.eol) /\ KeepsOthers(b, n, T)
<1> DEFINE n == RemoveHistorical(b, T)
<1>1. b.todo \in Bodies /\ b.prog \in Bodies
  BY DEF Boards
<1>2. PICK todo, prog :
         /\ n = [b EXCEPT !.todo = todo, !.prog = prog]
         /\ todo = Unlabelled(b.todo, T) /\ prog = Unlabelled(b.prog, T)
  BY DEF RemoveHistorical
<1>3. /\ todo \in Bodies /\ prog \in Bodies /\ todo.eol /\ (b.prog.eol => prog.eol)
      /\ \A u \in Tasks \ T : /\ Stays(b.todo.lines, todo.lines, u)
                              /\ Stays(b.prog.lines, prog.lines, u)
      /\ Part(todo.lines, Rest(todo.lines, T)) = Part(b.todo.lines, Rest(b.todo.lines, T))
      /\ Part(prog.lines, Rest(prog.lines, T)) = Part(b.prog.lines, Rest(b.prog.lines, T))
  BY <1>1, <1>2, UnlabelledGives
<1> HIDE DEF n
<1>4. n \in Boards /\ n.todo = todo /\ n.prog = prog
  <2> HIDE DEF Bodies
  <2> QED BY <1>2, <1>3 DEF Boards
<1>5. KeepsOthers(b, n, T)
  <2>1. ASSUME NEW c \in Columns
        PROVE  /\ \A u \in Tasks \ T : Stays(b[c].lines, n[c].lines, u)
               /\ Part(n[c].lines, Rest(n[c].lines, T)) = Part(b[c].lines, Rest(b[c].lines, T))
    BY <1>3, <1>4 DEF Columns
  <2> QED BY <1>4, <2>1, ColumnsKeepOthers
<1> QED BY <1>3, <1>4, <1>5 DEF n

-----------------------------------------------------------------------------
(* Jobs and what they rest on                                              *)

(* A run has its tasks once each.                                        *)
LEMMA TasksOfRuns ==
    ASSUME NEW r \in Runs
    PROVE  /\ Scope(r) \subseteq Tasks
           /\ ScopeOf[r] \in Seq(Scope(r))
           /\ \A i \in DOMAIN ScopeOf[r] : ScopeOf[r][i] \in Scope(r)
           /\ \A t \in Scope(r) : \E i \in DOMAIN ScopeOf[r] : t = ScopeOf[r][i]
           /\ \A i, j \in DOMAIN ScopeOf[r] : ScopeOf[r][i] = ScopeOf[r][j] => i = j
<1>1. Scope(r) \subseteq Tasks
  BY DEF Tasks
<1>2. /\ ScopeOf[r] \in Seq(Scope(r))
      /\ \A i, j \in DOMAIN ScopeOf[r] : ScopeOf[r][i] = ScopeOf[r][j] => i = j
  BY ScopeAssumption
<1>3. /\ \A i \in DOMAIN ScopeOf[r] : ScopeOf[r][i] \in Scope(r)
      /\ \A t \in Scope(r) : \E i \in DOMAIN ScopeOf[r] : t = ScopeOf[r][i]
  BY DEF Scope, Listed
<1> QED BY <1>1, <1>2, <1>3

(* The fields of a job, by its kind.                                     *)
LEMMA JobIs ==
    ASSUME NEW j \in Jobs
    PROVE  /\ j.op \in {"project", "remove"}
           /\ j.op = "project" => j.task \in Tasks /\ j.state \in States /\ j.source \in Runs
           /\ j.op = "remove" => j.tasks \in SUBSET Tasks
BY DEF Jobs

(* A projection is a job.                                                *)
LEMMA ProjectIs ==
    ASSUME NEW t \in Tasks, NEW state \in States, NEW s \in Runs
    PROVE  LET j == Project(t, state, s)
           IN  j \in Jobs /\ j.op = "project" /\ j.task = t /\ j.state = state /\ j.source = s
BY DEF Jobs, Project

(* A removal is a job.                                                   *)
LEMMA RemoveIs ==
    ASSUME NEW T \in SUBSET Tasks
    PROVE  Remove(T) \in Jobs /\ Remove(T).op = "remove" /\ Remove(T).tasks = T
BY DEF Jobs, Remove

(* What is reconciled is what run.json has.                                *)
LEMMA ReconciliationIs ==
    ASSUME Types, NEW r \in Runs
    PROVE  /\ Reconciliation(r) \in Seq(Jobs) /\ Len(Reconciliation(r)) = Len(ScopeOf[r])
           /\ DOMAIN Reconciliation(r) = DOMAIN ScopeOf[r]
           /\ \A i \in DOMAIN ScopeOf[r] :
                 LET t == ScopeOf[r][i]
                 IN  /\ t \in Scope(r) /\ disk[r].status[t] \in States
                     /\ Reconciliation(r)[i] = Project(t, disk[r].status[t], r)
                     /\ JobBacked(Reconciliation(r)[i])
<1> DEFINE n == Len(ScopeOf[r])
<1>1. /\ n \in Nat /\ DOMAIN ScopeOf[r] = 1..n
      /\ \A i \in 1..n : ScopeOf[r][i] \in Scope(r) /\ ScopeOf[r][i] \in Tasks
  BY TasksOfRuns
<1>2. \A t \in Scope(r) : disk[r].status[t] \in States
  BY DEF Types, Documents
<1>3. Reconciliation(r) =
         [i \in 1..n |-> Project(ScopeOf[r][i], disk[r].status[ScopeOf[r][i]], r)]
  BY <1>1 DEF Reconciliation
<1> HIDE DEF n
<1>4. ASSUME NEW i \in 1..n
      PROVE  LET t == ScopeOf[r][i]
                 j == Project(t, disk[r].status[t], r)
             IN  j \in Jobs /\ JobBacked(j)
  <2>1. PICK t \in Scope(r) : t = ScopeOf[r][i] /\ t \in Tasks
    BY <1>1
  <2>2. PICK state \in States : state = disk[r].status[t]
    BY <1>2
  <2>3. PICK j \in Jobs : /\ j = Project(t, state, r) /\ j.op = "project" /\ j.task = t
                          /\ j.state = state /\ j.source = r
    BY <2>1, ProjectIs
  <2>4. JobBacked(j)
    BY <2>2, <2>3 DEF JobBacked, Backed
  <2> QED BY <2>1, <2>2, <2>3, <2>4
<1>5. Reconciliation(r) \in Seq(Jobs) /\ Len(Reconciliation(r)) = n /\ DOMAIN Reconciliation(r) = 1..n
  BY <1>1, <1>3, <1>4
<1> QED BY <1>1, <1>2, <1>3, <1>4, <1>5 DEF n

(* Edges that load name known tasks.                                       *)
LEMMA UsableEdges ==
    ASSUME NEW edges, edges \in Seq(Listed(edges))
    PROVE  /\ Usable(edges) \in Seq(Listed(edges))
           /\ \A e \in Listed(Usable(edges)) : /\ e \in Listed(edges)
                                               /\ e.old \in Tasks /\ e.new \in Tasks
<1>1. CASE GraphLoads(edges)
  <2>1. Usable(edges) = edges
    BY <1>1 DEF Usable
  <2>2. \A e \in Listed(edges) : {e.old, e.new} \subseteq Tasks
    BY <1>1 DEF GraphLoads
  <2> QED BY <2>1, <2>2
<1>2. CASE ~GraphLoads(edges)
  BY <1>2 DEF Usable, Listed
<1> QED BY <1>1, <1>2

(* An edge with evidence has a run that gives it.                        *)
LEMMA EligibleEdge ==
    ASSUME NEW e, Eligible(e)
    PROVE  \E s \in Runs : s \in Source(e)
<1>1. Source(e) # {}
  BY FS_EmptySet DEF Eligible
<1> QED BY <1>1 DEF Source

(* What the retirement of cards does is founded on closed runs.            *)
LEMMA HistoryIs ==
    ASSUME Types
    PROVE  History \in Seq(Jobs) /\ \A i \in DOMAIN History : JobBacked(History[i])
<1> DEFINE edges == Usable(Registry)
           found == {i \in DOMAIN edges : edges[i].old \notin Direct /\ Eligible(edges[i])}
           named == {i \in found : edges[i].completes /\ edges[i].run # AnyRun}
           done == Part(edges, named)
           bare == Direct \cup ({edges[i].old : i \in found} \ {edges[i].old : i \in named})
           front == [i \in DOMAIN done |->
                        Project(done[i].old, "done", CHOOSE s \in Runs : s \in Source(done[i]))]
           back == IF bare = {} THEN << >> ELSE <<Remove(bare)>>
<1>1. /\ edges \in Seq(Listed(Registry))
      /\ \A i \in DOMAIN edges : /\ edges[i] \in Listed(Registry)
                                 /\ edges[i].old \in Tasks
  BY ListAssumption, UsableEdges DEF Listed
<1>2. ASSUME NEW e, NEW s \in Runs, s \in Source(e)
      PROVE  e.new \in Scope(s) /\ disk[s].closed /\ disk[s].status[e.new] = "done"
  BY <1>2 DEF Source
<1>3. \A t \in Direct : t \in Tasks /\ Replaced(t)
  <2> SUFFICES ASSUME NEW e \in Listed(Usable(Declared)), Eligible(e)
               PROVE  e.old \in Tasks /\ Replaced(e.old)
    BY DEF Direct
  <2>1. e \in Listed(Declared) /\ e.old \in Tasks
    BY ListAssumption, UsableEdges
  <2>2. PICK s \in Runs : s \in Source(e)
    BY EligibleEdge
  <2> QED BY <1>2, <2>1, <2>2 DEF Replaced
<1>4. \A i \in found : edges[i].old \in Tasks /\ Replaced(edges[i].old)
  <2> SUFFICES ASSUME NEW i \in DOMAIN edges, Eligible(edges[i])
               PROVE  edges[i].old \in Tasks /\ Replaced(edges[i].old)
    OBVIOUS
  <2>1. PICK e \in Listed(Registry) : e = edges[i] /\ e.old \in Tasks
    BY <1>1
  <2>2. PICK s \in Runs : s \in Source(e)
    BY <2>1, EligibleEdge
  <2>3. Replaced(e.old)
    BY <1>2, <2>2 DEF Replaced
  <2> QED BY <2>1, <2>3
<1>5. \A i \in DOMAIN done : \E e \in Listed(Registry) :
         done[i] = e /\ e.old \in Tasks /\ e.completes /\ Eligible(e)
  <2>1. named \in SUBSET (DOMAIN edges) /\ \A i \in named : edges[i].completes /\ Eligible(edges[i])
    OBVIOUS
  <2> HIDE DEF edges, named
  <2>2. DOMAIN done = 1..Cardinality(named)
        /\ \A k \in 1..Cardinality(named) : Kth(named, k) \in named /\ done[k] = edges[Kth(named, k)]
    BY <1>1, <2>1, Pieces
  <2> HIDE DEF done
  <2> QED BY <1>1, <2>1, <2>2
<1>6. done \in Seq(Listed(Registry))
  <2>1. named \in SUBSET (DOMAIN edges)
    OBVIOUS
  <2> HIDE DEF edges, named
  <2> QED BY <1>1, <2>1, Pieces
<1>7. bare \in SUBSET Tasks /\ \A t \in bare : Replaced(t)
  <2> HIDE DEF edges, found, named
  <2> QED BY <1>3, <1>4
<1>8. History = front \o back
  BY DEF History
<1> HIDE DEF edges, found, named, done, bare
<1>9. ASSUME NEW i \in DOMAIN done
      PROVE  front[i] \in Jobs /\ JobBacked(front[i])
  <2>1. PICK e \in Listed(Registry) : done[i] = e /\ e.old \in Tasks /\ e.completes /\ Eligible(e)
    BY <1>5
  <2>2. PICK s \in Runs : s = (CHOOSE x \in Runs : x \in Source(e)) /\ s \in Source(e)
    BY <2>1, EligibleEdge
  <2>3. front[i] = Project(e.old, "done", s)
    BY <2>1, <2>2
  <2>4. PICK j \in Jobs : /\ j = Project(e.old, "done", s) /\ j.op = "project"
                          /\ j.task = e.old /\ j.source = s
    <3>1. PICK t \in Tasks, state \in States : t = e.old /\ state = "done"
      BY <2>1 DEF States
    <3>2. LET j == Project(t, state, s)
          IN  j \in Jobs /\ j.op = "project" /\ j.task = t /\ j.source = s
      BY ProjectIs
    <3> QED BY <3>1, <3>2
  <2>5. JobBacked(j)
    <3>1. /\ e.new \in Scope(s) /\ disk[s].closed
          /\ disk[s].status[e.new] = "done"
      BY <1>2, <2>2
    <3>2. Backed(e.old, s)
      BY <2>1, <3>1 DEF Backed
    <3> QED BY <2>4, <3>2 DEF JobBacked
  <2> HIDE DEF front
  <2> QED BY <2>3, <2>4, <2>5
<1>10. front \in Seq(Jobs) /\ \A i \in DOMAIN front : JobBacked(front[i])
  <2>1. PICK n \in Nat : DOMAIN done = 1..n
    BY <1>6
  <2>2. DOMAIN front = 1..n /\ front = [i \in 1..n |-> front[i]]
    BY <2>1
  <2> HIDE DEF front
  <2> QED BY <1>9, <2>1, <2>2
<1>11. back \in Seq(Jobs) /\ \A i \in DOMAIN back : JobBacked(back[i])
  <2>1. CASE bare = {}
    BY <2>1
  <2>2. CASE bare # {}
    <3>1. PICK j \in Jobs : j = Remove(bare) /\ j.op = "remove" /\ j.tasks = bare
      BY <1>7, RemoveIs
    <3>2. JobBacked(j)
      BY <1>7, <3>1 DEF JobBacked
    <3> QED BY <2>2, <3>1, <3>2
  <2> QED BY <2>1, <2>2
<1> HIDE DEF front, back
<1>12. front \o back \in Seq(Jobs)
       /\ \A i \in DOMAIN (front \o back) : JobBacked((front \o back)[i])
  <2>1. front \o back \in Seq(Jobs)
    BY <1>10, <1>11
  <2>2. ASSUME NEW i \in DOMAIN (front \o back)
        PROVE  \/ i \in DOMAIN front /\ (front \o back)[i] = front[i]
               \/ \E k \in DOMAIN back : (front \o back)[i] = back[k]
    BY <1>10, <1>11, <2>2
  <2> QED BY <1>10, <1>11, <2>1, <2>2
<1> QED BY <1>8, <1>12

(* What run.json has done stays done, what is closed stays closed.         *)
DiskGrows ==
    \A s \in Runs :
       /\ disk[s].closed => disk'[s].closed
       /\ \A t \in Scope(s) : disk[s].status[t] = "done" => disk'[s].status[t] = "done"

(* So what backed a Result, a removal or a job still does.               *)
LEMMA BackingStays ==
    ASSUME DiskGrows
    PROVE  /\ \A t : \A s \in Runs : Backed(t, s) => Backed(t, s)'
           /\ \A t : Replaced(t) => Replaced(t)'
           /\ \A j \in Jobs : JobBacked(j) => JobBacked(j)'
<1>1. ASSUME NEW t, NEW s \in Runs, Backed(t, s)
      PROVE  Backed(t, s)'
  BY <1>1 DEF DiskGrows, Backed
<1>2. ASSUME NEW t, Replaced(t)
      PROVE  Replaced(t)'
  BY <1>2 DEF DiskGrows, Replaced
<1>3. ASSUME NEW j \in Jobs, JobBacked(j)
      PROVE  JobBacked(j)'
  BY <1>1, <1>2, <1>3, JobIs DEF JobBacked
<1> QED BY <1>1, <1>2, <1>3

-----------------------------------------------------------------------------
(* Steps                                                                   *)

(* A task is shown by its box, its Results and its cards.                *)
LEMMA ShowsIs ==
    ASSUME NEW b, NEW f, NEW t, NEW state \in States
    PROVE  Shows(b, f, t, state) <=>
              /\ f.mark = state /\ (state = "done" => Len(f.results) = 1)
              /\ CardShown(b, t, state)
BY DEF Shows, CardShown

(* What becomes of a task file.                                          *)
LEMMA TaskTransitionGives ==
    ASSUME NEW f \in TaskFiles, NEW state \in States, NEW s \in Runs
    PROVE  /\ TaskTransition(f, state, s) \in TaskFiles
           /\ TaskTransition(f, state, s).mark = state
           /\ state = "done" => TaskTransition(f, state, s).results = <<s>>
           /\ state # "done" => TaskTransition(f, state, s).results = f.results
<1>1. CASE state = "done"
  <2>1. TaskTransition(f, state, s) = [f EXCEPT !.mark = state, !.results = <<s>>]
    BY <1>1 DEF TaskTransition
  <2>2. <<s>> \in Seq(Runs \cup {"human"})
    OBVIOUS
  <2> QED BY <1>1, <2>1, <2>2 DEF TaskFiles
<1>2. CASE state # "done"
  <2>1. TaskTransition(f, state, s) = [f EXCEPT !.mark = state, !.results = f.results]
    BY <1>2 DEF TaskTransition
  <2> QED BY <1>2, <2>1 DEF TaskFiles
<1> QED BY <1>1, <1>2

(* No invocation.                                                        *)
LEMMA OffIs ==
    /\ Off \in Processes /\ Off.stage = "off" /\ Off.queue = << >> /\ Off.out = NoOut
    /\ Off.task = {} /\ Off.resume = FALSE
    /\ NoOut \in Outs /\ NoOut.board = {} /\ NoOut.file = {} /\ NoOut.whole = TRUE
    /\ \A p \in Processes : Off # p <=> p # Off
BY DEF Off, NoOut, Processes, Outs, RunStages

(* The invariant, for one run.                                           *)
LEMMA Soundness ==
    ASSUME BoardInv, NEW r \in Runs
    PROVE  \E p \in Processes : proc[r] = p /\ Sound(r, p) /\ p.task \subseteq Scope(r)
BY DEF BoardInv, Types

(* Nothing of a run changes that its invocation rests on.                  *)
LEMMA OthersSound ==
    ASSUME DiskGrows, NEW s \in Runs, NEW p \in Processes, Sound(s, p),
           disk'[s].status = disk[s].status,
           s \in fresh' => s \in fresh /\ board' = board /\ taskFile' = taskFile,
           s \in alone' => /\ s \in alone /\ board' = board /\ taskFile' = taskFile
                           /\ s \in fresh => s \in fresh'
    PROVE  Sound(s, p)'
<1>0. /\ \A j \in Jobs : JobBacked(j) => JobBacked(j)'
      /\ \A t : \A x \in Runs : Backed(t, x) => Backed(t, x)'
  BY BackingStays
<1>1. QueueIsSound(s, p)'
  <2>1. p.queue \in Seq(Jobs)
    BY DEF Processes
  <2>2. \A j \in Listed(p.queue) : j \in Jobs
    BY <2>1 DEF Listed
  <2> QED BY <1>0, <2>2 DEF QueueIsSound, Sound
<1>2. OutIsSound(p)'
  BY <1>0 DEF OutIsSound, Sound
<1>3. FreshIsSound(s, p)'
  BY DEF FreshIsSound, Sound
<1>4. AloneIsSound(s, p)'
  <2>1. Reconciliation(s)' = Reconciliation(s)
    BY DEF Reconciliation
  <2>2. ASSUME board' = board, taskFile' = taskFile
        PROVE  \A t : TaskShown(s, t)' <=> TaskShown(s, t)
    BY <2>2 DEF TaskShown
  <2>3. SUFFICES ASSUME s \in alone'
                 PROVE  AloneIsSound(s, p)'
    BY DEF AloneIsSound
  <2>4. board' = board /\ taskFile' = taskFile /\ s \in alone /\ (s \in fresh => s \in fresh')
    BY <2>3
  <2>5. ShownSoFar(s, p) => ShownSoFar(s, p)'
    BY <2>1, <2>2, <2>4 DEF ShownSoFar, Progress
  <2> QED BY <2>2, <2>4, <2>5 DEF AloneIsSound, Sound
<1> QED BY <1>1, <1>2, <1>3, <1>4 DEF Sound

(* A runner's step that leaves the files alone.                            *)
LEMMA RunnerKeeps ==
    ASSUME BoardInv, NEW r \in Runs, NEW p \in Processes, p.task \subseteq Scope(r),
           proc' = [proc EXCEPT ![r] = p], UNCHANGED <<board, taskFile>>,
           DiskGrows, DOMAIN disk' = Runs, \A s \in Runs : disk'[s] \in Documents(s),
           \A s \in Runs \ {r} : disk'[s].status = disk[s].status,
           lease' = {} \/ \E s \in Runs : lease' = {s},
           (\A s \in Runs \ {r} : s \in fresh' <=> s \in fresh) /\ alone' \subseteq alone \cup {r},
           Sound(r, p)'
    PROVE  BoardInv'
<1>1. proc \in [Runs -> Processes] /\ \A s \in Runs : proc[s].task \subseteq Scope(s)
  BY DEF BoardInv, Types
<1>2. Types'
  <2>1. proc' \in [Runs -> Processes] /\ \A s \in Runs : proc'[s].task \subseteq Scope(s)
    <3> HIDE DEF Processes
    <3> QED BY <1>1
  <2> HIDE DEF Processes, Boards, TaskFiles, Documents
  <2> QED BY <2>1 DEF BoardInv, Types
<1>3. ResultsBacked'
  BY BackingStays DEF BoardInv, ResultsBacked
<1>4. ASSUME NEW s \in Runs
      PROVE  \E q \in Processes : proc'[s] = q /\ Sound(s, q)'
  <2>1. CASE s = r
    <3>1. proc'[r] = p
      BY <1>1
    <3> QED BY <2>1, <3>1
  <2>2. CASE s # r
    <3>1. PICK q \in Processes : proc[s] = q /\ Sound(s, q)
      BY DEF BoardInv
    <3>2. proc'[s] = q
      BY <1>1, <2>2, <3>1
    <3>3. Sound(s, q)'
      BY <2>2, <3>1, OthersSound
    <3> QED BY <3>2, <3>3
  <2> QED BY <2>1, <2>2
<1> QED BY <1>2, <1>3, <1>4 DEF BoardInv

(* ... and has nothing rendered.                                           *)
LEMMA NothingRendered ==
    ASSUME NEW r \in Runs, NEW p \in Processes, p.out = NoOut,
           (\A j \in Listed(p.queue) : JobBacked(j))',
           p.stage = "lease" => p.queue = << >>,
           p.stage = "starting" => \A t \in p.task : disk'[r].status[t] = "to_do",
           r \in alone' => /\ p.stage \in {"reconcile", "history"} => p.resume
                           /\ p.stage = "again" => ShownSoFar(r, p)'
                           /\ p.stage = "lease" => \A t \in Scope(r) : TaskShown(r, t)'
    PROVE  Sound(r, p)'
<1>1. QueueIsSound(r, p)'
  BY DEF QueueIsSound
<1>2. OutIsSound(p)' /\ FreshIsSound(r, p)'
  BY DEF OutIsSound, FreshIsSound
<1>3. AloneIsSound(r, p)'
  BY DEF AloneIsSound
<1> QED BY <1>1, <1>2, <1>3 DEF Sound

(* The document is as it was.                                              *)
LEMMA DiskStays ==
    ASSUME BoardInv, UNCHANGED disk
    PROVE  DiskGrows /\ DOMAIN disk' = Runs /\ \A s \in Runs : disk'[s] \in Documents(s)
BY DEF DiskGrows, BoardInv, Types

(* An invocation ends, by itself or not.                                   *)
LEMMA EndingKeeps ==
    ASSUME BoardInv, NEW r \in Runs, Ends(r), UNCHANGED <<board, taskFile, fresh, alone>>,
           DiskGrows, DOMAIN disk' = Runs, \A s \in Runs : disk'[s] \in Documents(s),
           \A s \in Runs \ {r} : disk'[s].status = disk[s].status
    PROVE  BoardInv'
<1>1. proc' = [proc EXCEPT ![r] = Off] /\ lease' = lease \ {r}
  BY DEF Ends
<1>2. lease' = {} \/ \E s \in Runs : lease' = {s}
  BY <1>1 DEF BoardInv, Types
<1>3. Sound(r, Off)'
  <2>1. (\A j \in Listed(Off.queue) : JobBacked(j))'
    BY OffIs DEF Listed
  <2> QED BY <2>1, OffIs, NothingRendered
<1>4. Off.task \subseteq Scope(r) /\ Off \in Processes
  BY OffIs
<1> QED BY <1>1, <1>2, <1>3, <1>4, RunnerKeeps

(* Death, a task that waits, and a malformed file.                       *)
LEMMA DiesKeeps ==
    ASSUME BoardInv, NEW r \in Runs, Dies(r) \/ Waits(r) \/ Malformed(r)
    PROVE  BoardInv'
<1>1. Ends(r) /\ UNCHANGED <<disk, board, taskFile, fresh, alone>>
  BY DEF Dies, Waits, Malformed
<1>2. /\ DiskGrows /\ DOMAIN disk' = Runs /\ \A s \in Runs : disk'[s] \in Documents(s)
      /\ \A s \in Runs \ {r} : disk'[s].status = disk[s].status
  BY <1>1, DiskStays
<1> QED BY <1>1, <1>2, EndingKeeps

(* The run closes.                                                       *)
LEMMA CloseKeeps ==
    ASSUME BoardInv, NEW r \in Runs, Close(r)
    PROVE  BoardInv'
<1>1. Ends(r) /\ UNCHANGED <<board, taskFile, fresh, alone>>
      /\ disk' = [disk EXCEPT ![r].closed = TRUE]
  BY DEF Close
<1>2. DOMAIN disk = Runs /\ \A s \in Runs : disk[s] \in Documents(s)
  BY DEF BoardInv, Types
<1>3. /\ DOMAIN disk' = Runs
      /\ \A s \in Runs : disk'[s] = IF s = r THEN [disk[r] EXCEPT !.closed = TRUE] ELSE disk[s]
  <2>1. PICK d : d = [disk[r] EXCEPT !.closed = TRUE]
    OBVIOUS
  <2>2. disk' = [disk EXCEPT ![r] = d]
    BY <1>1, <2>1
  <2>3. DOMAIN disk' = Runs /\ \A s \in Runs : disk'[s] = IF s = r THEN d ELSE disk[s]
    BY <1>2, <2>2
  <2> QED BY <2>1, <2>3
<1>4. \A s \in Runs : /\ disk'[s] \in Documents(s) /\ disk'[s].status = disk[s].status
                      /\ disk[s].closed => disk'[s].closed
  <2>1. ASSUME NEW s \in Runs, NEW d \in Documents(s)
        PROVE  LET n == [d EXCEPT !.closed = TRUE]
               IN  n \in Documents(s) /\ n.status = d.status /\ n.closed
    BY DEF Documents
  <2>2. TAKE s \in Runs
  <2>3. PICK d \in Documents(s) : d = disk[s]
    BY <1>2
  <2>4. CASE s = r
    <3>1. PICK n : n = [d EXCEPT !.closed = TRUE]
      OBVIOUS
    <3>2. n \in Documents(s) /\ n.status = d.status /\ n.closed
      BY <2>1, <3>1
    <3>3. disk'[s] = n
      BY <1>3, <2>3, <2>4, <3>1
    <3> QED BY <2>3, <3>2, <3>3
  <2>5. CASE s # r
    BY <1>3, <2>3, <2>5
  <2> QED BY <2>4, <2>5
<1>5. DiskGrows
  BY <1>4 DEF DiskGrows
<1> QED BY <1>1, <1>3, <1>4, <1>5, EndingKeeps

(* The next stage, with its jobs.                                          *)
LEMMA MovesOn ==
    ASSUME BoardInv, NEW r \in Runs, NEW stage \in RunStages, NEW queue \in Seq(Jobs),
           proc[r].queue = << >>, MoveTo(r, stage, queue)
    PROVE  \E p \in Processes :
              /\ proc' = [proc EXCEPT ![r] = p] /\ p.stage = stage /\ p.queue = queue
              /\ p.out = NoOut /\ p.task = proc[r].task /\ p.resume = proc[r].resume
              /\ p.task \subseteq Scope(r)
<1>1. PICK q \in Processes : proc[r] = q /\ Sound(r, q) /\ q.task \subseteq Scope(r)
  BY Soundness
<1>2. q.out = NoOut
  BY <1>1 DEF Sound, QueueIsSound
<1>3. PICK p : p = [[q EXCEPT !.stage = stage] EXCEPT !.queue = queue]
  OBVIOUS
<1>4. /\ p \in Processes /\ p.stage = stage /\ p.queue = queue /\ p.out = q.out
      /\ p.task = q.task /\ p.resume = q.resume
  <2> HIDE DEF Outs
  <2> QED BY <1>3 DEF Processes
<1>5. proc' = [proc EXCEPT ![r] = p]
  BY <1>1, <1>3 DEF MoveTo, BoardInv, Types
<1> QED BY <1>1, <1>2, <1>4, <1>5

(* ... or without any.                                                   *)
LEMMA MovesOnIdle ==
    ASSUME BoardInv, NEW r \in Runs, NEW stage \in RunStages,
           proc[r].queue = << >>, MoveTo(r, stage, << >>)
    PROVE  \E p \in Processes :
              /\ proc' = [proc EXCEPT ![r] = p] /\ p.stage = stage /\ p.queue = << >>
              /\ p.out = NoOut /\ p.task = proc[r].task /\ p.task \subseteq Scope(r)
<1>1. PICK q \in Processes : proc[r] = q /\ Sound(r, q) /\ q.task \subseteq Scope(r)
  BY Soundness
<1>2. q.out = NoOut
  BY <1>1 DEF Sound, QueueIsSound
<1>3. PICK p : p = [[q EXCEPT !.stage = stage] EXCEPT !.queue = << >>]
  OBVIOUS
<1>4. /\ p \in Processes /\ p.stage = stage /\ p.queue = << >> /\ p.out = q.out
      /\ p.task = q.task
  <2>1. << >> \in Seq(Jobs)
    OBVIOUS
  <2> HIDE DEF Outs
  <2> QED BY <1>3, <2>1 DEF Processes
<1>5. proc' = [proc EXCEPT ![r] = p]
  BY <1>1, <1>3 DEF MoveTo, BoardInv, Types
<1> QED BY <1>1, <1>2, <1>4, <1>5

(* An invocation that has nothing left to write.                         *)
LEMMA SettledIs ==
    ASSUME NEW r, NEW stage, Settled(r, stage)
    PROVE  proc[r].stage = stage /\ proc[r].queue = << >>
BY DEF Settled, Pending

(* At most one run has the lease.                                        *)
LEMMA LeaseStays ==
    ASSUME BoardInv, UNCHANGED lease
    PROVE  lease' = {} \/ \E s \in Runs : lease' = {s}
BY DEF BoardInv, Types

(* After the first reconciliation of a resume, the retirement of cards.  *)
LEMMA ReconciledKeeps ==
    ASSUME BoardInv, NEW r \in Runs, Reconciled(r)
    PROVE  BoardInv'
<1>0. Types
  BY DEF BoardInv
<1>1. /\ UNCHANGED <<disk, board, taskFile, lease, fresh, alone>>
      /\ proc[r].stage = "reconcile" /\ proc[r].queue = << >>
  BY SettledIs DEF Reconciled
<1>2. PICK queue \in Seq(Jobs) : queue = History /\ \A i \in DOMAIN queue : JobBacked(queue[i])
  BY <1>0, HistoryIs
<1>3. "history" \in RunStages /\ MoveTo(r, "history", queue)
  BY <1>2 DEF RunStages, Reconciled
<1>4. PICK p \in Processes :
         /\ proc' = [proc EXCEPT ![r] = p] /\ p.stage = "history" /\ p.queue = queue
         /\ p.out = NoOut /\ p.resume = proc[r].resume /\ p.task \subseteq Scope(r)
  BY <1>1, <1>3, MovesOn
<1>5. PICK q \in Processes : proc[r] = q /\ Sound(r, q)
  BY Soundness
<1>6. r \in alone' => p.resume
  BY <1>1, <1>4, <1>5 DEF Sound, AloneIsSound
<1>7. DiskGrows /\ DOMAIN disk' = Runs /\ \A s \in Runs : disk'[s] \in Documents(s)
  BY <1>1, DiskStays
<1>8. (\A j \in Listed(p.queue) : JobBacked(j))'
  <2>1. \A j \in Listed(queue) : j \in Jobs /\ JobBacked(j)
    BY <1>2 DEF Listed
  <2> QED BY <1>4, <1>7, <2>1, BackingStays
<1>9. Sound(r, p)'
  BY <1>4, <1>6, <1>8, NothingRendered
<1> QED BY <1>1, <1>4, <1>7, <1>9, LeaseStays, RunnerKeeps

(* After that, the second reconciliation, or none.                       *)
LEMMA RetireKeeps ==
    ASSUME BoardInv, NEW r \in Runs, Retire(r)
    PROVE  BoardInv'
<1>0. Types
  BY DEF BoardInv
<1>1. /\ UNCHANGED <<disk, board, taskFile, lease, fresh, alone>>
      /\ proc[r].stage = "history" /\ proc[r].queue = << >>
  BY SettledIs DEF Retire
<1>2. DiskGrows /\ DOMAIN disk' = Runs /\ \A s \in Runs : disk'[s] \in Documents(s)
  BY <1>1, DiskStays
<1>3. PICK q \in Processes : proc[r] = q /\ Sound(r, q)
  BY Soundness
<1>4. CASE proc[r].resume
  <2>1. PICK queue \in Seq(Jobs) :
           /\ queue = Reconciliation(r) /\ Len(queue) = Len(ScopeOf[r])
           /\ DOMAIN queue = DOMAIN ScopeOf[r]
           /\ \A i \in DOMAIN queue : JobBacked(queue[i])
    BY <1>0, ReconciliationIs
  <2>2. "again" \in RunStages /\ MoveTo(r, "again", queue)
    BY <1>4, <2>1 DEF RunStages, Retire
  <2>3. PICK p \in Processes :
           /\ proc' = [proc EXCEPT ![r] = p] /\ p.stage = "again" /\ p.queue = queue
           /\ p.out = NoOut /\ p.task \subseteq Scope(r)
    BY <1>1, <2>2, MovesOn
  <2>4. (\A j \in Listed(p.queue) : JobBacked(j))'
    <3>1. \A j \in Listed(queue) : j \in Jobs /\ JobBacked(j)
      BY <2>1 DEF Listed
    <3> QED BY <1>2, <2>3, <3>1, BackingStays
  <2>5. ShownSoFar(r, p)'
    <3>1. Reconciliation(r)' = queue
      BY <1>1, <2>1 DEF Reconciliation
    <3>2. PICK n \in Nat : n = Len(ScopeOf[r]) /\ DOMAIN queue = 1..n
      BY <2>1, TasksOfRuns
    <3>3. Progress(r, p) = 0
      BY <2>1, <2>3, <3>2 DEF Progress
    <3>4. \A i \in DOMAIN p.queue : p.queue[i] = queue[Progress(r, p) + i]
      BY <2>3, <3>2, <3>3
    <3> QED BY <3>1, <3>2, <3>3, <3>4 DEF ShownSoFar
  <2>6. Sound(r, p)'
    BY <2>3, <2>4, <2>5, NothingRendered
  <2> QED BY <1>1, <1>2, <2>3, <2>6, LeaseStays, RunnerKeeps
<1>5. CASE ~proc[r].resume
  <2>1. "lease" \in RunStages /\ << >> \in Seq(Jobs) /\ MoveTo(r, "lease", << >>)
    BY <1>5 DEF RunStages, Retire
  <2>2. PICK p \in Processes :
           /\ proc' = [proc EXCEPT ![r] = p] /\ p.stage = "lease" /\ p.queue = << >>
           /\ p.out = NoOut /\ p.task \subseteq Scope(r)
    BY <1>1, <2>1, MovesOnIdle
  <2>3. r \notin alone'
    BY <1>1, <1>3, <1>5 DEF Sound, AloneIsSound
  <2>4. (\A j \in Listed(p.queue) : JobBacked(j))'
    BY <2>2 DEF Listed
  <2>5. Sound(r, p)'
    BY <2>2, <2>3, <2>4, NothingRendered
  <2> QED BY <1>1, <1>2, <2>2, <2>5, LeaseStays, RunnerKeeps
<1> QED BY <1>4, <1>5

(* Every task has been projected when the second reconciliation is over.   *)
LEMMA ReconciledAgainKeeps ==
    ASSUME BoardInv, NEW r \in Runs, ReconciledAgain(r)
    PROVE  BoardInv'
<1>1. /\ UNCHANGED <<disk, board, taskFile, lease, fresh, alone>>
      /\ proc[r].stage = "again" /\ proc[r].queue = << >>
  BY SettledIs DEF ReconciledAgain
<1>2. DiskGrows /\ DOMAIN disk' = Runs /\ \A s \in Runs : disk'[s] \in Documents(s)
  BY <1>1, DiskStays
<1>3. PICK q \in Processes : proc[r] = q /\ Sound(r, q)
  BY Soundness
<1>4. "lease" \in RunStages /\ << >> \in Seq(Jobs) /\ MoveTo(r, "lease", << >>)
  BY DEF RunStages, ReconciledAgain
<1>5. PICK p \in Processes :
         /\ proc' = [proc EXCEPT ![r] = p] /\ p.stage = "lease" /\ p.queue = << >>
         /\ p.out = NoOut /\ p.task \subseteq Scope(r)
  BY <1>1, <1>4, MovesOnIdle
<1>6. ASSUME r \in alone', NEW t \in Scope(r)
      PROVE  TaskShown(r, t)'
  <2>1. ShownSoFar(r, q)
    BY <1>1, <1>3, <1>6 DEF Sound, AloneIsSound
  <2>2. PICK i \in DOMAIN ScopeOf[r] : t = ScopeOf[r][i]
    BY TasksOfRuns
  <2>3. Progress(r, q) = Len(ScopeOf[r]) /\ i \in 1..Len(ScopeOf[r])
    <3>1. PICK n \in Nat : n = Len(ScopeOf[r]) /\ DOMAIN ScopeOf[r] = 1..n
      BY TasksOfRuns
    <3>2. Len(q.queue) = 0
      BY <1>1, <1>3
    <3>3. Progress(r, q) = n - 0
      BY <3>1, <3>2 DEF Progress
    <3> QED BY <2>2, <3>1, <3>3
  <2>4. TaskShown(r, t)
    BY <2>1, <2>2, <2>3 DEF ShownSoFar
  <2> QED BY <1>1, <2>4 DEF TaskShown
<1>7. (\A j \in Listed(p.queue) : JobBacked(j))'
  BY <1>5 DEF Listed
<1>8. Sound(r, p)'
  BY <1>5, <1>6, <1>7, NothingRendered
<1> QED BY <1>1, <1>2, <1>5, <1>8, LeaseStays, RunnerKeeps

(* The lease is taken, or somebody has it.                               *)
LEMMA TakeLeaseKeeps ==
    ASSUME BoardInv, NEW r \in Runs, TakeLease(r)
    PROVE  BoardInv'
<1>1. /\ UNCHANGED <<disk, board, taskFile, fresh, alone>>
      /\ proc[r].stage = "lease" /\ proc[r].queue = << >>
  BY SettledIs DEF TakeLease
<1>2. /\ DiskGrows /\ DOMAIN disk' = Runs /\ \A s \in Runs : disk'[s] \in Documents(s)
      /\ \A s \in Runs \ {r} : disk'[s].status = disk[s].status
  BY <1>1, DiskStays
<1>3. CASE lease = {}
  <2>1. "running" \in RunStages /\ << >> \in Seq(Jobs) /\ MoveTo(r, "running", << >>) /\ lease' = {r}
    BY <1>3 DEF RunStages, TakeLease
  <2>2. PICK p \in Processes :
           /\ proc' = [proc EXCEPT ![r] = p] /\ p.stage = "running" /\ p.queue = << >>
           /\ p.out = NoOut /\ p.task \subseteq Scope(r)
    BY <1>1, <2>1, MovesOnIdle
  <2>3. (\A j \in Listed(p.queue) : JobBacked(j))'
    BY <2>2 DEF Listed
  <2>4. Sound(r, p)'
    BY <2>2, <2>3, NothingRendered
  <2> QED BY <1>1, <1>2, <2>1, <2>2, <2>4, RunnerKeeps
<1>4. CASE lease # {}
  <2>1. Ends(r)
    BY <1>4 DEF TakeLease
  <2> QED BY <1>1, <1>2, <2>1, EndingKeeps
<1> QED BY <1>3, <1>4

(* An invocation of a new run, or a resume.                              *)
LEMMA ExecuteKeeps ==
    ASSUME BoardInv, NEW r \in Runs, Execute(r)
    PROVE  BoardInv'
<1>0. Types
  BY DEF BoardInv
<1>1. /\ UNCHANGED <<board, taskFile, lease, fresh>>
      /\ disk' = [disk EXCEPT ![r].made = TRUE] /\ proc[r] = Off
      /\ alone' = IF disk[r].made THEN alone \cup {r} ELSE alone \ {r}
  BY DEF Execute
<1>2. DOMAIN disk = Runs /\ \A s \in Runs : disk[s] \in Documents(s)
  BY DEF BoardInv, Types
<1>3. /\ DOMAIN disk' = Runs
      /\ \A s \in Runs : disk'[s] = IF s = r THEN [disk[r] EXCEPT !.made = TRUE] ELSE disk[s]
  <2>1. PICK d : d = [disk[r] EXCEPT !.made = TRUE]
    OBVIOUS
  <2>2. disk' = [disk EXCEPT ![r] = d]
    BY <1>1, <2>1
  <2>3. DOMAIN disk' = Runs /\ \A s \in Runs : disk'[s] = IF s = r THEN d ELSE disk[s]
    BY <1>2, <2>2
  <2> QED BY <2>1, <2>3
<1>4. \A s \in Runs : /\ disk'[s] \in Documents(s) /\ disk'[s].status = disk[s].status
                      /\ disk[s].closed => disk'[s].closed
  <2>1. ASSUME NEW s \in Runs, NEW d \in Documents(s)
        PROVE  LET n == [d EXCEPT !.made = TRUE]
               IN  n \in Documents(s) /\ n.status = d.status /\ n.closed = d.closed
    BY DEF Documents
  <2>2. TAKE s \in Runs
  <2>3. PICK d \in Documents(s) : d = disk[s]
    BY <1>2
  <2>4. CASE s = r
    <3>1. PICK n : n = [d EXCEPT !.made = TRUE]
      OBVIOUS
    <3>2. n \in Documents(s) /\ n.status = d.status /\ n.closed = d.closed
      BY <2>1, <3>1
    <3>3. disk'[s] = n
      BY <1>3, <2>3, <2>4, <3>1
    <3> QED BY <2>3, <3>2, <3>3
  <2>5. CASE s # r
    BY <1>3, <2>3, <2>5
  <2> QED BY <2>4, <2>5
<1>5. DiskGrows
  BY <1>4 DEF DiskGrows
<1>6. PICK o \in Processes : o = Off /\ o.out = NoOut /\ o.task = {}
  BY OffIs
<1>7. PICK p \in Processes :
         /\ proc' = [proc EXCEPT ![r] = p] /\ p.out = NoOut /\ p.task = {}
         /\ p.stage \in {"reconcile", "history"} /\ (r \in alone' => p.resume)
         /\ \A i \in DOMAIN p.queue : JobBacked(p.queue[i])
  <2>1. CASE disk[r].made
    <3>1. PICK queue \in Seq(Jobs) :
             queue = Reconciliation(r) /\ \A i \in DOMAIN queue : JobBacked(queue[i])
      BY <1>0, ReconciliationIs
    <3>2. PICK stage \in RunStages : stage = "reconcile"
      BY DEF RunStages
    <3>3. PICK p : p = [[[o EXCEPT !.stage = stage] EXCEPT !.resume = TRUE] EXCEPT !.queue = queue]
      OBVIOUS
    <3>4. /\ p \in Processes /\ p.stage = stage /\ p.resume /\ p.queue = queue
          /\ p.out = o.out /\ p.task = o.task
      <4> HIDE DEF Outs
      <4> QED BY <3>3 DEF Processes
    <3>5. proc' = [proc EXCEPT ![r] = p]
      BY <1>6, <2>1, <3>1, <3>2, <3>3 DEF Execute
    <3> QED BY <1>6, <3>1, <3>2, <3>5, <3>4
  <2>2. CASE ~disk[r].made
    <3>1. PICK queue \in Seq(Jobs) :
             queue = History /\ \A i \in DOMAIN queue : JobBacked(queue[i])
      BY <1>0, HistoryIs
    <3>2. PICK stage \in RunStages : stage = "history"
      BY DEF RunStages
    <3>3. PICK p : p = [[o EXCEPT !.stage = stage] EXCEPT !.queue = queue]
      OBVIOUS
    <3>4. /\ p \in Processes /\ p.stage = stage /\ p.queue = queue
          /\ p.out = o.out /\ p.task = o.task
      <4> HIDE DEF Outs
      <4> QED BY <3>3 DEF Processes
    <3>5. proc' = [proc EXCEPT ![r] = p]
      BY <1>6, <2>2, <3>1, <3>2, <3>3 DEF Execute
    <3>6. r \notin alone'
      BY <1>1, <2>2
    <3> QED BY <1>6, <3>1, <3>2, <3>5, <3>6, <3>4
  <2> QED BY <2>1, <2>2
<1>8. p.queue \in Seq(Jobs)
  BY DEF Processes
<1>9. (\A j \in Listed(p.queue) : JobBacked(j))'
  <2>1. \A j \in Listed(p.queue) : j \in Jobs /\ JobBacked(j)
    BY <1>7, <1>8 DEF Listed
  <2> QED BY <1>5, <2>1, BackingStays
<1>10. Sound(r, p)'
  BY <1>7, <1>9, NothingRendered
<1>11. proc' = [proc EXCEPT ![r] = p] /\ p.task \subseteq Scope(r)
  BY <1>7
<1>12. (\A s \in Runs \ {r} : s \in fresh' <=> s \in fresh) /\ alone' \subseteq alone \cup {r}
  BY <1>1
<1> QED BY <1>1, <1>3, <1>4, <1>5, <1>10, <1>11, <1>12, LeaseStays, RunnerKeeps

(* The task that comes next is to be done.                                 *)
LEMMA NextTaskIs ==
    ASSUME BoardInv, NEW r \in Runs, Open(r) # {}
    PROVE  NextTask(r) \in Scope(r)
<1>1. PICK n \in Nat : DOMAIN ScopeOf[r] = 1..n
  BY TasksOfRuns
<1>2. PICK S \in SUBSET (1..n) : S = Open(r) /\ S # {}
  BY <1>1 DEF Open
<1>3. Lowest(S) \in S
  BY <1>2, Extremes
<1> QED BY <1>1, <1>2, <1>3, TasksOfRuns DEF NextTask

(* A task is entered.                                                    *)
LEMMA EnterKeeps ==
    ASSUME BoardInv, NEW r \in Runs, Enter(r)
    PROVE  BoardInv'
<1>1. /\ UNCHANGED <<disk, board, taskFile, lease, fresh, alone>> /\ Open(r) # {}
      /\ proc[r].stage = "running" /\ proc[r].queue = << >>
  BY SettledIs DEF Enter
<1>2. DiskGrows /\ DOMAIN disk' = Runs /\ \A s \in Runs : disk'[s] \in Documents(s)
  BY <1>1, DiskStays
<1>3. PICK t \in Scope(r) : t = NextTask(r)
  BY <1>1, NextTaskIs
<1>4. PICK q \in Processes : proc[r] = q /\ Sound(r, q)
  BY Soundness
<1>5. q.out = NoOut
  BY <1>1, <1>4 DEF Sound, QueueIsSound
<1>6. PICK stage \in {"starting", "working"}, queue \in Seq(Jobs) :
         /\ proc' = [proc EXCEPT ![r].task = {t}, ![r].stage = stage, ![r].queue = queue]
         /\ stage = "starting" => disk[r].status[t] = "to_do"
         /\ \A j \in Listed(queue) : j \in Jobs /\ JobBacked(j)
  <2>1. CASE disk[r].status[t] = "to_do"
    <3>1. PICK j \in Jobs : j = Project(t, "to_do", r) /\ j.op = "project" /\ j.state = "to_do"
      BY TasksOfRuns, ProjectIs DEF States
    <3>2. JobBacked(j)
      BY <3>1 DEF JobBacked
    <3>3. <<j>> \in Seq(Jobs) /\ Listed(<<j>>) = {j}
      BY DEF Listed
    <3>4. proc' = [proc EXCEPT ![r].task = {t}, ![r].stage = "starting", ![r].queue = <<j>>]
      BY <1>3, <2>1, <3>1 DEF Enter
    <3> QED BY <2>1, <3>2, <3>3, <3>4
  <2>2. CASE disk[r].status[t] # "to_do"
    <3>1. proc' = [proc EXCEPT ![r].task = {t}, ![r].stage = "working", ![r].queue = << >>]
      BY <1>3, <2>2 DEF Enter
    <3>2. << >> \in Seq(Jobs) /\ Listed(<< >>) = {}
      BY DEF Listed
    <3> QED BY <2>2, <3>1, <3>2
  <2> QED BY <2>1, <2>2
<1>7. PICK p : p = [[[q EXCEPT !.task = {t}] EXCEPT !.stage = stage] EXCEPT !.queue = queue]
  OBVIOUS
<1>8. /\ p \in Processes /\ p.stage = stage /\ p.queue = queue /\ p.task = {t} /\ p.out = NoOut
  <2>1. stage \in RunStages /\ t \in Tasks
    BY TasksOfRuns DEF RunStages
  <2> HIDE DEF Outs
  <2> QED BY <1>5, <1>7, <2>1 DEF Processes
<1>9. proc' = [proc EXCEPT ![r] = p]
  BY <1>4, <1>6, <1>7 DEF BoardInv, Types
<1>10. (\A j \in Listed(p.queue) : JobBacked(j))'
  BY <1>2, <1>6, <1>8, BackingStays
<1>11. p.stage = "starting" => \A x \in p.task : disk'[r].status[x] = "to_do"
  BY <1>1, <1>6, <1>8
<1>12. Sound(r, p)'
  BY <1>6, <1>8, <1>10, <1>11, NothingRendered
<1> QED BY <1>1, <1>2, <1>8, <1>9, <1>12, LeaseStays, RunnerKeeps

(* The saved transition, and the job that shows it.                        *)
LEMMA MovesKeeps ==
    ASSUME BoardInv, NEW r \in Runs, NEW state \in States, NEW stage \in {"working", "running"},
           Moves(r, state, stage), proc[r].queue = << >>,
           state # "done" => \A t \in proc[r].task : disk[r].status[t] # "done",
           UNCHANGED <<board, taskFile, lease, fresh, alone>>
    PROVE  BoardInv'
<1>1. PICK q \in Processes : proc[r] = q /\ Sound(r, q) /\ q.task \subseteq Scope(r)
  BY Soundness
<1>2. PICK t \in Scope(r) : /\ t \in proc[r].task /\ disk' = [disk EXCEPT ![r].status[t] = state]
                            /\ MoveTo(r, stage, <<Project(t, state, r)>>)
  BY <1>1 DEF Moves
<1>3. DOMAIN disk = Runs /\ \A s \in Runs : disk[s] \in Documents(s)
  BY DEF BoardInv, Types
<1>4. /\ DOMAIN disk' = Runs
      /\ \A s \in Runs : disk'[s] = IF s = r THEN [disk[r] EXCEPT !.status[t] = state] ELSE disk[s]
  BY <1>2, <1>3
<1>5. PICK d \in Documents(r) : d = disk[r]
  BY <1>3
<1>6. PICK e \in Documents(r) : /\ e = disk'[r] /\ e.closed = d.closed
                                /\ e.status = [d.status EXCEPT ![t] = state]
  <2>1. disk'[r] = [d EXCEPT !.status = [d.status EXCEPT ![t] = state]]
    BY <1>4, <1>5
  <2>2. d.status \in [Scope(r) -> States] /\ [d.status EXCEPT ![t] = state] \in [Scope(r) -> States]
    BY <1>5 DEF Documents
  <2> QED BY <2>1, <2>2 DEF Documents
<1>7. \A s \in Runs : disk'[s] \in Documents(s) /\ (s # r => disk'[s] = disk[s])
  BY <1>3, <1>4, <1>6
<1>8. \A u \in Scope(r) : e.status[u] = IF u = t THEN state ELSE d.status[u]
  BY <1>5, <1>6 DEF Documents
<1>9. DiskGrows
  <2>1. \A u \in Scope(r) : d.status[u] = "done" => e.status[u] = "done"
    BY <1>2, <1>5, <1>8
  <2> QED BY <1>5, <1>6, <1>7, <2>1 DEF DiskGrows
<1>10. PICK j \in Jobs : /\ j = Project(t, state, r) /\ j.op = "project" /\ j.task = t
                         /\ j.state = state /\ j.source = r
  BY TasksOfRuns, ProjectIs
<1>11. JobBacked(j)'
  <2>1. j.state = "done" => disk'[r].status[t] = "done"
    BY <1>6, <1>8, <1>10
  <2> QED BY <1>10, <2>1 DEF JobBacked, Backed
<1>12. PICK queue \in Seq(Jobs) : queue = <<j>> /\ Listed(queue) = {j}
  <2>1. <<j>> \in Seq(Jobs) /\ Listed(<<j>>) = {j}
    BY DEF Listed
  <2> QED BY <2>1
<1>13. MoveTo(r, stage, queue) /\ stage \in RunStages
  BY <1>2, <1>10, <1>12 DEF RunStages
<1>14. PICK p \in Processes :
          /\ proc' = [proc EXCEPT ![r] = p] /\ p.stage = stage /\ p.queue = queue
          /\ p.out = NoOut /\ p.task \subseteq Scope(r)
  BY <1>13, MovesOn
<1>15. (\A i \in Listed(p.queue) : JobBacked(i))'
  BY <1>11, <1>12, <1>14
<1>16. Sound(r, p)'
  BY <1>14, <1>15, NothingRendered
<1> QED BY <1>4, <1>7, <1>9, <1>14, <1>16, LeaseStays, RunnerKeeps

(* A task is started, or completed.                                      *)
LEMMA WorkKeeps ==
    ASSUME BoardInv, NEW r \in Runs, Started(r) \/ Completed(r)
    PROVE  BoardInv'
<1>1. CASE Started(r)
  <2>1. /\ Moves(r, "in_progress", "working") /\ UNCHANGED <<board, taskFile, lease, fresh, alone>>
        /\ proc[r].stage = "starting" /\ proc[r].queue = << >>
    BY <1>1, SettledIs DEF Started
  <2>2. PICK q \in Processes : proc[r] = q /\ Sound(r, q)
    BY Soundness
  <2>3. \A t \in proc[r].task : disk[r].status[t] = "to_do"
    BY <2>1, <2>2 DEF Sound, QueueIsSound
  <2>4. "in_progress" \in States
    BY DEF States
  <2> QED BY <2>1, <2>3, <2>4, MovesKeeps
<1>2. CASE Completed(r)
  <2>1. /\ Moves(r, "done", "running") /\ UNCHANGED <<board, taskFile, lease, fresh, alone>>
        /\ proc[r].queue = << >>
    BY <1>2, SettledIs DEF Completed
  <2>2. "done" \in States
    BY DEF States
  <2> QED BY <2>1, <2>2, MovesKeeps
<1> QED BY <1>1, <1>2

-----------------------------------------------------------------------------
(* Rendering and writing                                                   *)

(* The first job is taken off.                                             *)
LEMMA Pops ==
    ASSUME BoardInv, NEW r \in Runs, NEW q \in Processes, proc[r] = q, q.queue # << >>
    PROVE  /\ Head(q.queue) \in Jobs /\ Head(q.queue) \in Listed(q.queue)
           /\ \E p \in Processes :
                 /\ Popped(r) = [proc EXCEPT ![r] = p] /\ p.out = NoOut
                 /\ p.queue = Tail(q.queue) /\ Listed(p.queue) \subseteq Listed(q.queue)
                 /\ p.stage = q.stage /\ p.resume = q.resume /\ p.task = q.task
<1>1. PICK s \in Seq(Jobs) : s = q.queue /\ s # << >>
  BY DEF Processes
<1>2. Head(s) \in Jobs /\ Head(s) \in Listed(s)
  BY <1>1 DEF Listed
<1>3. Tail(s) \in Seq(Jobs) /\ Listed(Tail(s)) \subseteq Listed(s)
  BY <1>1 DEF Listed
<1>4. PICK p : p = [[q EXCEPT !.queue = Tail(q.queue)] EXCEPT !.out = NoOut]
  OBVIOUS
<1>5. /\ p \in Processes /\ p.out = NoOut /\ p.queue = Tail(s)
      /\ p.stage = q.stage /\ p.resume = q.resume /\ p.task = q.task
  <2>1. NoOut \in Outs
    BY OffIs
  <2> HIDE DEF Outs, NoOut
  <2> QED BY <1>1, <1>3, <1>4, <2>1 DEF Processes
<1>6. Popped(r) = [proc EXCEPT ![r] = p]
  BY <1>4 DEF Popped, BoardInv, Types
<1> QED BY <1>1, <1>2, <1>3, <1>5, <1>6

(* A process with one job less is as sound as before.                    *)
LEMMA PopIsSound ==
    ASSUME NEW r \in Runs, NEW q \in Processes, NEW p \in Processes, UNCHANGED disk,
           Sound(r, q), q.queue # << >>, p.out = NoOut, Listed(p.queue) \subseteq Listed(q.queue),
           p.stage = q.stage, p.resume = q.resume, p.task = q.task,
           r \in alone' => r \in alone /\ (q.stage = "again" => ShownSoFar(r, p)')
    PROVE  Sound(r, p)'
<1>1. DiskGrows
  BY DEF DiskGrows
<1>2. \A j \in Listed(q.queue) : j \in Jobs /\ JobBacked(j)
  <2>1. q.queue \in Seq(Jobs)
    BY DEF Processes
  <2> QED BY <2>1 DEF Sound, QueueIsSound, Listed
<1>3. (\A j \in Listed(p.queue) : JobBacked(j))'
  BY <1>1, <1>2, BackingStays
<1>4. q.stage # "lease" /\ (q.stage = "starting" => \A t \in q.task : disk'[r].status[t] = "to_do")
  BY DEF Sound, QueueIsSound
<1>5. r \in alone' => (q.stage \in {"reconcile", "history"} => q.resume)
  BY DEF Sound, AloneIsSound
<1> QED BY <1>3, <1>4, <1>5, NothingRendered

(* The second reconciliation projects the tasks in order.                  *)
LEMMA JobOfAgain ==
    ASSUME BoardInv, NEW r \in Runs, NEW q \in Processes, ShownSoFar(r, q), q.queue # << >>
    PROVE  LET i == Progress(r, q) + 1
               j == Head(q.queue)
           IN  /\ i \in DOMAIN ScopeOf[r] /\ Progress(r, q) \in Nat
               /\ j.op = "project" /\ j.task = ScopeOf[r][i]
               /\ j.state = disk[r].status[ScopeOf[r][i]]
<1>1. PICK n \in Nat : n = Len(ScopeOf[r]) /\ DOMAIN ScopeOf[r] = 1..n
  BY TasksOfRuns
<1>2. PICK m \in Nat : m = Len(q.queue) /\ DOMAIN q.queue = 1..m /\ m > 0
  BY DEF Processes
<1>3. PICK k \in 0..n : k = Progress(r, q) /\ k = n - m
  BY <1>1, <1>2 DEF ShownSoFar, Progress
<1>4. k + 1 \in 1..n /\ 1 \in 1..m /\ Head(q.queue) = q.queue[1]
  BY <1>2, <1>3
<1>5. Head(q.queue) = Reconciliation(r)[k + 1]
  BY <1>2, <1>3, <1>4 DEF ShownSoFar
<1>6. PICK i \in 1..n : i = k + 1
  BY <1>4
<1>7. Types
  BY DEF BoardInv
<1>8. PICK t \in Scope(r), state \in States :
         /\ t = ScopeOf[r][i] /\ state = disk[r].status[t]
         /\ Reconciliation(r)[i] = Project(t, state, r)
  BY <1>1, <1>7, ReconciliationIs
<1>9. t \in Tasks
  BY TasksOfRuns
<1>10. LET j == Project(t, state, r) IN j.op = "project" /\ j.task = t /\ j.state = state
  BY <1>9, ProjectIs
<1>11. PICK j : j = Head(q.queue) /\ j.op = "project" /\ j.task = t /\ j.state = state
  BY <1>5, <1>6, <1>8, <1>10
<1>12. k + 1 \in DOMAIN ScopeOf[r] /\ k \in Nat
  BY <1>1, <1>4
<1> QED BY <1>3, <1>6, <1>8, <1>11, <1>12

(* What is rendered is founded, and is what the files give now.            *)
LEMMA RenderKeeps ==
    ASSUME BoardInv, NEW r \in Runs, Render(r)
    PROVE  BoardInv'
<1>1. PICK q \in Processes : proc[r] = q /\ Sound(r, q) /\ q.task \subseteq Scope(r)
  BY Soundness
<1>2. q.queue # << >> /\ q.out = NoOut /\ UNCHANGED <<disk, board, taskFile, lease>>
  BY <1>1 DEF Render, Pending
<1>3. PICK j \in Jobs : j = Head(q.queue) /\ j \in Listed(q.queue)
  BY <1>1, <1>2, Pops
<1>4. /\ j.op = "project" /\ j.task \in Tasks /\ j.state \in States /\ j.source \in Runs
      /\ Job(r) = j
  BY <1>1, <1>3, JobIs DEF Render, Job
<1>5. board \in Boards /\ board.todo.eol /\ taskFile[j.task] \in TaskFiles
  BY <1>4 DEF BoardInv, Types
<1>6. PICK b \in Boards : b = Transition(board, j.task, j.state) /\ b.todo.eol
  BY <1>4, <1>5, TransitionGives
<1>7. PICK f \in TaskFiles :
         /\ f = TaskTransition(taskFile[j.task], j.state, j.source)
         /\ j.state = "done" => Listed(f.results) = {j.source}
         /\ j.state # "done" => f.results = taskFile[j.task].results
  <2>1. PICK g \in TaskFiles, state \in States, s \in Runs :
           g = taskFile[j.task] /\ state = j.state /\ s = j.source
    BY <1>4, <1>5
  <2>2. TaskTransition(g, state, s) \in TaskFiles
    BY TaskTransitionGives
  <2>3. state = "done" => TaskTransition(g, state, s).results = <<s>>
    BY TaskTransitionGives
  <2>5. Listed(<<s>>) = {s}
    BY DEF Listed
  <2>4. state # "done" => TaskTransition(g, state, s).results = g.results
    BY TaskTransitionGives
  <2> QED BY <2>1, <2>2, <2>3, <2>4, <2>5
<1>8. PICK whole \in BOOLEAN : whole = board.prog.eol
  BY <1>5 DEF Boards, Bodies
<1>9. PICK out : out = [board |-> {b}, file |-> {f}, whole |-> whole]
  OBVIOUS
<1>10. out \in Outs /\ out.board = {b} /\ out.file = {f} /\ out.whole = whole /\ out # NoOut
  BY <1>9 DEF Outs, NoOut
<1>11. PICK p : p = [q EXCEPT !.out = out]
  OBVIOUS
<1>12. /\ p \in Processes /\ p.out = out /\ p.queue = q.queue
       /\ p.stage = q.stage /\ p.resume = q.resume /\ p.task = q.task
  <2> HIDE DEF Outs
  <2> QED BY <1>10, <1>11 DEF Processes
<1>13. proc' = [proc EXCEPT ![r] = p]
  <2>1. proc' = [proc EXCEPT ![r].out =
                    [board |-> {Transition(board, j.task, j.state)},
                     file |-> {TaskTransition(taskFile[j.task], j.state, j.source)},
                     whole |-> board.prog.eol]]
    BY <1>4 DEF Render
  <2>2. proc' = [proc EXCEPT ![r].out = out]
    BY <1>6, <1>7, <1>8, <1>9, <2>1
  <2> QED BY <1>1, <1>11, <2>2 DEF BoardInv, Types
<1>14. DiskGrows /\ DOMAIN disk' = Runs /\ \A s \in Runs : disk'[s] \in Documents(s)
  BY <1>2, DiskStays
<1>15. QueueIsSound(r, p)'
  <2>1. q.queue \in Seq(Jobs)
    BY DEF Processes
  <2>2. \A i \in Listed(q.queue) : i \in Jobs /\ JobBacked(i)
    BY <1>1, <2>1 DEF Sound, QueueIsSound, Listed
  <2> QED BY <1>1, <1>2, <1>12, <1>14, <2>2, BackingStays DEF Sound, QueueIsSound
<1>16. OutIsSound(p)'
  <2>1. ASSUME NEW s \in Runs, s \in Listed(f.results)
        PROVE  Backed(j.task, s)
    <3>1. CASE j.state = "done"
      <4>1. JobBacked(j)
        BY <1>1, <1>3 DEF Sound, QueueIsSound
      <4> QED BY <1>4, <1>7, <2>1, <3>1, <4>1 DEF JobBacked
    <3>2. CASE j.state # "done"
      BY <1>4, <1>7, <2>1, <3>2 DEF BoardInv, ResultsBacked
    <3> QED BY <3>1, <3>2
  <2>2. \A s \in Runs : s \in Listed(f.results) => Backed(j.task, s)'
    BY <1>14, <2>1, BackingStays
  <2> QED BY <1>3, <1>4, <1>6, <1>10, <1>12, <2>2 DEF OutIsSound
<1>17. FreshIsSound(r, p)'
  BY <1>2, <1>3, <1>4, <1>6, <1>7, <1>8, <1>10, <1>12 DEF FreshIsSound
<1>18. AloneIsSound(r, p)'
  <2> SUFFICES ASSUME r \in alone'
               PROVE  AloneIsSound(r, p)'
    BY DEF AloneIsSound
  <2>1. whole /\ r \in alone /\ r \in fresh'
    BY <1>8 DEF Render
  <2>2. q.stage = "again" => ShownSoFar(r, p)'
    <3>1. q.stage = "again" => ShownSoFar(r, q)
      BY <1>1, <2>1 DEF Sound, AloneIsSound
    <3>2. Reconciliation(r)' = Reconciliation(r)
      BY <1>2 DEF Reconciliation
    <3>3. Progress(r, p) = Progress(r, q)
      BY <1>12 DEF Progress
    <3>4. \A t : TaskShown(r, t)' <=> TaskShown(r, t)
      BY <1>2 DEF TaskShown
    <3> QED BY <1>12, <3>1, <3>2, <3>3, <3>4 DEF ShownSoFar
  <2>3. q.stage # "lease" /\ (q.stage \in {"reconcile", "history"} => q.resume)
    BY <1>1, <1>2, <2>1 DEF Sound, QueueIsSound, AloneIsSound
  <2> QED BY <1>10, <1>12, <2>1, <2>2, <2>3 DEF AloneIsSound
<1>19. Sound(r, p)'
  BY <1>15, <1>16, <1>17, <1>18 DEF Sound
<1>20. (\A s \in Runs \ {r} : s \in fresh' <=> s \in fresh) /\ alone' \subseteq alone \cup {r}
  BY DEF Render
<1> QED BY <1>1, <1>2, <1>12, <1>13, <1>14, <1>19, <1>20, LeaseStays, RunnerKeeps

(* The removal is rendered, or there is nothing to remove.               *)
LEMMA RenderRemovalKeeps ==
    ASSUME BoardInv, NEW r \in Runs, RenderRemoval(r)
    PROVE  BoardInv'
<1>1. PICK q \in Processes : proc[r] = q /\ Sound(r, q) /\ q.task \subseteq Scope(r)
  BY Soundness
<1>2. q.queue # << >> /\ q.out = NoOut /\ UNCHANGED <<disk, board, taskFile, lease, alone>>
  BY <1>1 DEF RenderRemoval, Pending
<1>3. PICK j \in Jobs : j = Head(q.queue) /\ j \in Listed(q.queue)
  BY <1>1, <1>2, Pops
<1>4. j.op = "remove" /\ j.tasks \in SUBSET Tasks /\ Job(r) = j
  BY <1>1, <1>3, JobIs DEF RenderRemoval, Job
<1>5. board \in Boards /\ board.todo.eol
  BY DEF BoardInv, Types
<1>6. PICK b \in Boards : b = RemoveHistorical(board, j.tasks) /\ b.todo.eol
  BY <1>4, <1>5, RemovalGives
<1>7. DiskGrows /\ DOMAIN disk' = Runs /\ \A s \in Runs : disk'[s] \in Documents(s)
  BY <1>2, DiskStays
<1>8. r \in alone => q.stage # "again"
  <2>1. r \in alone /\ q.stage = "again" => ShownSoFar(r, q)
    BY <1>1 DEF Sound, AloneIsSound
  <2> QED BY <1>2, <1>3, <1>4, <2>1, JobOfAgain
<1>9. (\A s \in Runs \ {r} : s \in fresh' <=> s \in fresh) /\ alone' \subseteq alone \cup {r}
  BY DEF RenderRemoval
<1>10. CASE b = board
  <2>1. proc' = Popped(r)
    BY <1>4, <1>6, <1>10 DEF RenderRemoval
  <2>2. PICK p \in Processes :
           /\ Popped(r) = [proc EXCEPT ![r] = p] /\ p.out = NoOut
           /\ p.queue = Tail(q.queue) /\ Listed(p.queue) \subseteq Listed(q.queue)
           /\ p.stage = q.stage /\ p.resume = q.resume /\ p.task = q.task
    BY <1>1, <1>2, Pops
  <2>3. Sound(r, p)'
    BY <1>1, <1>2, <1>8, <2>2, PopIsSound
  <2>4. proc' = [proc EXCEPT ![r] = p] /\ p.task \subseteq Scope(r)
    BY <1>1, <2>1, <2>2
  <2> QED BY <1>2, <1>7, <1>9, <2>3, <2>4, LeaseStays, RunnerKeeps
<1>11. CASE b # board
  <2>1. PICK o \in Outs : o = NoOut /\ o.board = {} /\ o.file = {} /\ o.whole = TRUE
    BY OffIs
  <2>2. PICK out : out = [o EXCEPT !.board = {b}]
    OBVIOUS
  <2>3. out \in Outs /\ out.board = {b} /\ out.file = {} /\ out.whole = TRUE /\ out # NoOut
    <3>1. out \in Outs /\ out.board = {b} /\ out.file = {} /\ out.whole = TRUE
      BY <2>1, <2>2 DEF Outs
    <3> QED BY <2>1, <3>1
  <2>4. PICK p : p = [q EXCEPT !.out = out]
    OBVIOUS
  <2>5. /\ p \in Processes /\ p.out = out /\ p.queue = q.queue
        /\ p.stage = q.stage /\ p.resume = q.resume /\ p.task = q.task
    <3> HIDE DEF Outs
    <3> QED BY <2>3, <2>4 DEF Processes
  <2>6. proc' = [proc EXCEPT ![r] = p]
    <3>1. proc' = [proc EXCEPT ![r].out = [NoOut EXCEPT !.board = {b}]]
      BY <1>4, <1>6, <1>11 DEF RenderRemoval
    <3>2. proc' = [proc EXCEPT ![r].out = out]
      BY <2>1, <2>2, <3>1
    <3> QED BY <1>1, <2>4, <3>2 DEF BoardInv, Types
  <2>7. QueueIsSound(r, p)'
    <3>1. q.queue \in Seq(Jobs)
      BY DEF Processes
    <3>2. \A i \in Listed(q.queue) : i \in Jobs /\ JobBacked(i)
      BY <1>1, <3>1 DEF Sound, QueueIsSound, Listed
    <3> QED BY <1>1, <1>2, <1>7, <2>5, <3>2, BackingStays DEF Sound, QueueIsSound
  <2>8. OutIsSound(p)'
    BY <1>3, <1>4, <1>6, <2>3, <2>5 DEF OutIsSound
  <2>9. FreshIsSound(r, p)'
    BY <1>2, <1>3, <1>4, <1>6, <2>3, <2>5 DEF FreshIsSound
  <2>10. AloneIsSound(r, p)'
    <3>1. r \in fresh' /\ (r \in alone' => r \in alone)
      BY <1>2 DEF RenderRemoval
    <3>2. q.stage # "lease" /\ (r \in alone => (q.stage \in {"reconcile", "history"} => q.resume))
      BY <1>1, <1>2 DEF Sound, QueueIsSound, AloneIsSound
    <3> QED BY <1>8, <2>3, <2>5, <3>1, <3>2 DEF AloneIsSound
  <2>11. Sound(r, p)'
    BY <2>7, <2>8, <2>9, <2>10 DEF Sound
  <2>12. p.task \subseteq Scope(r)
    BY <1>1, <2>5
  <2> QED BY <1>2, <1>7, <1>9, <2>5, <2>6, <2>11, <2>12, LeaseStays, RunnerKeeps
<1> QED BY <1>10, <1>11

(* A runner's write.                                                       *)
LEMMA WriterKeeps ==
    ASSUME BoardInv, NEW r \in Runs, NEW p \in Processes, p.task \subseteq Scope(r),
           proc' = [proc EXCEPT ![r] = p], UNCHANGED <<disk, lease>>, Disturb(Runs \ {r}),
           board' \in Boards, board'.todo.eol, taskFile' \in [Tasks -> TaskFiles],
           \A t \in Tasks, s \in Runs : s \in Listed(taskFile'[t].results) => Backed(t, s),
           Sound(r, p)'
    PROVE  BoardInv'
<1>1. proc \in [Runs -> Processes] /\ \A s \in Runs : proc[s].task \subseteq Scope(s)
  BY DEF BoardInv, Types
<1>2. /\ DiskGrows /\ DOMAIN disk' = Runs /\ \A s \in Runs : disk'[s] \in Documents(s)
      /\ \A s \in Runs : disk'[s].status = disk[s].status
  BY DiskStays
<1>3. Types'
  <2>1. proc' \in [Runs -> Processes] /\ \A s \in Runs : proc'[s].task \subseteq Scope(s)
    <3> HIDE DEF Processes
    <3> QED BY <1>1
  <2> HIDE DEF Processes, Boards, TaskFiles, Documents
  <2> QED BY <1>2, <2>1, LeaseStays DEF BoardInv, Types, Disturb
<1>4. ResultsBacked'
  BY <1>2, BackingStays DEF ResultsBacked
<1>5. \A s \in Runs \ {r} : s \notin fresh' /\ s \notin alone'
  BY DEF Disturb
<1>6. ASSUME NEW s \in Runs
      PROVE  \E q \in Processes : proc'[s] = q /\ Sound(s, q)'
  <2>1. CASE s = r
    <3>1. proc'[r] = p
      BY <1>1
    <3> QED BY <2>1, <3>1
  <2>2. CASE s # r
    <3>1. PICK q \in Processes : proc[s] = q /\ Sound(s, q)
      BY DEF BoardInv
    <3>2. proc'[s] = q
      BY <1>1, <2>2, <3>1
    <3>3. Sound(s, q)'
      BY <1>2, <1>5, <2>2, <3>1, OthersSound
    <3> QED BY <3>2, <3>3
  <2> QED BY <2>1, <2>2
<1> QED BY <1>3, <1>4, <1>6 DEF BoardInv

(* What the writing of a fresh rendering does to the board.                *)
LEMMA FreshWrite ==
    ASSUME BoardInv, NEW r \in Runs, NEW q \in Processes, proc[r] = q, FreshIsSound(r, q),
           r \in fresh, q.out # NoOut, q.out.whole, NEW b \in q.out.board, q.queue # << >>
    PROVE  LET j == Head(q.queue) IN
           /\ j.op = "project" => /\ KeepsOthers(board, b, {j.task})
                                  /\ CardShown(b, j.task, j.state)
                                  /\ j.state # "done" => HasCard(b, j.task)
           /\ j.op = "remove" => KeepsOthers(board, b, j.tasks)
<1>1. PICK j \in Jobs : j = Head(q.queue)
  BY Pops
<1>2. board \in Boards /\ board.todo.eol
  BY DEF BoardInv, Types
<1>3. CASE j.op = "project"
  <2>1. PICK t \in Tasks, state \in States : t = j.task /\ state = j.state
    BY <1>3, JobIs
  <2>2. board.prog.eol /\ b = Transition(board, t, state)
    BY <1>1, <1>3, <2>1 DEF FreshIsSound
  <2>3. LET n == Transition(board, t, state)
        IN  /\ KeepsOthers(board, n, {t}) /\ CardShown(n, t, state)
            /\ state # "done" => HasCard(n, t)
    BY <1>2, <2>2, TransitionGives
  <2> QED BY <1>1, <1>3, <2>1, <2>2, <2>3
<1>4. CASE j.op = "remove"
  <2>1. PICK T \in SUBSET Tasks : T = j.tasks
    BY <1>4, JobIs
  <2>2. b = RemoveHistorical(board, T)
    BY <1>1, <1>4, <2>1 DEF FreshIsSound
  <2>3. KeepsOthers(board, RemoveHistorical(board, T), T)
    BY <1>2, RemovalGives
  <2> QED BY <1>1, <1>4, <2>1, <2>2, <2>3
<1> QED BY <1>1, <1>3, <1>4, JobIs

(* The board is replaced.                                                *)
LEMMA WriteBoardKeeps ==
    ASSUME BoardInv, NEW r \in Runs, WriteBoard(r)
    PROVE  BoardInv'
<1>1. PICK q \in Processes : proc[r] = q /\ Sound(r, q) /\ q.task \subseteq Scope(r)
  BY Soundness
<1>2. q.out.board # {} /\ UNCHANGED <<disk, taskFile, lease>> /\ Disturb(Runs \ {r})
  BY <1>1 DEF WriteBoard
<1>3. PICK b \in q.out.board : board' = b
  BY <1>1 DEF WriteBoard
<1>4. q.out # NoOut /\ q.queue # << >>
  BY <1>1, <1>2, OffIs DEF Sound, QueueIsSound
<1>5. PICK j \in Jobs : j = Head(q.queue) /\ j \in Listed(q.queue)
  BY <1>1, <1>4, Pops
<1>6. b \in Boards /\ b.todo.eol
  <2>1. q.out.board \in SUBSET Boards
    <3> HIDE DEF Boards
    <3> QED BY DEF Processes, Outs
  <2>2. b.todo.eol
    BY <1>1, <1>4 DEF Sound, OutIsSound
  <2> QED BY <2>1, <2>2
<1>7. /\ taskFile' \in [Tasks -> TaskFiles]
      /\ \A t \in Tasks, s \in Runs : s \in Listed(taskFile'[t].results) => Backed(t, s)
  BY <1>2 DEF BoardInv, Types, ResultsBacked
<1>8. (r \in fresh' => r \in fresh) /\ (r \in alone' => r \in alone) /\ (r \in fresh => r \in fresh')
  BY <1>2 DEF Disturb
<1>9. CASE q.out.file = {}
  <2>1. j.op = "remove"
    BY <1>1, <1>4, <1>5, <1>9, JobIs DEF Sound, OutIsSound
  <2>2. r \in alone => q.stage # "again"
    <3>1. r \in alone /\ q.stage = "again" => ShownSoFar(r, q)
      BY <1>1 DEF Sound, AloneIsSound
    <3> QED BY <1>4, <1>5, <2>1, <3>1, JobOfAgain
  <2>3. PICK p \in Processes :
           /\ Popped(r) = [proc EXCEPT ![r] = p] /\ p.out = NoOut
           /\ p.queue = Tail(q.queue) /\ Listed(p.queue) \subseteq Listed(q.queue)
           /\ p.stage = q.stage /\ p.resume = q.resume /\ p.task = q.task
    BY <1>1, <1>4, Pops
  <2>4. proc' = [proc EXCEPT ![r] = p] /\ p.task \subseteq Scope(r)
    BY <1>1, <1>9, <2>3 DEF WriteBoard
  <2>5. Sound(r, p)'
    BY <1>1, <1>2, <1>4, <1>8, <2>2, <2>3, PopIsSound
  <2> QED BY <1>2, <1>3, <1>6, <1>7, <2>4, <2>5, WriterKeeps
<1>10. CASE q.out.file # {}
  <2>1. j.op = "project" /\ j.task \in Tasks /\ j.state \in States
    BY <1>1, <1>4, <1>5, <1>10, JobIs DEF Sound, OutIsSound
  <2>2. PICK o \in Outs : o = q.out
    BY DEF Processes
  <2>3. PICK out : out = [o EXCEPT !.board = {}]
    OBVIOUS
  <2>4. /\ out \in Outs /\ out.board = {} /\ out.file = q.out.file /\ out.whole = q.out.whole
        /\ out # NoOut
    <3>1. out \in Outs /\ out.board = {} /\ out.file = o.file /\ out.whole = o.whole
      BY <2>3 DEF Outs
    <3> QED BY <1>10, <2>2, <3>1, OffIs
  <2>5. PICK p : p = [q EXCEPT !.out = out]
    OBVIOUS
  <2>6. /\ p \in Processes /\ p.out = out /\ p.queue = q.queue
        /\ p.stage = q.stage /\ p.resume = q.resume /\ p.task = q.task
    <3> HIDE DEF Outs
    <3> QED BY <2>4, <2>5 DEF Processes
  <2>7. proc' = [proc EXCEPT ![r] = p]
    <3>1. proc' = [proc EXCEPT ![r].out.board = {}]
      BY <1>1, <1>10 DEF WriteBoard
    <3>2. proc' = [proc EXCEPT ![r] = [q EXCEPT !.out = [o EXCEPT !.board = {}]]]
      BY <1>1, <2>2, <3>1 DEF BoardInv, Types
    <3> QED BY <2>3, <2>5, <3>2
  <2>8. DiskGrows
    BY <1>2, DiskStays
  <2>9. QueueIsSound(r, p)'
    <3>1. q.queue \in Seq(Jobs)
      BY DEF Processes
    <3>2. \A i \in Listed(q.queue) : i \in Jobs /\ JobBacked(i)
      BY <1>1, <3>1 DEF Sound, QueueIsSound, Listed
    <3> QED BY <1>1, <1>2, <1>4, <2>6, <2>8, <3>2, BackingStays DEF Sound, QueueIsSound
  <2>10. OutIsSound(p)'
    BY <1>1, <1>4, <1>5, <1>10, <2>1, <2>4, <2>6, <2>8, BackingStays DEF Sound, OutIsSound
  <2>11. r \in fresh /\ q.out.whole =>
            KeepsOthers(board, b, {j.task}) /\ CardShown(b, j.task, j.state)
    BY <1>1, <1>4, <1>5, <2>1, FreshWrite DEF Sound
  <2>12. FreshIsSound(r, p)'
    BY <1>1, <1>2, <1>3, <1>4, <1>5, <1>8, <2>1, <2>4, <2>6, <2>11 DEF Sound, FreshIsSound
  <2>13. AloneIsSound(r, p)'
    <3> SUFFICES ASSUME r \in alone'
                 PROVE  AloneIsSound(r, p)'
      BY DEF AloneIsSound
    <3>1. r \in alone /\ r \in fresh /\ q.out.whole /\ r \in fresh'
      BY <1>1, <1>4, <1>8 DEF Sound, AloneIsSound
    <3>2. q.stage # "lease" /\ (q.stage \in {"reconcile", "history"} => q.resume)
      BY <1>1, <1>4, <3>1 DEF Sound, QueueIsSound, AloneIsSound
    <3>3. ASSUME q.stage = "again"
          PROVE  ShownSoFar(r, p)'
      <4>1. ShownSoFar(r, q)
        BY <1>1, <3>1, <3>3 DEF Sound, AloneIsSound
      <4>2. PICK k \in Nat : /\ k = Progress(r, q) /\ k + 1 \in DOMAIN ScopeOf[r]
                             /\ j.task = ScopeOf[r][k + 1]
        BY <1>4, <1>5, <4>1, JobOfAgain
      <4>3. PICK n \in Nat : n = Len(ScopeOf[r]) /\ DOMAIN ScopeOf[r] = 1..n
        BY TasksOfRuns
      <4>4. ASSUME NEW i \in 1..k
            PROVE  TaskShown(r, ScopeOf[r][i])'
        <5>1. i \in 1..n /\ i # k + 1 /\ k + 1 \in 1..n
          BY <4>2, <4>3
        <5>2. PICK u \in Scope(r) : u = ScopeOf[r][i]
          BY <4>3, <5>1, TasksOfRuns
        <5>3. u # j.task /\ u \in Tasks
          BY <4>2, <4>3, <5>1, <5>2, TasksOfRuns
        <5>4. PICK state \in States : state = disk[r].status[u]
          BY DEF BoardInv, Types, Documents
        <5>5. Shows(board, taskFile[u], u, state)
          BY <4>1, <4>2, <5>2, <5>4 DEF ShownSoFar, TaskShown
        <5>6. CardShown(board, u, state) => CardShown(b, u, state)
          BY <2>11, <3>1, <5>3 DEF KeepsOthers
        <5>7. Shows(b, taskFile[u], u, state)
          BY <5>5, <5>6, ShowsIs
        <5> QED BY <1>2, <1>3, <5>2, <5>4, <5>7 DEF TaskShown
      <4>5. Reconciliation(r)' = Reconciliation(r)
        BY <1>2 DEF Reconciliation
      <4>6. Progress(r, p) = Progress(r, q)
        BY <2>6 DEF Progress
      <4> QED BY <2>6, <4>1, <4>2, <4>4, <4>5, <4>6 DEF ShownSoFar
    <3> QED BY <2>4, <2>6, <3>1, <3>2, <3>3 DEF AloneIsSound
  <2>14. Sound(r, p)'
    BY <2>9, <2>10, <2>12, <2>13 DEF Sound
  <2>15. p.task \subseteq Scope(r)
    BY <1>1, <2>6
  <2> QED BY <1>2, <1>3, <1>6, <1>7, <2>6, <2>7, <2>14, <2>15, WriterKeeps
<1> QED BY <1>9, <1>10

(* What the writing of a fresh rendering shows of the task.                *)
LEMMA FreshTask ==
    ASSUME BoardInv, NEW r \in Runs, NEW q \in Processes, proc[r] = q, FreshIsSound(r, q),
           r \in fresh, q.out # NoOut, q.out.whole, q.out.board = {}, NEW f \in q.out.file,
           q.queue # << >>, Head(q.queue).op = "project"
    PROVE  Shows(board, f, Head(q.queue).task, Head(q.queue).state)
<1>1. PICK j \in Jobs : j = Head(q.queue) /\ j.op = "project"
  BY Pops
<1>2. PICK t \in Tasks, state \in States, s \in Runs : t = j.task /\ state = j.state /\ s = j.source
  BY <1>1, JobIs
<1>3. PICK g \in TaskFiles : g = taskFile[t]
  BY DEF BoardInv, Types
<1>4. f = TaskTransition(g, state, s) /\ CardShown(board, t, state)
  BY <1>1, <1>2, <1>3 DEF FreshIsSound
<1>5. f.mark = state /\ (state = "done" => f.results = <<s>>)
  BY <1>4, TaskTransitionGives
<1>6. Len(<<s>>) = 1
  OBVIOUS
<1>7. Shows(board, f, t, state)
  BY <1>4, <1>5, <1>6, ShowsIs
<1> QED BY <1>1, <1>2, <1>7

(* The task file is replaced.                                            *)
LEMMA WriteTaskKeeps ==
    ASSUME BoardInv, NEW r \in Runs, WriteTask(r)
    PROVE  BoardInv'
<1>1. PICK q \in Processes : proc[r] = q /\ Sound(r, q) /\ q.task \subseteq Scope(r)
  BY Soundness
<1>2. /\ q.out.board = {} /\ q.out.file # {} /\ UNCHANGED <<disk, board, lease>>
      /\ proc' = Popped(r) /\ Disturb(Runs \ {r})
  BY <1>1 DEF WriteTask
<1>3. q.out # NoOut /\ q.queue # << >>
  BY <1>1, <1>2, OffIs DEF Sound, QueueIsSound
<1>4. PICK j \in Jobs : j = Head(q.queue) /\ j \in Listed(q.queue) /\ Job(r) = j
  BY <1>1, <1>3, Pops DEF Job
<1>5. j.op = "project" /\ j.task \in Tasks /\ j.state \in States
  BY <1>1, <1>2, <1>3, <1>4, JobIs DEF Sound, OutIsSound
<1>6. PICK f \in q.out.file : taskFile' = [taskFile EXCEPT ![j.task] = f]
  BY <1>1, <1>4 DEF WriteTask
<1>7. f \in TaskFiles
  <2> HIDE DEF TaskFiles, Boards
  <2> QED BY DEF Processes, Outs
<1>8. taskFile \in [Tasks -> TaskFiles]
  BY DEF BoardInv, Types
<1>9. /\ taskFile' \in [Tasks -> TaskFiles]
      /\ \A t \in Tasks : taskFile'[t] = IF t = j.task THEN f ELSE taskFile[t]
  <2> HIDE DEF TaskFiles
  <2> QED BY <1>5, <1>6, <1>7, <1>8
<1>10. \A t \in Tasks, s \in Runs : s \in Listed(taskFile'[t].results) => Backed(t, s)
  <2>1. \A s \in Runs : s \in Listed(f.results) => Backed(j.task, s)
    BY <1>1, <1>3, <1>4, <1>5 DEF Sound, OutIsSound
  <2>2. \A t \in Tasks, s \in Runs : s \in Listed(taskFile[t].results) => Backed(t, s)
    BY DEF BoardInv, ResultsBacked
  <2> QED BY <1>9, <2>1, <2>2
<1>11. PICK p \in Processes :
          /\ Popped(r) = [proc EXCEPT ![r] = p] /\ p.out = NoOut
          /\ p.queue = Tail(q.queue) /\ Listed(p.queue) \subseteq Listed(q.queue)
          /\ p.stage = q.stage /\ p.resume = q.resume /\ p.task = q.task
  BY <1>1, <1>3, Pops
<1>12. r \in alone' => r \in alone
  BY <1>2 DEF Disturb
<1>13. ASSUME r \in alone, q.stage = "again"
       PROVE  ShownSoFar(r, p)'
  <2>1. ShownSoFar(r, q) /\ r \in fresh /\ q.out.whole
    BY <1>1, <1>3, <1>13 DEF Sound, AloneIsSound
  <2>2. PICK n \in Nat : n = Len(ScopeOf[r]) /\ DOMAIN ScopeOf[r] = 1..n
    BY TasksOfRuns
  <2>3. PICK m \in Nat : m = Len(q.queue) /\ DOMAIN q.queue = 1..m /\ m > 0
    BY <1>3 DEF Processes
  <2>4. PICK k \in Nat : /\ k = Progress(r, q) /\ k + 1 \in 1..n /\ j.task = ScopeOf[r][k + 1]
                         /\ j.state = disk[r].status[ScopeOf[r][k + 1]]
    BY <1>3, <1>4, <2>1, <2>2, JobOfAgain
  <2>5. k = n - m
    BY <2>2, <2>3, <2>4 DEF Progress
  <2>6. /\ Len(p.queue) = m - 1 /\ DOMAIN p.queue = 1..(m - 1)
        /\ \A i \in 1..(m - 1) : p.queue[i] = q.queue[i + 1]
    <3>1. PICK s \in Seq(Jobs) : s = q.queue /\ Len(s) = m /\ s # << >>
      BY <1>3, <2>3 DEF Processes
    <3>2. Len(Tail(s)) = m - 1 /\ DOMAIN Tail(s) = 1..(m - 1) /\ \A i \in 1..(m - 1) : Tail(s)[i] = s[i + 1]
      BY <2>3, <3>1
    <3> QED BY <1>11, <3>1, <3>2
  <2>7. Progress(r, p) = k + 1
    BY <2>2, <2>3, <2>5, <2>6 DEF Progress
  <2>8. \A i \in 1..(m - 1) : p.queue[i] = Reconciliation(r)[(k + 1) + i]
    <3>1. ASSUME NEW i \in 1..(m - 1)
          PROVE  p.queue[i] = Reconciliation(r)[(k + 1) + i]
      <4>1. i + 1 \in DOMAIN q.queue /\ k + (i + 1) = (k + 1) + i
        BY <2>3
      <4>2. q.queue[i + 1] = Reconciliation(r)[k + (i + 1)]
        BY <2>1, <2>4, <4>1 DEF ShownSoFar
      <4> QED BY <2>6, <4>1, <4>2
    <3> QED BY <3>1
  <2>9. ASSUME NEW i \in 1..(k + 1)
        PROVE  TaskShown(r, ScopeOf[r][i])'
    <3>1. i \in 1..n
      BY <2>4
    <3>2. PICK u \in Scope(r) : u = ScopeOf[r][i] /\ u \in Tasks
      BY <2>2, <3>1, TasksOfRuns
    <3>3. CASE i = k + 1
      <4>1. u = j.task /\ j.state = disk[r].status[u]
        BY <2>4, <3>2, <3>3
      <4>2. Shows(board, f, j.task, j.state)
        BY <1>1, <1>2, <1>3, <1>4, <1>5, <2>1, FreshTask DEF Sound
      <4> QED BY <1>2, <1>9, <3>2, <4>1, <4>2 DEF TaskShown
    <3>4. CASE i # k + 1
      <4>1. i \in 1..k /\ u # j.task
        BY <2>2, <2>4, <3>1, <3>2, <3>4, TasksOfRuns
      <4>2. TaskShown(r, u)
        BY <2>1, <2>4, <3>2, <4>1 DEF ShownSoFar
      <4> QED BY <1>2, <1>9, <3>2, <4>1, <4>2 DEF TaskShown
    <3> QED BY <3>3, <3>4
  <2>10. Reconciliation(r)' = Reconciliation(r)
    BY <1>2 DEF Reconciliation
  <2>11. k + 1 \in 0..n
    BY <2>4
  <2> QED BY <2>2, <2>6, <2>7, <2>8, <2>9, <2>10, <2>11 DEF ShownSoFar
<1>14. Sound(r, p)'
  BY <1>1, <1>2, <1>3, <1>11, <1>12, <1>13, PopIsSound
<1>15. proc' = [proc EXCEPT ![r] = p] /\ p.task \subseteq Scope(r)
  BY <1>1, <1>2, <1>11
<1>16. board' \in Boards /\ board'.todo.eol
  BY <1>2 DEF BoardInv, Types
<1> QED BY <1>2, <1>9, <1>10, <1>14, <1>15, <1>16, WriterKeeps

(* People disturb everybody.                                               *)
LEMMA EditKeeps ==
    ASSUME BoardInv, Edit, UNCHANGED <<disk, proc, lease>>,
           board' \in Boards, board'.todo.eol, taskFile' \in [Tasks -> TaskFiles],
           \A t \in Tasks, s \in Runs : s \in Listed(taskFile'[t].results) => Backed(t, s)
    PROVE  BoardInv'
<1>1. /\ DiskGrows /\ DOMAIN disk' = Runs /\ \A s \in Runs : disk'[s] \in Documents(s)
      /\ \A s \in Runs : disk'[s].status = disk[s].status
  BY DiskStays
<1>2. Types'
  BY <1>1, LeaseStays DEF BoardInv, Types, Edit, Disturb
<1>3. ResultsBacked'
  BY <1>1, BackingStays DEF ResultsBacked
<1>4. \A s \in Runs : s \notin fresh' /\ s \notin alone'
  BY DEF Edit, Disturb
<1>5. ASSUME NEW s \in Runs
      PROVE  \E q \in Processes : proc'[s] = q /\ Sound(s, q)'
  <2>1. PICK q \in Processes : proc[s] = q /\ Sound(s, q)
    BY DEF BoardInv
  <2>2. Sound(s, q)'
    BY <1>1, <1>4, <2>1, OthersSound
  <2> QED BY <2>1, <2>2
<1> QED BY <1>2, <1>3, <1>5 DEF BoardInv

(* Every edit.                                                           *)
LEMMA EditsKeep ==
    ASSUME BoardInv,
           (\E c \in Columns : EditColumn(c)) \/ EditLayout \/ (\E t \in Tasks : EditTask(t))
    PROVE  BoardInv'
<1>1. /\ board \in Boards /\ board.todo.eol /\ taskFile \in [Tasks -> TaskFiles]
      /\ \A t \in Tasks, s \in Runs : s \in Listed(taskFile[t].results) => Backed(t, s)
  BY DEF BoardInv, Types, ResultsBacked
<1>2. ASSUME NEW c \in Columns, EditColumn(c)
      PROVE  BoardInv'
  <2>1. board[c] \in Bodies
    BY <1>1 DEF Boards, Columns
  <2>2. PICK lines \in Lines : board' = [board EXCEPT ![c] = Body(lines, TRUE)]
    <3>1. CASE \E x \in AnyLine : board' = [board EXCEPT ![c] = Body(Append(board[c].lines, x), TRUE)]
      <4>1. PICK x \in AnyLine : board' = [board EXCEPT ![c] = Body(Append(board[c].lines, x), TRUE)]
        BY <3>1
      <4>2. Append(board[c].lines, x) \in Lines
        BY <2>1 DEF Bodies, Lines
      <4> QED BY <4>1, <4>2
    <3>2. CASE /\ board[c].lines # << >>
               /\ board' = [board EXCEPT ![c] = Body(Tail(board[c].lines), TRUE)]
      <4>1. Tail(board[c].lines) \in Lines
        BY <2>1, <3>2 DEF Bodies, Lines
      <4> QED BY <3>2, <4>1
    <3> QED BY <1>2, <3>1, <3>2 DEF EditColumn, AnyLine
  <2>3. Body(lines, TRUE) \in Bodies /\ Body(lines, TRUE).eol
    BY BodyIs
  <2>4. board' \in Boards /\ board'.todo.eol
    <3>1. PICK body \in Bodies : body = Body(lines, TRUE) /\ body.eol
      BY <2>3
    <3>2. board' = [board EXCEPT ![c] = body]
      BY <2>2, <3>1
    <3> HIDE DEF Bodies
    <3> QED BY <1>1, <3>1, <3>2 DEF Boards, Columns
  <2>5. Edit /\ UNCHANGED <<disk, taskFile, proc, lease>>
    BY <1>2 DEF EditColumn
  <2> QED BY <1>1, <2>4, <2>5, EditKeeps
<1>3. CASE EditLayout
  <2>1. board' \in Boards /\ board'.todo.eol
    <3>1. CASE board' = [board EXCEPT !.prog.eol = FALSE]
      <4>1. PICK body \in Bodies : body = [board.prog EXCEPT !.eol = FALSE]
        BY <1>1 DEF Boards, Bodies
      <4>2. board' = [board EXCEPT !.prog = body]
        BY <3>1, <4>1
      <4> HIDE DEF Bodies
      <4> QED BY <1>1, <4>2 DEF Boards
    <3>2. CASE board' = [board EXCEPT !.intact = ~@]
      <4> HIDE DEF Bodies
      <4> QED BY <1>1, <3>2 DEF Boards
    <3> QED BY <1>3, <3>1, <3>2 DEF EditLayout
  <2>2. Edit /\ UNCHANGED <<disk, taskFile, proc, lease>>
    BY <1>3 DEF EditLayout
  <2> QED BY <1>1, <2>1, <2>2, EditKeeps
<1>4. ASSUME NEW t \in Tasks, EditTask(t)
      PROVE  BoardInv'
  <2>1. PICK f \in TaskFiles : f = taskFile[t]
    BY <1>1
  <2>2. PICK g \in TaskFiles : /\ taskFile' = [taskFile EXCEPT ![t] = g]
                               /\ \A s \in Runs : s \in Listed(g.results) => s \in Listed(f.results)
    <3>1. CASE taskFile' = [taskFile EXCEPT ![t].results = Append(@, "human")]
      <4>1. PICK results \in Seq(Runs \cup {"human"}) : results = f.results
        BY DEF TaskFiles
      <4>2. PICK more \in Seq(Runs \cup {"human"}) : more = Append(results, "human")
        <5>1. Append(results, "human") \in Seq(Runs \cup {"human"})
          OBVIOUS
        <5> QED BY <5>1
      <4>3. \A s \in Runs : s \in Listed(more) => s \in Listed(results)
        <5>1. \A s \in Runs : s # "human"
          BY NameAssumption
        <5>2. PICK n \in Nat : n = Len(results) /\ DOMAIN results = 1..n
          OBVIOUS
        <5>3. /\ DOMAIN more = 1..(n + 1) /\ more[n + 1] = "human"
              /\ \A i \in 1..n : more[i] = results[i]
          BY <4>2, <5>2
        <5>4. \A i \in 1..(n + 1) : i = n + 1 \/ i \in 1..n
          BY <5>2
        <5> QED BY <5>1, <5>2, <5>3, <5>4 DEF Listed
      <4>4. PICK g \in TaskFiles : g = [f EXCEPT !.results = more] /\ g.results = more
        <5>1. PICK x : x = [f EXCEPT !.results = more]
          OBVIOUS
        <5>2. x \in TaskFiles /\ x.results = more
          BY <5>1 DEF TaskFiles
        <5> QED BY <5>1, <5>2
      <4>5. taskFile' = [taskFile EXCEPT ![t] = g]
        BY <1>1, <2>1, <3>1, <4>1, <4>2, <4>4
      <4> QED BY <4>1, <4>3, <4>4, <4>5
    <3>2. CASE taskFile' = [taskFile EXCEPT ![t].intact = ~@]
      <4>1. PICK g \in TaskFiles : g = [f EXCEPT !.intact = ~f.intact] /\ g.results = f.results
        <5>1. PICK x : x = [f EXCEPT !.intact = ~f.intact]
          OBVIOUS
        <5>2. x \in TaskFiles /\ x.results = f.results
          BY <5>1 DEF TaskFiles
        <5> QED BY <5>1, <5>2
      <4>2. taskFile' = [taskFile EXCEPT ![t] = g]
        BY <1>1, <2>1, <3>2, <4>1
      <4> QED BY <4>1, <4>2
    <3> QED BY <1>4, <3>1, <3>2 DEF EditTask
  <2>3. /\ taskFile' \in [Tasks -> TaskFiles]
        /\ \A u \in Tasks : taskFile'[u] = IF u = t THEN g ELSE taskFile[u]
    <3> HIDE DEF TaskFiles
    <3> QED BY <1>1, <2>2
  <2>4. \A u \in Tasks, s \in Runs : s \in Listed(taskFile'[u].results) => Backed(u, s)
    BY <1>1, <2>1, <2>2, <2>3
  <2>5. Edit /\ UNCHANGED <<disk, board, proc, lease>>
    BY <1>4 DEF EditTask
  <2>6. board' \in Boards /\ board'.todo.eol
    BY <1>1, <2>5
  <2> QED BY <2>3, <2>4, <2>5, <2>6, EditKeeps
<1> QED BY <1>2, <1>3, <1>4

-----------------------------------------------------------------------------
(* The invariant                                                           *)

(* The invariant holds at first ...                                      *)
LEMMA BoardBegins ==
    ASSUME BoardInit
    PROVE  BoardInv
<1>1. /\ disk = [r \in Runs |-> [status |-> [t \in Scope(r) |-> "to_do"],
                                 made |-> FALSE, closed |-> FALSE]]
      /\ board = Shown(Listing) /\ proc = [r \in Runs |-> Off]
      /\ taskFile = [t \in Tasks |-> [mark |-> "to_do", results |-> << >>, intact |-> TRUE]]
      /\ lease = {} /\ fresh = {} /\ alone = {}
  BY DEF BoardInit
<1>2. DOMAIN disk = Runs /\ \A r \in Runs : disk[r] \in Documents(r)
  BY <1>1 DEF Documents, States
<1>3. board \in Boards /\ board.todo.eol
  <2>1. PICK n \in Nat : DOMAIN Listing = 1..n /\ \A i \in 1..n : Listing[i] \in Tasks
    BY ListAssumption
  <2>2. [i \in DOMAIN Listing |-> Card(Listing[i])] \in Lines
    BY <2>1 DEF Lines, AnyLine
  <2>3. <<Note>> \in Lines
    BY DEF Lines, AnyLine
  <2>4. PICK todo \in Bodies, prog \in Bodies :
           /\ todo = Body([i \in DOMAIN Listing |-> Card(Listing[i])], TRUE) /\ todo.eol
           /\ prog = Body(<<Note>>, TRUE)
    <3>1. PICK lines : lines = [i \in DOMAIN Listing |-> Card(Listing[i])] /\ lines \in Lines
      BY <2>2
    <3>2. Body(lines, TRUE) \in Bodies /\ Body(lines, TRUE).eol
      BY <3>1, BodyIs
    <3>3. Body(<<Note>>, TRUE) \in Bodies
      BY <2>3, BodyIs
    <3> QED BY <3>1, <3>2, <3>3
  <2>5. board = [todo |-> todo, prog |-> prog, intact |-> TRUE]
    BY <1>1, <2>4 DEF Shown
  <2> HIDE DEF Bodies
  <2> QED BY <2>4, <2>5 DEF Boards
<1>4. taskFile \in [Tasks -> TaskFiles] /\ \A t \in Tasks : Listed(taskFile[t].results) = {}
  <2>1. << >> \in Seq(Runs \cup {"human"}) /\ Listed(<< >>) = {}
    BY DEF Listed
  <2>2. [mark |-> "to_do", results |-> << >>, intact |-> TRUE] \in TaskFiles
    BY <2>1 DEF TaskFiles, States
  <2>3. taskFile \in [Tasks -> TaskFiles]
    <3> HIDE DEF TaskFiles
    <3> QED BY <1>1, <2>2
  <2> QED BY <1>1, <2>1, <2>3
<1>5. proc \in [Runs -> Processes] /\ \A r \in Runs : proc[r].task \subseteq Scope(r)
  <2> HIDE DEF Processes
  <2> QED BY <1>1, OffIs
<1>6. Types
  BY <1>1, <1>2, <1>3, <1>4, <1>5 DEF Types
<1>7. ResultsBacked
  BY <1>4 DEF ResultsBacked
<1>8. ASSUME NEW r \in Runs
      PROVE  Sound(r, Off)
  <2>1. QueueIsSound(r, Off)
    BY OffIs DEF QueueIsSound, Listed
  <2>2. OutIsSound(Off) /\ FreshIsSound(r, Off) /\ AloneIsSound(r, Off)
    BY <1>1, OffIs DEF OutIsSound, FreshIsSound, AloneIsSound
  <2> QED BY <2>1, <2>2 DEF Sound
<1>9. \A r \in Runs : proc[r] = Off /\ Off \in Processes
  BY <1>1, OffIs
<1> QED BY <1>6, <1>7, <1>8, <1>9 DEF BoardInv

(* ... and every step keeps it.                                          *)
LEMMA BoardGoesOn ==
    ASSUME BoardInv, [BoardNext]_boardVars
    PROVE  BoardInv'
<1>1. ASSUME NEW r \in Runs, RunnerStep(r)
      PROVE  BoardInv'
  BY <1>1, ExecuteKeeps, ReconciledKeeps, RetireKeeps, ReconciledAgainKeeps, TakeLeaseKeeps,
     EnterKeeps, WorkKeeps, CloseKeeps, RenderKeeps, RenderRemovalKeeps, WriteBoardKeeps,
     WriteTaskKeeps, DiesKeeps
     DEF RunnerStep
<1>2. CASE UNCHANGED boardVars
  <2>1. UNCHANGED <<disk, board, taskFile, proc, lease, fresh, alone>>
    BY <1>2 DEF boardVars
  <2>2. /\ DiskGrows /\ \A s \in Runs : disk'[s].status = disk[s].status
    BY <2>1, DiskStays
  <2>3. Types'
    BY <2>1 DEF BoardInv, Types
  <2>4. ResultsBacked'
    BY <2>1, <2>2, BackingStays DEF BoardInv, ResultsBacked
  <2>5. ASSUME NEW s \in Runs
        PROVE  \E q \in Processes : proc'[s] = q /\ Sound(s, q)'
    <3>1. PICK q \in Processes : proc[s] = q /\ Sound(s, q)
      BY DEF BoardInv
    <3>2. Sound(s, q)'
      BY <2>1, <2>2, <3>1, OthersSound
    <3> QED BY <2>1, <3>1, <3>2
  <2> QED BY <2>3, <2>4, <2>5 DEF BoardInv
<1> QED BY <1>1, <1>2, EditsKeep DEF BoardNext

(* The invariant holds in every state of every behaviour.                  *)
THEOREM BoardInvariant == BoardSpec => []BoardInv
<1>1. BoardInit => BoardInv
  BY BoardBegins
<1>2. BoardInv /\ [BoardNext]_boardVars => BoardInv'
  BY BoardGoesOn
<1> QED BY <1>1, <1>2, PTL DEF BoardSpec

(* For any runs, tasks and replacements, and however many invocations,     *)
(* deaths and edits: board, task files and lease keep their form, and a    *)
(* Result never outruns run.json.                                          *)
THEOREM ResultsBackedAlways == BoardSpec => []ResultsAreBacked
<1>1. ASSUME BoardInv
      PROVE  ResultsAreBacked
  <2>1. Types /\ ResultsBacked
    BY <1>1 DEF BoardInv
  <2>2. ASSUME NEW c \in Columns
        PROVE  board[c].lines \in Lines /\ board[c].eol \in BOOLEAN
    BY <2>1 DEF Types, Boards, Bodies, Columns
  <2>3. /\ \A r \in Runs : disk[r].status \in [Scope(r) -> States]
        /\ \A t \in Tasks : taskFile[t].mark \in States /\ taskFile[t].intact \in BOOLEAN
        /\ board.todo.eol /\ \A r \in Runs : proc[r].task \subseteq Scope(r)
    BY <2>1 DEF Types, Documents, TaskFiles
  <2>4. Cardinality(lease) <= 1
    <3>1. CASE lease = {}
      BY <3>1, FS_EmptySet
    <3>2. ASSUME NEW r \in Runs, lease = {r}
          PROVE  Cardinality(lease) <= 1
      BY <3>2, FS_Singleton
    <3> QED BY <2>1, <3>1, <3>2 DEF Types
  <2>5. BoardTypeOK
    BY <2>2, <2>3, <2>4 DEF BoardTypeOK
  <2>6. ResultIsDurable
    BY <2>1 DEF ResultsBacked, Backed, ResultIsDurable
  <2> QED BY <2>5, <2>6 DEF ResultsAreBacked
<1> QED BY <1>1, BoardInvariant, PTL

(* A resume nobody disturbed has repaired the board and the task files of  *)
(* all its tasks when it asks for the lease, whatever came before.         *)
THEOREM ResumeAlwaysRepairs == BoardSpec => []ResumeRepairs
<1>1. ASSUME BoardInv
      PROVE  ResumeRepairs
  <2> SUFFICES ASSUME NEW r \in Runs, r \in alone, proc[r].stage = "lease", NEW t \in Scope(r)
               PROVE  Shows(board, taskFile[t], t, disk[r].status[t])
    BY <1>1 DEF ResumeRepairs, BoardInv, Types
  <2>1. PICK q \in Processes : proc[r] = q /\ Sound(r, q)
    BY <1>1, Soundness
  <2> QED BY <2>1 DEF Sound, AloneIsSound, TaskShown
<1> QED BY <1>1, BoardInvariant, PTL

(* Only the step that writes the board takes the rendered board away, and  *)
(* only the step that writes the task file ends a projection.              *)
LEMMA Writers ==
    ASSUME BoardInv, [BoardNext]_boardVars, NEW r \in Runs, PutsBoard(r) \/ PutsTask(r)
    PROVE  (PutsBoard(r) => WriteBoard(r)) /\ (PutsTask(r) => WriteTask(r))
<1>1. PICK q \in Processes : proc[r] = q /\ Sound(r, q)
  BY Soundness
<1>2. proc \in [Runs -> Processes]
  BY DEF BoardInv, Types
<1>3. /\ q.out # NoOut /\ q.queue # << >> /\ q # Off /\ proc'[r] # Off /\ proc'[r] # q
      /\ q.out.board # {} \/ q.out.file # {}
  <2>1. q.out.board # {} \/ q.out.file # {}
    BY <1>1 DEF PutsBoard, PutsTask
  <2>2. q.out # NoOut
    BY <2>1, OffIs
  <2>3. proc'[r] # q
    BY <1>1, <2>2 DEF PutsBoard, PutsTask
  <2> QED BY <1>1, <2>1, <2>2, <2>3, OffIs DEF Sound, QueueIsSound, PutsBoard, PutsTask
<1>4. ASSUME NEW s \in Runs, RunnerStep(s), s # r
      PROVE  proc'[r] = q
  <2>1. \E p : proc' = [proc EXCEPT ![s] = p]
    <3>1. \A stage, queue : MoveTo(s, stage, queue) => \E p : proc' = [proc EXCEPT ![s] = p]
      BY DEF MoveTo
    <3>2. Ends(s) => \E p : proc' = [proc EXCEPT ![s] = p]
      BY DEF Ends
    <3>3. \E p : Popped(s) = [proc EXCEPT ![s] = p]
      BY DEF Popped
    <3>4. Execute(s) \/ Enter(s) \/ Render(s) => \E p : proc' = [proc EXCEPT ![s] = p]
      BY DEF Execute, Enter, Render
    <3>5. RenderRemoval(s) \/ WriteBoard(s) \/ WriteTask(s) => \E p : proc' = [proc EXCEPT ![s] = p]
      BY <3>3 DEF RenderRemoval, WriteBoard, WriteTask
    <3> QED BY <1>4, <3>1, <3>2, <3>4, <3>5
            DEF RunnerStep, Reconciled, Retire, ReconciledAgain, TakeLease, Started, Completed,
                Moves, Waits, Close, Malformed, Dies
  <2> QED BY <1>1, <1>2, <1>4, <2>1
<1>5. CASE RunnerStep(r)
  <2>1. ~Ends(r)
    BY <1>2, <1>3 DEF Ends
  <2>2. \A stage : ~Settled(r, stage)
    BY <1>1, <1>3 DEF Settled, Pending
  <2>3. proc[r] # Off /\ proc[r].out # NoOut
    BY <1>1, <1>3
  <2>4. WriteBoard(r) \/ WriteTask(r)
    BY <1>5, <2>1, <2>2, <2>3
       DEF RunnerStep, Execute, Reconciled, Retire, ReconciledAgain, TakeLease, Enter, Started,
           Completed, Waits, Close, Render, RenderRemoval, Malformed, Dies
  <2> QED BY <2>4 DEF WriteBoard, WriteTask, PutsBoard, PutsTask
<1>6. (\A c \in Columns : ~EditColumn(c)) /\ (\A t \in Tasks : ~EditTask(t)) /\ ~EditLayout
      /\ ~UNCHANGED boardVars
  BY <1>1, <1>3 DEF EditColumn, EditTask, EditLayout, boardVars
<1> QED BY <1>1, <1>3, <1>4, <1>5, <1>6 DEF BoardNext

(* For any runs and boards: a projection that nobody comes between leaves  *)
(* one canonical card in the right column, or none and one Result, and     *)
(* touches no line of anybody else, on a board whose last line ends.       *)
THEOREM ProjectionAlwaysExact == BoardSpec => ProjectionIsExact
<1>1. ASSUME BoardInv, [BoardNext]_boardVars
      PROVE  \A r \in Runs : r \in fresh /\ proc[r].out.whole => Keeps(r)
  <2> SUFFICES ASSUME NEW r \in Runs, r \in fresh, proc[r].out.whole
               PROVE  Keeps(r)
    OBVIOUS
  <2>1. PICK q \in Processes : proc[r] = q /\ Sound(r, q)
    BY <1>1, Soundness
  <2>2. ASSUME PutsBoard(r)
        PROVE  OthersOf(board', Named(r)) = OthersOf(board, Named(r))
    <3>1. WriteBoard(r)
      BY <1>1, <2>2, Writers
    <3>2. PICK b \in q.out.board : board' = b
      BY <2>1, <3>1 DEF WriteBoard
    <3>3. q.out # NoOut /\ q.queue # << >>
      BY <2>1, <3>2, OffIs DEF Sound, QueueIsSound
    <3>4. PICK j \in Jobs : j = Head(q.queue) /\ Job(r) = j
      BY <1>1, <2>1, <3>3, Pops DEF Job
    <3>5. /\ j.op = "project" => KeepsOthers(board, b, {j.task})
          /\ j.op = "remove" => KeepsOthers(board, b, j.tasks)
      BY <1>1, <2>1, <3>3, <3>4, FreshWrite DEF Sound
    <3>6. CASE j.op = "project"
      <4>1. Named(r) = {j.task}
        BY <3>4, <3>6 DEF Named
      <4> QED BY <3>2, <3>5, <3>6, <4>1 DEF KeepsOthers
    <3>7. CASE j.op = "remove"
      <4>1. Named(r) = j.tasks
        BY <3>4, <3>7 DEF Named
      <4> QED BY <3>2, <3>5, <3>7, <4>1 DEF KeepsOthers
    <3> QED BY <3>6, <3>7, JobIs
  <2>3. ASSUME PutsTask(r)
        PROVE  Shows(board, taskFile'[Job(r).task], Job(r).task, Job(r).state)
    <3>1. WriteTask(r)
      BY <1>1, <2>3, Writers
    <3>2. q.out.board = {} /\ q.out.file # {}
      BY <2>1, <3>1 DEF WriteTask
    <3>3. q.out # NoOut /\ q.queue # << >>
      BY <2>1, <3>2, OffIs DEF Sound, QueueIsSound
    <3>4. PICK j \in Jobs : j = Head(q.queue) /\ Job(r) = j
      BY <1>1, <2>1, <3>3, Pops DEF Job
    <3>5. j.op = "project" /\ j.task \in Tasks
      BY <2>1, <3>2, <3>3, <3>4, JobIs DEF Sound, OutIsSound
    <3>6. PICK f \in q.out.file : taskFile' = [taskFile EXCEPT ![j.task] = f]
      BY <2>1, <3>1, <3>4 DEF WriteTask
    <3>7. taskFile'[j.task] = f
      BY <1>1, <3>5, <3>6 DEF BoardInv, Types
    <3>8. Shows(board, f, j.task, j.state)
      BY <1>1, <2>1, <3>2, <3>3, <3>4, <3>5, FreshTask DEF Sound
    <3> QED BY <3>4, <3>7, <3>8
  <2> QED BY <2>2, <2>3 DEF Keeps
<1> QED BY <1>1, BoardInvariant, PTL DEF BoardSpec, ProjectionIsExact

(* For any runs and declarations: a runner whose view is current takes a   *)
(* card off the board only on the evidence of a run.                       *)
THEOREM CardsLeaveOnlyOnEvidence == BoardSpec => CardsLeaveOnEvidence
<1>1. ASSUME BoardInv, [BoardNext]_boardVars
      PROVE  \A r \in Runs, t \in Tasks :
                /\ r \in fresh /\ proc[r].out.whole /\ PutsBoard(r)
                /\ HasCard(board, t) /\ ~HasCard(board', t)
                => \E s \in Runs :
                      \/ t \in Scope(s) /\ disk[s].status[t] = "done"
                      \/ \E e \in Listed(Declared) \cup Listed(Registry) :
                            /\ e.old = t /\ e.new \in Scope(s)
                            /\ disk[s].closed /\ disk[s].status[e.new] = "done"
  <2> SUFFICES ASSUME NEW r \in Runs, NEW t \in Tasks, r \in fresh, proc[r].out.whole,
                      PutsBoard(r), HasCard(board, t), ~HasCard(board', t)
               PROVE  (\E s \in Runs : Backed(t, s)) \/ Replaced(t)
    BY DEF Backed, Replaced
  <2>1. PICK q \in Processes : proc[r] = q /\ Sound(r, q)
    BY <1>1, Soundness
  <2>2. WriteBoard(r)
    BY <1>1, Writers
  <2>3. PICK b \in q.out.board : board' = b
    BY <2>1, <2>2 DEF WriteBoard
  <2>4. q.out # NoOut /\ q.queue # << >>
    BY <2>1, <2>3, OffIs DEF Sound, QueueIsSound
  <2>5. PICK j \in Jobs : j = Head(q.queue) /\ j \in Listed(q.queue)
    BY <1>1, <2>1, <2>4, Pops
  <2>6. JobBacked(j)
    BY <2>1, <2>5 DEF Sound, QueueIsSound
  <2>7. /\ j.op = "project" => /\ KeepsOthers(board, b, {j.task})
                               /\ j.state # "done" => HasCard(b, j.task)
        /\ j.op = "remove" => KeepsOthers(board, b, j.tasks)
    BY <1>1, <2>1, <2>4, <2>5, FreshWrite DEF Sound
  <2>8. CASE j.op = "project"
    <3>1. t = j.task /\ j.state = "done"
      BY <2>3, <2>7, <2>8 DEF KeepsOthers
    <3> QED BY <2>6, <2>8, <3>1, JobIs DEF JobBacked
  <2>9. CASE j.op = "remove"
    <3>1. t \in j.tasks
      BY <2>3, <2>7, <2>9 DEF KeepsOthers
    <3> QED BY <2>6, <2>9, <3>1 DEF JobBacked
  <2> QED BY <2>8, <2>9, JobIs
<1> QED BY <1>1, BoardInvariant, PTL DEF BoardSpec, CardsLeaveOnEvidence
=============================================================================
