----------------------------- MODULE FileLease -----------------------------
(***************************************************************************)
(* The exclusive lock file behind PipelineLease and FileMutex:             *)
(* _FileLease.acquire / release / touch of                                 *)
(* feature_pipeline/infrastructure/locks/manager.py, one action per        *)
(* file-system call, so that other processes run between any two of them.  *)
(*                                                                         *)
(* A process slot is a PID.  life[p] counts the processes that have had    *)
(* PID p and stands for the nonce each of them mints on import (owner.py). *)
(* A lock record keeps the PID and nonce of its writer, and whether its    *)
(* heartbeat is older than the staleness policy's limit.                   *)
(***************************************************************************)
EXTENDS Naturals

CONSTANTS
    Proc,              \* PIDs that contend for the one lock file
    RequireHeartbeat,  \* StalenessPolicy.require_heartbeat
    MaxSpins,          \* _MAX_ZERO_TIMEOUT_SPINS
    MaxLife,           \* bound: processes started on one PID
    NoFile,            \* the lock file does not exist
    Garbage,           \* the lock file is unreadable, or records no PID
    Nobody             \* the owner of a free lease, in Mutex

ASSUME PolicyAssumption == RequireHeartbeat \in BOOLEAN
ASSUME BoundsAssumption == MaxSpins \in Nat /\ MaxLife \in Nat \ {0}

Record == [pid : Proc, life : 0..MaxLife, aged : BOOLEAN]

ASSUME FileAssumption == NoFile \notin Record /\ Garbage \notin Record
                         /\ NoFile # Garbage
ASSUME OwnerAssumption == Nobody \notin Proc

VARIABLES
    file,      \* the lock file
    alive,     \* alive[p]: pid_alive(p)
    life,      \* life[p]: nonce of the current (or last) process with PID p
    pc,        \* pc[p]: where in acquire / release / touch process p is
    seen,      \* seen[p]: the record p last read
    timeout,   \* timeout[p]: acquire_timeout_s, as one of Timeouts
    spins,     \* spins[p]: _FileLease.acquire's local counter
    expired,   \* expired[p]: the acquire deadline of p has passed
    usurped    \* history: a live process's record was removed or overwritten

vars == <<file, alive, life, pc, seen, timeout, spins, expired, usurped>>
local == <<seen, timeout, spins, expired>>   \* what acquire keeps while it loops

(* 0 seconds, some seconds, or None.                                       *)
Timeouts == {"zero", "bounded", "forever"}

Acquiring == {"link", "read", "judge", "reclaim"}
Holding   == {"held", "releaseUnlink", "touchReplace"}
Locations == Acquiring \cup Holding \cup {"idle", "releaseRead", "dead"}

FreshRecord(p) == [pid |-> p, life |-> life[p], aged |-> FALSE]

(* OwnerToken.matches: same PID and same nonce.  (A record without a nonce *)
(* would match on the PID alone; only versions before RS-02 wrote such.)   *)
Matches(p, rec) == rec \in Record /\ rec.pid = p /\ rec.life = life[p]

(* The record belongs to a process other than p that is still running.     *)
LiveOther(p, rec) == \E q \in Proc \ {p} : alive[q] /\ Matches(q, rec)

TypeOK ==
    /\ file \in Record \cup {NoFile, Garbage}
    /\ alive \in [Proc -> BOOLEAN]
    /\ life \in [Proc -> 0..MaxLife]
    /\ pc \in [Proc -> Locations]
    /\ seen \in [Proc -> Record \cup {NoFile, Garbage}]
    /\ timeout \in [Proc -> Timeouts]
    /\ spins \in [Proc -> 0..MaxSpins]
    /\ expired \in [Proc -> BOOLEAN]
    /\ usurped \in BOOLEAN

(* A run may find no lock file, a corrupt one, or one left by an earlier   *)
(* process of any PID (life 0); some PIDs are not in use yet.              *)
Init ==
    /\ alive \in [Proc -> BOOLEAN]
    /\ life = [p \in Proc |-> IF alive[p] THEN 1 ELSE 0]
    /\ file \in {NoFile, Garbage}
                \cup [pid : Proc, life : {0}, aged : {FALSE}]
    /\ pc = [p \in Proc |-> IF alive[p] THEN "idle" ELSE "dead"]
    /\ seen = [p \in Proc |-> NoFile]
    /\ timeout = [p \in Proc |-> "zero"]
    /\ spins = [p \in Proc |-> 0]
    /\ expired = [p \in Proc |-> FALSE]
    /\ usurped = FALSE

-----------------------------------------------------------------------------
(* acquire                                                                 *)

At(p, location) == pc[p] = location
Goto(p, location) == pc' = [pc EXCEPT ![p] = location]

(* acquire returns, raises or dies: its local variables are gone.          *)
Leave(p, location) ==
    /\ Goto(p, location)
    /\ seen' = [seen EXCEPT ![p] = NoFile]
    /\ timeout' = [timeout EXCEPT ![p] = "zero"]
    /\ spins' = [spins EXCEPT ![p] = 0]
    /\ expired' = [expired EXCEPT ![p] = FALSE]

Acquire(p) ==
    /\ At(p, "idle")
    /\ Goto(p, "link")
    /\ \E t \in Timeouts : timeout' = [timeout EXCEPT ![p] = t]
    /\ UNCHANGED <<file, alive, life, seen, spins, expired, usurped>>

(* Mutant: the lock is written in place, not linked exclusively.           *)
LinkOverwrites(p) ==
    /\ At(p, "link")
    /\ file' = FreshRecord(p)
    /\ Leave(p, "held")
    /\ UNCHANGED <<alive, life, usurped>>

(* os.link(temporary, path) creates the lock with its content, or finds it *)
(* taken.                                                                  *)
LinkCreates(p) ==
    /\ At(p, "link")
    /\ file = NoFile
    /\ file' = FreshRecord(p)
    /\ Leave(p, "held")
    /\ UNCHANGED <<alive, life, usurped>>

(* Mutant: the deadline is computed anew in every round.                   *)
LinkRearmsDeadline(p) ==
    /\ At(p, "link")
    /\ file # NoFile
    /\ Goto(p, "read")
    /\ expired' = [expired EXCEPT ![p] = FALSE]
    /\ UNCHANGED <<file, alive, life, seen, timeout, spins, usurped>>

LinkFindsLock(p) ==
    /\ At(p, "link")
    /\ file # NoFile
    /\ Goto(p, "read")
    /\ UNCHANGED <<file, alive, life, local, usurped>>

(* Any other OSError leaves acquire with the lock untouched.               *)
LinkFails(p) ==
    /\ At(p, "link")
    /\ Leave(p, "idle")
    /\ UNCHANGED <<file, alive, life, usurped>>

(* Mutant: no caller is bounded.                                           *)
NeverGiveUp(p) == Goto(p, "link") /\ UNCHANGED local

(* _bump_spins: a zero-timeout caller gives up (LeaseHeld) after MaxSpins; *)
(* nobody reads the counter of the others.                                 *)
BumpSpins(p) ==
    CASE timeout[p] # "zero"  -> Goto(p, "link") /\ UNCHANGED local
      [] timeout[p] = "zero" /\ spins[p] < MaxSpins ->
            /\ Goto(p, "link")
            /\ spins' = [spins EXCEPT ![p] = @ + 1]
            /\ UNCHANGED <<seen, timeout, expired>>
      [] OTHER -> Leave(p, "idle")

(* read_holder: the lock was freed in between, or its record is kept for   *)
(* the decision.  Re-reads of an unreadable lock are this action, taken    *)
(* when the last of them happens.                                          *)
ReadFreed(p) ==
    /\ At(p, "read")
    /\ file = NoFile
    /\ BumpSpins(p)
    /\ UNCHANGED <<file, alive, life, usurped>>

ReadRecord(p) ==
    /\ At(p, "read")
    /\ file # NoFile
    /\ seen' = [seen EXCEPT ![p] = file]
    /\ Goto(p, "judge")
    /\ UNCHANGED <<file, alive, life, timeout, spins, expired, usurped>>

(* Mutants: an owner that cannot be told counts as dead; a dead owner must *)
(* have an old heartbeat as well.                                          *)
ReclaimableIfUnknown(rec) ==
    IF rec \in Record THEN ~alive[rec.pid] ELSE rec = Garbage

ReclaimableIfDeadAndAged(rec) == rec \in Record /\ ~alive[rec.pid] /\ rec.aged

(* _reclaimable: the PID is dead, or the policy asks for heartbeats and    *)
(* the recorded one is too old.                                            *)
Reclaimable(rec) ==
    /\ rec \in Record
    /\ \/ ~alive[rec.pid]
       \/ RequireHeartbeat /\ rec.aged

(* The decision on what was read: the PID is probed now, the record may no *)
(* longer be the file's.                                                   *)
JudgeReclaimable(p) ==
    /\ At(p, "judge")
    /\ Reclaimable(seen[p])
    /\ Goto(p, "reclaim")
    /\ UNCHANGED <<file, alive, life, local, usurped>>

(* LeaseHeld at once: nothing to wait for, or not willing to wait.         *)
JudgeHeld(p) ==
    /\ At(p, "judge")
    /\ ~Reclaimable(seen[p])
    /\ seen[p] = Garbage \/ timeout[p] = "zero"
    /\ Leave(p, "idle")
    /\ UNCHANGED <<file, alive, life, usurped>>

(* LeaseTimeout: the deadline is only looked at here.                      *)
JudgeTimedOut(p) ==
    /\ At(p, "judge")
    /\ ~Reclaimable(seen[p])
    /\ seen[p] # Garbage
    /\ expired[p]
    /\ Leave(p, "idle")
    /\ UNCHANGED <<file, alive, life, usurped>>

(* time.sleep(poll_interval_s), then the create is tried again.            *)
JudgeWaits(p) ==
    /\ At(p, "judge")
    /\ ~Reclaimable(seen[p])
    /\ seen[p] # Garbage
    /\ timeout[p] # "zero" /\ ~expired[p]
    /\ Goto(p, "link")
    /\ UNCHANGED <<file, alive, life, local, usurped>>

(* _unlink_quietly(path) removes whatever lock is there now.               *)
Reclaim(p) ==
    /\ At(p, "reclaim")
    /\ file' = NoFile
    /\ usurped' = (usurped \/ LiveOther(p, file))
    /\ BumpSpins(p)
    /\ UNCHANGED <<alive, life>>

-----------------------------------------------------------------------------
(* release and touch                                                       *)

Release(p) ==
    /\ At(p, "held")
    /\ Goto(p, "releaseRead")
    /\ UNCHANGED <<file, alive, life, local, usurped>>

ReleaseRead(p) ==
    /\ At(p, "releaseRead")
    /\ Goto(p, IF Matches(p, file) THEN "releaseUnlink" ELSE "idle")
    /\ UNCHANGED <<file, alive, life, local, usurped>>

ReleaseUnlink(p) ==
    /\ At(p, "releaseUnlink")
    /\ file' = NoFile
    /\ usurped' = (usurped \/ LiveOther(p, file))
    /\ Goto(p, "idle")
    /\ UNCHANGED <<alive, life, local>>

(* touch: a record that is no longer p's raises NotLeaseOwner, which       *)
(* leaves the `with` block and so releases.                                *)
TouchRead(p) ==
    /\ At(p, "held")
    /\ Goto(p, IF Matches(p, file) THEN "touchReplace" ELSE "releaseRead")
    /\ UNCHANGED <<file, alive, life, local, usurped>>

(* os.replace(temp, path) overwrites whatever lock is there now.           *)
TouchReplace(p) ==
    /\ At(p, "touchReplace")
    /\ file' = FreshRecord(p)
    /\ usurped' = (usurped \/ LiveOther(p, file))
    /\ Goto(p, "held")
    /\ UNCHANGED <<alive, life, local>>

-----------------------------------------------------------------------------
(* The environment: clocks, crashes, and PIDs used again.                  *)

DeadlinePasses(p) ==
    /\ pc[p] \in Acquiring
    /\ timeout[p] = "bounded" /\ ~expired[p]
    /\ expired' = [expired EXCEPT ![p] = TRUE]
    /\ UNCHANGED <<file, alive, life, pc, seen, timeout, spins, usurped>>

Older(rec) == IF rec \in Record THEN [rec EXCEPT !.aged = TRUE] ELSE rec

(* Every heartbeat stamp that exists now passes the limit, on disk and in  *)
(* the copies already read.                                                *)
HeartbeatsAge ==
    /\ RequireHeartbeat
    /\ file \in Record /\ ~file.aged
    /\ file' = Older(file)
    /\ seen' = [p \in Proc |-> Older(seen[p])]
    /\ UNCHANGED <<alive, life, pc, timeout, spins, expired, usurped>>

Crash(p) ==
    /\ alive[p]
    /\ alive' = [alive EXCEPT ![p] = FALSE]
    /\ Leave(p, "dead")
    /\ UNCHANGED <<file, life, usurped>>

(* The operating system gives PID p to a new process, with a new nonce.    *)
Start(p) ==
    /\ ~alive[p] /\ life[p] < MaxLife
    /\ alive' = [alive EXCEPT ![p] = TRUE]
    /\ life' = [life EXCEPT ![p] = @ + 1]
    /\ Goto(p, "idle")
    /\ UNCHANGED <<file, local, usurped>>

-----------------------------------------------------------------------------
(* What a running process does without waiting for anybody: every step of  *)
(* acquire and release, but neither the decision to acquire nor the end of *)
(* the critical section.                                                   *)
Step(p) ==
    \/ LinkCreates(p) \/ LinkFindsLock(p)
    \/ ReadFreed(p) \/ ReadRecord(p)
    \/ JudgeReclaimable(p) \/ JudgeHeld(p) \/ JudgeTimedOut(p) \/ JudgeWaits(p)
    \/ Reclaim(p)
    \/ ReleaseRead(p) \/ ReleaseUnlink(p) \/ TouchReplace(p)

Next ==
    \/ \E p \in Proc :
          \/ Acquire(p) \/ LinkFails(p) \/ Release(p) \/ TouchRead(p)
          \/ Step(p)
          \/ DeadlinePasses(p) \/ Crash(p) \/ Start(p)
    \/ HeartbeatsAge

Spec == Init /\ [][Next]_vars

(* A process that has not crashed keeps executing, and clocks advance.     *)
Fairness == \A p \in Proc : WF_vars(Step(p)) /\ WF_vars(DeadlinePasses(p))

FairSpec == Spec /\ Fairness
-----------------------------------------------------------------------------
(* Properties                                                              *)

InHold(p) == pc[p] \in Holding

(* Two processes are never inside the critical section together: the       *)
(* promise of pipeline_core/lease.py, "Exactly one write-capable process   *)
(* may hold a given lease at a time", over every interleaving of the       *)
(* create, read, probe and unlink calls, crashes and reused PIDs.          *)
MutualExclusion == \A p, q \in Proc : InHold(p) /\ InHold(q) => p = q

(* As long as no unlink or replace hit a running process's record, every   *)
(* process that believes it holds the lease is alive and the file says so. *)
(* It names the only way the lease can fail: reclaiming on a stale read.   *)
HolderOwnsFile ==
    ~usurped => \A p \in Proc : InHold(p) => alive[p] /\ Matches(p, file)

(* The first time a running process loses its record, the step that took   *)
(* it is a reclaim: release and touch, which also read before they write,  *)
(* never start it.                                                         *)
OnlyReclaimUsurps ==
    [][~usurped /\ usurped' => \E p \in Proc : At(p, "reclaim")]_vars

(* The multi-step lock file behaves as a lock taken and given in one step. *)
Holder == IF \E p \in Proc : InHold(p) THEN CHOOSE p \in Proc : InHold(p)
                                       ELSE Nobody
M == INSTANCE Mutex WITH owner <- Holder
ImplementsMutex == M!Spec

(* A zero-timeout caller (PipelineLease) always gets a verdict, however    *)
(* often other processes take and free the lease under it.                 *)
ZeroTimeoutAnswers ==
    \A p \in Proc :
        pc[p] \in Acquiring /\ timeout[p] = "zero" ~> pc[p] \notin Acquiring

(* A bounded caller (FileMutex) gets a verdict, unless the lock was free   *)
(* at some moment while it waited: no deadline is consulted on the path    *)
(* that found the lock freed.                                              *)
BoundedWaitAnswers ==
    \A p \in Proc :
        pc[p] \in Acquiring /\ timeout[p] = "bounded"
            ~> pc[p] \notin Acquiring \/ file = NoFile

(* A lock left by a dead process does not keep a waiting process out for   *)
(* ever, whatever its timeout.                                             *)
DeadOwnerReclaimed ==
    \A p \in Proc :
        []<>~(/\ pc[p] \in Acquiring
              /\ file \in Record /\ ~alive[file.pid])
=============================================================================
