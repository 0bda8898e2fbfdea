------------------------------ MODULE RunStore ------------------------------
(***************************************************************************)
(* The run directories of one feature and the clients that write them      *)
(* through RunPersistence (run_repository.py): StateRepository             *)
(* (repository.py) with its compare-and-set commit, FileArtifactStore      *)
(* (store.py), orphan reconciliation (orphans.py), and the allocation and  *)
(* the latest pointer of runs (run_layout.py).                             *)
(*                                                                         *)
(* A step ends at each rename that makes something visible, between the    *)
(* comparison of a commit and its write, and between the load, the listing *)
(* and each move of a reconciliation; a crash may fall after any step, and *)
(* nothing keeps the operations of two clients apart.  The rename of       *)
(* atomic_write makes a file appear whole: a torn file is not a state here. *)
(***************************************************************************)
EXTENDS StateSchema, FiniteSets

CONSTANTS
    Clients,       \* processes, each with at most one LoadedState
    RunIds,
    Inherited,     \* run.json that an earlier version may have left
    ReadPolicies,  \* the unknown_fields arguments the clients use
    StatusCalls,   \* <<status, resolution, reason given>> that clients ask for
    SingleActive,  \* RunIdentityPolicy is "single-active-run"
    MaxRevision    \* bound: revisions of each run

ASSUME InheritedAssumption ==
    Inherited \subseteq {s \in States : s.version = 2 => s.revision = 0}
ASSUME PolicyAssumption == ReadPolicies \subseteq Policies
ASSUME StatusAssumption ==
    StatusCalls \subseteq Product \X (Resolutions \cup {None}) \X BOOLEAN
ASSUME SwitchAssumption == SingleActive \in BOOLEAN
ASSUME BoundAssumption == MaxRevision \in [RunIds -> Nat]

(* None is no run, no revision, no document and nothing a client holds.    *)
ASSUME DistinctNone ==
    None \notin RunIds \cup Nat \cup States \cup [run : RunIds, state : States]

VARIABLES
    dirs,      \* the <run-id>/ directories that exist
    json,      \* run.json of each run, or None
    files,     \* names under reports/ and logs/
    orphans,   \* names under orphans/
    latest,    \* run that latest.json names, or None
    pc,        \* where the client is in an operation, or "idle"
    held,      \* the client's LoadedState: [run, state], or None
    work,      \* what its operation is about to write or move
    raced,     \* history: runs of which two commits met
    swept      \* history: runs of which a commit and a reconciliation met

vars == <<dirs, json, files, orphans, latest, pc, held, work, raced, swept>>
storage == <<dirs, json, files, orphans, latest>>
history == <<raced, swept>>

Points == {"idle", "initialise", "point", "publish", "check", "replace", "list", "move"}

NoWork == [run |-> None, state |-> None, file |-> None, todo |-> {}]

Works == [run : RunIds \cup {None}, state : States \cup {None},
          file : Names \cup {None}, todo : SUBSET Names]

TypeOK ==
    /\ dirs \subseteq RunIds
    /\ json \in [RunIds -> States \cup {None}]
    /\ files \in [RunIds -> SUBSET Names]
    /\ orphans \in [RunIds -> SUBSET Names]
    /\ latest \in RunIds \cup {None}
    /\ pc \in [Clients -> Points]
    /\ held \in [Clients -> [run : RunIds, state : States] \cup {None}]
    /\ work \in [Clients -> Works]
    /\ raced \subseteq RunIds /\ swept \subseteq RunIds
    /\ \A c \in Clients : held[c] # None => TaskParses(held[c].state)
-----------------------------------------------------------------------------
(* An earlier version has left nothing, or a run with its evidence, whose  *)
(* run.json may be of schema 2 (which counts no revisions), have fields    *)
(* schema 3 does not know, or be damaged.                                  *)
Init ==
    /\ \/ /\ dirs = {} /\ latest = None
          /\ json = [r \in RunIds |-> None]
          /\ files = [r \in RunIds |-> {}]
       \/ \E r \in RunIds, s \in Inherited :
             /\ dirs = {r} /\ latest = r
             /\ json = [q \in RunIds |-> IF q = r THEN s ELSE None]
             /\ files = [q \in RunIds |-> IF q = r THEN Referenced(s) ELSE {}]
    /\ orphans = [r \in RunIds |-> {}]
    /\ pc = [c \in Clients |-> "idle"]
    /\ held = [c \in Clients |-> None]
    /\ work = [c \in Clients |-> NoWork]
    /\ raced = {} /\ swept = {}

Goto(c, point) == pc' = [pc EXCEPT ![c] = point]

(* An operation starts.                                                    *)
Begins(c) == pc[c] = "idle"

Keep(c, w) == work' = [work EXCEPT ![c] = w]

Done(c) == Goto(c, "idle") /\ Keep(c, NoWork)

(* Another client is in an operation on the same run.                      *)
OthersAt(c, points, r) == {d \in Clients \ {c} : pc[d] \in points /\ work[d].run = r}
-----------------------------------------------------------------------------
(* initialise_run                                                          *)

(* Mutant: latest.json is written with the directory.                      *)
AllocatePoints(c, r) ==
    /\ Begins(c)
    /\ SingleActive => latest = None
    /\ r \notin dirs
    /\ dirs' = dirs \cup {r}
    /\ latest' = r
    /\ Goto(c, "initialise")
    /\ Keep(c, [NoWork EXCEPT !.run = r])
    /\ UNCHANGED <<json, files, orphans, held, history>>

(* allocate_run: refused for a directory that exists and, under single-    *)
(* active-run, while latest.json does.                                     *)
Allocate(c, r) ==
    /\ Begins(c)
    /\ SingleActive => latest = None
    /\ r \notin dirs
    /\ dirs' = dirs \cup {r}
    /\ Goto(c, "initialise")
    /\ Keep(c, [NoWork EXCEPT !.run = r])
    /\ UNCHANGED <<json, files, orphans, latest, held, history>>

(* initialise never touches a run.json that is there.                      *)
Initialise(c) ==
    LET r == work[c].run IN
    /\ pc[c] = "initialise"
    /\ \/ json[r] # None /\ Done(c) /\ UNCHANGED json
       \/ /\ json[r] = None
          /\ json' = [json EXCEPT ![r] = FreshState]
          /\ Goto(c, "point") /\ UNCHANGED work
    /\ UNCHANGED <<dirs, files, orphans, latest, held, history>>

WriteLatest(c) ==
    /\ pc[c] = "point"
    /\ latest' = work[c].run
    /\ held' = [held EXCEPT ![c] = [run |-> work[c].run, state |-> FreshState]]
    /\ Done(c)
    /\ UNCHANGED <<dirs, json, files, orphans, history>>
-----------------------------------------------------------------------------
(* open and resume, of a named run or of the one latest.json names         *)

(* resume_run with an explicit id, or with read_latest.                    *)
Resolves(r) == r \in dirs

ReadsRun(c, r, policy) ==
    /\ Begins(c)
    /\ Resolves(r)
    /\ json[r] # None
    /\ Loads(json[r], policy)

Open(c, r, policy) ==
    /\ ReadsRun(c, r, policy)
    /\ held' = [held EXCEPT ![c] = [run |-> r, state |-> Load(json[r], policy)]]
    /\ UNCHANGED <<storage, pc, work, history>>

(* The state is loaded, then the files are listed: what the state names is *)
(* kept.  (The two directories are listed in one step here.)               *)
Resume(c, r, policy) ==
    /\ ReadsRun(c, r, policy)
    /\ Keep(c, [run |-> r, state |-> Load(json[r], policy), file |-> None, todo |-> {}])
    /\ Goto(c, "list")
    /\ UNCHANGED <<storage, held, history>>

List(c) ==
    /\ pc[c] = "list"
    /\ work' = [work EXCEPT ![c].todo = files[work[c].run] \ Referenced(work[c].state)]
    /\ Goto(c, "move")
    /\ UNCHANGED <<storage, held, history>>

(* path.replace(destination): whatever has that name under orphans/ goes.  *)
(* A file that is gone by now is passed over.                              *)
Move(c, n) ==
    LET r == work[c].run
        written == {d \in OthersAt(c, {"check", "replace"}, r) : work[d].file = n} IN
    /\ pc[c] = "move"
    /\ n \in work[c].todo
    /\ work' = [work EXCEPT ![c].todo = @ \ {n}]
    /\ \/ /\ n \in files[r]
          /\ files' = [files EXCEPT ![r] = @ \ {n}]
          /\ orphans' = [orphans EXCEPT ![r] = @ \cup {n}]
          /\ swept' = IF written = {} THEN swept ELSE swept \cup {r}
       \/ n \notin files[r] /\ UNCHANGED <<files, orphans, swept>>
    /\ UNCHANGED <<dirs, json, latest, pc, held, raced>>

Resumed(c) ==
    /\ pc[c] = "move" /\ work[c].todo = {}
    /\ held' = [held EXCEPT ![c] = [run |-> work[c].run, state |-> work[c].state]]
    /\ Done(c)
    /\ UNCHANGED <<storage, history>>
-----------------------------------------------------------------------------
(* The writes                                                              *)

(* Mutant: the state is committed without publishing the file.             *)
WritesFirst(c, state, file) ==
    /\ Begins(c)
    /\ held[c].state.revision < MaxRevision[held[c].run]
    /\ Keep(c, [run |-> held[c].run, state |-> state, file |-> file,
                todo |-> {}])
    /\ Goto(c, "check")
    /\ UNCHANGED <<storage, held, history>>

(* An operation on the state the client holds, which may be an old one.    *)
Writes(c, state, file) ==
    /\ Begins(c)
    /\ held[c].state.revision < MaxRevision[held[c].run]
    /\ Keep(c, [run |-> held[c].run, state |-> state, file |-> file,
                todo |-> {}])
    /\ Goto(c, IF file = None THEN "check" ELSE "publish")
    /\ UNCHANGED <<storage, held, history>>

(* commit: a snapshot its caller built.                                    *)
Commit(c) ==
    /\ held[c] # None
    /\ \E s \in Rebuilt(held[c].state) : Writes(c, s, None)

(* Its log is published and registered with it, if it has one.             *)
RecordCommand(c, log, logged) ==
    /\ held[c] # None
    /\ LET s == WithCommand(held[c].state, log) IN
         IF logged THEN Writes(c, WithArtifact(s, log, log), log) ELSE Writes(c, s, None)

(* mutate is none, or records an operation that names the report.  (If it  *)
(* refuses, the report is published and the call raises: Publish, Raises.) *)
RecordReport(c, k, n, o) ==
    /\ held[c] # None
    /\ LET s == WithArtifact(held[c].state, k, n) IN
         IF o = None THEN Writes(c, s, n)
         ELSE ~OperationRefused(s, o, n) /\ Writes(c, WithOperation(s, o, n), n)

(* Nothing looks whether the file an operation names is there.             *)
RecordOperation(c, o, e) ==
    /\ held[c] # None
    /\ ~OperationReplayed(held[c].state, o, e)
    /\ ~OperationRefused(held[c].state, o, e)
    /\ Writes(c, WithOperation(held[c].state, o, e), None)

SetStatus(c, status, resolution, reason) ==
    /\ held[c] # None
    /\ ~StatusRefused(status, resolution, reason)
    /\ Writes(c, WithStatus(held[c].state, status, resolution), None)

Publish(c) ==
    /\ pc[c] = "publish"
    /\ files' = [files EXCEPT ![work[c].run] = @ \cup {work[c].file}]
    /\ Goto(c, "check")
    /\ UNCHANGED <<dirs, json, orphans, latest, held, work, history>>

(* _read_revision; a schema-2 file has none.                               *)
FoundRevision(r) ==
    IF json[r] = None \/ json[r].version = 2 THEN None ELSE json[r].revision

(* Mutant: the commit is given no expected revision.                       *)
RevisionIgnored(c) == FoundRevision(held[c].run) \in {None} \cup Nat

RevisionHolds(c) ==
    FoundRevision(held[c].run) \in {None, held[c].state.revision}

CheckRevision(c) ==
    /\ pc[c] = "check"
    /\ \/ RevisionHolds(c) /\ Goto(c, "replace") /\ UNCHANGED work
       \/ ~RevisionHolds(c) /\ Done(c)
    /\ UNCHANGED <<storage, held, history>>

(* The document is written over, whatever it is by now.                    *)
Replace(c) ==
    LET r == work[c].run
        committed == Committed(work[c].state)
        Met(points) == IF OthersAt(c, points, r) = {} THEN {} ELSE {r} IN
    /\ pc[c] = "replace"
    /\ json' = [json EXCEPT ![r] = committed]
    /\ held' = [held EXCEPT ![c].state = committed]
    /\ raced' = raced \cup Met({"replace"})
    /\ swept' = swept \cup Met({"list", "move"})
    /\ Done(c)
    /\ UNCHANGED <<dirs, files, orphans, latest>>
-----------------------------------------------------------------------------
(* A write raises (disk full, rename refused): the client keeps the state  *)
(* it held.                                                                *)
Raises(c) ==
    /\ pc[c] # "idle"
    /\ Done(c)
    /\ UNCHANGED <<storage, held, history>>

Crash(c) ==
    /\ pc[c] # "idle" \/ held[c] # None
    /\ Done(c)
    /\ held' = [held EXCEPT ![c] = None]
    /\ UNCHANGED <<storage, history>>

Reading(c) ==
    \/ \E r \in RunIds, policy \in ReadPolicies : Open(c, r, policy) \/ Resume(c, r, policy)
    \/ List(c)
    \/ \E n \in Names : Move(c, n)
    \/ Resumed(c)

Starting(c) ==
    \/ Commit(c)
    \/ \E log \in Logs, logged \in BOOLEAN : RecordCommand(c, log, logged)
    \/ \E k \in Keys, n \in Names \ Logs, o \in OpIds \cup {None} : RecordReport(c, k, n, o)
    \/ \E o \in OpIds, e \in Evidence : RecordOperation(c, o, e)
    \/ \E call \in StatusCalls : SetStatus(c, call[1], call[2], call[3])

Next ==
    \E c \in Clients :
       \/ \E r \in RunIds : Allocate(c, r)
       \/ Initialise(c) \/ WriteLatest(c)
       \/ Reading(c) \/ Starting(c)
       \/ Publish(c) \/ CheckRevision(c) \/ Replace(c)
       \/ Raises(c) \/ Crash(c)

Spec == Init /\ [][Next]_vars
-----------------------------------------------------------------------------
(* Properties                                                              *)

(* Evidence is published before it is registered, and never deleted: every *)
(* file the registry of a run.json names was written and is in the run's   *)
(* directory or among its orphans, whatever crashed, failed, conflicted or *)
(* overlapped; and it is where run.json says unless a commit met another   *)
(* client's commit or reconciliation.  (run_repository.py: "publish-before- *)
(* reference".  The files operations name are not checked: EvidencePublished.) *)
RegistryIsFounded ==
    \A r \in RunIds : json[r] # None =>
       /\ Registry(json[r]) \subseteq files[r] \cup orphans[r]
       /\ r \notin raced \cup swept => Registry(json[r]) \subseteq files[r]

(* A client reads latest.json and finds a run: a crash while a run is      *)
(* created leaves the pointer on the run before.                           *)
LatestReadable == latest # None => latest \in dirs /\ json[latest] # None

(* Types, and with them that a client only ever holds a document schema 3  *)
(* accepts; and the pointer it was found by.                               *)
StoreIsReadable == TypeOK /\ LatestReadable

(* A state that a reader makes of the document.                            *)
ReadFrom(s, document) == \E policy \in Policies : s = Load(document, policy)

CommitsWhatIsThere(r) ==
    /\ json'[r].revision = json[r].revision + 1
    /\ \E c \in Clients :
          pc[c] = "replace" /\ work[c].run = r /\ ReadFrom(held[c].state, json[r])

(* The revision token protects every update but those in one window: what  *)
(* a commit replaces is what its client had read, whatever it did since    *)
(* and whoever else wrote, unless two commits of the run were between      *)
(* their comparison and their write at once (repository.py:106-113).       *)
CommitIsCurrent ==
    [][\A r \in RunIds : json[r] # None /\ json'[r] # json[r] =>
          r \in raced' \/ CommitsWhatIsThere(r)]_vars
-----------------------------------------------------------------------------
(* What the repository says of the store and the code does not keep.       *)

(* docs/adr/005 and repository.py:18: "never last-write-wins".  Not kept:  *)
(* nothing holds the revision that was compared until the write.           *)
NeverLastWriteWins ==
    [][\A r \in RunIds : json[r] # None /\ json'[r] # json[r] =>
          CommitsWhatIsThere(r)]_vars

(* run_repository.py:25: "A run.json therefore never references an         *)
(* unpublished artifact (AC-1)".  Not kept for the evidence_refs of an     *)
(* operation, which may be any path.                                       *)
EvidencePublished ==
    \A r \in RunIds : json[r] # None => Referenced(json[r]) \subseteq files[r] \cup orphans[r]
=============================================================================
