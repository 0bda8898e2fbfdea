---------------------------- MODULE ExecutorWindow ----------------------------
(***************************************************************************)
(* One task's executor windows (pipeline_core/dispatch.py): the disposable *)
(* copy of the repository, the launch through an adapter (in a container   *)
(* for the contained one), the settlement of its result, the attribution   *)
(* of what changed (infrastructure/worktree/inspector.py) and the          *)
(* promotion of the changes, path by path, into the primary worktree.      *)
(* Paths are numbered in the order the inspector sorts them.               *)
(***************************************************************************)
EXTENDS LaunchPolicy

CONSTANTS
    Paths,        \* the repository-relative paths, numbers in sorted order
    InScope,      \* those the task's allowed scope matches
    Unsafe,       \* those _unsafe_scope_amendment_path names
    Base,         \* the committed content of each path
    Folder,       \* the directory each path is in
    Depth,        \* the number of parts of each path
    StagedSets,   \* the sets of paths an executor may leave in the Git index
    MaxLaunches,  \* bound: launch generations of the task
    MaxUserEdits  \* bound: edits of the primary worktree by someone else

NoFile == "no file"
Unreadable == "unreadable"
Contents == {NoFile, "base", "user", "work", "token", Unreadable}

ASSUME PathsAssumption ==
    /\ Paths \subseteq Nat /\ IsFiniteSet(Paths)
    /\ InScope \subseteq Paths /\ Unsafe \subseteq Paths
    /\ Base \in [Paths -> {NoFile, "base"}]
    /\ Depth \in [Paths -> Nat]
    /\ StagedSets \subseteq SUBSET Paths /\ {} \in StagedSets
    /\ MaxLaunches \in Nat /\ MaxUserEdits \in Nat

\* The two names the child's own working root goes by are no folders of the project.
OwnRoots == {"working root", "workspace"}
ASSUME FolderAssumption == Folder \in [Paths -> STRING] /\ \A p \in Paths : Folder[p] \notin OwnRoots

VARIABLES
    adapter,   \* the adapter the task is routed to
    pc,        \* where the dispatch is
    primary,   \* the primary worktree
    opened,    \* the primary worktree when the window opened: what was copied
    copy,      \* the disposable workspace
    box,       \* the tree the executor edits: the copy, or the container's part of it
    index,     \* the Git index of the workspace
    head,      \* the commit the workspace's HEAD names
    token,     \* what the launch came to
    state,     \* the attribution state
    rows,      \* the paths attributed to the window
    todo,      \* the rows promotion has still to look at
    memory,    \* the run record in memory
    disk,      \* the run record in run.json
    docker,    \* what exists in Docker: network, proxy, container
    created,   \* network_created
    clean,     \* ghost: every Docker control command did what it said, no kill, no crash
    edited,    \* ghost: paths somebody else edited while no window was open
    late,      \* ghost: paths somebody else edited since the window opened
    reviewed,  \* ghost: paths some saved record reported as a scope amendment
    torn,      \* ghost: a crash fell into a promotion
    edits      \* number of edits by somebody else

trees == <<primary, opened, copy, box, index, head>>
result == <<token, state, rows, todo>>
record == <<memory, disk>>
container == <<docker, created, clean>>
ghosts == <<edited, late, reviewed, torn, edits>>
vars == <<adapter, pc, trees, result, record, container, ghosts>>

Pcs == {"idle", "copied", "network", "proxy", "version", "copy in", "probe", "running",
        "copy out", "cleanup proxy", "cleanup network", "returned", "envelope",
        "settled", "recorded", "promoting"}

Notes == {"none", "started", "failed", "blocked", "succeeded"}
Records == [generation : 0..MaxLaunches,
            changed : SUBSET Paths, amended : SUBSET Paths, last : Notes]

TypeOK ==
    /\ adapter \in Adapters
    /\ pc \in Pcs
    /\ primary \in [Paths -> Contents] /\ opened \in [Paths -> Contents]
    /\ copy \in [Paths -> Contents] /\ box \in [Paths -> Contents]
    /\ index \in [Paths -> Contents] /\ head \in [Paths -> Contents]
    /\ token \in {"none", "implemented", "blocked", "retryable", "raised"}
    /\ state \in {"none", "known", "known-empty", "unavailable"}
    /\ rows \subseteq Paths /\ todo \subseteq rows
    /\ memory \in Records /\ disk \in Records
    /\ docker \subseteq {"network", "proxy", "container"}
    /\ created \in BOOLEAN /\ clean \in BOOLEAN
    /\ edited \subseteq Paths /\ late \subseteq Paths /\ reviewed \subseteq Paths
    /\ torn \in BOOLEAN /\ edits \in 0..MaxUserEdits
-----------------------------------------------------------------------------
(***************************************************************************)
(* What Git reports of the workspace: every path whose file, index entry   *)
(* and HEAD entry are not the same (status --porcelain, ls-files --others) *)
(***************************************************************************)
Reported(tree, idx, hd) == {p \in Paths : tree[p] # idx[p] \/ idx[p] # hd[p]}

\* The paths whose bytes the marker holds: those reported when the window opened.
OpenBodies == {p \in Paths : opened[p] # Base[p]}

\* git show :path of an index that no longer has the entry fails.
Blob(p) == IF index[p] = NoFile THEN Unreadable ELSE index[p]

(***************************************************************************)
(* The content a path had when the window opened, as the inspector finds   *)
(* it: the bytes it read then, or the blob the index holds NOW for a path  *)
(* the index had then, or nothing for one it did not have.                 *)
(***************************************************************************)
BeforeIndexed(p) == IF Base[p] # NoFile THEN Blob(p) ELSE NoFile      \* Mutant: no open bodies
Before(p) == IF p \in OpenBodies THEN opened[p]
             ELSE IF Base[p] # NoFile THEN Blob(p) ELSE NoFile

Candidates == OpenBodies \cup Reported(copy, index, head)
Attributed == {p \in Candidates : Before(p) # copy[p]}
Ambiguous == \E p \in Attributed : Unreadable \in {Before(p), copy[p]}
OutOfScope(paths) == paths \ InScope

\* Mutant: what was dirty before the window is promoted like the rest.
PreservedNever(p) == FALSE
\* A path the opening snapshot holds is promoted only if in scope and recorded as changed.
Preserved(p) == p \in OpenBodies /\ (p \notin InScope \/ p \notin memory.changed)

ScopeBlockProvenance == state = "unavailable" /\ rows # {}            \* Mutant: no unsafe paths
ScopeBlock == \/ state = "unavailable" /\ rows # {}
              \/ OutOfScope(rows) \cap Unsafe # {}

Goto(next) == pc' = next

Saved(rec) == /\ memory' = rec
              /\ disk' = rec

\* _retryable_failure: the diagnostic is recorded and saved; the task stays where it is.
Retry == /\ token' = "retryable"
         /\ Saved([memory EXCEPT !.last = "failed"])
         /\ Goto("idle")

\* An exception that is no AdapterError: nobody records it, and the invocation is over.
Raise == /\ token' = "raised"
         /\ memory' = disk
         /\ Goto("idle")
         /\ UNCHANGED disk
-----------------------------------------------------------------------------
Fresh == [generation |-> 0, changed |-> {}, amended |-> {},
          last |-> "none"]

Init ==
    /\ adapter \in Adapters
    /\ pc = "idle"
    /\ primary = Base /\ opened = Base /\ copy = Base /\ box = Base
    /\ index = Base /\ head = Base
    /\ token = "none" /\ state = "none" /\ rows = {} /\ todo = {}
    /\ memory = Fresh /\ disk = Fresh
    /\ docker = {} /\ created = FALSE /\ clean = TRUE
    /\ edited = {} /\ late = {} /\ reviewed = {} /\ torn = FALSE /\ edits = 0

(***************************************************************************)
(* The generation is consumed and saved before anything is launched; the   *)
(* repository is copied and the marker is captured in the copy.            *)
(***************************************************************************)
Dispatch ==
    /\ pc = "idle"
    /\ disk.generation < MaxLaunches
    /\ Saved([disk EXCEPT !.generation = @ + 1, !.last = "started"])
    /\ opened' = primary /\ copy' = primary /\ box' = primary
    /\ index' = Base /\ head' = Base
    /\ token' = "none" /\ state' = "none" /\ rows' = {} /\ todo' = {}
    /\ late' = {} /\ clean' = (docker = {}) /\ created' = FALSE
    /\ Goto("copied")
    /\ UNCHANGED <<adapter, primary, docker, edited, reviewed, torn, edits>>

(***************************************************************************)
(* launch: no child process exists before the request is admitted.  The    *)
(* container adapter then needs its images before it creates anything.     *)
(***************************************************************************)
TaskRequest == Sealed(ExecutorRequest("executor", InScope, Capabilities, {}, {}))
StatusRequest == Sealed(EnvelopeRequest("executor", InScope, Capabilities))
Proof(complete) == [complete |-> complete, runtime |-> adapter, surface |-> adapter]

Launch ==
    /\ pc = "copied"
    /\ \/ \E proven \in BOOLEAN :
             /\ Admitted(adapter, TaskRequest, Proof(proven), {})
             /\ Goto(IF adapter = "docker" THEN "network" ELSE "running")
          /\ UNCHANGED <<token, memory, disk>>
       \/ Retry                                        \* refused, or no executable or image
    /\ UNCHANGED <<adapter, trees, state, rows, todo, container, ghosts>>

(***************************************************************************)
(* A Docker control command succeeds, or reports a failure; one that ran   *)
(* into its own timeout reports a failure and may have done its work.      *)
(***************************************************************************)
Control(from, things, leftovers, next) ==
    /\ pc = from
    /\ \/ /\ docker' = docker \cup things
          /\ Goto(next)
          /\ UNCHANGED <<token, clean>>
       \/ /\ \E done \in SUBSET leftovers : /\ docker' = docker \cup done
                                         /\ clean' = (clean /\ done = {})
          /\ token' = "retryable"
          /\ Goto("cleanup proxy")
    /\ UNCHANGED <<adapter, trees, state, rows, todo, record, ghosts>>

CreateNetwork == /\ Control("network", {"network"}, {"network"}, "proxy")
                 /\ created' = (pc' = "proxy")

StartProxy == Control("proxy", {"proxy"}, {"proxy"}, "version") /\ UNCHANGED created

\* The version probe is a child of the runner: a kill of the client leaves the container.
CheckVersion == Control("version", {}, {"container"}, "copy in") /\ UNCHANGED created

\* Only files the scope matches are copied in; a copy that fails ends the invocation.
Mounted == [p \in Paths |-> IF p \in InScope THEN copy[p] ELSE NoFile]
CopyIn ==
    /\ pc = "copy in"
    /\ \/ box' = Mounted /\ Goto("probe") /\ UNCHANGED token
       \/ token' = "raised" /\ Goto("cleanup proxy") /\ UNCHANGED box
    /\ UNCHANGED <<adapter, primary, opened, copy, index, head, state, rows, todo,
                   record, container, ghosts>>

(***************************************************************************)
(* The deepest file, the first of those, is overwritten with a random      *)
(* token by a container of its own, and stays so.  The launch fails when   *)
(* there is no file, the command fails or the context cannot be written.   *)
(***************************************************************************)
ProbeTarget(tree) ==
    {p \in Paths : /\ tree[p] # NoFile
                   /\ \A q \in Paths : tree[q] # NoFile =>
                         Depth[q] < Depth[p] \/ (Depth[q] = Depth[p] /\ p <= q)}
Probed(tree) == [p \in Paths |-> IF p \in ProbeTarget(tree) THEN "token" ELSE tree[p]]

ProbeWorkspace ==
    /\ pc = "probe"
    /\ \/ /\ ProbeTarget(box) # {}
          /\ box' = Probed(box)
          /\ Goto("running")
          /\ UNCHANGED <<token, docker, clean>>
       \/ /\ \E done \in SUBSET {"container"} : /\ docker' = docker \cup done
                                               /\ clean' = (clean /\ done = {})
          /\ token' \in {"retryable", "raised"}
          /\ Goto("cleanup proxy")
          /\ UNCHANGED box
    /\ UNCHANGED <<adapter, primary, opened, copy, index, head, state, rows, todo,
                   record, created, ghosts>>

\* Bound: one round of changes in a window.
UnchangedYet == /\ copy = opened /\ index = Base /\ head = Base
                /\ box = IF adapter = "docker" THEN Probed(Mounted) ELSE copy

(***************************************************************************)
(* The executor leaves each path alone, writes it, removes it or makes it  *)
(* unreadable, and may leave some of them staged or committed.  In the     *)
(* container there is no repository, so nothing is staged.                 *)
(***************************************************************************)
ExecutorWorks ==
    /\ pc = "running"
    /\ UnchangedYet
    /\ \E change \in [Paths -> {"keep", "work", NoFile}], hidden \in SUBSET Unsafe :
          LET after == [p \in Paths |-> IF p \in hidden THEN Unreadable
                                        ELSE IF change[p] = "keep" THEN box[p] ELSE change[p]]
          IN  IF adapter = "docker"
              THEN /\ box' = after
                   /\ UNCHANGED <<copy, index, head>>
              ELSE \E staged \in StagedSets, commits \in BOOLEAN :
                      LET added == [p \in Paths |-> IF p \in staged THEN after[p] ELSE index[p]]
                      IN  /\ \A p \in staged : after[p] # Unreadable
                          /\ box' = after /\ copy' = after
                          /\ index' = added
                          /\ head' = IF commits THEN added ELSE head
    /\ UNCHANGED <<adapter, pc, primary, opened, result, record, container, ghosts>>

(***************************************************************************)
(* The child ends, or its timeout kills it and its process tree.  A killed *)
(* Docker client leaves the container running.                             *)
(***************************************************************************)
ChildEnds ==
    /\ pc = "running"
    /\ \E code \in {"ok", "failed", "timeout"} :
          /\ IF adapter = "docker"
             THEN /\ Goto(IF code = "ok" THEN "copy out" ELSE "cleanup proxy")
                  /\ docker' = IF code = "timeout" THEN docker \cup {"container"} ELSE docker
                  /\ clean' = (clean /\ code # "timeout")
                  /\ token' = IF code = "ok" THEN "none" ELSE "retryable"
                  /\ UNCHANGED record
             ELSE /\ IF code = "ok" THEN Goto("returned") /\ UNCHANGED <<token, record>>
                                    ELSE Retry
                  /\ UNCHANGED <<docker, clean>>
    /\ UNCHANGED <<adapter, trees, state, rows, todo, created, ghosts>>

\* Only files in scope come back; a file removed in the container stays in the copy.
\* A copy that fails leaves some of them copied and ends the invocation.
CopyBack(paths) == [p \in Paths |-> IF p \in paths /\ box[p] # NoFile THEN box[p] ELSE copy[p]]
CopyOut ==
    /\ pc = "copy out"
    /\ \/ copy' = CopyBack(InScope) /\ UNCHANGED token
       \/ \E some \in SUBSET InScope : copy' = CopyBack(some) /\ token' = "raised"
    /\ Goto("cleanup proxy")
    /\ UNCHANGED <<adapter, primary, opened, box, index, head, state, rows, todo, record,
                   container, ghosts>>

CleanupProxy ==
    /\ pc = "cleanup proxy"
    /\ \/ docker' = docker \ {"proxy"} /\ UNCHANGED clean
       \/ clean' = FALSE /\ UNCHANGED docker            \* the command failed
    /\ Goto("cleanup network")
    /\ UNCHANGED <<adapter, trees, result, record, created, ghosts>>

\* What the launch came to once its cleanup is done.
AfterLaunch == \/ token = "retryable" /\ Retry
               \/ token = "raised" /\ Raise
               \/ token = "none" /\ Goto("returned") /\ UNCHANGED <<token, record>>

\* Mutant: the network is removed only after a launch that succeeded.
CleanupNetworkOnSuccess ==
    /\ pc = "cleanup network"
    /\ IF ~created \/ token # "none" THEN UNCHANGED <<docker, clean>>
       ELSE docker' = docker \ {"network"} /\ UNCHANGED clean
    /\ AfterLaunch
    /\ UNCHANGED <<adapter, trees, state, rows, todo, created, ghosts>>

\* Mutant: the network is removed until that works.
CleanupNetworkWaits ==
    /\ pc = "cleanup network"
    /\ created => docker \subseteq {"network"}
    /\ docker' = docker \ {"network"}
    /\ AfterLaunch
    /\ UNCHANGED <<adapter, trees, state, rows, todo, created, clean, ghosts>>

\* A network with an endpoint is not removed.
CleanupNetwork ==
    /\ pc = "cleanup network"
    /\ IF ~created THEN UNCHANGED <<docker, clean>>
       ELSE \/ /\ docker \subseteq {"network"}
               /\ docker' = docker \ {"network"}
               /\ UNCHANGED clean
            \/ clean' = FALSE /\ UNCHANGED docker
    /\ AfterLaunch
    /\ UNCHANGED <<adapter, trees, state, rows, todo, created, ghosts>>

\* An unnamed container ends by itself once the prompt pipe is gone.
ContainerExits ==
    /\ "container" \in docker
    /\ docker' = docker \ {"container"}
    /\ UNCHANGED <<adapter, pc, trees, result, record, created, clean, ghosts>>
-----------------------------------------------------------------------------
\* life.block records a wait and saves; the task stays in progress, nothing is promoted.
Block == /\ token' = "blocked"
         /\ Saved([memory EXCEPT !.last = "blocked"])
         /\ Goto("idle")

\* A Codex stream settles by itself; a Claude session is resumed for its envelope.
SettleStream ==
    /\ pc = "returned"
    /\ adapter # "claude"
    /\ \E kind \in {"implemented", "blocked"}, mine, aside, completed \in BOOLEAN :
          LET last == [kind |-> kind, mine |-> mine]
              stream == IF aside THEN <<last, [last EXCEPT !.kind = "aside"]>> ELSE <<last>>
          IN  CASE FinalResult(stream, completed) = "invalid" -> Retry
                [] FinalResult(stream, completed) = "blocked" -> Block
                [] FinalResult(stream, completed) = "implemented" ->
                      token' = "implemented" /\ Goto("settled") /\ UNCHANGED record
    /\ UNCHANGED <<adapter, trees, state, rows, todo, container, ghosts>>

AskEnvelope ==
    /\ pc = "returned"
    /\ adapter = "claude"
    /\ \/ /\ Admitted(adapter, StatusRequest, Proof(TRUE), {})
          /\ Goto("envelope")
          /\ UNCHANGED <<token, record>>
       \/ Retry                                   \* no session id, or the launch is refused
    /\ UNCHANGED <<adapter, trees, state, rows, todo, container, ghosts>>

SettleEnvelope ==
    /\ pc = "envelope"
    /\ \/ Retry                                   \* the continuation failed or timed out
       \/ \E prose \in {"none", "implemented", "blocked"}, envelope \in Envelopes :
             LET settled == Settle(prose, envelope, TRUE)
             IN  CASE settled = "invalid" -> Retry
                   [] settled = "blocked" -> Block
                   [] settled = "implemented" ->
                         token' = "implemented" /\ Goto("settled") /\ UNCHANGED record
    /\ UNCHANGED <<adapter, trees, state, rows, todo, container, ghosts>>

(***************************************************************************)
(* The window is attributed.  Without a marker, or when Git fails, nothing *)
(* is attributed at all; an unreadable body keeps the rows.                *)
(***************************************************************************)
Attribute ==
    /\ pc = "settled"
    /\ \/ /\ rows' = Attributed
          /\ state' = IF Ambiguous THEN "unavailable"
                      ELSE IF Attributed = {} THEN "known-empty" ELSE "known"
       \/ /\ rows' = {}
          /\ state' = "unavailable"
    /\ Goto("recorded")
    /\ UNCHANGED <<adapter, trees, token, todo, record, container, ghosts>>

\* record_implementation_attribution and record_scope_amendment replace what was recorded.
Noted == [memory EXCEPT !.changed = rows, !.amended = OutOfScope(rows)]

\* The evidence is recorded in memory; the block, or the last step, saves it.
Decide ==
    /\ pc = "recorded"
    /\ IF ScopeBlock
       THEN /\ token' = "blocked"
            /\ Saved([Noted EXCEPT !.last = "blocked"])
            /\ reviewed' = reviewed \cup Noted.amended
            /\ Goto("idle")
            /\ UNCHANGED todo
       ELSE /\ memory' = Noted
            /\ todo' = rows
            /\ Goto("promoting")
            /\ UNCHANGED <<token, disk, reviewed>>
    /\ UNCHANGED <<adapter, trees, state, rows, container, edited, late, torn, edits>>

\* Mutant: only what is in scope is promoted.
PromoteInScope ==
    /\ pc = "promoting"
    /\ \E p \in todo :
          /\ primary' = IF Preserved(p) \/ p \notin InScope THEN primary
                        ELSE [primary EXCEPT ![p] = copy[p]]
          /\ todo' = todo \ {p}
    /\ UNCHANGED <<adapter, pc, opened, copy, box, index, head, token, state, rows,
                   record, container, edited, late, reviewed, torn, edits>>

PromotePath ==
    /\ pc = "promoting"
    /\ \E p \in todo :
          /\ \A q \in todo : p <= q                        \* in sorted order
          /\ primary' = IF Preserved(p) THEN primary ELSE [primary EXCEPT ![p] = copy[p]]
          /\ late' = IF Preserved(p) THEN late ELSE late \ {p}
          /\ edited' = edited \ ({p} \cap InScope)
          /\ todo' = todo \ {p}
    /\ UNCHANGED <<adapter, pc, opened, copy, box, index, head, token, state, rows,
                   record, container, reviewed, torn, edits>>

Finish ==
    /\ pc = "promoting"
    /\ todo = {}
    /\ Saved([memory EXCEPT !.last = "succeeded"])
    /\ reviewed' = reviewed \cup memory.amended
    /\ Goto("idle")
    /\ UNCHANGED <<adapter, trees, result, container, edited, late, torn, edits>>
-----------------------------------------------------------------------------
\* Somebody else works in the primary worktree, whatever the runner is doing.
UserEdits ==
    /\ edits < MaxUserEdits
    /\ edits' = edits + 1
    /\ \E p \in Paths :
          /\ primary' = [primary EXCEPT ![p] = "user"]
          /\ edited' = IF pc = "idle" THEN edited \cup {p} ELSE edited
          /\ late' = IF pc = "idle" THEN late ELSE late \cup {p}
    /\ UNCHANGED <<adapter, pc, opened, copy, box, index, head, result, record, container,
                   reviewed, torn>>

\* The runner dies: memory is gone, and so is the cleanup.
Crash ==
    /\ pc # "idle"
    /\ Goto("idle")
    /\ memory' = disk
    /\ token' = "none"
    /\ todo' = {}
    /\ torn' = (torn \/ pc = "promoting")
    /\ clean' = FALSE
    /\ UNCHANGED <<adapter, trees, state, rows, disk, docker, created, edited, late,
                   reviewed, edits>>

RunnerStep ==
    \/ Launch \/ CreateNetwork \/ StartProxy \/ CheckVersion \/ CopyIn
    \/ ProbeWorkspace \/ ChildEnds \/ CopyOut \/ CleanupProxy \/ CleanupNetwork \/ SettleStream \/ AskEnvelope
    \/ SettleEnvelope \/ Attribute \/ Decide \/ PromotePath \/ Finish

Next == RunnerStep \/ Dispatch \/ ExecutorWorks \/ ContainerExits \/ UserEdits \/ Crash

Spec == Init /\ [][Next]_vars

(***************************************************************************)
(* The runner's process is scheduled, and every child it waits for has a   *)
(* timeout, so ChildEnds is a runner step.                                 *)
(***************************************************************************)
FairSpec == Spec /\ WF_vars(RunnerStep)
-----------------------------------------------------------------------------
(***************************************************************************)
(* A change somebody made outside the allowed scope while no window was    *)
(* open is still there after any number of windows, whatever the executor  *)
(* did to the same path in its copy (_promote_reviewable_paths skips what  *)
(* the opening snapshot holds).                                            *)
(***************************************************************************)
SettledEditsSurvive == \A p \in edited \ InScope : primary[p] = "user"

(***************************************************************************)
(* A window that ends without a crash either brought every attributed path *)
(* that is not preserved into the primary worktree (implemented), or       *)
(* changed nothing there (blocked, failed): dispatch_executor decides      *)
(* before it promotes.  Paths somebody else edited meanwhile are theirs.   *)
(***************************************************************************)
Elsewhere == late \cup edited
WindowIsAllOrNothing ==
    pc = "idle" =>
        /\ token = "implemented" =>
              \A p \in rows \ Elsewhere : Preserved(p) \/ primary[p] = copy[p]
        /\ token \in {"blocked", "retryable", "raised"} =>
              \A p \in Paths \ Elsewhere : primary[p] = opened[p]

(***************************************************************************)
(* Executor content never reaches an unsafe path outside the scope, not    *)
(* even when the same window also changed promotable paths and the paths   *)
(* were promoted one by one (_scope_or_provenance_block).                  *)
(***************************************************************************)
UnsafeNeverPromoted == \A p \in Unsafe \ InScope : primary[p] # "work"

(***************************************************************************)
(* For every path whose index entry the executor left alone, the window    *)
(* attributes it exactly if its content differs from the one copied, dirty *)
(* before the window or not, tracked or not, and whoever changed it: the   *)
(* token of the write probe is attributed like the executor's work         *)
(* (GitWorktreeInspector, _assert_workspace_writable).                     *)
(***************************************************************************)
IndexLeftAlone(p) == index[p] = Base[p] /\ head[p] = Base[p]
AttributionExact ==
    pc \in {"recorded", "promoting"} /\ state \in {"known", "known-empty"} =>
        \A p \in Paths : IndexLeftAlone(p) => (p \in rows <=> copy[p] # opened[p])

(***************************************************************************)
(* NOT an invariant (window_limits.cfg).                                   *)
(* The same for every path, as dispatch.py says of the snapshot: "attributes*)
(* exactly this generation's changes, independent of both executor claims  *)
(* and pre-existing workspace dirt".                                       *)
(***************************************************************************)
EveryChangeAttributed ==
    pc \in {"recorded", "promoting"} /\ state \in {"known", "known-empty"} =>
        \A p \in Paths : p \in rows <=> copy[p] # opened[p]

(***************************************************************************)
(* NOT an invariant (window_limits.cfg).                                   *)
(* What is attributed is the executor's: the same sentence of dispatch.py, *)
(* where a container launch attributes, and promotes, the token the write  *)
(* probe left in a file the executor did not touch (adapters.py:2331).     *)
(***************************************************************************)
OnlyExecutorWork ==
    pc \in {"recorded", "promoting"} => \A p \in rows : copy[p] # "token"

(***************************************************************************)
(* Executor content outside the scope is in the primary worktree only if a *)
(* saved record reported the path as a scope amendment, also after several *)
(* windows, unless a crash fell between the first promoted path and the    *)
(* save that follows the last (_record_scope_amendment).                   *)
(***************************************************************************)
ExpansionIsReported ==
    pc = "idle" /\ ~torn =>
        \A p \in Paths \ InScope : primary[p] = "work" => p \in reviewed

(***************************************************************************)
(* What a window reports is what it did: types, attribution and amendments *)
(* of the scope together.                                                  *)
(***************************************************************************)
AttributionIsExact == TypeOK /\ AttributionExact /\ ExpansionIsReported

(***************************************************************************)
(* A launch whose Docker control commands did what they reported, which no *)
(* timeout killed and no crash cut short, leaves no network, proxy or      *)
(* container behind, whichever of its steps failed (_launch_contained).    *)
(***************************************************************************)
NothingLeftInDocker == pc = "idle" /\ clean => docker = {}

(***************************************************************************)
(* What the runner composes may still be altered before it is launched.    *)
(* An altered request that launch admits all the same makes a child that   *)
(* has a writing tool only if the composition granted that; that is given, *)
(* besides the inputs, only folders of the composed and the declared scope *)
(* and its own working root, and those only with the write grant; that is  *)
(* given the folder above the working root, or a host without a sandbox,   *)
(* only in a disposable workspace; and that, for a verifier, has no        *)
(* writing tool and no writable sandbox (_assert_bundle_identity, the      *)
(* argv builders and the _add_dirs_for and _sandbox_for of the adapters).  *)
(***************************************************************************)
Composed == {ExecutorRequest("executor", InScope, grant, {}, {}) : grant \in SUBSET Capabilities}
            \cup {VerifierRequest(role, InScope) : role \in VerifierRoles}
            \cup {VerdictRequest(role, InScope) : role \in VerifierRoles}

Alteration(r, grant, readOnly, scope, tools, digest) ==
    [r EXCEPT !.grant = grant, !.readOnly = readOnly, !.scope = scope, !.tools = tools,
              !.digest = digest]
AlterationsOf(r) ==
    {Alteration(r, grant, readOnly, scope, tools, digest) :
        grant \in SUBSET Capabilities, readOnly \in BOOLEAN, scope \in {{}, InScope, Paths},
        tools \in {r.tools, r.tools \cup WritingTools}, digest \in {SecurityDigest(r), NoDigest}}
Altered == UNION {AlterationsOf(r) : r \in Composed}

BeforeAnyWindow == disk.generation = 0 /\ edits = 0

Hosts ==
    {[folder |-> Folder, place |-> place, declared |-> declared, root |-> root,
      windows |-> windows] :
        place \in [Paths -> Places], declared \in SUBSET Paths, root \in Roots,
        windows \in BOOLEAN}
Reach(request, host, inputs) ==
    inputs \cup OwnRoots \cup FoldersOf(request.bound.scope, host)
           \cup FoldersOf(host.declared, host)

ArgvInComposition(request, inputs, host) ==
    LET argv == ArgvOf(adapter, request, inputs, host) IN
    /\ argv.tools \cap WritingTools # {} => "write" \in request.bound.grant
    /\ argv.dirs \subseteq Reach(request, host, inputs)
    /\ ~(argv.dirs \subseteq inputs) =>
          "write" \in request.bound.grant /\ ~IsReadOnly(request)
    /\ "workspace" \in argv.dirs => host.root = "disposable"
    /\ argv.sandbox = "danger-full-access" =>
          ~IsReadOnly(request) /\ (adapter = "docker" \/ host.root = "disposable")
    /\ IsVerifierRole(request.role) => /\ argv.tools \cap WritingTools = {}
                                       /\ argv.sandbox \in {"manual", "read-only"}

LaunchStaysInComposition ==
    BeforeAnyWindow => \A r \in Altered, inputs \in {{}, {Folder[p] : p \in Paths}} :
        Admitted(adapter, r, Proof(TRUE), inputs) =>
            \A host \in Hosts : ArgvInComposition(r, inputs, host)

(***************************************************************************)
(* An executor stays inside what was granted: the child that is launched,  *)
(* and what of its work is promoted.                                       *)
(***************************************************************************)
StaysInBounds == UnsafeNeverPromoted /\ LaunchStaysInComposition

(***************************************************************************)
(* NOT an invariant (window_limits.cfg).                                   *)
(* A composed executor launch that is admitted is also admitted when the   *)
(* task has required inputs: they are "Merged into the launch's --add-dir  *)
(* set on the first (session-opening) launch" (adapters.py).               *)
(***************************************************************************)
InputsKeepAdmission ==
    BeforeAnyWindow => \A inputs \in SUBSET {Folder[p] : p \in InScope} :
        Admitted(adapter, TaskRequest, Proof(TRUE), {}) =>
            Admitted(adapter, TaskRequest, Proof(TRUE), inputs)

\* Every window that opens ends, and the task can be dispatched or resumed again.
WindowEnds == pc # "idle" ~> pc = "idle"
=============================================================================
