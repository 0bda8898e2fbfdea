# Verification project for feature-pipeline

TLA+ modules, TLC runs and TLAPS proofs about the runner of this repository:
the program that takes a plan of tasks, sends each task to an executor, has the
result judged by verifiers, repairs it within a budget, and keeps all it knows
in `run.json` so that a later invocation can go on after a stop or a crash.

`src/pipeline_core/` is the runner that is in use. `src/src/feature_pipeline/`
is the layer it was moved to step by step (ports, infrastructure, application
services, CLI); the two call each other. The models follow the path
`cli/use_cases.py` -> `bootstrap.run_execute` -> `execute_run` ->
`_run_scoped_tasks` -> `TaskEngine.run` -> `dispatch_executor` /
`VerificationService.verify`, the post-task lifecycle, and `run_amend` and
`run_live_probe`, which write the same `run.json` from outside. The revisioned
state store of the new layer, which the runner does not use yet, and the CI
tooling under `src/ci/` are modelled on their own.

## 1. Inventory

Every component is listed in `PROJECT.json` with its files and status.

| Component | State | Operations | Hard behaviour | What makes it correct | Modules |
|---|---|---|---|---|---|
| File leases (`infrastructure/locks/`) | one lock file: PID, nonce, heartbeat | acquire, release, touch | processes interleave between file-system calls; dead owners, reused PIDs, heartbeats, deadlines | one holder; a verdict for every caller; a dead owner does not block for ever | FileLease |
| Pipeline lease, write mutex (`lease.py`, `concurrency.py`) | none of its own | delegate to the file lease with timeout 0, n or none | as above | as above | Mutex, FileLease |
| Task engine (`application/task_engine.py`) | task record, board, reports | enter, window, gate, repair loop, projections | crash between any two saves; resumed gates | attempts accounted for, reports before attempts, the loop ends | TaskLoop |
| Executor dispatch (`dispatch.py`), worktree attribution (`worktree/inspector.py`) | generation, evidence, worktree, disposable copy | copy, preflight, launch, attribute, promote | paths dirty before and during the window, promotion path by path, crash in the middle | what is reported is what was done; all or nothing; somebody else's edits stay | TaskLoop, ExecutorWindow |
| Adapters, launch policy (`adapters.py`) | grants, bound composition, Docker network, proxy and container | admit, seal, launch, clean up | identity checks over several layers; cleanup that fails | no child outside its composition; nothing left behind | LaunchPolicy, ExecutorWindow |
| Verification gate (`verification_service.py`, `verification.py`, `commands.py`), settlement (`reports/`) | command records, two verifiers' directories, verdict files | run or reuse commands, two verifiers, settle, forced verdicts | records or answers of an older tree; reports that say two things; BLOCKED against FAIL | done only after two plain PASS on the work in the tree | TaskLoop, VerifierGate |
| Repair reports (`reports.py`) | one file for each revision and attempt | write once, newest | reports of an older revision remain | the executor is handed one it may accept | TaskLoop, VerifierGate |
| Run state record (`state.py`, `lifecycle.py`) | `run.json` and its copies in memory | load, mutate, save | whole-record saves by several processes | nothing finished is forgotten, nothing unfinished claimed | TaskLoop, RunExecution |
| Scheduler and run opening (`execution.py`) | scope, edges, lease | open fresh, resume, reuse, loop, end | checks and loads before the lease | dependencies first; "ok" is true; never stuck | RunExecution |
| Admission (`bootstrap.py`, `execution.py`, `plan.py`, `adapter_resolution.py`), amendments | recorded terms, fingerprints, contracts, amendment chain | create, resume, amend, recover, replace | drafts, refs and adapters change between calls; a crash between creation and the contract | what was admitted stays admissible; work is done under recorded terms | PlanRules, RunAdmission |
| Verified reuse and supersession (`verified_reuse.py`, `selection.py`, `supersession.py`) | evidence of other runs, replacements | reuse, deny, prune, substitute | retired tasks, pruned ancestors | nothing is passed over that nobody verified | RunExecution |
| Board projection (`board_projection.py`) | Markdown board and task files | project, reconcile, retire cards | two files, one after the other, no lock, edited by people | shows what `run.json` says and leaves other lines alone | BoardProjection |
| Run repository, state store and schemas (`run_repository.py`, `infrastructure/state/`, `artifacts/`) | revisioned state v3, published files, `latest.json` | create, open, resume, compare and commit, publish, move orphans | check, then write; publish before reference | no entry of the registry dangles; a commit replaces what its client read | StateSchema, RunStore |
| Post-task lifecycle and release (`post_task.py`, `stages.py`, `release.py`, `integrations.py`) | stage outcomes, outputs | stages 10 to 16 | calls again after a crash; verdicts reused | order, approvals of this call only, outputs that exist | PostTask |
| CI gates and promotion (`src/ci/`) | manifest, check runs, evidence files | validate, run gates, read pages, promote, accept | reruns, equal seconds, pages that move on | promoted means green and validated; accepted means gated | CIContract, Promotion |

Parsing of profiles, plans and report text, host processes and their streams, git
argument checks, redaction, rendering, argument parsing and the catalogues of
task kinds and skills are not modelled: they are input validation, I/O or static
data, and what they can answer appears in the models as a choice.

How the parts meet: invocations share `run.json`, the lock files, the worktree,
the board and the reports; inside an invocation everything is a call. There are
no threads in the runner. Concurrency is between processes, between a process
and the one that takes up its work after it died, and between the runner and
people who edit the same files.

The hazards that follow, each at its line and with the properties that would
show it going wrong, are in `PROJECT.json`.

## 2. Modules

```
Mutex            what a lease promises                    (abstract)
  ^ implemented by          ^ used as the pipeline lease by
FileLease        lock file, call by call        RunExecution    several invocations, one run.json
  SharedFilesProofs, MCFileLease                  RunExecutionProofs, MCRunExecution

TaskProgress     what run.json promises of a task (abstract)
  ^ implemented by
TaskLoop         one task through windows, gates and repairs
  TaskLoopProofs
  its executor window from inside:     its gate from inside:
  ExecutorWindow <- LaunchPolicy       VerifierGate
  ExecutorWindowProofs                 VerifierGateProofs
  MCExecutorWindow                     MCVerifierGate

RunAdmission   <- PlanRules      which request opens which run      MCRunAdmission
  RunAdmissionProofs
BoardProjection                  run.json on the Markdown board     MCBoardProjection
  SharedFilesProofs
PostTask                         stages 10 to 16 of a run           MCPostTask
  ReleaseProofs
RunStore       <- StateSchema    the revisioned state store         MCRunStore
  RunStoreProofs
Promotion      <- CIContract     required checks and promotion      MCPromotion
  ReleaseProofs
```

A proof module holds the proofs of one module, or of two of the same layer:
SharedFilesProofs of the lock file and the board, ReleaseProofs of what comes
after the last task.

Each definition that models code is mapped to its lines in `PROJECT.json`
("map"). Definitions marked `Mutant` in a comment are not part of any
specification; each is a plausible wrong version of the definition that follows
it, and shows that a property notices the difference. A definition marked "NOT an
invariant" states what a comment or a document of the repository says and the
code does not do (section 5).

The components are composed where one relies on what another promises: the pipeline lease is
`INSTANCE Mutex` in RunExecution, TaskProgress is `INSTANCE`d by TaskLoop, and
LaunchPolicy, PlanRules, StateSchema and CIContract hold the pure rules that the
state machines above them extend. A composition of the whole in one state space
is out of TLC's reach; each module names what it takes from the others.

### FileLease

A process slot is a PID; `life[p]` counts the processes that had it and stands
for the nonce of `owner.py`. `file` is the lock file's record, `seen[p]` what
`acquire` read, `pc[p]` the file-system call it is at. One action for each call:
`os.link` (`LinkCreates`, `LinkFindsLock`, `LinkFails`), the read (`ReadFreed`,
`ReadRecord`), the probe and decision (`Judge...`), the unlink of a reclaim
(`Reclaim`), and read and unlink or replace of `release` and `touch`. The
temporary file has a name of its own and is not state. Re-reads of an unreadable
lock are one read. The environment ages heartbeats, lets deadlines pass, kills
processes and uses PIDs again.

### TaskLoop

`disk` is the task's record in `run.json` and `mem` the runner's copy; a step
ends where the code saves or touches something else that outlives the process,
so a crash falls between any two such effects. A *generation* stands for the
work of one executor window; the tree, the recorded evidence and the command
records name the generation they are about, which is what tells fresh evidence
from stale. Operation history is kept as the two facts that are ever asked of
it: has an executor succeeded, and is the latest operation a blocked
verification. `Resume`, `Reconcile`, `Prepare...` are the scheduler's part of a
turn, `Enter...` is `TaskEngine._enter`, then window, gate and repair loop as in
the code. Human cancellation and reopening have no caller outside tests and are
left out; malformed reports and promotion errors end an invocation in a state
that `Crash` also produces.

### RunExecution

Several invocations work on one run directory. `disk` is `run.json`, `mem[r]`
the copy that invocation `r` loaded or created, and `Save` writes the whole copy
as `Run.save` does. `FreshCheck` and `FreshCreate` are the look at the run
directory and the creation of the run, `ReuseTask` one fast-forwarded task,
`Resume` the load, `Opened` the last save before the lease, `Acquire` /
`Refused` / `PartingSave` the lease and its refusal, `Dispatch` / `Complete` /
`NotDone` / `TurnFails` / `EndOk` the loop, `AmendLoad` / `AmendSave` /
`ProbeLoad` the two commands that write `run.json` without a lease. The scope
operators (`Closure`, `ChainScope`, `Reused`, `Denied`, `DefaultScope`, `Edges`,
`Actionable`) are those of the code for any plan. Composition: the pipeline lease
is `INSTANCE Mutex`, what `FileLease` implements, so a crash frees it; a task's
repairs and gates are `TaskLoop`'s and a turn is one window here. An error while
the run is being opened leaves the state that `Crash` leaves. `SaveCopy` stands
for the many saves of an otherwise unchanged copy. The branch for pending tasks
after the loop has no action of its own: `ScopeNeverStuck` says that it is not
reached.

Nothing of what makes evidence eligible is modelled here: `Elsewhere` is the set
of tasks that other runs have verified with evidence that is still accepted.

### ExecutorWindow and LaunchPolicy

LaunchPolicy translates what a launch request may become: the effective grant,
tool names, admission of each adapter, sealing and binding of a composed request,
and the meaning of a result (token, receipt, two lines that conflict). Its argv
builders take, besides the request, a *host*: the folder of each path, where it
lies (under the working root, elsewhere in the project, outside it), the scope
the plan declared, what the child's working root is, and whether this is
Windows. The directories each adapter grants are those of `_add_dirs_for`:
external folders of the request's scope (`ScopedAddDirs`), project folders of the
declared scope (`TaskScopeDirs`), and for Codex its working root and the
disposable workspace around it (`CodexRoots`), with the sandbox that goes with
them (`CodexSandbox`).

ExecutorWindow drives it: `primary` is the worktree, `copy` the disposable
workspace, `box` the tree the executor edits (inside the container for the
Docker adapter), `index` and `head` the Git state the inspector compares. `Dispatch`
consumes the generation and copies; `Launch` admits or refuses, and
`CreateNetwork`, `StartProxy`, `CheckVersion`, `CopyIn`, `ProbeWorkspace`, `CopyOut`
and the cleanups are the steps of the container launch in `adapters.py`, one each;
`ExecutorWorks` and `ChildEnds` are the child, `SettleStream`, `AskEnvelope` and
`SettleEnvelope` the settlement; `Attribute` compares, `Decide` blocks or goes on,
`PromotePath` brings in one path after the other, and `Finish` is the save behind
it. `ProbeWorkspace` is the container that proves the workspace writable: it
overwrites the deepest file with a token, which stays there, and is copied back,
attributed and promoted like the executor's work. Contents are `base`, `user`,
`work`, `token`, unreadable or no file. Each Docker command may fail or time out,
a failure that is no `AdapterError` ends the invocation with nothing recorded
(`Raise`, for a copy back after some of the paths), and the process may die
anywhere.

### VerifierGate

`art` holds what the directory of each gate (attempt and revision) keeps for
each verifier, a report and an envelope; `filed` the verdict files, `repair` the
repair reports. A report is what its two readers find in it. One
invocation asks the task verifier and then the test verifier; `SettledText`
and its neighbours are `settlement.py`; runner facts override the answers,
verdicts are filed, the report written and the attempt spent in the code's order,
with a crash between any two. Commands and the executor are those of TaskLoop and
appear only as a new `work`.

### RunAdmission and PlanRules

PlanRules holds the pure part: graph order and validity, selection, plan
compilation, adapter resolution, amendment rules and fingerprints, compared with
reference definitions on every plan of three tasks when the run starts.
RunAdmission has `run` (`run.json` of a feature and of its replacement, with
files beside it), the task files as drafts, the ref, the adapters, the lease and
the task locks, and the one invocation alive. `Fresh` and
`Resume` are `run_execute` and `execute_run` up to the first refusal or the first
save, `Persist` the later save of contracts and controls, then `Acquire` and one
task after the other (`Take`, `Launch`, `Promote`, `Record`, `Verified`);
`Amend` is `run_amend`, and `Edit`, `MoveHead` and `ComeOrGo` change task files,
the ref and the adapters. What has reached the tree
is the history variable `landed`.

### BoardProjection

The board is two sequences of cards (label and link) and notes, a task file its
ticked box and Result sections; a projection reads both, renders both and
replaces one after the other. `proc` says where each run's invocation is;
The reconciliations of a resume (`Reconciled`, `ReconciledAgain`), `Retire`, the
projections of the loop (`Started`, `Completed`) and `Edit` by people
interleave; each is `Render`, `WriteBoard`, `WriteTask`. `Part` keeps some places of
a sequence in order: lines that stay when cards are removed, edges that can be
used. `fresh` and `alone` are histories that say when a runner has been
overtaken, which is what the properties need and the code does not know.
Assumed of the constants: a scope has each task once, the lists are lists, and no
task or run has the name of a marker.

### RunStore and StateSchema

StateSchema says what a reader accepts (version, defects, unknown fields, status
and resolution, the upgrade of version 2), what a state names (`Registry`: its
artifacts, `Referenced`: and the files of its operations), and what the callers
of a commit make of it. RunStore has, for each run, the directory, `run.json`,
`files` and `orphans`, and for each client the state it holds and the operation it
is in. A commit is `CheckRevision` and then `Replace`; publishing a file precedes
the commit that registers it; `Resume` loads, `List` looks at the files and `Move`
takes the unreferenced ones away, one by one. Renames make a file appear whole.
Steps of two clients come in any order: nothing in the store keeps them apart.
`raced` and `swept` are histories of the runs of which two commits, or a commit
and a reconciliation, met in that window. `Inherited` is what earlier versions may
have left.

### PostTask

One action per stage with the refusals of the code, the recorded outcome in
`stages`, the outputs on disk and the copy in memory; a crash before or after each
save, and between calls people who reopen and redo tasks, change the code or
clean the tree. The requests (approvals, the Graphify command, release
controls) are enumerated, 16 kinds in the run.

### Promotion and CIContract

CIContract validates manifests, derives check identities and the commands
behind each, and judges workflows. Promotion has the check runs of both repositories
as a sequence (`runs`, whose places are their identities, `content` what each
commit contains); jobs start, run gate commands in some checkout and end; the
process of `promotion.py` reads page by page, or takes a saved body, picks the
newest run of each identity and judges; `required_checks.py` accepts captured
evidence. A clock of seconds is next to the real order of ends.

## 3. Runs

| Run | Instance | Distinct states | Question |
|---|---|---|---|
| `lease_two` | 2 PIDs, no reuse, 2 spins | 2 418 | excludes, refines `Mutex`, every timed caller is answered, dead owners are reclaimed |
| `lease_heartbeat` | 3 PIDs, heartbeats, symmetry | 174 503 | how a holder can lose the lease: by a reclaim only |
| `task_loop` | 1 repair, 2 commands, 3 windows, 1 amendment | 357 052 | all safety and liveness of one task |
| `run_execution` | 2 invocations, 5 tasks, symmetry | 409 682 | dependencies, truthful success, exclusion, progress, lost updates |
| `executor_window` | 3 paths, 2 launches, 1 edit, 3 adapters | 562 131 | attribution, promotion, cleanup, and that every window ends |
| `verifier_gate` | 1 repair, 1 amendment, 2 works, 2 calls | 1 710 822 | what a completed or escalated task's files say |
| `verifier_stale` | the same, violation | - | are settled answers about the work at hand? |
| `admission` | 2 tasks, 2 features, 3 calls, 1 change, 1 amendment | 629 339 | what may be opened, resumed, amended and replaced |
| `board` | 2 runs, 3 cards, 1 edit, 3 calls | 647 823 | what the board shows, and whose lines it touches |
| `post_task` | 2 tasks, 16 requests, 3 calls, 2 revisions | 2 003 006 | order, approvals and persisted verdicts of the tail |
| `run_store` | 2 clients, 1 run, 1 report, 1 log, 1 operation, 1 revision, symmetry | 1 034 483 | references, readers, commits that overlap |
| `promotion` | 2 core commits, 1 umbrella, 3 check runs, 3 histories | 1 069 428 | what a promotion and an acceptance rest on |

More configurations are kept for the counterexamples of section 5:
`tlc -config X.cfg M` with M = FileLease for `lease_race`, TaskLoop for `loop_stale` and
`loop_gate`, MCRunExecution for `run_stale`, `run_pruned` and `run_retired`,
MCExecutorWindow for `window_limits` (with `-continue`, to see each of its three
properties violated), MCRunStore for `store_race` and `store_unpublished`,
MCPromotion for `promotion_shared`, MCPostTask for `post_stale`,
MCRunAdmission for `admission_amended`, MCBoardProjection for `board_unended`.
Two action properties of TaskLoop, `BlockedSpendsOnlyIfForced` (a BLOCKED verdict
spends no repair attempt unless a runner fact forced a FAIL) and
`BoardFollowsRunJson`, belong to no run: they are proved.

Why these bounds. Two PIDs are the least that contend, and three the least that
race for a dead owner's lock (two contenders and the dead one). One spin or two are
enough to go through the counter, and the third value of `timeout` needs no
clock. In `task_loop` one repair gives two gates with different stages, two
commands tell "some" from "all" of them, three windows let an executor be
dispatched again after a crash in the middle of a repair, and one amendment
leaves reports and records of an older revision behind. In `run_execution` the
plan has all there is to get wrong: it is written in the wrong order, one task
is retired, its replacement and the base task are verified elsewhere, and the
one task in between is tried twice and amended once; two invocations suffice
for a stale copy, since what matters is one load before, and one save after,
somebody else's save.

In `executor_window` one path is in scope, one out of scope and one unsafe, one
of them is not committed, and two launches with one edit are enough for a path
that was dirty when the second window opened; the claim about command lines is
evaluated for every altered request on every host these paths allow. In `verifier_gate` two works and
two calls let an answer outlive the work it is about; the reports are a
plain answer with and without the amendment's identity, one with no verdict
line and one whose lines disagree.
In `admission` the first call creates, the second meets the change or the amendment and the
third meets what the second recorded. In `board` one run replaces a task of the
other and one retired card belongs to nobody. In `run_store` the one run is new or
left by an earlier version, and two clients may each commit to its first revision
while the other lists, moves, publishes or commits, which is all an overlap needs;
a second revision or a second run is past the time a run may take, and the
theorems cover any number of both. In `promotion` the pinned commit may
be joined, a matrix as in `quality-gates.yml`, or drifted, the other one sound or
without its inputs, and three check runs are a run, its rerun, and the
promotion's own, with pages of one; two seconds give equal and different times.
In `post_task` a third call meets the verdicts two others recorded.

Deadlock is checked in `task_loop` and in `run_execution`. The others may stop:
all processes may have crashed or the bounded counters be used up.

### What is checked

Every component has a type invariant; in most it is a named conjunct of the checked
invariant that relates it to something (`AttemptsAccounted == TypeOK /\ ...`).

**Lease.** `ImplementsMutex`: for two PIDs that are not reused the lock file
behaves as an atomic mutex. `HolderOwnsFile`: with any number of them the only
step that ever starts a loss of exclusion is the unlink of a reclaim.
`ZeroTimeoutAnswers`, `BoundedWaitAnswers`, `DeadOwnerReclaimed`: verdicts and
recovery. A bounded waiter that finds the lock freed does not look at its
deadline; `BoundedWaitAnswers` says exactly what remains.

**Task.** `CompletedWorkIsVerified`: done means both verifiers passed it, on
evidence of what is in the tree, and no runner fact forces a failure.
`AttemptsAccounted`: the report is on disk before the attempt is spent, and
dispatch accepts the one that is chosen. `GateIsFresh`: what verifiers are shown
is of the tree; command records of older work can only be met at a resumed gate.
`NoRelaunch`: no generation is launched twice. `ImplementsProgress`: `run.json`
alone tells a legal history. `InvocationEnds`.

**Run.** `DependenciesFirst`: no executor works on a task one of whose declared
dependencies (or its replacement) has been verified nowhere, whatever was
pruned, cut, resumed from a crash or overwritten by a stale copy.
`SuccessIsEarned`: one executor at a time, and "ok" only if every selected task
passed a gate or was verified before. `ScopeNeverStuck`: the loop never ends with
work left. `AloneLosesNothing`: while invocations come one after another, crashes
included, `run.json` never forgets a finished task, a consumed generation or an
amendment.

**Window.** `AttributionIsExact`: the recorded rows are the paths that changed in
the window (of those the executor did not stage), the file the write probe has
overwritten among them, and an expansion of the scope is reported.
`StaysInBounds`: an unsafe path is never promoted, and a request that was altered
after it was composed is refused, or its child has no writing tool, folder or
sandbox beyond the composition and the declared scope on any host. `WindowIsAllOrNothing`: a window that is
refused leaves no work in the tree. `SettledEditsSurvive`: an edit by people out
of scope outlives every window. `NothingLeftInDocker`, unless a Docker command
did something else than it reported or the process died, and `WindowEnds`.

**Gate.** `CompletionIsStated`: a done task has two reports and two envelopes
that say PASS and nothing else and name the amendment that governs.
`CompletionHasFacts`: the runner's facts did not fail it, and what was observed
remotely was observed of the last window. `AttemptsAreExplained`: every
spent attempt has verdicts and a report that quotes them.

**Admission.** `RunsStayAdmissible`: a run that was opened and not changed is
admitted again by the same request. `GovernedByRecord`: every launch is under the
scope and repair bound recorded at creation or by the last amendment.
`ControlsImmutable`: recorded terms do not change in a run.
`NeverReplacesWork`: a replacement is only created when nothing of the replaced
task has reached the tree, also after a crash before the save.

**Board.** `ResumeRepairs`: a resume nobody disturbed leaves a board and files
that show `run.json`. `ResultsAreBacked`: a Result in a task file never runs
ahead of `run.json`. `ProjectionIsExact`: one canonical card, and no line of
anybody else touched. `CardsLeaveOnEvidence`: a card
only goes when its task, or a declared replacement, is done.

**Post-task.** `TailIsSound`: stages come in order and a completed call has its
outputs. `ApprovalNotInherited`: an approval of an earlier call does not release.
`PassedStagesStay`: no later call takes a recorded PASS back.

**Store.** `RegistryIsFounded`: every file a registry names was published and is
still there, or among the orphans if a commit met another one or a
reconciliation. `StoreIsReadable`: clients hold only documents the schema accepts,
and `latest.json` names one that exists. `CommitIsCurrent`: a commit replaces the
document its client had read, unless two commits of the run met between their
comparison and their write.

**CI.** `PromotionIsFounded`: each required identity had a green newest run while
it was read, and the contract was valid. `AcceptedWasGated`: accepted evidence
means that every command behind an identity succeeded in a checkout of the
reviewed commit. The history whose pinned commit has drifted while the
other has green jobs gives `PromotionIsFounded` something to refuse. Acceptance is only reached by jobs that run
all gates of an identity in one (`joined`), as in the captured fixture the tests
use; `quality-gates.yml` makes one job per gate.

### Fairness

`FileLease` assumes that a process that has not crashed takes its next step, and
that clocks advance; it does not assume that a holder ever releases. `TaskLoop`
and `ExecutorWindow` assume that an invocation that has not crashed goes on, so
that adapters, commands and Docker calls return: the runner gives them timeouts.
Nothing is assumed about resuming, and the liveness properties are about an
invocation that is under way. The other modules state no liveness.

## 4. What is proved

`tlapm` checks every proof from nothing. All theorems are for every value of the
constants that satisfies the modules' assumptions.

**SharedFilesProofs, the lock file.** `TypeCorrect`; `HolderOwnership` and `OnlyReclaim` for any
number of PIDs, with reuse and heartbeats, from `OwnershipInv`: with
the types and the property itself it says that who acquires, holds or releases is
alive, so that what a release or a heartbeat writes is the record it has just
matched. `TwoRunnersExclude` and `TwoRunnersRefine` under
`TwoRunners` (two PIDs, none used twice, no heartbeat expiry), from `TwoInv`: what a
process decided to reclaim belongs to a dead process, and as there is no third,
nobody can have replaced it.

**SharedFilesProofs, the board**, for any runs, tasks, declarations, registry and
number of invocations, deaths and edits. All four properties follow from
`BoardInvariant`. None is inductive alone: a write is right only if what was
rendered is, and that was rendered from files others may have changed since. So
`BoardInv` follows each invocation (`Sound`):

* `QueueIsSound`: every write it has still to make was founded when it was queued
  (`JobBacked`: the task is done, or a closed run has its replacement done). Runs
  only grow (`DiskGrows`), so it still is.
* `OutIsSound`: the Results of a rendered task file are `Backed`.
* `FreshIsSound`: with nobody in between, what was rendered is what rendering now
  would give, and once the board is written it shows the task (`CardShown`).
* `AloneIsSound`: in the second reconciliation of an undisturbed resume all tasks
  before the current one are shown (`ShownSoFar`); a later projection does not
  undo an earlier one because it keeps the lines of all other tasks.

`ResultsBackedAlways`, `ResumeAlwaysRepairs`, `ProjectionAlwaysExact` and
`CardsLeaveOnlyOnEvidence` rest on what removing and inserting lines does.
`Part` counts places, and the lemmas about `Kth` (the k-th smallest element of a
finite set exists, is unique and grows with k) take the place of an induction
over the sequence: what filtering leaves depends only on which lines stay
(`Pieces` and the lemmas after it).

**TaskLoopProofs.** One inductive invariant `IInv`: types; the copy and the disk
agree where no unsaved change is pending (`MemoryOnDisk`); what each location
knows of the status (`StatusByLocation`); the evidence is of the tree once an
executor has succeeded (`EvidenceOfTree`); generations below the next one are the
launched ones (`Generations`); reports up to the spent attempts exist
(`Reports`); stages of attempts to come have no records (`FutureStagesEmpty`); the
board follows (`BoardCurrent`). From it `CompletedVerified`, `Accounted`, `GatesFresh` (with their parts
`SpentReported`, `Briefed`, `VerifiersSee`, `FreshRepairs`), `BoardCorrect`, and the action
properties `NeverRelaunched` and `BoardFollows`; `Refinement` shows that each
step is one of `TaskProgress` or leaves it unchanged. `BlockedSpends` follows from
`BlockedIsForced`: an invocation on its way to spend an attempt after a BLOCKED
verdict has a forcing fact.

**RunExecutionProofs**, for any plan, number of invocations and bounds:

* `TypeCorrect`, with `InHand`: who runs or amends has a task in hand.
* `Exclusion`: from "whoever has passed `lease.acquire` is the owner".
* `NothingLost`: from `CopyIsCurrent`: as long as nobody has overlapped, the one
  invocation under way holds what is on disk, and there is no run before it
  creates one.
* `Earned`: types, `Exclusion` and `Truthful` together, the invariant of the run.
* `Truthful`: from `Truth` (every copy calls done only what was verified) and
  `WholeScope` (every copy of an opened run holds the selection). Stale copies
  forget, but never claim more than somebody has verified: this is what keeps
  the lost updates below from becoming false success.
* `DependenciesVerified`: under `NoneRetired` and `ElsewhereInOrder`, from
  `InOrder`: every copy covers its scope (what a task needs and the scope left
  out is verified elsewhere) and a task under way had its recorded dependencies
  done. `ScopesCovered` shows this of both ways to build a scope. `run_pruned`
  and `run_retired` show why the assumption on retired tasks is needed.
* `NeverStuck`: from `OrderAssumption` (the plan has a topological order, which
  `TaskGraph` enforces with Kahn's algorithm) and the well-foundedness of the
  naturals: of the tasks that are not done, the first in that order is actionable
  (`SomeTaskIsFirst`, `SomeTaskIsActionable`).

**ExecutorWindowProofs**, for any finite set of paths, scope, committed tree,
number of launches and of edits (`PathsAssumption`). `IInv` says of each phase what
exists in Docker as long as no command lied (`DockerFits`), that the copy was
taken of the edits others had made (`EditsAreCopied`), that the primary tree is
the one copied, up to edits of the moment and the paths promotion has been through
(`PrimaryIsKept`), and that only cleared and noted paths are promoted
(`PromotionIsCleared`, `ExpansionIsNoted`). All five safety properties follow:
`EditsSurvive`, `AllOrNothing`, `Attribution`, `DockerIsClean`, `InBounds`. The part of
`InBounds` about LaunchPolicy is about every composed request with its grant,
read-only mark, scope, tools or digest altered, in any combination, on every host.

**VerifierGateProofs**, for any reports (`ReportAssumption` is their type) and any
bounds. Files that are written stay, and an answer in memory is the settlement of
the files of its own gate (`AnswersAreSettled`); so a done record has its files
(`DoneIsFounded`) and a spent attempt its verdicts and report (`RepairsAreQuoted`).
From it `CompletionStated`, `CompletionFounded` and `AttemptsExplained`. What it does
not say, that the files are about the work at hand, is what `verifier_stale` refutes.

**RunAdmissionProofs**, for any plan, drafts, command lines, amendments and bounds
(`AdmissionAssumption`). Its `IInv` relates four places: the runs are well
formed and their fingerprint and promises are those of their scope (`RunsKept`); the
terms an invocation holds are those promised (`Bound`); between the checks and the
save that ends an opening, plan, binding and controls agree with the recorded ones
(`OpeningAgrees`), which is why that save changes no control; a run nothing has
touched since is as its request has it (`CalmAgrees`); and promoted changes have
left their window on disk (`WindowsStay`). An invocation's own steps are
summarised by `Grows`: files and generations are only added and nothing a resume
compares is changed. From it `ControlsStand`, `LaunchesAreGoverned`,
`ReplacementIsSafe` and `Admissions`. Two lemmas about the rules carry it: two
requests with the same five controls compile alike (`SamePlan`), and a plan that is
compatible has the recorded scope, selection and adapter (`CompatiblePlan`). What
an amendment does to admissibility is left out of `Admissions`, as `admission_amended`
demands.

**ReleaseProofs, the post-task lifecycle**, for any tasks, requests and number of
calls. A verdict that is computed and not yet recorded stands for what the stage saw
(`PendingIsFounded`), and a call past a stage that is never reused has recorded it
itself (`CallIsFounded`). From it `TailSound`, `ApprovalIsOwn` and `PassesAreKept`.

**ReleaseProofs, the required checks**, for any commits, trees, manifests, page size,
number of check runs and length of the clock. `PromotionFounded` and
`AcceptedGated` follow from `JudgedAlways`. A page says what was so when it was
read, the verdict is given later, and jobs start and end in between. The invariant
therefore relates the real order of ends to the clock of seconds (`EndsAreOrdered`);
says that the pages read hold the first places of a listing unless it has grown
meanwhile, in which case the totals no longer agree and the reading is incomplete
(`PagesAreSeen`), that each line read is a check run as it was when it ended
(`IsView`), and that a successful job has checked out the commit it reports on
(`RunsAreJobs`). With that, the newest run of an identity among those read is one
that was green at some moment of the reading.

**RunStoreProofs**, for any number of clients, runs, files and operations, whose steps
come in any order, from what the constants are (`InheritedAssumption`,
`LogsAssumption`, and `DistinctNone`: the marker for "nothing" is no document).
`ReadableAlways` (what clients hold and write are documents schema 3 accepts,
`WorkIsWhole`) gives `StoreReadable`. `BuiltAlways` adds what relates a client to the
directory: what it has read is an older revision of the document, or is the
document (`HeldIsRead`); what it is about to write is built on that and registers
one published file more, and the revision it has compared is still current
(`WorkIsBuilt`), each unless the run is in `raced` or `swept`. From it
`RegistryFounded` and `CommitsWhatWasRead`. A file of schema 2 has no revision to compare; that
such a file has never been committed to (`Unmigrated`) is why the first commit
over it is current all the same.

**Only model-checked:** all liveness (`ZeroTimeoutAnswers`, `BoundedWaitAnswers`,
`DeadOwnerReclaimed`, `InvocationEnds`, `WindowEnds`), since fairness and ENABLED
are beyond the prover; and `DependenciesFirst` on plans
with retired tasks. What the recursive functions of PlanRules compute is compared with a reference on
all plans of three tasks; an induction over plans is beyond the prover, and
RunAdmissionProofs uses of `Drained` only what `ValidGraph` checks of it.

## 5. What the code does otherwise than it says

Each of these ends in a counterexample of the configuration named. `verifier_stale`
is a run of the project; the others are configurations kept beside it.

* `verifier_stale`: a gate keeps its verifiers' answers in a directory keyed by
  attempt and revision, and an answer that is there is read before one is asked
  for (`verification.py:803`). After a wait, an escalation or a crash the
  work may be another: the task is completed by answers about work that has been
  replaced.
* `lease_race`: two contenders read a dead owner's record, both reclaim, and the
  second unlinks the lock the first has just created (`manager.py:114`). Two
  PIDs are safe, and so is everything that is not a reclaim.
* `loop_stale`: if an invocation ends between a failed gate, or its report, and
  `begin_repair`, the next one gives the executor the report, and then judges
  the new tree on the old command records (`verification_service.py:94`).
* `loop_gate`: after a gate that waits for a verifier the scheduler appends a
  failed execution, and the next invocation dispatches the executor again
  (`execution.py:2350`).
* `run_stale`: an invocation that loaded before somebody else's turn saves that
  copy, while it opens and again when it is refused the lease
  (`execution.py:2549`); a consumed generation comes back. Finished tasks and
  amendments are lost the same way.
* `run_pruned`: evidence of a replacement prunes the prerequisites of the task
  it retired, also those another task of the scope needs (`selection.py:99`).
* `run_retired`: with `--verify-dependency-chain` nothing orders a consumer of a
  retired task after the replacement (`execution.py:2200`).
* `window_limits`, three of them: a path the executor staged is compared with its
  own index entry and not attributed (`inspector.py:555`, `EveryChangeAttributed`);
  the write probe of the container launch leaves a random token in a file, which is
  attributed and promoted as the executor's work (`adapters.py:2331`,
  `OnlyExecutorWork`); required inputs are merged into a request after it was
  sealed, so that a composed launch with inputs is refused (`adapters.py:1577`,
  `InputsKeepAdmission`).
* `store_race`: between the comparison of the revision and the write another
  process may commit, and its commit is lost (`repository.py:107`).
* `store_unpublished`: the evidence an operation names may never have been
  published, which `run_repository.py:25` rules out and `record_operation` does not
  check (`run_repository.py:116`).
* `promotion_shared`: several gates of a matrix share a check name, and the
  newest green one hides a red one (`promotion.py:262`, `quality-gates.yml:37`).
* `post_stale`: a recorded PASS of the final verification is reused after the
  code has changed (`post_task.py:279`).
* `admission_amended`: a resume writes the plan of today over the fingerprint
  `run_amend` aligned (`execution.py:2132`); the amended run is not admitted again.
* `board_unended`: a card appended to a last line without a line end becomes
  part of that line (`board_projection.py:298`).

Seen while modelling, in the models but without a configuration of their own:

* *Gate.* A remote observation of the wrong kind keeps a right one from being
  asked for until the next window. No caller wires a `remote_observer`, so a task
  that requires one is always failed. The verdict file may be ahead of `run.json`.
* *Admission.* A bare resume of a `--verify-dependency-chain` run is refused as
  plan-incompatible, and repair bounds and budgets are not taken over by a bare
  resume. A crash between the first save and that of the contracts leaves a
  run no resume admits and no fresh start replaces. After an amendment, what
  lies outside the amended fields may change unnoticed (`execution.py:1378`). A
  replaced source run can still be resumed.
* *Board.* A reconciliation before the lease can overwrite another run's
  projection; resuming an old run brings a retired card back; projecting
  "blocked" always raises (`task_engine.py:520`).
* *Window.* Promotion overwrites an edit made while the window was open; files
  the container deletes are not deleted in the copy; a control command that timed
  out may have done its work.
* *Store.* An orphan of the same name is replaced; a file published for a commit
  that is then refused stays, and a client may register it meanwhile. (That
  publishing also replaces the *content* of evidence already committed is true of
  the code, but contents are not in the model.)

## 6. Limits

Each model takes from the others what is said here.

* TaskLoop sees the worktree as one generation; ExecutorWindow has the paths but
  one task and no repairs. VerifierGate takes commands and executor from
  TaskLoop. No caller passes claimed checks, and the deterministic isolation fallback is
  one more failed launch.
* Saves are atomic renames; the fixed temporary name of `write_json_atomic`
  (`artifacts.py:74`) is in `PROJECT.json` as a hazard without a property.
* RunExecution takes the lease as excluding, which `lease_race` shows it is not
  with three processes and a dead owner. Attestation, recovery and operational
  unblock are left out there.
* RunAdmission has one invocation alive at a time, changes wait for it to end,
  no reusable evidence elsewhere; a repair is a launch like any other; Docker details are one
  value of the runtime; amendments and runs of earlier versions (digest only, no
  fingerprint) are left out.
* BoardProjection has one driver for a run and the crash of one frees the lease
  at once; people save whole files; cancelled and reused tasks are left out.
* ExecutorWindow has the folders a child is granted but no writes to them past
  the disposable workspace: a host child with a folder of the primary tree could
  change that tree directly. A folder stands for itself, without those inside
  it; `build_scope_dirs` merges the nested ones. `TaskScopeDirs` are of the declared
  scope, as in the code: an amendment does not change them.
* RunStore: contents of files and the temporary names of renames are not state;
  `reports/` and `logs/` are listed in one step; `record_report` records nothing or
  an operation; a caller of `commit` keeps the state or drops an entry
  (`Rebuilt`), the other changes being those of the named operations.
* FileLease: lock records without a nonce, which only versions before nonces were
  added have left, are left out.
* PostTask: people act between calls only, and checks leave the Graphify
  workspace alone. The scan of the refresh for installer commands finds nothing
  there: a refused refresh records no command, and the forbidden entries it could
  miss do not load (`integrations.py:41`). Promotion: the umbrella's own workflow is external.

Not modelled: the text parsers (profiles, plans, reports, metadata), host
processes and their streams, git argument checks, redaction, rendering and
diagnostics, catalogues of task kinds and skill bundles, and the probes
themselves. They are pure input validation, I/O or formatting: they keep no state
of their own that a later step relies on, and their possible answers are
choices in the models. Also left out are attestation and operational unblock, which are
explicit human overrides, and what makes foreign evidence eligible (`Elsewhere`).

## 7. Plan

Done: (1) the lease and its refinement of `Mutex`; (2) one task and its
refinement of `TaskProgress`; (3) the run: opening, reuse, supersession, the loop,
several writers; (4) the executor window and the gate from inside; (5) admission
and plan rules; (6) board, post-task lifecycle, state store, CI promotion.

Proofs: of all safety properties and action properties of FileLease, TaskLoop,
RunExecution (`DependenciesFirst` on plans without retired tasks), ExecutorWindow,
VerifierGate, RunAdmission, BoardProjection, PostTask, RunStore and Promotion, and
of both refinements. What TLC alone checks is liveness.

Next, each with the inductive invariant first checked by TLC:

1. `DependenciesFirst` with retired tasks under the weakest assumption on plans.
2. ExecutorWindow and VerifierGate as implementations of the window and the gate
   that TaskLoop takes as one step each.
