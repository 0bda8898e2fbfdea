-------------------------- MODULE BoardProjection --------------------------
(***************************************************************************)
(* The Markdown board and the task files as projections of run.json        *)
(* (infrastructure/board_projection.py), with everybody who projects: the  *)
(* task loop after each save, a resume before it asks for the lease, and   *)
(* the retirement of cards whose replacement is verified (execution.py,    *)
(* reconciliation_registry.py).  A projection reads both files, renders    *)
(* both, and replaces one after the other; nothing locks them, people edit *)
(* them, and a process may die anywhere.                                   *)
(*                                                                         *)
(* Of a line the module tells apart whose card it is; the label and the    *)
(* link of a card may name different tasks, and the last line of the file  *)
(* may lack its line end.                                                  *)
(***************************************************************************)
EXTENDS Naturals, Sequences, FiniteSets

CONSTANTS Runs,      \* the runs of the project
          ScopeOf,   \* their tasks in order: [Runs -> Seq(task)]
          Retired,   \* superseded tasks that no run has
          Declared,  \* replacements the task files declare, in order
          Registry,  \* replacements the project registers, in order
          Listing,   \* the tasks the board lists at first
          MaxEdits,  \* bound: edits by people
          MaxCalls   \* bound: invocations

Listed(s) == {s[i] : i \in DOMAIN s}
Scope(r) == Listed(ScopeOf[r])
Tasks == Retired \cup UNION {Scope(r) : r \in Runs}
AnyRun == "any"
Note == <<"note", "note">>
Card(t) == <<t, t>>
Columns == {"todo", "prog"}

(* A run has its tasks once each; the lists are lists; no task or run has  *)
(* a name the module uses for something else.                              *)
ASSUME ScopeAssumption ==
    \A r \in Runs : /\ ScopeOf[r] \in Seq(Scope(r))
                    /\ \A i, j \in DOMAIN ScopeOf[r] : ScopeOf[r][i] = ScopeOf[r][j] => i = j
ASSUME ListAssumption ==
    Listing \in Seq(Tasks) /\ Declared \in Seq(Listed(Declared)) /\ Registry \in Seq(Listed(Registry))
ASSUME NameAssumption ==
    {"x", "note"} \cap Tasks = {} /\ {AnyRun, "human"} \cap Runs = {}

VARIABLES disk,   \* run.json of each run: the statuses, and whether it is closed
          board,  \* the board: the lines of its two columns
          taskFile,   \* of each task file: the box that is ticked, its Result sections
          proc,   \* the invocation working on each run
          lease,  \* runs that hold the pipeline lease (at most one)
          fresh,  \* history: runs whose invocation has seen every change since it read
          alone,  \* history: resumes that nobody has disturbed so far
          edits, calls

boardVars == <<disk, board, taskFile, proc, lease, fresh, alone, edits, calls>>

---------------------------------------------------------------------------
(* _apply_board_transition                                                 *)

(* The label names the task, or the link its file.                             *)
IsCardOf(line, t) == line # Note /\ (line[1] = t \/ line[2] = t)

CardsOf(body, t) == {i \in DOMAIN body : IsCardOf(body[i], t)}
(* What a sequence has at some of its places, in order.                    *)
Kth(S, k) == CHOOSE i \in S : Cardinality({j \in S : j <= i}) = k
Part(s, S) == [k \in 1..Cardinality(S) |-> s[Kth(S, k)]]

Lowest(S) == CHOOSE i \in S : \A j \in S : i <= j
Highest(S) == CHOOSE i \in S : \A j \in S : i >= j

(* Lines and whether the last one ends.                                    *)
Body(lines, eol) == [lines |-> lines, eol |-> eol]

Without(body, t) ==
    LET found == CardsOf(body.lines, t)
    IN  Body(Part(body.lines, (DOMAIN body.lines) \ found),
             body.eol \/ Len(body.lines) \in found)

(* After the last card, or at the end.  What follows a line that does not  *)
(* end becomes part of that line, and is no card any more.                 *)
Insert(body, t) ==
    LET cards == {i \in DOMAIN body.lines : body.lines[i] # Note}
        at == IF cards = {} THEN Len(body.lines) ELSE Highest(cards)
    IN  IF at = Len(body.lines) /\ at > 0 /\ ~body.eol
        THEN Body(body.lines, TRUE)
        ELSE Body([i \in 1..(Len(body.lines) + 1) |->
                      IF i <= at THEN body.lines[i]
                      ELSE IF i = at + 1 THEN Card(t) ELSE body.lines[i - 1]],
                  body.eol \/ at = Len(body.lines))

(* The first of its cards becomes the canonical one, the others go.        *)
Upsert(body, t) ==
    LET found == CardsOf(body.lines, t)
        first == Lowest(found)
    IN  IF found = {} THEN Insert(body, t)
        ELSE Body(Part([body.lines EXCEPT ![first] = Card(t)],
                     (DOMAIN body.lines) \ (found \ {first})),
                  body.eol \/ Len(body.lines) \in found)

\* Mutant: only the column the card goes to is looked at.
TransitionInColumn(b, t, state) ==
    CASE state = "to_do"       -> [b EXCEPT !.todo = Upsert(b.todo, t)]
      [] state = "in_progress" -> [b EXCEPT !.prog = Upsert(b.prog, t)]
      [] state = "done"        -> [b EXCEPT !.prog = Without(b.prog, t)]

Transition(b, t, state) ==
    CASE state = "to_do" ->
           [b EXCEPT !.todo = Upsert(b.todo, t), !.prog = Without(b.prog, t)]
      [] state = "in_progress" ->
           [b EXCEPT !.todo = Without(b.todo, t), !.prog = Upsert(b.prog, t)]
      [] state = "done" ->
           [b EXCEPT !.todo = Without(b.todo, t), !.prog = Without(b.prog, t)]

(* remove_historical_cards goes by the label alone.                        *)
Unlabelled(body, T) ==
    Body(Part(body.lines, {i \in DOMAIN body.lines : body.lines[i][1] \notin T}),
         body.eol \/ (body.lines # << >> /\ body.lines[Len(body.lines)][1] \in T))
RemoveHistorical(b, T) ==
    [b EXCEPT !.todo = Unlabelled(b.todo, T), !.prog = Unlabelled(b.prog, T)]

(* _apply_task_transition: the box, and one Result for all there were.     *)
TaskTransition(f, state, source) ==
    [f EXCEPT !.mark = state, !.results = IF state = "done" THEN <<source>> ELSE @]

---------------------------------------------------------------------------
(* What an invocation still has to write: a task's state, or the removal   *)
(* of cards; and what it has rendered of the first of them.                *)
Project(t, state, source) ==
    [op |-> "project", task |-> t, state |-> state, source |-> source]
Remove(T) == [op |-> "remove", tasks |-> T]

NoOut == [board |-> {}, file |-> {}, whole |-> TRUE]
Off == [stage |-> "off", resume |-> FALSE, task |-> {}, queue |-> << >>, out |-> NoOut]

Shown(cards) ==
    [todo |-> Body([i \in DOMAIN cards |-> Card(cards[i])], TRUE),
     prog |-> Body(<<Note>>, TRUE), intact |-> TRUE]

(* The board lists the tasks to do; no run has begun.                      *)
BoardInit ==
    /\ disk = [r \in Runs |-> [status |-> [t \in Scope(r) |-> "to_do"],
                               made |-> FALSE, closed |-> FALSE]]
    /\ board = Shown(Listing)
    /\ taskFile = [t \in Tasks |-> [mark |-> "to_do", results |-> << >>, intact |-> TRUE]]
    /\ proc = [r \in Runs |-> Off]
    /\ lease = {} /\ fresh = {} /\ alone = {}
    /\ edits = 0 /\ calls = 0

(* SupersessionGraph, and the registry: known tasks, one replacement for a *)
(* task, and no task that replaces itself over any chain.  What does not   *)
(* load declares nothing.                                                  *)
GraphLoads(edges) ==
    /\ \A e \in Listed(edges) : {e.old, e.new} \subseteq Tasks
    /\ \A i, j \in DOMAIN edges : edges[i].old = edges[j].old => i = j
    /\ \A S \in SUBSET Tasks \ {{}} :
          \E t \in S : \A e \in Listed(edges) : e.old = t => e.new \notin S
Usable(edges) == IF GraphLoads(edges) THEN edges ELSE << >>

\* Mutant: a run that is still going counts.
OpenSource(e) ==
    {s \in Runs : e.run \in {AnyRun, s} /\ e.new \in Scope(s) /\ disk[s].made}

(* Evidence of an edge: the run it names, or the only one that has any.    *)
Source(e) ==
    {s \in Runs : /\ e.run \in {AnyRun, s} /\ e.new \in Scope(s)
                  /\ disk[s].closed /\ disk[s].status[e.new] = "done"}
Eligible(e) == Cardinality(Source(e)) = 1

---------------------------------------------------------------------------
(* Writing, one file after the other                                       *)

Pending(r) == proc[r].queue # << >>
Job(r) == Head(proc[r].queue)
Settled(r, stage) == proc[r].stage = stage /\ ~Pending(r)

(* Whoever else has read the files or is repairing them is disturbed.      *)
Disturb(others) == fresh' = fresh \ others /\ alone' = alone \ others

Ends(r) == proc' = [proc EXCEPT ![r] = Off] /\ lease' = lease \ {r}

Popped(r) == [proc EXCEPT ![r].queue = Tail(@), ![r].out = NoOut]

(* project_task_state, up to its two writes.                               *)
Render(r) ==
    /\ Pending(r) /\ proc[r].out = NoOut /\ Job(r).op = "project"
    /\ board.intact /\ taskFile[Job(r).task].intact
    /\ LET j == Job(r)
       IN  proc' = [proc EXCEPT ![r].out =
              [board |-> {Transition(board, j.task, j.state)},
               file |-> {TaskTransition(taskFile[j.task], j.state, j.source)},
               whole |-> board.prog.eol]]
    /\ fresh' = fresh \cup {r}
    /\ alone' = IF board.prog.eol THEN alone ELSE alone \ {r}
    /\ UNCHANGED <<disk, board, taskFile, lease, edits, calls>>

RenderRemoval(r) ==
    /\ Pending(r) /\ proc[r].out = NoOut /\ Job(r).op = "remove" /\ board.intact
    /\ LET new == RemoveHistorical(board, Job(r).tasks)
       IN  proc' = IF new = board THEN Popped(r)
                   ELSE [proc EXCEPT ![r].out = [NoOut EXCEPT !.board = {new}]]
    /\ fresh' = fresh \cup {r}
    /\ UNCHANGED <<disk, board, taskFile, lease, alone, edits, calls>>

(* BoardProjectionError: a heading or the checkboxes are not as expected.  *)
Malformed(r) ==
    /\ Pending(r) /\ proc[r].out = NoOut
    /\ ~board.intact \/ (Job(r).op = "project" /\ ~taskFile[Job(r).task].intact)
    /\ Ends(r)
    /\ UNCHANGED <<disk, board, taskFile, fresh, alone, edits, calls>>

WriteBoard(r) ==
    /\ proc[r].out.board # {}
    /\ board' \in proc[r].out.board
    /\ proc' = IF proc[r].out.file = {} THEN Popped(r)
               ELSE [proc EXCEPT ![r].out.board = {}]
    /\ Disturb(Runs \ {r})
    /\ UNCHANGED <<disk, taskFile, lease, edits, calls>>

WriteTask(r) ==
    /\ proc[r].out.board = {} /\ proc[r].out.file # {}
    /\ \E f \in proc[r].out.file : taskFile' = [taskFile EXCEPT ![Job(r).task] = f]
    /\ proc' = Popped(r)
    /\ Disturb(Runs \ {r})
    /\ UNCHANGED <<disk, board, lease, edits, calls>>

Dies(r) ==
    /\ proc[r] # Off
    /\ Ends(r)                \* its lease can be reclaimed at once
    /\ UNCHANGED <<disk, board, taskFile, fresh, alone, edits, calls>>

---------------------------------------------------------------------------
(* An invocation                                                           *)

MoveTo(r, stage, queue) ==
    proc' = [proc EXCEPT ![r].stage = stage, ![r].queue = queue]

\* Mutant: what is done is taken to be shown.
ReconciliationOfOpen(r) ==
    LET open == SelectSeq(ScopeOf[r], LAMBDA t : disk[r].status[t] # "done")
    IN  [i \in DOMAIN open |-> Project(open[i], disk[r].status[open[i]], r)]

(* _reconcile_projection: every task of the run, as run.json has it.       *)
Reconciliation(r) ==
    [i \in DOMAIN ScopeOf[r] |-> Project(ScopeOf[r][i], disk[r].status[ScopeOf[r][i]], r)]

(* reconcile_historical_cards: a completion that the registry binds to a   *)
(* run is projected, the other retired cards are taken off in one write.   *)
Direct == {e.old : e \in {d \in Listed(Usable(Declared)) : Eligible(d)}}
History ==
    LET edges == Usable(Registry)
        found == {i \in DOMAIN edges : edges[i].old \notin Direct /\ Eligible(edges[i])}
        named == {i \in found : edges[i].completes /\ edges[i].run # AnyRun}
        done == Part(edges, named)
        bare == Direct \cup ({edges[i].old : i \in found} \ {edges[i].old : i \in named})
    IN  [i \in DOMAIN done |->
            Project(done[i].old, "done", CHOOSE s \in Runs : s \in Source(done[i]))]
          \o (IF bare = {} THEN << >> ELSE <<Remove(bare)>>)

Execute(r) ==
    /\ proc[r] = Off /\ calls < MaxCalls
    /\ proc' = [proc EXCEPT ![r] =
          IF disk[r].made
          THEN [Off EXCEPT !.stage = "reconcile", !.resume = TRUE, !.queue = Reconciliation(r)]
          ELSE [Off EXCEPT !.stage = "history", !.queue = History]]
    /\ disk' = [disk EXCEPT ![r].made = TRUE]
    /\ alone' = IF disk[r].made THEN alone \cup {r} ELSE alone \ {r}
    /\ calls' = calls + 1
    /\ UNCHANGED <<board, taskFile, lease, fresh, edits>>

Reconciled(r) ==
    /\ Settled(r, "reconcile")
    /\ MoveTo(r, "history", History)
    /\ UNCHANGED <<disk, board, taskFile, lease, fresh, alone, edits, calls>>

(* A resume reconciles a second time.                                      *)
Retire(r) ==
    /\ Settled(r, "history")
    /\ IF proc[r].resume THEN MoveTo(r, "again", Reconciliation(r)) ELSE MoveTo(r, "lease", << >>)
    /\ UNCHANGED <<disk, board, taskFile, lease, fresh, alone, edits, calls>>

ReconciledAgain(r) ==
    /\ Settled(r, "again")
    /\ MoveTo(r, "lease", << >>)
    /\ UNCHANGED <<disk, board, taskFile, lease, fresh, alone, edits, calls>>

TakeLease(r) ==
    /\ Settled(r, "lease")
    /\ IF lease = {} THEN lease' = {r} /\ MoveTo(r, "running", << >>) ELSE Ends(r)
    /\ UNCHANGED <<disk, board, taskFile, fresh, alone, edits, calls>>

Open(r) == {i \in DOMAIN ScopeOf[r] : disk[r].status[ScopeOf[r][i]] # "done"}
NextTask(r) == ScopeOf[r][Lowest(Open(r))]

Enter(r) ==
    /\ Settled(r, "running") /\ Open(r) # {}
    /\ LET t == NextTask(r)
           todo == disk[r].status[t] = "to_do"
       IN  proc' = [proc EXCEPT ![r].task = {t},
                       ![r].stage = IF todo THEN "starting" ELSE "working",
                       ![r].queue = IF todo THEN <<Project(t, "to_do", r)>> ELSE << >>]
    /\ UNCHANGED <<disk, board, taskFile, lease, fresh, alone, edits, calls>>

Moves(r, state, stage) ==
    \E t \in proc[r].task :
        /\ disk' = [disk EXCEPT ![r].status[t] = state]
        /\ MoveTo(r, stage, <<Project(t, state, r)>>)

Started(r) ==
    /\ Settled(r, "starting")
    /\ Moves(r, "in_progress", "working")
    /\ UNCHANGED <<board, taskFile, lease, fresh, alone, edits, calls>>

\* Mutant: the completion is projected, and saved with the next transition.
CompletedLate(r) ==
    /\ Settled(r, "working")
    /\ \E t \in proc[r].task : MoveTo(r, "running", <<Project(t, "done", r)>>)
    /\ UNCHANGED <<disk, board, taskFile, lease, fresh, alone, edits, calls>>

Completed(r) ==
    /\ Settled(r, "working")
    /\ Moves(r, "done", "running")
    /\ UNCHANGED <<board, taskFile, lease, fresh, alone, edits, calls>>

(* Any outcome but done ends the invocation and leaves the task open.      *)
Waits(r) ==
    /\ Settled(r, "working")
    /\ Ends(r)
    /\ UNCHANGED <<disk, board, taskFile, fresh, alone, edits, calls>>

Close(r) ==
    /\ Settled(r, "running") /\ Open(r) = {}
    /\ disk' = [disk EXCEPT ![r].closed = TRUE]
    /\ Ends(r)
    /\ UNCHANGED <<board, taskFile, fresh, alone, edits, calls>>

---------------------------------------------------------------------------
(* People                                                                  *)

Edit == edits < MaxEdits /\ edits' = edits + 1 /\ Disturb(Runs)

(* A card is added, perhaps under another label or link, or a line goes.   *)
EditColumn(c) ==
    /\ \/ \E x \in {Card(t) : t \in Tasks} \cup {<<"x", t>> : t \in Tasks} :
             board' = [board EXCEPT ![c] = Body(Append(@.lines, x), TRUE)]
       \/ /\ board[c].lines # << >>
          /\ board' = [board EXCEPT ![c] = Body(Tail(@.lines), TRUE)]
    /\ Edit
    /\ UNCHANGED <<disk, taskFile, proc, lease, calls>>

(* The file is saved without a last line end, or with a heading changed or *)
(* mended.                                                                 *)
EditLayout ==
    /\ \/ board.prog.eol /\ board' = [board EXCEPT !.prog.eol = FALSE]
       \/ board' = [board EXCEPT !.intact = ~@]
    /\ Edit
    /\ UNCHANGED <<disk, taskFile, proc, lease, calls>>

EditTask(t) ==
    /\ \/ taskFile' = [taskFile EXCEPT ![t].results = Append(@, "human")]
       \/ taskFile' = [taskFile EXCEPT ![t].intact = ~@]
    /\ Edit
    /\ UNCHANGED <<disk, board, proc, lease, calls>>

RunnerStep(r) ==
    \/ Execute(r) \/ Reconciled(r) \/ Retire(r) \/ ReconciledAgain(r) \/ TakeLease(r)
    \/ Enter(r) \/ Started(r) \/ Completed(r) \/ Waits(r) \/ Close(r)
    \/ Render(r) \/ RenderRemoval(r) \/ WriteBoard(r) \/ WriteTask(r)
    \/ Malformed(r) \/ Dies(r)

BoardNext ==
    \/ \E r \in Runs : RunnerStep(r)
    \/ \E c \in Columns : EditColumn(c)
    \/ \E t \in Tasks : EditTask(t)
    \/ EditLayout

BoardSpec == BoardInit /\ [][BoardNext]_boardVars

---------------------------------------------------------------------------
(* Properties                                                              *)

AnyLine == {Note} \cup {Card(t) : t \in Tasks} \cup {<<"x", t>> : t \in Tasks}
Lines == Seq(AnyLine)
States == {"to_do", "in_progress", "done"}

(* The board stays two columns of lines, a task file one ticked box, and   *)
(* at most one invocation has the lease.                                   *)
BoardTypeOK ==
    /\ \A r \in Runs : disk[r].status \in [Scope(r) -> States]
    /\ \A c \in Columns : board[c].lines \in Lines /\ board[c].eol \in BOOLEAN
    /\ board.todo.eol
    /\ \A t \in Tasks : taskFile[t].mark \in States /\ taskFile[t].intact \in BOOLEAN
    /\ \A r \in Runs : proc[r].task \subseteq Scope(r)
    /\ Cardinality(lease) <= 1

Shows(b, f, t, state) ==
    /\ f.mark = state
    /\ IF state = "done"
       THEN Len(f.results) = 1 /\ \A c \in Columns : CardsOf(b[c].lines, t) = {}
       ELSE \A c \in Columns :
               IF c = (IF state = "to_do" THEN "todo" ELSE "prog")
               THEN \E i \in DOMAIN b[c].lines :
                       CardsOf(b[c].lines, t) = {i} /\ b[c].lines[i] = Card(t)
               ELSE CardsOf(b[c].lines, t) = {}

Named(r) == IF Job(r).op = "remove" THEN Job(r).tasks ELSE {Job(r).task}
OthersOf(b, T) ==
    [c \in Columns |->
        Part(b[c].lines, {i \in DOMAIN b[c].lines : \A t \in T : ~IsCardOf(b[c].lines[i], t)})]
PutsBoard(r) == proc[r].out.board # {} /\ proc'[r].out.board = {} /\ proc'[r] # Off
PutsTask(r) == proc[r].out.board = {} /\ proc[r].out.file # {} /\ proc'[r].out = NoOut /\ proc'[r] # Off
Keeps(r) ==
    /\ PutsBoard(r) => OthersOf(board', Named(r)) = OthersOf(board, Named(r))
    /\ PutsTask(r) => Shows(board, taskFile'[Job(r).task], Job(r).task, Job(r).state)

(* A projection that nobody comes between leaves one canonical card in the *)
(* right column, or none and one Result, whatever duplicates, foreign      *)
(* labels and old Results it found, and touches no line of anybody else -  *)
(* on a board whose last line ends.                                        *)
ProjectionIsExact ==
    [][\A r \in Runs : r \in fresh /\ proc[r].out.whole => Keeps(r)]_boardVars

(* NOT an invariant (run it with board_unended.cfg).                       *)
(* project_task_state: "Missing and duplicate cards are recoverable        *)
(* divergence: they converge to one canonical card", whatever the file     *)
(* ends in.                                                                *)
CardsConverge == [][\A r \in Runs : r \in fresh => Keeps(r)]_boardVars

(* When a resume nobody disturbed asks for the lease, the board and the    *)
(* task files show all of its tasks as run.json has them, whatever crash   *)
(* or other run came before, also where it has just retired one of its own *)
(* cards.                                                                  *)
ResumeRepairs ==
    \A r \in alone : proc[r].stage = "lease" =>
        \A t \in Scope(r) : Shows(board, taskFile[t], t, disk[r].status[t])

(* A Result never outruns run.json: the run it names has the task done, or *)
(* has closed with the registered replacement done.                        *)
ResultIsDurable ==
    \A t \in Tasks, s \in Runs : s \in Listed(taskFile[t].results) =>
        \/ t \in Scope(s) /\ disk[s].status[t] = "done"
        \/ \E e \in Listed(Registry) :
              e.old = t /\ e.completes /\ disk[s].closed /\ disk[s].status[e.new] = "done"

(* Board, files and lease keep their form, and Results are backed.         *)
ResultsAreBacked == BoardTypeOK /\ ResultIsDurable

HasCard(b, t) == \E c \in Columns : Card(t) \in Listed(b[c].lines)
(* A runner whose view is current only takes a card off the board when     *)
(* some run has done the task, or a closed run a task declared to replace  *)
(* it.                                                                     *)
CardsLeaveOnEvidence ==
    [][\A r \in Runs, t \in Tasks :
          /\ r \in fresh /\ proc[r].out.whole /\ PutsBoard(r)
          /\ HasCard(board, t) /\ ~HasCard(board', t)
          => \E s \in Runs :
                \/ t \in Scope(s) /\ disk[s].status[t] = "done"
                \/ \E e \in Listed(Declared) \cup Listed(Registry) :
                      /\ e.old = t /\ e.new \in Scope(s)
                      /\ disk[s].closed /\ disk[s].status[e.new] = "done"]_boardVars
=============================================================================
