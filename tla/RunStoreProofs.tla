--------------------------- MODULE RunStoreProofs ---------------------------
(***************************************************************************)
(* Theorems about RunStore for every number of clients, runs, names and    *)
(* operations, whose steps may come in any order: that a client only reads *)
(* and writes whole documents; that what a registry names was published    *)
(* and is kept; and that a commit replaces what its client had read unless *)
(* two commits met between their comparison and their write.               *)
(***************************************************************************)
EXTENDS RunStore, TLAPS

Writing(c) == pc[c] \in {"publish", "check", "replace"}

Reconciling(c) == pc[c] \in {"list", "move"}

(* What an operation has in hand at each of its points.                    *)
WholeAt(c) ==
    /\ pc[c] \in {"initialise", "point"} => work[c].run \in dirs
    /\ pc[c] = "point" => json[work[c].run] # None
    /\ Reconciling(c) => work[c].run \in RunIds
    /\ pc[c] = "publish" => work[c].file # None
    /\ Writing(c) => held[c] # None /\ work[c].run = held[c].run
    /\ Writing(c) \/ Reconciling(c) => work[c].state # None /\ TaskParses(work[c].state)

WorkIsWhole == \A c \in Clients : WholeAt(c)

(* The inductive invariant of what is readable.                            *)
Readable == StoreIsReadable /\ WorkIsWhole
-----------------------------------------------------------------------------
(* A document of schema 2 has not been committed to.                       *)
Unmigrated ==
    \A r \in RunIds : json[r] # None /\ json[r].version = 2 => json[r].revision = 0

(* A state some client has read is an older revision of the document, or   *)
(* it is the document, unless two commits met.                             *)
Since(s, document, met) ==
    /\ document # None /\ s.version = 3
    /\ ~met => /\ s.revision <= document.revision
               /\ s.revision = document.revision => ReadFrom(s, document)

Older(s, r) == Since(s, json[r], r \in raced)

(* What a state has registered was published, whoever moved it since.      *)
Founded(s, r) == Registry(s) \subseteq files[r] \cup orphans[r]

HeldAt(c) ==
    held[c] # None => /\ Older(held[c].state, held[c].run)
                      /\ Founded(held[c].state, held[c].run)

HeldIsRead == \A c \in Clients : HeldAt(c)

(* A write is of the state its client holds, and registers one file more.  *)
Builds(new, old, file) ==
    /\ new.version = old.version /\ new.revision = old.revision
    /\ Registry(new) \subseteq Registry(old) \cup ({file} \ {None})

(* What is known of the work in hand: a reconciliation has the document's  *)
(* state and moves nothing that it names unless a commit met it; a file    *)
(* about to be registered is there unless one was moved; and the revision  *)
(* that was compared is still the document's unless two commits met.       *)
InHandAt(c) ==
    LET r == work[c].run  s == work[c].state  f == work[c].file IN
    /\ pc[c] = "point" => Older(FreshState, r)
    /\ Reconciling(c) =>
          Older(s, r) /\ Founded(s, r) /\ (r \notin swept => ReadFrom(s, json[r]))
    /\ pc[c] = "move" => work[c].todo \cap Referenced(s) = {}
    /\ Writing(c) => Builds(s, held[c].state, f)
    /\ pc[c] \in {"check", "replace"} /\ f # None =>
          f \in files[r] \cup orphans[r] /\ (r \notin swept => f \in files[r])
    /\ pc[c] = "replace" /\ r \notin raced => json[r].revision = held[c].state.revision

WorkIsBuilt == \A c \in Clients : InHandAt(c)

Documents == Unmigrated /\ RegistryIsFounded

(* The inductive invariant.                                                *)
IInv == Readable /\ Documents /\ HeldIsRead /\ WorkIsBuilt
-----------------------------------------------------------------------------
(* The documents: what reading, changing and committing one makes of it.   *)

(* The state of a new run is a document schema 3 accepts.                  *)
LEMMA FreshIsWhole ==
    /\ FreshState \in States /\ TaskParses(FreshState)
    /\ FreshState.version = 3 /\ FreshState.revision = 0
    /\ Registry(FreshState) = {}
<1>1. << >> \in Seq(Logs)
  OBVIOUS
<1>2. FreshState \in States
  BY <1>1 DEF FreshState, States, Defects, Product
<1> QED
  BY <1>2 DEF FreshState, TaskParses, NestedParse, ResolutionFits, Product, Registry

(* A label of schema 2 becomes a product status.                           *)
LEMMA ProductType == \A l \in Legacy : ProductOf(l) \in Product
BY DEF Legacy, ProductOf, Product

(* Upgrading keeps the documents documents, and what no migration touches. *)
LEMMA UpgradeKeeps ==
    ASSUME NEW j \in States
    PROVE  /\ Upgraded(j) \in States /\ Upgraded(j).version = 3
           /\ Upgraded(j).revision = j.revision /\ Upgraded(j).commands = j.commands
           /\ Upgraded(j).artifacts = j.artifacts /\ Upgraded(j).ops = j.ops
<1>1. ASSUME NEW s \in States, s.version = 3
      PROVE  /\ MigrateStatus(s) \in States /\ MigrateStatus(s).version = 3
             /\ MigrateStatus(s).revision = s.revision /\ MigrateStatus(s).commands = s.commands
             /\ MigrateStatus(s).artifacts = s.artifacts /\ MigrateStatus(s).ops = s.ops
  <2>1. CASE s.status \notin Legacy
    BY <1>1, <2>1 DEF MigrateStatus
  <2>2. CASE s.status \in Legacy
    <3>1. ProductOf(s.status) \in Product
      BY <2>2, ProductType
    <3>2. (IF s.status = "verified" THEN "completed" ELSE s.resolution)
             \in Resolutions \cup {None}
      BY DEF States, Resolutions
    <3> QED BY <1>1, <2>2, <3>1, <3>2 DEF MigrateStatus, States
  <2> QED BY <2>1, <2>2
<1>2. CASE j.version = 2
  <2> DEFINE t == [j EXCEPT !.version = 3]
  <2>1. /\ t \in States /\ t.version = 3 /\ t.revision = j.revision
        /\ t.commands = j.commands /\ t.artifacts = j.artifacts /\ t.ops = j.ops
    BY DEF States
  <2>2. Upgraded(j) = MigrateStatus(t)
    BY <1>2 DEF Upgraded, V2ToV3
  <2> HIDE DEF t
  <2> QED BY <1>1, <2>1, <2>2
<1>3. CASE j.version # 2
  <2>1. Upgraded(j) = MigrateStatus(j) /\ j.version = 3
    BY <1>3 DEF Upgraded, States
  <2> QED BY <1>1, <2>1
<1> QED BY <1>2, <1>3

(* What a reader makes of a document keeps its revision and what it names.  *)
LEMMA ReadKeeps ==
    ASSUME NEW j \in States, NEW s, ReadFrom(s, j)
    PROVE  /\ s \in States /\ s.version = 3 /\ s.revision = j.revision
           /\ Registry(s) = Registry(j) /\ Referenced(s) = Referenced(j)
<1> DEFINE u == Upgraded(j)
<1>1. PICK policy \in Policies : s = [u EXCEPT !.foreign = u.foreign /\ policy = "preserve"]
  BY DEF ReadFrom, Load, FromMapping
<1>2. (u.foreign /\ policy = "preserve") \in BOOLEAN
  OBVIOUS
<1>3. /\ u \in States /\ u.version = 3 /\ u.revision = j.revision
      /\ u.artifacts = j.artifacts /\ u.ops = j.ops
  BY UpgradeKeeps
<1> HIDE DEF u
<1>4. /\ s \in States /\ s.version = 3 /\ s.revision = j.revision
      /\ s.artifacts = j.artifacts /\ s.ops = j.ops
  BY <1>1, <1>2, <1>3 DEF States
<1> QED BY <1>4 DEF Registry, Referenced

(* What a load that succeeds returns is whole, and read from the document. *)
LEMMA LoadIsWhole ==
    ASSUME NEW j \in States, NEW policy \in Policies, Loads(j, policy)
    PROVE  /\ Load(j, policy) \in States /\ TaskParses(Load(j, policy))
           /\ ReadFrom(Load(j, policy), j)
<1> DEFINE u == Upgraded(j)
<1>1. u \in States /\ TaskParses(u)
  BY UpgradeKeeps DEF Loads, ReadsAsV3
<1>2. Load(j, policy) = [u EXCEPT !.foreign = u.foreign /\ policy = "preserve"]
  BY DEF Load, FromMapping
<1>3. ReadFrom(Load(j, policy), j)
  BY DEF ReadFrom
<1> HIDE DEF u
<1>4. TaskParses(Load(j, policy))
  BY <1>1, <1>2 DEF States, TaskParses, NestedParse, ResolutionFits
<1> QED BY <1>3, <1>4, ReadKeeps

(* A document schema 3 accepts reads as it is.                             *)
LEMMA WholeReadsItself ==
    ASSUME NEW s \in States, s.version = 3, TaskParses(s)
    PROVE  ReadFrom(s, s)
<1>1. s.status \notin Legacy
  BY DEF TaskParses, Product, Legacy
<1>2. Upgraded(s) = s
  BY <1>1 DEF Upgraded, MigrateStatus
<1>3. (s.foreign /\ "preserve" = "preserve") = s.foreign
  BY DEF States
<1>4. [s EXCEPT !.foreign = s.foreign] = s
  BY DEF States
<1>5. Load(s, "preserve") = s
  BY <1>2, <1>3, <1>4 DEF Load, FromMapping
<1> QED BY <1>5 DEF ReadFrom, Policies

(* Evidence is registered and recorded under the names of files.           *)
LEMMA ReferencedNames == \A s \in States : Referenced(s) \subseteq Names
BY DEF Referenced, Registry, States, Evidence

(* A commit counts the revision and changes nothing else.                  *)
LEMMA CommitKeeps ==
    ASSUME NEW s \in States
    PROVE  /\ Committed(s) \in States /\ Committed(s).revision = s.revision + 1
           /\ Committed(s).version = s.version
           /\ Registry(Committed(s)) = Registry(s)
           /\ TaskParses(s) => TaskParses(Committed(s))
<1>1. /\ Committed(s) \in States /\ Committed(s).revision = s.revision + 1
      /\ Committed(s).version = s.version /\ Committed(s).artifacts = s.artifacts
  BY DEF Committed, States
<1>2. /\ Committed(s).defect = s.defect /\ Committed(s).status = s.status
      /\ Committed(s).resolution = s.resolution
  BY DEF Committed, States
<1> QED BY <1>1, <1>2 DEF Registry, TaskParses, NestedParse, ResolutionFits

(* What one write makes of a state: a whole one, with the registry it had  *)
(* but for the file that is registered or the entry that is dropped.       *)
Makes(w, s, file) ==
    /\ w \in States
    /\ TaskParses(s) => TaskParses(w)
    /\ Builds(w, s, file)

(* Appending a command registers nothing.                                  *)
LEMMA CommandKeeps ==
    ASSUME NEW s \in States, NEW log \in Logs
    PROVE  Makes(WithCommand(s, log), s, None)
<1> DEFINE w == WithCommand(s, log)
<1>1. Append(s.commands, log) \in Seq(Logs)
  BY DEF States
<1>2. w \in States
  BY <1>1 DEF WithCommand, States
<1>3. /\ w.version = s.version /\ w.defect = s.defect /\ w.revision = s.revision
      /\ w.artifacts = s.artifacts /\ w.status = s.status /\ w.resolution = s.resolution
  BY DEF WithCommand, States
<1> HIDE DEF w
<1>4. Registry(w) = Registry(s)
  BY <1>3 DEF Registry
<1>5. TaskParses(s) => TaskParses(w)
  BY <1>3 DEF TaskParses, NestedParse, ResolutionFits
<1> QED BY <1>2, <1>3, <1>4, <1>5 DEF w, Makes, Builds

(* Registering a file names it, and may name another one no more.          *)
LEMMA ArtifactKeeps ==
    ASSUME NEW s \in States, NEW k \in Entries, NEW n \in Names
    PROVE  Makes(WithArtifact(s, k, n), s, n)
<1> DEFINE w == WithArtifact(s, k, n)
<1>1. w \in States
  BY DEF WithArtifact, States
<1>2. /\ w.version = s.version /\ w.defect = s.defect /\ w.revision = s.revision
      /\ w.artifacts = [s.artifacts EXCEPT ![k] = n]
      /\ w.status = s.status /\ w.resolution = s.resolution
  BY DEF WithArtifact, States
<1>3. s.artifacts \in [Entries -> Names \cup {None}]
  BY DEF States
<1> HIDE DEF w
<1>4. \A q \in Entries : w.artifacts[q] \in {s.artifacts[q], n}
  BY <1>2, <1>3
<1>5. Registry(w) \subseteq Registry(s) \cup ({n} \ {None})
  BY <1>4 DEF Registry
<1>6. TaskParses(s) => TaskParses(w)
  BY <1>2 DEF TaskParses, NestedParse, ResolutionFits
<1> QED BY <1>1, <1>2, <1>5, <1>6 DEF w, Makes, Builds

(* A snapshot given to commit registers nothing new.                       *)
LEMMA RebuiltKeeps ==
    ASSUME NEW s \in States, NEW w \in Rebuilt(s)
    PROVE  Makes(w, s, None)
<1>1. CASE w = s
  BY <1>1 DEF Makes, Builds
<1>2. ASSUME NEW k \in Entries, w = [s EXCEPT !.artifacts[k] = None]
      PROVE  Makes(w, s, None)
  <2>1. w \in States
    BY <1>2 DEF States
  <2>2. /\ w.version = s.version /\ w.defect = s.defect /\ w.revision = s.revision
        /\ w.artifacts = [s.artifacts EXCEPT ![k] = None]
        /\ w.status = s.status /\ w.resolution = s.resolution
    BY <1>2 DEF States
  <2>3. s.artifacts \in [Entries -> Names \cup {None}]
    BY DEF States
  <2>4. \A q \in Entries : w.artifacts[q] \in {s.artifacts[q], None}
    BY <2>2, <2>3
  <2>5. Registry(w) \subseteq Registry(s)
    BY <2>4 DEF Registry
  <2>6. TaskParses(s) => TaskParses(w)
    BY <2>2 DEF TaskParses, NestedParse, ResolutionFits
  <2> QED BY <2>1, <2>2, <2>5, <2>6 DEF Makes, Builds
<1> QED BY <1>1, <1>2 DEF Rebuilt

(* Recording an operation registers nothing.                               *)
LEMMA OperationKeeps ==
    ASSUME NEW s \in States, NEW o \in OpIds, NEW e \in Evidence
    PROVE  Makes(WithOperation(s, o, e), s, None)
<1> DEFINE w == WithOperation(s, o, e)
<1>1. w \in States
  BY DEF WithOperation, States
<1>2. /\ w.version = s.version /\ w.defect = s.defect /\ w.revision = s.revision
      /\ w.artifacts = s.artifacts /\ w.status = s.status /\ w.resolution = s.resolution
  BY DEF WithOperation, States
<1> HIDE DEF w
<1>3. Registry(w) = Registry(s)
  BY <1>2 DEF Registry
<1>4. TaskParses(s) => TaskParses(w)
  BY <1>2 DEF TaskParses, NestedParse, ResolutionFits
<1> QED BY <1>1, <1>2, <1>3, <1>4 DEF w, Makes, Builds

(* A status the schema takes registers nothing.                            *)
LEMMA StatusKeeps ==
    ASSUME NEW s \in States, NEW l \in Product, NEW x \in Resolutions \cup {None},
           NEW why \in BOOLEAN, ~StatusRefused(l, x, why)
    PROVE  Makes(WithStatus(s, l, x), s, None)
<1> DEFINE w == WithStatus(s, l, x)
<1>1. w \in States
  BY DEF WithStatus, States
<1>2. /\ w.version = s.version /\ w.defect = s.defect /\ w.revision = s.revision
      /\ w.artifacts = s.artifacts /\ w.status = l /\ w.resolution = x
  BY DEF WithStatus, States
<1>3. ResolutionFits(l, x)
  BY DEF StatusRefused
<1> HIDE DEF w
<1>4. Registry(w) = Registry(s)
  BY <1>2 DEF Registry
<1>5. TaskParses(s) => TaskParses(w)
  BY <1>2, <1>3 DEF TaskParses, NestedParse, ResolutionFits
<1> QED BY <1>1, <1>2, <1>4, <1>5 DEF w, Makes, Builds
-----------------------------------------------------------------------------
(* A record of work with its run, state, file and list is one.             *)
LEMMA WorkType ==
    ASSUME NEW r \in RunIds \cup {None}, NEW s \in States \cup {None},
           NEW f \in Names \cup {None}, NEW t \in SUBSET Names
    PROVE  [run |-> r, state |-> s, file |-> f, todo |-> t] \in Works
BY DEF Works

(* A client that does nothing has nothing in hand.                         *)
LEMMA NoWorkType == NoWork \in Works
BY WorkType DEF NoWork

(* What a client that starts a write is about to commit.                   *)
LEMMA StartingWrites ==
    ASSUME TypeOK, NEW c \in Clients, Starting(c)
    PROVE  held[c] # None /\
           \E s \in States, f \in Names \cup {None} :
              Writes(c, s, f) /\ TaskParses(s) /\ Builds(s, held[c].state, f)
<1> DEFINE h == held[c].state
           Starts(s, f) == Writes(c, s, f) /\ TaskParses(s) /\ Builds(s, h, f)
<1>1. held[c] # None
  BY DEF Starting, Commit, RecordCommand, RecordReport, RecordOperation, SetStatus
<1>2. h \in States /\ TaskParses(h)
  BY <1>1 DEF TypeOK
<1>3. \A n \in Names : n # None
  BY NoneAssumption
<1>4. ASSUME NEW s, NEW f \in Names \cup {None}, Makes(s, h, f), Writes(c, s, f)
      PROVE  \E t \in States, g \in Names \cup {None} : Starts(t, g)
  <2> HIDE DEF h
  <2>1. s \in States /\ Starts(s, f)
    BY <1>2, <1>4 DEF Makes
  <2> QED BY <2>1
<1>5. ASSUME Commit(c)
      PROVE  \E s \in States, f \in Names \cup {None} : Starts(s, f)
  <2>1. PICK s \in Rebuilt(h) : Writes(c, s, None)
    BY <1>5 DEF Commit
  <2> HIDE DEF h
  <2>2. Makes(s, h, None)
    BY <1>2, RebuiltKeeps
  <2> QED BY <1>4, <2>1, <2>2
<1>6. ASSUME NEW log \in Logs, NEW logged \in BOOLEAN, RecordCommand(c, log, logged)
      PROVE  \E s \in States, f \in Names \cup {None} : Starts(s, f)
  <2> DEFINE w == WithCommand(h, log)
  <2>0. log \in Names /\ log \in Entries
    BY LogsAssumption DEF Entries
  <2>1. IF logged THEN Writes(c, WithArtifact(w, log, log), log) ELSE Writes(c, w, None)
    BY <1>6 DEF RecordCommand
  <2> HIDE DEF h
  <2>2. Makes(w, h, None) /\ w \in States
    BY <1>2, CommandKeeps DEF Makes
  <2> HIDE DEF w
  <2>3. CASE logged
    <3>1. Makes(WithArtifact(w, log, log), w, log)
      BY <2>0, <2>2, ArtifactKeeps
    <3>2. Makes(WithArtifact(w, log, log), h, log)
      BY <2>2, <3>1 DEF Makes, Builds
    <3> QED BY <1>4, <2>0, <2>1, <2>3, <3>2
  <2>4. CASE ~logged
    BY <1>4, <2>1, <2>2, <2>4
  <2> QED BY <2>3, <2>4
<1>7. ASSUME NEW k \in Keys, NEW n \in Names \ Logs, NEW o \in OpIds \cup {None},
             RecordReport(c, k, n, o)
      PROVE  \E s \in States, f \in Names \cup {None} : Starts(s, f)
  <2> DEFINE w == WithArtifact(h, k, n)
  <2>1. IF o = None THEN Writes(c, w, n) ELSE Writes(c, WithOperation(w, o, n), n)
    BY <1>7 DEF RecordReport
  <2>2. k \in Entries /\ n \in Evidence
    BY DEF Entries, Evidence
  <2> HIDE DEF h
  <2>3. Makes(w, h, n) /\ w \in States
    BY <1>2, <2>2, ArtifactKeeps DEF Makes
  <2> HIDE DEF w
  <2>4. CASE o = None
    BY <1>4, <2>1, <2>3, <2>4
  <2>5. CASE o # None
    <3>1. Makes(WithOperation(w, o, n), w, None)
      BY <2>2, <2>3, <2>5, OperationKeeps
    <3>2. Makes(WithOperation(w, o, n), h, n)
      BY <2>3, <3>1 DEF Makes, Builds
    <3> QED BY <1>4, <2>1, <2>5, <3>2
  <2> QED BY <2>4, <2>5
<1>8. ASSUME NEW o \in OpIds, NEW e \in Evidence, RecordOperation(c, o, e)
      PROVE  \E s \in States, f \in Names \cup {None} : Starts(s, f)
  <2>1. Writes(c, WithOperation(h, o, e), None)
    BY <1>8 DEF RecordOperation
  <2> HIDE DEF h
  <2>2. Makes(WithOperation(h, o, e), h, None)
    BY <1>2, OperationKeeps
  <2> QED BY <1>4, <2>1, <2>2
<1>9. ASSUME NEW l \in Product, NEW x \in Resolutions \cup {None}, NEW why \in BOOLEAN,
             SetStatus(c, l, x, why)
      PROVE  \E s \in States, f \in Names \cup {None} : Starts(s, f)
  <2>1. Writes(c, WithStatus(h, l, x), None) /\ ~StatusRefused(l, x, why)
    BY <1>9 DEF SetStatus
  <2> HIDE DEF h
  <2>2. Makes(WithStatus(h, l, x), h, None)
    BY <1>2, <2>1, StatusKeeps
  <2> QED BY <1>4, <2>1, <2>2
<1>10. \A call \in StatusCalls :
          call[1] \in Product /\ call[2] \in Resolutions \cup {None} /\ call[3] \in BOOLEAN
  BY StatusAssumption
<1> QED BY <1>1, <1>5, <1>6, <1>7, <1>8, <1>9, <1>10 DEF Starting

(* A client's work in hand is not touched by what another one does.        *)
LEMMA OthersWhole ==
    ASSUME NEW d \in Clients, WholeAt(d), dirs \subseteq dirs',
           \A r : json[r] # None => json'[r] # None,
           pc'[d] = pc[d], work'[d] = work[d], held'[d] = held[d]
    PROVE  WholeAt(d)'
BY DEF WholeAt, Writing, Reconciling

(* A client that is done has nothing in hand.                              *)
LEMMA IdleWhole ==
    ASSUME NEW c \in Clients, pc'[c] = "idle"
    PROVE  WholeAt(c)'
BY DEF WholeAt, Writing, Reconciling

(* Ending an operation, whatever it has made of what the client holds.     *)
LEMMA DoneWhole ==
    ASSUME TypeOK, WorkIsWhole, NEW c \in Clients, Done(c), dirs \subseteq dirs',
           \A r : json[r] # None => json'[r] # None,
           \A d \in Clients \ {c} : held'[d] = held[d]
    PROVE  /\ WorkIsWhole'
           /\ pc' \in [Clients -> Points] /\ work' \in [Clients -> Works]
<1>1. /\ pc' = [pc EXCEPT ![c] = "idle"] /\ work' = [work EXCEPT ![c] = NoWork]
      /\ pc \in [Clients -> Points] /\ work \in [Clients -> Works]
  BY DEF Done, Goto, Keep, TypeOK
<1>2. pc' \in [Clients -> Points] /\ work' \in [Clients -> Works]
  BY <1>1, NoWorkType DEF Points
<1>3. ASSUME NEW d \in Clients PROVE WholeAt(d)'
  <2>1. CASE d = c
    BY <1>1, <2>1, IdleWhole
  <2>2. CASE d # c
    BY <1>1, <2>2, OthersWhole DEF WorkIsWhole
  <2> QED BY <2>1, <2>2
<1> QED BY <1>2, <1>3 DEF WorkIsWhole

(* Starting an operation or going on with it.                              *)
LEMMA KeepWhole ==
    ASSUME TypeOK, WorkIsWhole, NEW c \in Clients, NEW w \in Works, NEW p \in Points,
           pc' = [pc EXCEPT ![c] = p], work' = [work EXCEPT ![c] = w],
           dirs \subseteq dirs',
           \A r : json[r] # None => json'[r] # None,
           held' = held, WholeAt(c)'
    PROVE  /\ WorkIsWhole'
           /\ pc' \in [Clients -> Points] /\ work' \in [Clients -> Works]
<1>1. pc \in [Clients -> Points] /\ work \in [Clients -> Works]
  BY DEF TypeOK
<1>2. ASSUME NEW d \in Clients, d # c PROVE WholeAt(d)'
  BY <1>1, <1>2, OthersWhole DEF WorkIsWhole
<1> QED BY <1>1, <1>2 DEF WorkIsWhole

(* Nothing else of the types than what an operation assigns.               *)
Stored == /\ dirs \subseteq RunIds
          /\ json \in [RunIds -> States \cup {None}]
          /\ files \in [RunIds -> SUBSET Names]
          /\ orphans \in [RunIds -> SUBSET Names]
          /\ latest \in RunIds \cup {None}
          /\ raced \subseteq RunIds /\ swept \subseteq RunIds
Held == /\ held \in [Clients -> [run : RunIds, state : States] \cup {None}]
        /\ \A c \in Clients : held[c] # None => TaskParses(held[c].state)
Busy == pc \in [Clients -> Points] /\ work \in [Clients -> Works]

(* The types, by the variables they are of.                                *)
LEMMA TypeParts == TypeOK <=> Stored /\ Held /\ Busy
BY DEF TypeOK, Stored, Held, Busy

(* What a client is given to hold.                                         *)
LEMMA HoldsWhole ==
    ASSUME Held, NEW c \in Clients, NEW r \in RunIds, NEW s \in States, TaskParses(s),
           held' = [held EXCEPT ![c] = [run |-> r, state |-> s]]
    PROVE  Held' /\ held'[c].run = r /\ held'[c].state = s /\ held'[c] # None
<1>1. [run |-> r, state |-> s] \in [run : RunIds, state : States]
  OBVIOUS
<1>2. [run |-> r, state |-> s] # None
  BY <1>1, DistinctNone
<1> QED BY <1>1, <1>2 DEF Held

(* Every document an earlier version can have left is one, and nobody has   *)
(* anything in hand.                                                       *)
LEMMA ReadableInit == Init => Readable
<1> SUFFICES ASSUME Init PROVE Readable
  OBVIOUS
<1>1. Stored /\ LatestReadable
  <2>1. CASE dirs = {} /\ json = [r \in RunIds |-> None] /\ latest = None
             /\ files = [r \in RunIds |-> {}]
    BY <2>1 DEF Init, Stored, LatestReadable
  <2>2. ASSUME NEW r \in RunIds, NEW s \in Inherited, dirs = {r}, latest = r,
               json = [q \in RunIds |-> IF q = r THEN s ELSE None],
               files = [q \in RunIds |-> IF q = r THEN Referenced(s) ELSE {}]
        PROVE  Stored /\ LatestReadable
    <3>1. s \in States /\ s # None /\ Referenced(s) \subseteq Names
      BY InheritedAssumption, DistinctNone, ReferencedNames
    <3> QED BY <2>2, <3>1 DEF Init, Stored, LatestReadable
  <2> QED BY <2>1, <2>2 DEF Init
<1>2. Held
  BY DEF Init, Held
<1>3. Busy /\ WorkIsWhole
  BY NoWorkType DEF Init, Busy, Points, WorkIsWhole, WholeAt, Writing, Reconciling
<1> QED BY <1>1, <1>2, <1>3, TypeParts DEF Readable, StoreIsReadable

(* A client only ever holds a document schema 3 accepts, whatever it read, *)
(* whoever wrote it and wherever a writer died; and latest.json names a    *)
(* run whose run.json is there.                                            *)
THEOREM ReadableAlways == Spec => []Readable
<1>1. Init => Readable
  BY ReadableInit
<1>2. Readable /\ [Next]_vars => Readable'
  <2> SUFFICES ASSUME Readable, [Next]_vars PROVE Readable'
    OBVIOUS
  <2>0. TypeOK /\ WorkIsWhole /\ LatestReadable /\ Stored /\ Held /\ Busy
    BY TypeParts DEF Readable, StoreIsReadable
  <2> SUFFICES Stored' /\ Held' /\ Busy' /\ LatestReadable' /\ WorkIsWhole'
    BY DEF Readable, StoreIsReadable, TypeOK, Stored, Held, Busy
  <2> USE <2>0
  <2>1. ASSUME NEW c \in Clients, NEW r \in RunIds, Allocate(c, r)
        PROVE  Stored' /\ Held' /\ Busy' /\ LatestReadable' /\ WorkIsWhole'
    <3> DEFINE w == [run |-> r, state |-> None, file |-> None, todo |-> {}]
    <3>0. [NoWork EXCEPT !.run = r] = w /\ w \in Works /\ w.run = r
      BY WorkType DEF NoWork
    <3>1. /\ dirs' = dirs \cup {r} /\ pc' = [pc EXCEPT ![c] = "initialise"]
          /\ work' = [work EXCEPT ![c] = w] /\ w \in Works /\ w.run = r
          /\ UNCHANGED <<json, files, orphans, latest, held, raced, swept>>
      BY <2>1, <3>0 DEF Allocate, history, Goto, Keep
    <3>2. Stored' /\ Held' /\ LatestReadable'
      BY <3>1 DEF Stored, Held, LatestReadable
    <3>3. WholeAt(c)'
      BY <3>1 DEF WholeAt, Writing, Reconciling, Busy
    <3>4. Busy' /\ WorkIsWhole'
      BY <3>1, <3>3, KeepWhole DEF Busy, Points
    <3> QED BY <3>2, <3>4
  <2>2. ASSUME NEW c \in Clients, Initialise(c)
        PROVE  Stored' /\ Held' /\ Busy' /\ LatestReadable' /\ WorkIsWhole'
    <3> DEFINE r == work[c].run
    <3>1. /\ pc[c] = "initialise" /\ r \in dirs /\ r \in RunIds
          /\ UNCHANGED <<dirs, files, orphans, latest, held, raced, swept>>
      BY <2>2 DEF Initialise, history, WorkIsWhole, WholeAt, Stored
    <3>2. CASE Done(c) /\ UNCHANGED json
      <4>1. Stored' /\ Held' /\ LatestReadable'
        BY <3>1, <3>2 DEF Stored, Held, LatestReadable
      <4> QED BY <3>1, <3>2, <4>1, DoneWhole DEF Busy
    <3>3. CASE /\ json[r] = None /\ json' = [json EXCEPT ![r] = FreshState]
               /\ Goto(c, "point") /\ UNCHANGED work
      <4>1. FreshState \in States /\ FreshState # None
        BY FreshIsWhole, DistinctNone
      <4>2. \A q : json[q] # None => json'[q] # None
        BY <3>3, <4>1 DEF Stored
      <4>3. Stored' /\ Held' /\ LatestReadable'
        BY <3>1, <3>3, <4>1 DEF Stored, Held, LatestReadable
      <4>4. WholeAt(c)'
        BY <3>1, <3>3, <4>1 DEF WholeAt, Writing, Reconciling, Busy, Stored, Goto
      <4>5. work[c] \in Works /\ work' = [work EXCEPT ![c] = work[c]]
        BY <3>3 DEF Busy
      <4>6. "point" \in Points /\ pc' = [pc EXCEPT ![c] = "point"]
        BY <3>3 DEF Points, Goto
      <4>7. Busy' /\ WorkIsWhole'
        BY <3>1, <4>2, <4>4, <4>5, <4>6, KeepWhole DEF Busy
      <4> QED BY <4>3, <4>7
    <3> QED BY <2>2, <3>2, <3>3 DEF Initialise
  <2>3. ASSUME NEW c \in Clients, WriteLatest(c)
        PROVE  Stored' /\ Held' /\ Busy' /\ LatestReadable' /\ WorkIsWhole'
    <3>1. /\ work[c].run \in dirs /\ work[c].run \in RunIds /\ json[work[c].run] # None
          /\ latest' = work[c].run /\ Done(c) /\ UNCHANGED <<dirs, json, files, orphans, raced, swept>>
          /\ held' = [held EXCEPT ![c] = [run |-> work[c].run, state |-> FreshState]]
      BY <2>3 DEF WriteLatest, history, WorkIsWhole, WholeAt, Stored
    <3>2. Stored' /\ LatestReadable'
      BY <3>1 DEF Stored, LatestReadable
    <3>3. Held' /\ \A d \in Clients \ {c} : held'[d] = held[d]
      BY <3>1, HoldsWhole, FreshIsWhole DEF Held
    <3> QED BY <3>1, <3>2, <3>3, DoneWhole DEF Busy
  <2>4. ASSUME NEW c \in Clients, NEW r \in RunIds, NEW policy \in ReadPolicies,
               ReadsRun(c, r, policy)
        PROVE  /\ json[r] \in States /\ r \in dirs
               /\ Load(json[r], policy) \in States /\ TaskParses(Load(json[r], policy))
    BY <2>4, LoadIsWhole, PolicyAssumption DEF ReadsRun, Stored, Resolves
  <2>5. ASSUME NEW c \in Clients, NEW r \in RunIds, NEW policy \in ReadPolicies,
               Open(c, r, policy)
        PROVE  Stored' /\ Held' /\ Busy' /\ LatestReadable' /\ WorkIsWhole'
    <3> DEFINE s == Load(json[r], policy)
    <3>1. /\ held' = [held EXCEPT ![c] = [run |-> r, state |-> s]]
          /\ s \in States /\ TaskParses(s) /\ pc[c] = "idle"
          /\ UNCHANGED <<dirs, json, files, orphans, latest, pc, work, raced, swept>>
      BY <2>5, <2>4 DEF Open, ReadsRun, Begins, storage, history
    <3> HIDE DEF s
    <3>2. Held'
      BY <3>1, HoldsWhole
    <3>3. Stored' /\ LatestReadable' /\ Busy'
      BY <3>1 DEF Stored, LatestReadable, Busy
    <3>4. ASSUME NEW d \in Clients PROVE WholeAt(d)'
      <4>1. CASE d = c
        BY <3>1, <4>1, IdleWhole
      <4>2. CASE d # c
        BY <3>1, <4>2, OthersWhole DEF WorkIsWhole, Held
      <4> QED BY <4>1, <4>2
    <3> QED BY <3>2, <3>3, <3>4 DEF WorkIsWhole
  <2>6. ASSUME NEW c \in Clients, NEW r \in RunIds, NEW policy \in ReadPolicies,
               Resume(c, r, policy)
        PROVE  Stored' /\ Held' /\ Busy' /\ LatestReadable' /\ WorkIsWhole'
    <3> DEFINE s == Load(json[r], policy)
               w == [run |-> r, state |-> s, file |-> None, todo |-> {}]
    <3>1. /\ pc' = [pc EXCEPT ![c] = "list"]
          /\ work' = [work EXCEPT ![c] = w]
          /\ ReadsRun(c, r, policy)
          /\ UNCHANGED <<dirs, json, files, orphans, latest, held, raced, swept>>
      BY <2>6 DEF Resume, storage, history, Goto, Keep
    <3>2. s \in States /\ TaskParses(s)
      BY <2>4, <3>1
    <3> HIDE DEF s
    <3>3. w \in Works /\ w.run = r /\ w.state = s /\ s # None
      BY <3>2, WorkType, DistinctNone
    <3> HIDE DEF w
    <3>4. Stored' /\ Held' /\ LatestReadable'
      BY <3>1 DEF Stored, Held, LatestReadable
    <3>5. WholeAt(c)'
      BY <3>1, <3>2, <3>3 DEF WholeAt, Writing, Reconciling, Busy
    <3>6. Busy' /\ WorkIsWhole'
      BY <3>1, <3>2, <3>3, <3>5, KeepWhole DEF Busy, Points
    <3> QED BY <3>4, <3>6
  <2>15. ASSUME NEW c \in Clients, List(c)
         PROVE  Stored' /\ Held' /\ Busy' /\ LatestReadable' /\ WorkIsWhole'
    <3> DEFINE t == files[work[c].run] \ Referenced(work[c].state)
               w == [work[c] EXCEPT !.todo = t]
    <3>1. /\ pc[c] = "list" /\ work[c].run \in RunIds
          /\ pc' = [pc EXCEPT ![c] = "move"] /\ work' = [work EXCEPT ![c] = w]
          /\ UNCHANGED <<dirs, json, files, orphans, latest, held, raced, swept>>
      BY <2>15 DEF List, storage, history, Goto, WorkIsWhole, WholeAt, Reconciling
    <3>2. t \in SUBSET Names
      BY <3>1 DEF Stored
    <3> HIDE DEF t
    <3>3. w \in Works /\ w.run = work[c].run /\ w.state = work[c].state
      BY <3>2 DEF Busy, Works
    <3> HIDE DEF w
    <3>4. Stored' /\ Held' /\ LatestReadable'
      BY <3>1 DEF Stored, Held, LatestReadable
    <3>5. WholeAt(c)'
      BY <3>1, <3>3 DEF WholeAt, Writing, Reconciling, Busy, WorkIsWhole
    <3>6. Busy' /\ WorkIsWhole'
      BY <3>1, <3>3, <3>5, KeepWhole DEF Busy, Points
    <3> QED BY <3>4, <3>6
  <2>7. ASSUME NEW c \in Clients, NEW n \in Names, Move(c, n)
        PROVE  Stored' /\ Held' /\ Busy' /\ LatestReadable' /\ WorkIsWhole'
    <3> DEFINE r == work[c].run
               w == [work[c] EXCEPT !.todo = @ \ {n}]
    <3>1. /\ pc[c] = "move" /\ r \in RunIds /\ n \in work[c].todo
          /\ work' = [work EXCEPT ![c] = w]
          /\ UNCHANGED <<dirs, json, latest, held, pc, raced>>
      BY <2>7 DEF Move, WorkIsWhole, WholeAt, Reconciling
    <3>2. \/ /\ files' = [files EXCEPT ![r] = @ \ {n}]
             /\ orphans' = [orphans EXCEPT ![r] = @ \cup {n}]
             /\ swept' \in {swept, swept \cup {r}}
          \/ UNCHANGED <<files, orphans, swept>>
      BY <2>7 DEF Move
    <3>3. w \in Works /\ w.run = r /\ w.state = work[c].state
      BY DEF Busy, Works
    <3>4. Stored' /\ Held' /\ LatestReadable'
      BY <3>1, <3>2 DEF Stored, Held, LatestReadable
    <3> HIDE DEF w
    <3>5. pc' = [pc EXCEPT ![c] = "move"]
      BY <3>1 DEF Busy
    <3>6. WholeAt(c)'
      BY <3>1, <3>3 DEF WholeAt, Writing, Reconciling, Busy, WorkIsWhole
    <3>7. Busy' /\ WorkIsWhole'
      BY <3>1, <3>3, <3>5, <3>6, KeepWhole DEF Busy, Points
    <3> QED BY <3>4, <3>7
  <2>8. ASSUME NEW c \in Clients, Resumed(c)
        PROVE  Stored' /\ Held' /\ Busy' /\ LatestReadable' /\ WorkIsWhole'
    <3>1. /\ work[c].run \in RunIds /\ work[c].state \in States /\ TaskParses(work[c].state)
          /\ Done(c) /\ UNCHANGED <<dirs, json, files, orphans, latest, raced, swept>>
          /\ held' = [held EXCEPT ![c] = [run |-> work[c].run, state |-> work[c].state]]
      BY <2>8 DEF Resumed, Reconciling, WorkIsWhole, WholeAt, storage, history, Busy, Works
    <3>2. Stored' /\ LatestReadable'
      BY <3>1 DEF Stored, LatestReadable
    <3>3. Held' /\ \A d \in Clients \ {c} : held'[d] = held[d]
      BY <3>1, HoldsWhole DEF Held
    <3> QED BY <3>1, <3>2, <3>3, DoneWhole DEF Busy
  <2>9. ASSUME NEW c \in Clients, Starting(c)
        PROVE  Stored' /\ Held' /\ Busy' /\ LatestReadable' /\ WorkIsWhole'
    <3>1. PICK s \in States, f \in Names \cup {None} :
             held[c] # None /\ Writes(c, s, f) /\ TaskParses(s)
      BY <2>9, StartingWrites
    <3> DEFINE w == [run |-> held[c].run, state |-> s, file |-> f, todo |-> {}]
               p == IF f = None THEN "check" ELSE "publish"
    <3>2. /\ pc' = [pc EXCEPT ![c] = p] /\ work' = [work EXCEPT ![c] = w]
          /\ UNCHANGED <<dirs, json, files, orphans, latest, held, raced, swept>>
      BY <3>1 DEF Writes, history, storage, Goto, Keep
    <3>3. held[c].run \in RunIds
      BY <3>1 DEF Held
    <3>4. w \in Works /\ w.run = held[c].run /\ w.state = s /\ w.file = f /\ s # None /\ p \in Points
      BY <3>3, WorkType, DistinctNone DEF Points
    <3>5. Stored' /\ Held' /\ LatestReadable'
      BY <3>2 DEF Stored, Held, LatestReadable
    <3>6. WholeAt(c)'
      BY <3>1, <3>2, <3>4 DEF WholeAt, Writing, Reconciling, Busy
    <3> HIDE DEF w, p
    <3>7. Busy' /\ WorkIsWhole'
      BY <3>2, <3>4, <3>6, KeepWhole DEF Busy
    <3> QED BY <3>5, <3>7
  <2>10. ASSUME NEW c \in Clients, Publish(c)
         PROVE  Stored' /\ Held' /\ Busy' /\ LatestReadable' /\ WorkIsWhole'
    <3>1. /\ pc[c] = "publish" /\ held[c] # None /\ work[c].run = held[c].run
          /\ work[c].file # None /\ work[c].state # None /\ TaskParses(work[c].state)
          /\ files' = [files EXCEPT ![work[c].run] = @ \cup {work[c].file}]
          /\ pc' = [pc EXCEPT ![c] = "check"]
          /\ UNCHANGED <<dirs, json, orphans, latest, held, work, raced, swept>>
      BY <2>10 DEF Publish, history, Goto, WorkIsWhole, WholeAt, Writing, Reconciling
    <3>2. work[c].file \in Names
      BY <3>1 DEF Busy, Works
    <3>3. Stored' /\ Held' /\ LatestReadable'
      BY <3>1, <3>2 DEF Stored, Held, LatestReadable
    <3>4. WholeAt(c)'
      BY <3>1 DEF WholeAt, Writing, Reconciling, Busy
    <3>5. work[c] \in Works /\ work' = [work EXCEPT ![c] = work[c]] /\ "check" \in Points
      BY <3>1 DEF Busy, Points
    <3>6. Busy' /\ WorkIsWhole'
      BY <3>1, <3>4, <3>5, KeepWhole DEF Busy
    <3> QED BY <3>3, <3>6
  <2>11. ASSUME NEW c \in Clients, CheckRevision(c)
         PROVE  Stored' /\ Held' /\ Busy' /\ LatestReadable' /\ WorkIsWhole'
    <3>1. /\ pc[c] = "check" /\ held[c] # None /\ work[c].run = held[c].run
          /\ work[c].state # None /\ TaskParses(work[c].state)
          /\ UNCHANGED <<dirs, json, files, orphans, latest, held, raced, swept>>
      BY <2>11 DEF CheckRevision, storage, history, WorkIsWhole, WholeAt, Writing, Reconciling
    <3>2. Stored' /\ Held' /\ LatestReadable'
      BY <3>1 DEF Stored, Held, LatestReadable
    <3>3. CASE Done(c)
      BY <3>1, <3>2, <3>3, DoneWhole DEF Busy
    <3>4. CASE Goto(c, "replace") /\ UNCHANGED work
      <4>1. WholeAt(c)'
        BY <3>1, <3>4 DEF WholeAt, Writing, Reconciling, Busy, Goto
      <4>2. /\ work[c] \in Works /\ work' = [work EXCEPT ![c] = work[c]]
            /\ "replace" \in Points /\ pc' = [pc EXCEPT ![c] = "replace"]
        BY <3>4 DEF Busy, Points, Goto
      <4>3. Busy' /\ WorkIsWhole'
        BY <3>1, <4>1, <4>2, KeepWhole DEF Busy
      <4> QED BY <3>2, <4>3
    <3> QED BY <2>11, <3>3, <3>4 DEF CheckRevision
  <2>12. ASSUME NEW c \in Clients, Replace(c)
         PROVE  Stored' /\ Held' /\ Busy' /\ LatestReadable' /\ WorkIsWhole'
    <3> DEFINE new == Committed(work[c].state)
    <3>1. /\ held[c] # None /\ work[c].run = held[c].run
          /\ work[c].state # None /\ TaskParses(work[c].state)
          /\ json' = [json EXCEPT ![work[c].run] = new]
          /\ held' = [held EXCEPT ![c].state = new] /\ Done(c)
          /\ raced' \in {raced, raced \cup {work[c].run}}
          /\ swept' \in {swept, swept \cup {work[c].run}}
          /\ UNCHANGED <<dirs, files, orphans, latest>>
      BY <2>12 DEF Replace, WorkIsWhole, WholeAt, Writing, Reconciling
    <3>2. work[c].state \in States
      BY <3>1 DEF Busy, Works
    <3>3. new \in States /\ TaskParses(new) /\ new # None
      BY <3>1, <3>2, CommitKeeps, DistinctNone
    <3> HIDE DEF new
    <3>4. held[c] \in [run : RunIds, state : States] /\ held[c].run \in RunIds
      BY <3>1 DEF Held
    <3>5. held' = [held EXCEPT ![c] = [run |-> held[c].run, state |-> new]]
      <4>1. [held[c] EXCEPT !.state = new] = [run |-> held[c].run, state |-> new]
        BY <3>4
      <4> QED BY <3>1, <4>1
    <3>6. Held' /\ \A d \in Clients \ {c} : held'[d] = held[d]
      BY <3>3, <3>4, <3>5, HoldsWhole DEF Held
    <3>7. \A q : json[q] # None => json'[q] # None
      BY <3>1, <3>3, <3>4 DEF Stored
    <3>8. Stored' /\ LatestReadable'
      BY <3>1, <3>3, <3>4 DEF Stored, LatestReadable
    <3> QED BY <3>1, <3>6, <3>7, <3>8, DoneWhole DEF Busy
  <2>13. ASSUME NEW c \in Clients, Raises(c) \/ Crash(c)
         PROVE  Stored' /\ Held' /\ Busy' /\ LatestReadable' /\ WorkIsWhole'
    <3>1. /\ Done(c) /\ UNCHANGED <<dirs, json, files, orphans, latest, raced, swept>>
          /\ \/ held' = held
             \/ held' = [held EXCEPT ![c] = None]
      BY <2>13 DEF Raises, Crash, storage, history
    <3>2. Stored' /\ LatestReadable'
      BY <3>1 DEF Stored, LatestReadable
    <3>3. Held' /\ \A d \in Clients \ {c} : held'[d] = held[d]
      BY <3>1 DEF Held
    <3> QED BY <3>1, <3>2, <3>3, DoneWhole DEF Busy
  <2>14. CASE UNCHANGED vars
    BY <2>14 DEF vars, storage, history, Stored, Held, Busy, LatestReadable, WorkIsWhole, WholeAt, Writing, Reconciling
  <2> QED
    BY <2>1, <2>2, <2>3, <2>5, <2>6, <2>7, <2>8, <2>9, <2>10, <2>11, <2>12, <2>13, <2>14, <2>15
       DEF Next, Reading
<1> QED BY <1>1, <1>2, PTL DEF Spec

(* Types, what clients hold and the pointer of latest.json: the store is   *)
(* readable in every reachable state (repository.py, run_layout.py).       *)
THEOREM StoreReadable == Spec => []StoreIsReadable
<1>1. Readable => StoreIsReadable
  BY DEF Readable
<1> QED BY <1>1, ReadableAlways, PTL
-----------------------------------------------------------------------------
(* What is there: clients that may overlap                                 *)

(* A step never takes evidence away, and leaves a sign on a run whose      *)
(* document it changes other than by counting its revision.                *)
Grows ==
    /\ raced \subseteq raced' /\ swept \subseteq swept'
    /\ \A r \in RunIds : files[r] \cup orphans[r] \subseteq files'[r] \cup orphans'[r]
    /\ \A r \in RunIds : json'[r] # json[r] /\ json[r] # None =>
          /\ json'[r] # None
          /\ r \notin raced' => json'[r].revision = json[r].revision + 1

(* And on the run another client is in the middle of an operation on.      *)
Notices(d) ==
    LET r == work[d].run IN
    /\ json'[r] # json[r] /\ json[r] # None =>
          /\ pc[d] = "replace" => r \in raced'
          /\ Reconciling(d) => r \in swept'
    /\ pc[d] \in {"check", "replace"} /\ work[d].file \in files[r] =>
          work[d].file \in files'[r] \/ r \in swept'

Others(c) ==
    \A d \in Clients \ {c} : pc'[d] = pc[d] /\ work'[d] = work[d] /\ held'[d] = held[d]

(* What has been read stays older when the document moves on.              *)
LEMMA SinceStays ==
    ASSUME NEW s \in States, NEW j \in States, NEW k \in States \cup {None},
           NEW x \in BOOLEAN, NEW y \in BOOLEAN, x => y, Since(s, j, x),
           k # j => k # None /\ (~y => k.revision = j.revision + 1)
    PROVE  Since(s, k, y)
<1>1. s.revision \in Nat /\ j.revision \in Nat
  BY DEF States
<1>2. CASE k = j
  BY <1>2 DEF Since
<1>3. CASE k # j
  BY <1>1, <1>3 DEF Since
<1> QED BY <1>2, <1>3

(* So it does in a step of the store.                                      *)
LEMMA OlderStays ==
    ASSUME TypeOK, TypeOK', Grows, NEW r \in RunIds, NEW s \in States, Older(s, r)
    PROVE  Since(s, json'[r], r \in raced')
<1>1. json[r] \in States /\ json'[r] \in States \cup {None} /\ Since(s, json[r], r \in raced)
  BY DEF TypeOK, Older, Since
<1>2. (r \in raced) => (r \in raced')
  BY DEF Grows
<1>3. json'[r] # json[r] =>
        json'[r] # None /\ (~(r \in raced') => json'[r].revision = json[r].revision + 1)
  BY <1>1 DEF Grows, Since
<1>4. (r \in raced) \in BOOLEAN /\ (r \in raced') \in BOOLEAN
  OBVIOUS
<1> HIDE DEF Since
<1> QED BY <1>1, <1>2, <1>3, <1>4, SinceStays

(* What a client holds stays read and founded whoever acts.                *)
LEMMA HeldStays ==
    ASSUME TypeOK, TypeOK', Grows, NEW d \in Clients, HeldAt(d), held'[d] = held[d]
    PROVE  HeldAt(d)'
<1>1. CASE held[d] = None
  BY <1>1 DEF HeldAt
<1>2. CASE held[d] # None
  <2> DEFINE r == held[d].run
             s == held[d].state
  <2>1. r \in RunIds /\ s \in States /\ Older(s, r) /\ Founded(s, r)
    BY <1>2 DEF TypeOK, HeldAt
  <2>2. Since(s, json'[r], r \in raced')
    BY <2>1, OlderStays
  <2>3. Registry(s) \subseteq files'[r] \cup orphans'[r]
    BY <2>1 DEF Grows, Founded
  <2> QED BY <2>2, <2>3 DEF HeldAt, Older, Founded
<1> QED BY <1>1, <1>2

(* What a client has in hand stays what it is while others act.            *)
LEMMA WorkStays ==
    ASSUME TypeOK, TypeOK', WorkIsWhole, Grows, NEW d \in Clients, Notices(d), HeldAt(d), InHandAt(d),
           pc'[d] = pc[d], work'[d] = work[d], held'[d] = held[d]
    PROVE  InHandAt(d)'
<1> DEFINE r == work[d].run
           s == work[d].state
           f == work[d].file
<1>1. pc[d] = "point" => Since(FreshState, json'[r], r \in raced')
  BY OlderStays, FreshIsWhole DEF InHandAt, WorkIsWhole, WholeAt, TypeOK
<1>2. ASSUME Reconciling(d)
      PROVE  /\ Since(s, json'[r], r \in raced')
             /\ Registry(s) \subseteq files'[r] \cup orphans'[r]
             /\ r \notin swept' => ReadFrom(s, json'[r])
  <2>1. r \in RunIds /\ s \in States /\ Older(s, r) /\ Founded(s, r)
        /\ (r \notin swept => ReadFrom(s, json[r]))
    BY <1>2 DEF InHandAt, WorkIsWhole, WholeAt, TypeOK, Works
  <2>2. Since(s, json'[r], r \in raced')
    BY <2>1, OlderStays
  <2>3. json[r] # None /\ (json'[r] # json[r] => r \in swept')
    BY <1>2, <2>1 DEF Notices, Older, Since
  <2>4. r \notin swept' => ReadFrom(s, json'[r])
    BY <2>1, <2>3 DEF Grows
  <2>5. Registry(s) \subseteq files'[r] \cup orphans'[r]
    BY <2>1 DEF Grows, Founded
  <2> QED BY <2>2, <2>4, <2>5
<1>3. ASSUME Writing(d)
      PROVE  r \in RunIds /\ held[d] # None /\ r = held[d].run
  BY <1>3 DEF WorkIsWhole, WholeAt, TypeOK
<1>4. ASSUME pc[d] \in {"check", "replace"}, f # None
      PROVE  f \in files'[r] \cup orphans'[r] /\ (r \notin swept' => f \in files'[r])
  <2>1. r \in RunIds /\ f \in files[r] \cup orphans[r] /\ (r \notin swept => f \in files[r])
    BY <1>3, <1>4 DEF InHandAt, Writing
  <2> QED BY <1>4, <2>1 DEF Notices, Grows
<1>5. ASSUME pc[d] = "replace", r \notin raced'
      PROVE  json'[r].revision = held[d].state.revision
  <2>1. r \in RunIds /\ r \notin raced /\ json[r].revision = held[d].state.revision
        /\ json[r] # None
    BY <1>3, <1>5 DEF InHandAt, Writing, Grows, HeldAt, Older, Since
  <2>2. json'[r] = json[r]
    BY <1>5, <2>1 DEF Notices
  <2> QED BY <2>1, <2>2
<1>6. pc[d] = "move" => work[d].todo \cap Referenced(s) = {}
  BY DEF InHandAt
<1>7. Writing(d) => Builds(s, held[d].state, f)
  BY DEF InHandAt
<1> QED
  BY <1>1, <1>2, <1>4, <1>5, <1>6, <1>7 DEF InHandAt, Reconciling, Writing, Older, Founded

(* So a step keeps what all clients hold and have in hand if it keeps what *)
(* the acting one does.                                                    *)
LEMMA StepKeeps ==
    ASSUME TypeOK, TypeOK', WorkIsWhole, HeldIsRead, WorkIsBuilt, Grows,
           NEW c \in Clients, \A d \in Clients \ {c} : Notices(d),
           Others(c), HeldAt(c)', InHandAt(c)'
    PROVE  HeldIsRead' /\ WorkIsBuilt'
<1>1. ASSUME NEW d \in Clients, d # c PROVE HeldAt(d)' /\ InHandAt(d)'
  <2>1. /\ pc'[d] = pc[d] /\ work'[d] = work[d] /\ held'[d] = held[d]
        /\ Notices(d) /\ HeldAt(d) /\ InHandAt(d)
    BY <1>1 DEF Others, HeldIsRead, WorkIsBuilt
  <2> QED BY <2>1, HeldStays, WorkStays
<1> QED BY <1>1 DEF HeldIsRead, WorkIsBuilt

(* A step that changes no document and no file.                            *)
LEMMA StillGrows ==
    ASSUME UNCHANGED <<json, files, orphans, raced, swept>>
    PROVE  Grows /\ (\A d \in Clients : Notices(d)) /\ (Documents => Documents')
BY DEF Grows, Notices, Documents, Unmigrated, RegistryIsFounded

(* A client at rest, or about to create a run, has nothing in hand.        *)
LEMMA NoneInHand ==
    ASSUME NEW c \in Clients, pc'[c] \in {"idle", "initialise"}
    PROVE  InHandAt(c)'
BY DEF InHandAt, Writing, Reconciling

(* An operation that ends.                                                 *)
LEMMA DoneEnds ==
    ASSUME TypeOK, NEW c \in Clients, Done(c)
    PROVE  /\ InHandAt(c)'
           /\ \A d \in Clients \ {c} : pc'[d] = pc[d] /\ work'[d] = work[d]
<1>1. pc'[c] = "idle" /\ \A d \in Clients \ {c} : pc'[d] = pc[d] /\ work'[d] = work[d]
  BY DEF Done, Goto, Keep, TypeOK
<1> QED BY <1>1, NoneInHand

(* What is read of a document is it, and as founded.                       *)
LEMMA ReadIsFounded ==
    ASSUME TypeOK, RegistryIsFounded, NEW r \in RunIds, json[r] # None,
           NEW s, ReadFrom(s, json[r])
    PROVE  s \in States /\ Older(s, r) /\ Founded(s, r)
<1>1. json[r] \in States
  BY DEF TypeOK
<1>2. /\ s \in States /\ s.version = 3 /\ s.revision = json[r].revision
      /\ Registry(s) = Registry(json[r])
  BY <1>1, ReadKeeps
<1>3. s.revision \in Nat
  BY <1>2 DEF States
<1> QED BY <1>2, <1>3 DEF Older, Since, Founded, RegistryIsFounded

(* A commit writes a whole document whose registry was published; and it   *)
(* replaces what its client had read unless two commits met.               *)
LEMMA ReplaceMakes ==
    ASSUME IInv, NEW c \in Clients, Replace(c)
    PROVE  LET r == held[c].run  new == Committed(work[c].state) IN
           /\ r \in RunIds /\ work[c].run = r /\ json[r] \in States /\ json[r] # None
           /\ new \in States /\ new.version = 3 /\ TaskParses(new)
           /\ json' = [json EXCEPT ![r] = new]
           /\ held' = [held EXCEPT ![c] = [run |-> r, state |-> new]]
           /\ raced \subseteq raced' /\ swept \subseteq swept'
           /\ Registry(new) \subseteq files[r] \cup orphans[r]
           /\ r \notin raced' => ReadFrom(held[c].state, json[r])
                                  /\ new.revision = json[r].revision + 1
           /\ r \notin raced' \cup swept' => Registry(new) \subseteq files[r]
<1> DEFINE r == held[c].run
           j == json[r]
           h == held[c].state
           w == work[c].state
           f == work[c].file
           new == Committed(w)
<1>0. TypeOK /\ WholeAt(c) /\ HeldAt(c) /\ InHandAt(c) /\ RegistryIsFounded
  BY DEF IInv, Documents, Readable, StoreIsReadable, WorkIsWhole, HeldIsRead, WorkIsBuilt
<1>1. /\ pc[c] = "replace" /\ held[c] # None /\ work[c].run = r /\ w # None /\ TaskParses(w)
      /\ json' = [json EXCEPT ![r] = new] /\ held' = [held EXCEPT ![c].state = new]
      /\ raced \subseteq raced' /\ swept \subseteq swept'
  BY <1>0 DEF Replace, WholeAt, Writing
<1>2. held[c] \in [run : RunIds, state : States] /\ r \in RunIds /\ h \in States /\ w \in States
  BY <1>0, <1>1 DEF TypeOK, Works
<1>3. Older(h, r) /\ Founded(h, r) /\ Builds(w, h, f)
  BY <1>0, <1>1 DEF HeldAt, InHandAt, Writing
<1>4. j # None /\ j \in States /\ h.version = 3
  BY <1>0, <1>2, <1>3 DEF TypeOK, Older, Since
<1>5. /\ new \in States /\ new.revision = w.revision + 1 /\ new.version = w.version
      /\ Registry(new) = Registry(w) /\ TaskParses(new)
  BY <1>1, <1>2, CommitKeeps
<1>6. [held[c] EXCEPT !.state = new] = [run |-> r, state |-> new]
  BY <1>2
<1>7. held' = [held EXCEPT ![c] = [run |-> r, state |-> new]]
  BY <1>1, <1>6
<1>8. f # None => f \in files[r] \cup orphans[r] /\ (r \notin swept => f \in files[r])
  BY <1>0, <1>1 DEF InHandAt
<1>9. ASSUME r \notin raced'
      PROVE  ReadFrom(h, j) /\ w.revision = j.revision
  <2>1. r \notin raced /\ j.revision = h.revision
    BY <1>0, <1>1, <1>9 DEF InHandAt
  <2> QED BY <1>3, <2>1 DEF Older, Since, Builds
<1> HIDE DEF new, w, h, f, j
<1>10. Registry(new) \subseteq files[r] \cup orphans[r]
  BY <1>3, <1>5, <1>8 DEF Builds, Founded
<1>11. ASSUME r \notin raced' \cup swept' PROVE Registry(new) \subseteq files[r]
  <2>1. Registry(j) \subseteq files[r] /\ Registry(h) = Registry(j)
    <3>1. r \notin raced \cup swept
      BY <1>1, <1>11
    <3>2. Registry(j) \subseteq files[r]
      BY <1>0, <1>2, <1>4, <3>1 DEF RegistryIsFounded, j
    <3> QED BY <1>4, <1>9, <1>11, <3>2, ReadKeeps
  <2> QED BY <1>1, <1>3, <1>5, <1>8, <1>11, <2>1 DEF Builds
<1>12. new.version = 3 /\ (r \notin raced' => new.revision = j.revision + 1)
  BY <1>3, <1>4, <1>5, <1>9 DEF Builds
<1> QED
  BY <1>1, <1>2, <1>4, <1>5, <1>7, <1>9, <1>10, <1>11, <1>12 DEF new, w, h, j

(* What a client has read, holds and is about to write is what IInv says   *)
(* in every reachable state, however the operations of clients overlap     *)
(* (RunPersistence, StateRepository.commit, reconcile_orphans).            *)
THEOREM BuiltAlways == Spec => []IInv
<1>1. Init => IInv
  <2> SUFFICES ASSUME Init PROVE Documents /\ HeldIsRead /\ WorkIsBuilt
    BY ReadableInit DEF IInv
  <2>1. HeldIsRead /\ WorkIsBuilt
    BY DEF Init, HeldIsRead, HeldAt, WorkIsBuilt, InHandAt, Writing, Reconciling
  <2>2. ASSUME json = [r \in RunIds |-> None] PROVE Documents
    BY <2>2 DEF Documents, Unmigrated, RegistryIsFounded
  <2>3. ASSUME NEW r \in RunIds, NEW s \in Inherited,
               json = [q \in RunIds |-> IF q = r THEN s ELSE None],
               files = [q \in RunIds |-> IF q = r THEN Referenced(s) ELSE {}]
        PROVE  Documents
    <3>1. (s.version = 2 => s.revision = 0) /\ Registry(s) \subseteq Referenced(s)
      BY InheritedAssumption DEF Referenced
    <3> QED BY <2>3, <3>1 DEF Documents, Unmigrated, RegistryIsFounded
  <2> QED BY <2>1, <2>2, <2>3 DEF Init
<1>2. IInv /\ Readable' /\ [Next]_vars => IInv'
  <2> SUFFICES ASSUME IInv, Readable', [Next]_vars
               PROVE  Documents' /\ HeldIsRead' /\ WorkIsBuilt'
    BY DEF IInv
  <2>0. /\ TypeOK /\ TypeOK' /\ WorkIsWhole /\ Documents /\ HeldIsRead /\ WorkIsBuilt
        /\ Stored /\ Held /\ Busy /\ RegistryIsFounded /\ Unmigrated
        /\ \A c \in Clients : HeldAt(c) /\ InHandAt(c) /\ WholeAt(c)
    BY TypeParts DEF IInv, Readable, StoreIsReadable, Documents, HeldIsRead, WorkIsBuilt, WorkIsWhole
  <2> USE <2>0
  <2>1. ASSUME NEW c \in Clients, NEW r \in RunIds, Allocate(c, r)
        PROVE  Documents' /\ HeldIsRead' /\ WorkIsBuilt'
    <3>1. /\ pc' = [pc EXCEPT ![c] = "initialise"] /\ held' = held
          /\ \A d \in Clients \ {c} : work'[d] = work[d]
          /\ UNCHANGED <<json, files, orphans, raced, swept>>
      BY <2>1 DEF Allocate, Goto, Keep, history, Busy
    <3>2. Grows /\ (\A d \in Clients : Notices(d)) /\ Documents'
      BY <3>1, StillGrows
    <3>3. Others(c) /\ InHandAt(c)'
      BY <3>1, NoneInHand DEF Others, Busy
    <3>4. HeldAt(c)'
      BY <3>1, <3>2, HeldStays
    <3> QED BY <3>2, <3>3, <3>4, StepKeeps
  <2>2. ASSUME NEW c \in Clients, Initialise(c)
        PROVE  Documents' /\ HeldIsRead' /\ WorkIsBuilt'
    <3> DEFINE r == work[c].run
    <3>1. /\ r \in RunIds /\ held' = held /\ UNCHANGED <<files, orphans, raced, swept>>
      BY <2>2 DEF Initialise, WholeAt, Stored, history
    <3>2. CASE Done(c) /\ UNCHANGED json
      <4>1. Grows /\ (\A d \in Clients : Notices(d)) /\ Documents'
        BY <3>1, <3>2, StillGrows
      <4>2. Others(c) /\ InHandAt(c)'
        BY <3>1, <3>2, DoneEnds DEF Others
      <4>3. HeldAt(c)'
        BY <3>1, <4>1, HeldStays
      <4> QED BY <4>1, <4>2, <4>3, StepKeeps
    <3>3. CASE /\ json[r] = None /\ json' = [json EXCEPT ![r] = FreshState]
               /\ Goto(c, "point") /\ UNCHANGED work
      <4>1. json'[r] = FreshState /\ \A q \in RunIds \ {r} : json'[q] = json[q]
        BY <3>1, <3>3 DEF Stored
      <4>2. Grows
        BY <3>1, <3>3, <4>1 DEF Grows
      <4>3. ASSUME NEW d \in Clients PROVE Notices(d)
        <5>1. \A q : json'[q] # json[q] => q = r
          BY <3>1, <3>3 DEF Stored
        <5> QED BY <3>1, <3>3, <5>1 DEF Notices
      <4>4. Documents'
        BY <3>1, <4>1, FreshIsWhole DEF Documents, Unmigrated, RegistryIsFounded
      <4>5. Others(c) /\ pc'[c] = "point" /\ work'[c] = work[c]
        BY <3>1, <3>3 DEF Others, Goto, Busy
      <4>6. Since(FreshState, json'[r], r \in raced')
        <5>1. FreshState # None /\ FreshState.revision \in Nat
          BY FreshIsWhole, DistinctNone DEF States
        <5> QED BY <4>1, <5>1, FreshIsWhole, WholeReadsItself DEF Since
      <4>7. InHandAt(c)'
        BY <4>5, <4>6 DEF InHandAt, Older, Reconciling, Writing
      <4>8. HeldAt(c)'
        BY <3>1, <4>2, HeldStays
      <4> QED BY <4>2, <4>3, <4>4, <4>5, <4>7, <4>8, StepKeeps
    <3> QED BY <2>2, <3>2, <3>3 DEF Initialise
  <2>3. ASSUME NEW c \in Clients, NEW r \in RunIds, NEW s \in States,
               Older(s, r), Founded(s, r), held' = [held EXCEPT ![c] = [run |-> r, state |-> s]],
               InHandAt(c)', \A d \in Clients \ {c} : pc'[d] = pc[d] /\ work'[d] = work[d],
               UNCHANGED <<json, files, orphans, raced, swept>>
        PROVE  Documents' /\ HeldIsRead' /\ WorkIsBuilt'
    <3>1. Grows /\ (\A d \in Clients : Notices(d)) /\ Documents'
      BY <2>3, StillGrows
    <3>2. Others(c) /\ held'[c].run = r /\ held'[c].state = s
      BY <2>3 DEF Others, Held
    <3>3. HeldAt(c)'
      BY <2>3, <3>2 DEF HeldAt, Older, Founded
    <3> QED BY <2>3, <3>1, <3>2, <3>3, StepKeeps
  <2>4. ASSUME NEW c \in Clients, WriteLatest(c)
        PROVE  Documents' /\ HeldIsRead' /\ WorkIsBuilt'
    <3> DEFINE r == work[c].run
    <3>1. /\ pc[c] = "point" /\ r \in RunIds /\ Older(FreshState, r) /\ Done(c)
          /\ held' = [held EXCEPT ![c] = [run |-> r, state |-> FreshState]]
          /\ UNCHANGED <<json, files, orphans, raced, swept>>
      BY <2>4 DEF WriteLatest, WholeAt, InHandAt, Stored, history
    <3>2. FreshState \in States /\ Founded(FreshState, r)
      BY FreshIsWhole DEF Founded
    <3> QED BY <2>3, <3>1, <3>2, DoneEnds
  <2>5. ASSUME NEW c \in Clients, NEW r \in RunIds, NEW policy \in ReadPolicies,
               ReadsRun(c, r, policy)
        PROVE  LET s == Load(json[r], policy) IN
               /\ s \in States /\ ReadFrom(s, json[r]) /\ Older(s, r) /\ Founded(s, r)
               /\ pc[c] = "idle"
    <3>1. json[r] # None /\ json[r] \in States /\ Loads(json[r], policy) /\ policy \in Policies
      BY <2>5, PolicyAssumption DEF ReadsRun, Stored
    <3>2. ReadFrom(Load(json[r], policy), json[r])
      BY <3>1, LoadIsWhole
    <3> QED BY <2>5, <3>1, <3>2, ReadIsFounded DEF ReadsRun, Begins
  <2>6. ASSUME NEW c \in Clients, NEW r \in RunIds, NEW policy \in ReadPolicies,
               Open(c, r, policy)
        PROVE  Documents' /\ HeldIsRead' /\ WorkIsBuilt'
    <3> DEFINE s == Load(json[r], policy)
    <3>1. /\ ReadsRun(c, r, policy) /\ held' = [held EXCEPT ![c] = [run |-> r, state |-> s]]
          /\ UNCHANGED <<json, files, orphans, raced, swept, pc, work>>
      BY <2>6 DEF Open, storage, history
    <3>2. s \in States /\ Older(s, r) /\ Founded(s, r) /\ pc'[c] = "idle"
      BY <2>5, <3>1
    <3> HIDE DEF s
    <3>3. InHandAt(c)'
      BY <3>2, NoneInHand
    <3> QED BY <2>3, <3>1, <3>2, <3>3
  <2>7. ASSUME NEW c \in Clients, NEW r \in RunIds, NEW policy \in ReadPolicies,
               Resume(c, r, policy)
        PROVE  Documents' /\ HeldIsRead' /\ WorkIsBuilt'
    <3> DEFINE s == Load(json[r], policy)
               w == [run |-> r, state |-> s, file |-> None, todo |-> {}]
    <3>1. /\ ReadsRun(c, r, policy) /\ pc' = [pc EXCEPT ![c] = "list"]
          /\ work' = [work EXCEPT ![c] = w] /\ held' = held
          /\ UNCHANGED <<json, files, orphans, raced, swept>>
      BY <2>7 DEF Resume, storage, history, Goto, Keep
    <3>2. ReadFrom(s, json[r]) /\ Older(s, r) /\ Founded(s, r)
      BY <2>5, <3>1
    <3>3. w.run = r /\ w.state = s
      OBVIOUS
    <3> HIDE DEF s, w
    <3>4. Others(c) /\ pc'[c] = "list" /\ work'[c] = w
      BY <3>1 DEF Others, Busy
    <3>5. InHandAt(c)'
      BY <3>1, <3>2, <3>3, <3>4 DEF InHandAt, Older, Founded, Reconciling, Writing
    <3>6. Grows /\ (\A d \in Clients : Notices(d)) /\ Documents'
      BY <3>1, StillGrows
    <3>7. HeldAt(c)'
      BY <3>1, <3>6, HeldStays
    <3> QED BY <3>4, <3>5, <3>6, <3>7, StepKeeps
  <2>8. ASSUME NEW c \in Clients, List(c)
        PROVE  Documents' /\ HeldIsRead' /\ WorkIsBuilt'
    <3> DEFINE r == work[c].run
               t == files[r] \ Referenced(work[c].state)
    <3>1. /\ pc[c] = "list" /\ pc' = [pc EXCEPT ![c] = "move"]
          /\ work' = [work EXCEPT ![c].todo = t] /\ held' = held
          /\ UNCHANGED <<json, files, orphans, raced, swept>>
      BY <2>8 DEF List, storage, history, Goto
    <3>2. t \cap Referenced(work[c].state) = {}
      OBVIOUS
    <3> HIDE DEF t
    <3>3. /\ Others(c) /\ pc'[c] = "move"
          /\ work'[c].run = r /\ work'[c].state = work[c].state /\ work'[c].todo = t
      BY <3>1 DEF Others, Busy, Works
    <3>4. InHandAt(c)'
      BY <3>1, <3>2, <3>3 DEF InHandAt, Older, Founded, Reconciling, Writing
    <3>5. Grows /\ (\A d \in Clients : Notices(d)) /\ Documents'
      BY <3>1, StillGrows
    <3>6. HeldAt(c)'
      BY <3>1, <3>5, HeldStays
    <3> QED BY <3>3, <3>4, <3>5, <3>6, StepKeeps
  <2>9. ASSUME NEW c \in Clients, NEW n \in Names, Move(c, n)
        PROVE  Documents' /\ HeldIsRead' /\ WorkIsBuilt'
    <3> DEFINE r == work[c].run
               s == work[c].state
    <3>1. /\ pc[c] = "move" /\ r \in RunIds /\ n \in work[c].todo
          /\ work[c].todo \cap Referenced(s) = {}
          /\ Older(s, r) /\ Founded(s, r) /\ (r \notin swept => ReadFrom(s, json[r]))
          /\ work' = [work EXCEPT ![c].todo = @ \ {n}]
          /\ UNCHANGED <<json, held, pc, raced>>
      BY <2>9 DEF Move, WholeAt, InHandAt, Reconciling
    <3>2. /\ Others(c) /\ pc'[c] = "move" /\ work'[c].run = r /\ work'[c].state = s
          /\ work'[c].todo = work[c].todo \ {n}
      BY <3>1 DEF Others, Busy, Works
    <3>3. CASE UNCHANGED <<files, orphans, swept>>
      <4>1. Grows /\ (\A d \in Clients : Notices(d)) /\ Documents'
        BY <3>1, <3>3, StillGrows
      <4>2. InHandAt(c)'
        BY <3>1, <3>2, <3>3 DEF InHandAt, Older, Founded, Reconciling, Writing
      <4>3. HeldAt(c)'
        BY <3>1, <4>1, HeldStays
      <4> QED BY <3>2, <4>1, <4>2, <4>3, StepKeeps
    <3>4. CASE /\ files' = [files EXCEPT ![r] = @ \ {n}]
               /\ orphans' = [orphans EXCEPT ![r] = @ \cup {n}]
               /\ swept' = IF {d \in OthersAt(c, {"check", "replace"}, r) : work[d].file = n} = {}
                              THEN swept ELSE swept \cup {r}
      <4>1. /\ files'[r] = files[r] \ {n} /\ orphans'[r] = orphans[r] \cup {n}
            /\ \A q \in RunIds \ {r} : files'[q] = files[q] /\ orphans'[q] = orphans[q]
            /\ swept \subseteq swept'
        BY <3>1, <3>4 DEF Stored
      <4>2. Grows
        <5>1. \A q \in RunIds : files[q] \cup orphans[q] \subseteq files'[q] \cup orphans'[q]
          BY <4>1
        <5> QED BY <3>1, <4>1, <5>1 DEF Grows
      <4>3. ASSUME NEW d \in Clients \ {c} PROVE Notices(d)
        <5>1. ASSUME pc[d] \in {"check", "replace"}, work[d].file \in files[work[d].run]
              PROVE  work[d].file \in files'[work[d].run] \/ work[d].run \in swept'
          <6>1. work[d].run \in RunIds
            BY <5>1 DEF WholeAt, Writing, Held
          <6>2. CASE work[d].run # r \/ work[d].file # n
            BY <4>1, <5>1, <6>1, <6>2
          <6>3. CASE work[d].run = r /\ work[d].file = n
            <7>1. d \in {e \in OthersAt(c, {"check", "replace"}, r) : work[e].file = n}
              BY <5>1, <6>3 DEF OthersAt
            <7> QED BY <3>4, <6>3, <7>1
          <6> QED BY <6>2, <6>3
        <5> QED BY <3>1, <5>1 DEF Notices
      <4>4. Documents'
        <5>1. r \notin swept' /\ json[r] # None => n \notin Registry(json[r])
          <6>1. SUFFICES ASSUME r \notin swept', json[r] # None PROVE n \notin Registry(json[r])
            OBVIOUS
          <6>2. ReadFrom(s, json[r]) /\ json[r] \in States
            BY <3>1, <4>1, <6>1 DEF Stored
          <6>3. Registry(s) = Registry(json[r]) /\ Registry(s) \subseteq Referenced(s)
            BY <6>2, ReadKeeps DEF Referenced
          <6> QED BY <3>1, <6>3
        <5>2. Unmigrated'
          BY <3>1 DEF Unmigrated
        <5>3. ASSUME NEW q \in RunIds, json'[q] # None
              PROVE  /\ Registry(json'[q]) \subseteq files'[q] \cup orphans'[q]
                     /\ q \notin raced' \cup swept' => Registry(json'[q]) \subseteq files'[q]
          <6>1. /\ json'[q] = json[q] /\ Registry(json[q]) \subseteq files[q] \cup orphans[q]
                /\ q \notin raced' \cup swept' => Registry(json[q]) \subseteq files[q]
            BY <3>1, <4>1, <5>3 DEF RegistryIsFounded
          <6>2. CASE q = r
            BY <4>1, <5>1, <5>3, <6>1, <6>2
          <6>3. CASE q # r
            BY <4>1, <6>1, <6>3
          <6> QED BY <6>2, <6>3
        <5> QED BY <5>2, <5>3 DEF Documents, RegistryIsFounded
      <4>5. InHandAt(c)'
        <5>1. Registry(s) \subseteq files'[r] \cup orphans'[r]
          BY <3>1, <4>2 DEF Grows, Founded
        <5> QED BY <3>1, <3>2, <4>1, <5>1 DEF InHandAt, Older, Founded, Reconciling, Writing
      <4>6. HeldAt(c)'
        BY <3>1, <4>2, HeldStays
      <4> QED BY <3>2, <4>2, <4>3, <4>4, <4>5, <4>6, StepKeeps
    <3> QED BY <2>9, <3>3, <3>4 DEF Move
  <2>10. ASSUME NEW c \in Clients, Resumed(c)
         PROVE  Documents' /\ HeldIsRead' /\ WorkIsBuilt'
    <3> DEFINE r == work[c].run
               s == work[c].state
    <3>1. /\ r \in RunIds /\ s \in States /\ Older(s, r) /\ Founded(s, r) /\ Done(c)
          /\ held' = [held EXCEPT ![c] = [run |-> r, state |-> s]]
          /\ UNCHANGED <<json, files, orphans, raced, swept>>
      BY <2>10 DEF Resumed, WholeAt, InHandAt, Reconciling, Busy, Works, storage, history
    <3> QED BY <2>3, <3>1, DoneEnds
  <2>11. ASSUME NEW c \in Clients, Starting(c)
         PROVE  Documents' /\ HeldIsRead' /\ WorkIsBuilt'
    <3>1. PICK s \in States, f \in Names \cup {None} :
             held[c] # None /\ Writes(c, s, f) /\ Builds(s, held[c].state, f)
      BY <2>11, StartingWrites
    <3> DEFINE w == [run |-> held[c].run, state |-> s, file |-> f, todo |-> {}]
               p == IF f = None THEN "check" ELSE "publish"
    <3>2. /\ pc' = [pc EXCEPT ![c] = p] /\ work' = [work EXCEPT ![c] = w] /\ held' = held
          /\ UNCHANGED <<json, files, orphans, raced, swept>>
      BY <3>1 DEF Writes, storage, history, Goto, Keep
    <3>3. w.state = s /\ w.file = f /\ p \in {"check", "publish"} /\ (p = "check" => f = None)
      OBVIOUS
    <3> HIDE DEF w, p
    <3>4. Others(c) /\ pc'[c] = p /\ work'[c] = w
      BY <3>2 DEF Others, Busy
    <3>5. InHandAt(c)'
      BY <3>1, <3>2, <3>3, <3>4 DEF InHandAt, Reconciling, Writing
    <3>6. Grows /\ (\A d \in Clients : Notices(d)) /\ Documents'
      BY <3>2, StillGrows
    <3>7. HeldAt(c)'
      BY <3>2, <3>6, HeldStays
    <3> QED BY <3>4, <3>5, <3>6, <3>7, StepKeeps
  <2>12. ASSUME NEW c \in Clients, Publish(c)
         PROVE  Documents' /\ HeldIsRead' /\ WorkIsBuilt'
    <3> DEFINE r == work[c].run
    <3>1. /\ pc[c] = "publish" /\ r \in RunIds
          /\ Builds(work[c].state, held[c].state, work[c].file)
          /\ files' = [files EXCEPT ![r] = @ \cup {work[c].file}]
          /\ pc' = [pc EXCEPT ![c] = "check"]
          /\ UNCHANGED <<json, orphans, held, work, raced, swept>>
      BY <2>12 DEF Publish, Goto, WholeAt, Writing, InHandAt, Held, history
    <3>2. /\ files'[r] = files[r] \cup {work[c].file}
          /\ \A q \in RunIds : files[q] \subseteq files'[q]
      BY <3>1 DEF Stored
    <3>3. Grows
      BY <3>1, <3>2 DEF Grows
    <3>4. ASSUME NEW d \in Clients \ {c} PROVE Notices(d)
      <4>1. \A q : files[q] \subseteq files'[q] \/ q \notin RunIds
        BY <3>2
      <4>2. pc[d] \in {"check", "replace"} => work[d].run \in RunIds
        BY DEF WholeAt, Writing, Held
      <4> QED BY <3>1, <4>1, <4>2 DEF Notices
    <3>5. Documents'
      BY <3>1, <3>2 DEF Documents, Unmigrated, RegistryIsFounded
    <3>6. Others(c) /\ pc'[c] = "check"
      BY <3>1 DEF Others, Busy
    <3>7. InHandAt(c)'
      BY <3>1, <3>2, <3>6 DEF InHandAt, Reconciling, Writing
    <3>8. HeldAt(c)'
      BY <3>1, <3>3, HeldStays
    <3> QED BY <3>3, <3>4, <3>5, <3>6, <3>7, <3>8, StepKeeps
  <2>13. ASSUME NEW c \in Clients, CheckRevision(c)
         PROVE  Documents' /\ HeldIsRead' /\ WorkIsBuilt'
    <3> DEFINE r == work[c].run
    <3>1. /\ pc[c] = "check" /\ held' = held /\ UNCHANGED <<json, files, orphans, raced, swept>>
      BY <2>13 DEF CheckRevision, storage, history
    <3>2. Grows /\ (\A d \in Clients : Notices(d)) /\ Documents'
      BY <3>1, StillGrows
    <3>3. HeldAt(c)'
      BY <3>1, <3>2, HeldStays
    <3>4. CASE Done(c)
      <4>1. Others(c) /\ InHandAt(c)'
        BY <3>1, <3>4, DoneEnds DEF Others
      <4> QED BY <3>2, <3>3, <4>1, StepKeeps
    <3>5. CASE RevisionHolds(c) /\ Goto(c, "replace") /\ UNCHANGED work
      <4>1. Others(c) /\ pc'[c] = "replace" /\ work'[c] = work[c] /\ held'[c] = held[c]
        BY <3>1, <3>5 DEF Others, Goto, Busy
      <4>2. /\ held[c] # None /\ r = held[c].run /\ r \in RunIds /\ held[c].state \in States
            /\ Older(held[c].state, r) /\ Builds(work[c].state, held[c].state, work[c].file)
            /\ work[c].file # None =>
                  /\ work[c].file \in files[r] \cup orphans[r]
                  /\ r \notin swept => work[c].file \in files[r]
        BY <3>1 DEF WholeAt, Writing, Held, HeldAt, InHandAt
      <4>3. ASSUME r \notin raced PROVE json[r].revision = held[c].state.revision
        <5>1. json[r] # None /\ json[r] \in States /\ held[c].state.revision <= json[r].revision
          BY <4>2, <4>3 DEF Older, Since, Stored
        <5>2. held[c].state.revision \in Nat /\ json[r].revision \in Nat
          BY <4>2, <5>1 DEF States
        <5>3. CASE json[r].version = 2
          BY <4>2, <5>1, <5>2, <5>3 DEF Unmigrated
        <5>4. CASE json[r].version # 2
          BY <3>5, <4>2, <5>1, <5>2, <5>4, DistinctNone DEF RevisionHolds, FoundRevision
        <5> QED BY <5>3, <5>4
      <4>4. InHandAt(c)'
        BY <3>1, <4>1, <4>2, <4>3 DEF InHandAt, Reconciling, Writing
      <4> QED BY <3>2, <3>3, <4>1, <4>4, StepKeeps
    <3> QED BY <2>13, <3>4, <3>5 DEF CheckRevision
  <2>14. ASSUME NEW c \in Clients, Replace(c)
         PROVE  Documents' /\ HeldIsRead' /\ WorkIsBuilt'
    <3> DEFINE r == held[c].run
               new == Committed(work[c].state)
    <3>1. /\ r \in RunIds /\ work[c].run = r /\ json[r] \in States /\ json[r] # None
          /\ new \in States /\ new.version = 3 /\ TaskParses(new)
          /\ json' = [json EXCEPT ![r] = new]
          /\ held' = [held EXCEPT ![c] = [run |-> r, state |-> new]]
          /\ raced \subseteq raced' /\ swept \subseteq swept'
          /\ Registry(new) \subseteq files[r] \cup orphans[r]
          /\ r \notin raced' => new.revision = json[r].revision + 1
          /\ r \notin raced' \cup swept' => Registry(new) \subseteq files[r]
      BY <2>14, ReplaceMakes
    <3>2. Done(c) /\ files' = files /\ orphans' = orphans
      BY <2>14 DEF Replace
    <3>3. /\ OthersAt(c, {"replace"}, r) # {} => r \in raced'
          /\ OthersAt(c, {"list", "move"}, r) # {} => r \in swept'
      BY <2>14, <3>1 DEF Replace
    <3> HIDE DEF new
    <3>4. new # None /\ new.revision \in Nat /\ ReadFrom(new, new)
      BY <3>1, DistinctNone, WholeReadsItself DEF States
    <3>5. json'[r] = new /\ \A q \in RunIds \ {r} : json'[q] = json[q]
      BY <3>1 DEF Stored
    <3>6. Grows
      BY <3>1, <3>2, <3>4, <3>5 DEF Grows
    <3>7. ASSUME NEW d \in Clients \ {c} PROVE Notices(d)
      <4>1. \A q : json'[q] # json[q] => q = r
        BY <3>1 DEF Stored
      <4>2. pc[d] = "replace" /\ work[d].run = r => r \in raced'
        BY <3>3 DEF OthersAt
      <4>3. Reconciling(d) /\ work[d].run = r => r \in swept'
        BY <3>3 DEF OthersAt, Reconciling
      <4> QED BY <3>2, <4>1, <4>2, <4>3 DEF Notices
    <3>8. Documents'
      <4>1. Unmigrated'
        BY <3>1, <3>5 DEF Unmigrated
      <4>2. RegistryIsFounded'
        BY <3>1, <3>2, <3>5 DEF RegistryIsFounded
      <4> QED BY <4>1, <4>2 DEF Documents
    <3>9. HeldAt(c)'
      <4>1. held'[c].run = r /\ held'[c].state = new
        BY <3>1 DEF Held
      <4>2. Since(new, json'[r], r \in raced') /\ Registry(new) \subseteq files'[r] \cup orphans'[r]
        BY <3>1, <3>2, <3>4, <3>5 DEF Since
      <4> QED BY <4>1, <4>2 DEF HeldAt, Older, Founded
    <3>10. Others(c) /\ InHandAt(c)'
      <4>1. \A d \in Clients \ {c} : held'[d] = held[d]
        BY <3>1 DEF Held
      <4> QED BY <3>2, <4>1, DoneEnds DEF Others
    <3> QED BY <3>6, <3>7, <3>8, <3>9, <3>10, StepKeeps
  <2>15. ASSUME NEW c \in Clients, Raises(c) \/ Crash(c)
         PROVE  Documents' /\ HeldIsRead' /\ WorkIsBuilt'
    <3>1. /\ Done(c) /\ UNCHANGED <<json, files, orphans, raced, swept>>
          /\ held' = held \/ held' = [held EXCEPT ![c] = None]
      BY <2>15 DEF Raises, Crash, storage, history
    <3>2. Grows /\ (\A d \in Clients : Notices(d)) /\ Documents'
      BY <3>1, StillGrows
    <3>3. Others(c) /\ InHandAt(c)' /\ held'[c] \in {held[c], None}
      BY <3>1, DoneEnds DEF Others, Held
    <3>4. HeldAt(c)'
      <4>1. CASE held'[c] = held[c]
        BY <3>2, <4>1, HeldStays
      <4>2. CASE held'[c] = None
        BY <4>2 DEF HeldAt
      <4> QED BY <3>3, <4>1, <4>2
    <3> QED BY <3>2, <3>3, <3>4, StepKeeps
  <2>16. CASE UNCHANGED vars
    BY <2>16 DEF vars, Documents, Unmigrated, RegistryIsFounded, HeldIsRead, HeldAt, Older,
                 Founded, WorkIsBuilt, InHandAt, Reconciling, Writing
  <2> QED
    BY <2>1, <2>2, <2>4, <2>6, <2>7, <2>8, <2>9, <2>10, <2>11, <2>12, <2>13, <2>14, <2>15, <2>16
       DEF Next, Reading
<1> QED BY <1>1, <1>2, ReadableAlways, PTL DEF Spec

(* Every file a registry names was published and is kept, and is where the *)
(* document says unless a commit met another commit or a reconciliation,   *)
(* for any number of clients that overlap (run_repository.py, orphans.py). *)
THEOREM RegistryFounded == Spec => []RegistryIsFounded
<1>1. IInv => RegistryIsFounded
  BY DEF IInv, Documents
<1> QED BY <1>1, BuiltAlways, PTL

(* The revision token loses no update but that of two commits between      *)
(* their comparison and their write: otherwise what a commit replaces is   *)
(* what its client had read (StateRepository.commit, repository.py).       *)
THEOREM CommitsWhatWasRead == Spec => CommitIsCurrent
<1>1. IInv /\ [Next]_vars =>
        [\A r \in RunIds : json[r] # None /\ json'[r] # json[r] =>
            r \in raced' \/ CommitsWhatIsThere(r)]_vars
  <2> SUFFICES ASSUME IInv, Next, NEW r \in RunIds, json[r] # None, json'[r] # json[r],
                      r \notin raced'
               PROVE  CommitsWhatIsThere(r)
    OBVIOUS
  <2>0. TypeOK
    BY DEF IInv, Readable, StoreIsReadable
  <2>1. ASSUME NEW c \in Clients, Initialise(c) PROVE FALSE
    <3>1. json' = json \/ (json[work[c].run] = None /\ json' = [json EXCEPT ![work[c].run] = FreshState])
      BY <2>1 DEF Initialise
    <3> QED BY <3>1, <2>0 DEF TypeOK
  <2>2. ASSUME NEW c \in Clients, Replace(c) PROVE CommitsWhatIsThere(r)
    <3> DEFINE new == Committed(work[c].state)
               q == held[c].run
    <3>1. /\ q \in RunIds /\ work[c].run = q /\ json' = [json EXCEPT ![q] = new]
          /\ q \notin raced' => ReadFrom(held[c].state, json[q])
                                 /\ new.revision = json[q].revision + 1
      BY <2>2, ReplaceMakes
    <3> HIDE DEF new
    <3>2. json'[r] = new /\ r = q
      BY <2>0, <3>1 DEF TypeOK
    <3>3. pc[c] = "replace"
      BY <2>2 DEF Replace
    <3> QED BY <3>1, <3>2, <3>3 DEF CommitsWhatIsThere
  <2>3. ASSUME UNCHANGED json PROVE FALSE
    BY <2>3
  <2>4. ASSUME NEW c \in Clients, Reading(c) PROVE UNCHANGED json
    BY <2>4 DEF Reading, Open, Resume, List, Move, Resumed, storage
  <2>5. ASSUME NEW c \in Clients, Starting(c) PROVE UNCHANGED json
    BY <2>5 DEF Starting, Commit, RecordCommand, RecordReport, RecordOperation, SetStatus,
                Writes, storage
  <2>6. ASSUME NEW c \in Clients,
               \/ \E q \in RunIds : Allocate(c, q)
               \/ WriteLatest(c) \/ Publish(c) \/ CheckRevision(c) \/ Raises(c) \/ Crash(c)
        PROVE  UNCHANGED json
    BY <2>6 DEF Allocate, WriteLatest, Publish, CheckRevision, Raises, Crash, storage
  <2> QED BY <2>1, <2>2, <2>3, <2>4, <2>5, <2>6 DEF Next
<1> QED BY <1>1, BuiltAlways, PTL DEF Spec, CommitIsCurrent
=============================================================================
