------------------------ MODULE ExecutorWindowProofs ------------------------
(***************************************************************************)
(* Theorems about ExecutorWindow for every set of paths, every scope, every*)
(* committed tree and any number of launches and of edits by others.       *)
(***************************************************************************)
EXTENDS ExecutorWindow, TLAPS

(* Where the container's network and proxy may exist, if all went well.    *)
WithProxy == {"version", "copy in", "probe", "running", "copy out", "cleanup proxy"}
WithNetwork == WithProxy \cup {"proxy", "cleanup network"}
InContainer == (WithNetwork \ {"running"}) \cup {"network"}

Phases ==
    /\ pc \in InContainer => adapter = "docker"
    /\ pc # "promoting" => todo = {}
    /\ pc \in {"settled", "recorded", "promoting"} => token = "implemented"

(* While every control command did what it reported, what exists in Docker *)
(* is what the step at hand has created.                                   *)
DockerFits ==
    clean =>
        /\ docker \subseteq {"network", "proxy"}
        /\ "network" \in docker => adapter = "docker" /\ pc \in WithNetwork /\ created
        /\ "proxy" \in docker => adapter = "docker" /\ pc \in WithProxy

(* What somebody else changed out of scope between two windows was copied. *)
EditsAreCopied ==
    /\ SettledEditsSurvive
    /\ pc # "idle" => \A p \in edited \ InScope : opened[p] = "user"

(* The primary worktree is the one that was copied, but for what others    *)
(* edit meanwhile and for the paths promotion has been through.            *)
PrimaryIsKept ==
    /\ pc \notin {"idle", "promoting"} => \A p \in Paths \ late : primary[p] = opened[p]
    /\ pc = "promoting" =>
          \A p \in Paths \ late :
             IF p \in rows \ todo THEN Preserved(p) \/ primary[p] = copy[p]
             ELSE primary[p] = opened[p]
    /\ WindowIsAllOrNothing

(* What promotion goes through was decided on, and noted.                  *)
PromotionIsCleared ==
    /\ UnsafeNeverPromoted
    /\ pc = "promoting" => /\ rows \cap (Unsafe \ InScope) = {}
                           /\ rows \ InScope \subseteq memory.amended

ExpansionIsNoted ==
    ~torn => \A p \in Paths \ InScope : primary[p] = "work" =>
                p \in reviewed \/ (pc = "promoting" /\ p \in memory.amended)

(* The inductive invariant.                                                *)
IInv ==
    /\ TypeOK /\ Phases /\ DockerFits /\ EditsAreCopied /\ PrimaryIsKept
    /\ PromotionIsCleared /\ ExpansionIsNoted /\ AttributionExact
-----------------------------------------------------------------------------
(* A note changes what happened last, and nothing that was recorded.       *)
LEMMA NoteIsRecord ==
    ASSUME NEW rec \in Records, NEW note \in Notes
    PROVE  /\ [rec EXCEPT !.last = note] \in Records
           /\ [rec EXCEPT !.last = note].changed = rec.changed
           /\ [rec EXCEPT !.last = note].amended = rec.amended
           /\ [rec EXCEPT !.last = note].generation = rec.generation
BY DEF Records

(* A launch that can be repeated, and a wait: noted, and nothing else.     *)
LEMMA RetryStep ==
    ASSUME TypeOK, Retry \/ Block
    PROVE  /\ token' \in {"blocked", "retryable"} /\ pc' = "idle"
           /\ memory' \in Records /\ disk' \in Records
           /\ memory'.changed = memory.changed /\ memory'.amended = memory.amended
<1>1. memory \in Records
  BY DEF TypeOK
<1>2. CASE Retry
  <2>1. memory' = [memory EXCEPT !.last = "failed"] /\ disk' = memory'
        /\ token' = "retryable" /\ pc' = "idle"
    BY <1>2 DEF Retry, Saved, Goto
  <2>2. "failed" \in Notes
    BY DEF Notes
  <2> QED BY <1>1, <2>1, <2>2, NoteIsRecord
<1>3. CASE Block
  <2>1. memory' = [memory EXCEPT !.last = "blocked"] /\ disk' = memory'
        /\ token' = "blocked" /\ pc' = "idle"
    BY <1>3 DEF Block, Saved, Goto
  <2>2. "blocked" \in Notes
    BY DEF Notes
  <2> QED BY <1>1, <2>1, <2>2, NoteIsRecord
<1> QED BY <1>2, <1>3

(* Until promotion begins, what a window does stays in its copy.           *)
LEMMA EarlyStep ==
    ASSUME IInv, pc \notin {"idle", "promoting"}, pc' # "promoting",
           UNCHANGED <<primary, opened, edited, late, reviewed, torn>>,
           pc' = "idle" => token' \in {"blocked", "retryable", "raised"}
    PROVE  EditsAreCopied' /\ PrimaryIsKept' /\ PromotionIsCleared' /\ ExpansionIsNoted'
<1>1. EditsAreCopied /\ PrimaryIsKept /\ PromotionIsCleared /\ ExpansionIsNoted
  BY DEF IInv
<1>2. EditsAreCopied'
  BY <1>1 DEF EditsAreCopied, SettledEditsSurvive
<1>3. \A p \in Paths \ late : primary[p] = opened[p]
  BY <1>1 DEF PrimaryIsKept
<1>4. PrimaryIsKept'
  BY <1>3 DEF PrimaryIsKept, WindowIsAllOrNothing, Elsewhere
<1>5. PromotionIsCleared' /\ ExpansionIsNoted'
  BY <1>1 DEF PromotionIsCleared, UnsafeNeverPromoted, ExpansionIsNoted
<1> QED BY <1>2, <1>4, <1>5

(* A step between the stages, with no change of the workspace: refused or  *)
(* unsettled, on to the next stage, or settled.                            *)
LEMMA BetweenStages ==
    ASSUME IInv, pc \in {"copied", "returned", "envelope"},
           UNCHANGED <<adapter, trees, state, rows, todo, container, ghosts>>,
           \/ Retry \/ Block
           \/ /\ UNCHANGED <<token, record>>
              /\ pc' \in {"network", "running", "envelope"} /\ (pc' = "network" => adapter = "docker")
           \/ token' = "implemented" /\ UNCHANGED record /\ pc' = "settled"
    PROVE  IInv'
<1>0. /\ adapter' = adapter /\ primary' = primary /\ opened' = opened /\ copy' = copy
      /\ box' = box /\ index' = index /\ head' = head /\ state' = state /\ rows' = rows
      /\ todo' = todo /\ docker' = docker /\ created' = created /\ clean' = clean
      /\ edited' = edited /\ late' = late /\ reviewed' = reviewed /\ torn' = torn
      /\ edits' = edits
  BY DEF trees, container, ghosts
<1>1. TypeOK /\ Phases /\ DockerFits
  BY DEF IInv
<1>2. /\ token' \in {"none", "implemented", "blocked", "retryable", "raised"}
      /\ memory' \in Records /\ disk' \in Records
      /\ pc' \in {"idle", "network", "running", "envelope", "settled"}
      /\ pc' = "idle" => token' \in {"blocked", "retryable", "raised"}
      /\ pc' = "settled" => token' = "implemented"
      /\ pc' = "network" => adapter = "docker"
  <2>1. CASE Retry \/ Block
    BY <1>1, <2>1, RetryStep
  <2>2. CASE ~(Retry \/ Block)
    BY <1>1, <2>2 DEF TypeOK, record
  <2> QED BY <2>1, <2>2
<1>3. TypeOK'
  BY <1>0, <1>1, <1>2 DEF TypeOK, Pcs
<1>4. Phases' /\ AttributionExact'
  BY <1>0, <1>1, <1>2 DEF Phases, InContainer, WithNetwork, WithProxy, AttributionExact
<1>5. DockerFits'
  BY <1>0, <1>1 DEF DockerFits, WithNetwork, WithProxy
<1>6. EditsAreCopied' /\ PrimaryIsKept' /\ PromotionIsCleared' /\ ExpansionIsNoted'
  BY <1>0, <1>2, EarlyStep
<1> QED BY <1>3, <1>4, <1>5, <1>6 DEF IInv

(* A launch is admitted, or it is a retryable failure.                     *)
LEMMA LaunchStep ==
    ASSUME IInv, Launch PROVE IInv'
<1>1. pc = "copied" /\ UNCHANGED <<adapter, trees, state, rows, todo, container, ghosts>>
  BY DEF Launch
<1>2. \/ Retry
      \/ /\ UNCHANGED <<token, record>>
         /\ pc' \in {"network", "running"} /\ (pc' = "network" => adapter = "docker")
  BY DEF Launch, Goto, record
<1> QED BY <1>1, <1>2, BetweenStages

(* Settling a result blocks, fails, or goes on to the attribution.         *)
LEMMA SettleSteps ==
    ASSUME IInv, SettleStream \/ AskEnvelope \/ SettleEnvelope PROVE IInv'
<1>1. /\ pc \in {"returned", "envelope"}
      /\ UNCHANGED <<adapter, trees, state, rows, todo, container, ghosts>>
  BY DEF SettleStream, AskEnvelope, SettleEnvelope
<1>2. \/ Retry \/ Block
      \/ UNCHANGED <<token, record>> /\ pc' = "envelope"
      \/ token' = "implemented" /\ UNCHANGED record /\ pc' = "settled"
  <2>1. CASE SettleStream
    <3>1. PICK kind \in {"implemented", "blocked"}, mine \in BOOLEAN, aside \in BOOLEAN,
               completed \in BOOLEAN :
             LET last == [kind |-> kind, mine |-> mine]
                 stream == IF aside THEN <<last, [last EXCEPT !.kind = "aside"]>> ELSE <<last>>
             IN  CASE FinalResult(stream, completed) = "invalid" -> Retry
                   [] FinalResult(stream, completed) = "blocked" -> Block
                   [] FinalResult(stream, completed) = "implemented" ->
                        token' = "implemented" /\ Goto("settled") /\ UNCHANGED record
      BY <2>1 DEF SettleStream
    <3> DEFINE last == [kind |-> kind, mine |-> mine]
               stream == IF aside THEN <<last, [last EXCEPT !.kind = "aside"]>> ELSE <<last>>
               r == FinalResult(stream, completed)
    <3>3. (CASE r = "invalid" -> Retry
             [] r = "blocked" -> Block
             [] r = "implemented" ->
                   token' = "implemented" /\ Goto("settled") /\ UNCHANGED record)
      BY <3>1
    <3>2. r \in {"invalid", "blocked", "implemented"}
      <4>1. CASE aside
        <5>1. Len(stream) = 2 /\ stream[2].kind = "aside"
          BY <4>1
        <5>2. 2 \notin TerminalAt(stream)
          BY <5>1 DEF TerminalAt
        <5> HIDE DEF stream
        <5> QED BY <5>1, <5>2 DEF FinalResult
      <4>2. CASE ~aside
        <5>1. Len(stream) = 1 /\ stream[1].kind = kind
          BY <4>2
        <5> HIDE DEF stream
        <5> QED BY <5>1 DEF FinalResult
      <4> QED BY <4>1, <4>2
    <3> HIDE DEF r
    <3> QED BY <3>2, <3>3 DEF Goto
  <2>2. CASE AskEnvelope
    BY <2>2 DEF AskEnvelope, Goto, record
  <2>3. CASE SettleEnvelope
    <3>1. CASE Retry
      BY <3>1
    <3>2. CASE ~Retry
      <4>0. PICK prose \in {"none", "implemented", "blocked"}, envelope \in Envelopes :
               \E r : /\ r = Settle(prose, envelope, TRUE)
                      /\ CASE r = "invalid" -> Retry
                           [] r = "blocked" -> Block
                           [] r = "implemented" ->
                                 token' = "implemented" /\ Goto("settled") /\ UNCHANGED record
        BY <2>3, <3>2 DEF SettleEnvelope
      <4>1. PICK r :
               /\ r = Settle(prose, envelope, TRUE)
               /\ CASE r = "invalid" -> Retry
                    [] r = "blocked" -> Block
                    [] r = "implemented" ->
                          token' = "implemented" /\ Goto("settled") /\ UNCHANGED record
        BY <4>0
      <4>2. r \in {"invalid", "blocked", "implemented"}
        BY <4>1 DEF Settle, EnvelopeValid, Envelopes
      <4> QED BY <4>1, <4>2 DEF Goto
    <3> QED BY <3>1, <3>2
  <2> QED BY <2>1, <2>2, <2>3
<1> QED BY <1>1, <1>2, BetweenStages
(* A step of the launch: its own part is Docker, the copy and the types.   *)
LEMMA LaunchGoesOn ==
    ASSUME IInv, pc \notin {"idle", "promoting"},
           pc' \notin {"settled", "recorded", "promoting"},
           pc' = "idle" => token' \in {"blocked", "retryable", "raised"},
           pc' \in InContainer => adapter = "docker",
           UNCHANGED <<adapter, primary, opened, edited, late, reviewed, torn, todo>>,
           TypeOK', DockerFits'
    PROVE  IInv'
<1>1. Phases' /\ AttributionExact'
  BY DEF IInv, Phases, AttributionExact
<1>2. EditsAreCopied' /\ PrimaryIsKept' /\ PromotionIsCleared' /\ ExpansionIsNoted'
  BY EarlyStep
<1> QED BY <1>1, <1>2 DEF IInv

(* A control command did its work, or reported a failure; if that was all, *)
(* nothing is there that was not.                                          *)
LEMMA ControlStep ==
    ASSUME TypeOK, NEW from, NEW next, NEW things \in SUBSET {"network", "proxy"},
           NEW leftovers \in SUBSET {"network", "proxy", "container"},
           Control(from, things, leftovers, next)
    PROVE  /\ pc = from /\ clean' \in BOOLEAN /\ docker' \subseteq {"network", "proxy", "container"}
           /\ \/ docker' = docker \cup things /\ pc' = next /\ token' = token /\ clean' = clean
              \/ /\ pc' = "cleanup proxy" /\ token' = "retryable"
                 /\ clean' => clean /\ docker' = docker
<1>1. clean \in BOOLEAN /\ docker \subseteq {"network", "proxy", "container"}
  BY DEF TypeOK
<1>2. CASE /\ docker' = docker \cup things
           /\ Goto(next)
           /\ UNCHANGED <<token, clean>>
  BY <1>1, <1>2 DEF Control, Goto
<1>3. CASE /\ \E done \in SUBSET leftovers : /\ docker' = docker \cup done
                                           /\ clean' = (clean /\ done = {})
           /\ token' = "retryable"
           /\ Goto("cleanup proxy")
  <2>1. PICK done \in SUBSET leftovers : docker' = docker \cup done /\ clean' = (clean /\ done = {})
    BY <1>3
  <2>2. clean' \in BOOLEAN /\ (clean' => clean /\ done = {})
    BY <1>1, <2>1
  <2>3. docker' \subseteq {"network", "proxy", "container"} /\ (done = {} => docker' = docker)
    BY <1>1, <2>1
  <2> QED BY <1>3, <2>2, <2>3 DEF Control, Goto
<1> QED BY <1>2, <1>3 DEF Control

(* The control commands that create, and the probe.                        *)
LEMMA CreatingSteps ==
    ASSUME IInv, CreateNetwork \/ StartProxy \/ CheckVersion PROVE IInv'
<1>1. TypeOK /\ Phases /\ DockerFits
  BY DEF IInv
<1>2. /\ UNCHANGED <<adapter, trees, state, rows, todo, record, ghosts>>
      /\ \/ CreateNetwork /\ Control("network", {"network"}, {"network"}, "proxy")
         \/ StartProxy /\ Control("proxy", {"proxy"}, {"proxy"}, "version")
         \/ CheckVersion /\ Control("version", {}, {"container"}, "copy in")
  BY DEF CreateNetwork, StartProxy, CheckVersion, Control
<1>3. /\ pc \in {"network", "proxy", "version"}
      /\ token' \in {token, "retryable"}
      /\ pc' \in {"proxy", "version", "copy in", "cleanup proxy"}
      /\ created' \in BOOLEAN /\ clean' \in BOOLEAN /\ (clean' => clean)
      /\ docker' \subseteq {"network", "proxy", "container"}
      /\ clean' => \/ /\ docker' = docker /\ pc' = "cleanup proxy"
                      /\ (pc # "network" => created' = created)
                   \/ pc = "network" /\ docker' = docker \cup {"network"} /\ pc' = "proxy" /\ created'
                   \/ /\ pc = "proxy" /\ docker' = docker \cup {"proxy"} /\ pc' = "version"
                      /\ created' = created
                   \/ pc = "version" /\ docker' = docker /\ pc' = "copy in" /\ created' = created
  <2>1. CASE CreateNetwork /\ Control("network", {"network"}, {"network"}, "proxy")
    <3>1. created' = (pc' = "proxy")
      BY <2>1 DEF CreateNetwork
    <3>2. /\ pc = "network" /\ clean' \in BOOLEAN /\ docker' \subseteq {"network", "proxy", "container"}
          /\ \/ docker' = docker \cup {"network"} /\ pc' = "proxy" /\ token' = token /\ clean' = clean
             \/ /\ pc' = "cleanup proxy" /\ token' = "retryable"
                /\ clean' => clean /\ docker' = docker
      BY <1>1, <2>1, ControlStep
    <3>3. created' \in BOOLEAN /\ (pc' = "proxy" => created')
      BY <3>1
    <3> QED BY <3>2, <3>3
  <2>2. CASE StartProxy /\ Control("proxy", {"proxy"}, {"proxy"}, "version")
    <3>1. created' = created /\ created \in BOOLEAN
      BY <1>1, <2>2 DEF StartProxy, TypeOK
    <3>2. /\ pc = "proxy" /\ clean' \in BOOLEAN /\ docker' \subseteq {"network", "proxy", "container"}
          /\ \/ docker' = docker \cup {"proxy"} /\ pc' = "version" /\ token' = token /\ clean' = clean
             \/ /\ pc' = "cleanup proxy" /\ token' = "retryable"
                /\ clean' => clean /\ docker' = docker
      BY <1>1, <2>2, ControlStep
    <3> QED BY <3>1, <3>2
  <2>3. CASE CheckVersion /\ Control("version", {}, {"container"}, "copy in")
    <3>1. created' = created /\ created \in BOOLEAN
      BY <1>1, <2>3 DEF CheckVersion, TypeOK
    <3>2. /\ pc = "version" /\ clean' \in BOOLEAN /\ docker' \subseteq {"network", "proxy", "container"}
          /\ \/ docker' = docker \cup {} /\ pc' = "copy in" /\ token' = token /\ clean' = clean
             \/ /\ pc' = "cleanup proxy" /\ token' = "retryable"
                /\ clean' => clean /\ docker' = docker
      BY <1>1, <2>3, ControlStep
    <3>3. docker \cup {} = docker
      OBVIOUS
    <3> QED BY <3>1, <3>2, <3>3
  <2> QED BY <1>2, <2>1, <2>2, <2>3
<1>4. adapter = "docker"
  BY <1>1, <1>3 DEF Phases, InContainer, WithNetwork, WithProxy
<1>5. TypeOK'
  BY <1>1, <1>2, <1>3 DEF TypeOK, Pcs, trees, record, ghosts
<1>6. DockerFits'
  <2> SUFFICES ASSUME clean'
               PROVE  /\ docker' \subseteq {"network", "proxy"}
                      /\ "network" \in docker' => pc' \in WithNetwork /\ created'
                      /\ "proxy" \in docker' => pc' \in WithProxy
    BY <1>2, <1>4 DEF DockerFits
  <2>1. /\ docker \subseteq {"network", "proxy"}
        /\ "network" \in docker => pc \in WithNetwork /\ created
        /\ "proxy" \in docker => pc \in WithProxy
    BY <1>1, <1>3 DEF DockerFits
  <2>2. CASE docker' = docker /\ pc' = "cleanup proxy" /\ (pc # "network" => created' = created)
    BY <2>1, <2>2 DEF WithNetwork, WithProxy
  <2>3. CASE pc = "network" /\ docker' = docker \cup {"network"} /\ pc' = "proxy" /\ created'
    BY <2>1, <2>3 DEF WithNetwork, WithProxy
  <2>4. CASE /\ pc = "proxy" /\ docker' = docker \cup {"proxy"} /\ pc' = "version"
             /\ created' = created
    BY <2>1, <2>4 DEF WithNetwork, WithProxy
  <2>5. CASE pc = "version" /\ docker' = docker /\ pc' = "copy in" /\ created' = created
    BY <2>1, <2>5 DEF WithNetwork, WithProxy
  <2> QED BY <1>3, <2>2, <2>3, <2>4, <2>5
<1> QED BY <1>2, <1>3, <1>4, <1>5, <1>6, LaunchGoesOn DEF trees, ghosts

(* What is copied in and out is in scope; the probe overwrites a file of   *)
(* the mounted tree.                                                       *)
LEMMA CopySteps ==
    ASSUME IInv, CopyIn \/ CopyOut \/ ProbeWorkspace PROVE IInv'
<1>1. TypeOK /\ Phases /\ DockerFits
  BY DEF IInv
<1>2. /\ pc \in {"copy in", "probe", "copy out"}
      /\ pc' \in {"probe", "running", "cleanup proxy"}
      /\ UNCHANGED <<adapter, primary, opened, index, head, state, rows, todo,
                     record, created, ghosts>>
      /\ token' \in {token, "retryable", "raised"}
  BY DEF CopyIn, CopyOut, ProbeWorkspace, Goto, container
<1>3. copy' \in [Paths -> Contents] /\ box' \in [Paths -> Contents]
  <2>1. /\ copy \in [Paths -> Contents] /\ box \in [Paths -> Contents]
        /\ NoFile \in Contents /\ "token" \in Contents
    BY <1>1 DEF TypeOK, Contents
  <2>2. CASE CopyIn
    BY <2>1, <2>2 DEF CopyIn, Mounted
  <2>3. CASE CopyOut
    <3>1. PICK some \in SUBSET Paths : copy' = CopyBack(some)
      BY <2>3, PathsAssumption DEF CopyOut
    <3>2. box' = box
      BY <2>3 DEF CopyOut
    <3> QED BY <2>1, <3>1, <3>2 DEF CopyBack
  <2>4. CASE ProbeWorkspace
    <3>1. copy' = copy /\ (box' = box \/ box' = Probed(box))
      BY <2>4 DEF ProbeWorkspace
    <3> QED BY <2>1, <3>1 DEF Probed
  <2> QED BY <2>2, <2>3, <2>4
<1>4. /\ clean' \in BOOLEAN /\ (clean' => clean /\ docker' = docker)
      /\ docker' \subseteq {"network", "proxy", "container"}
  <2>1. clean \in BOOLEAN /\ docker \subseteq {"network", "proxy", "container"}
    BY <1>1 DEF TypeOK
  <2>2. CASE UNCHANGED <<docker, clean>>
    BY <2>1, <2>2
  <2>3. CASE \E done \in SUBSET {"container"} : /\ docker' = docker \cup done
                                             /\ clean' = (clean /\ done = {})
    <3>1. PICK done \in SUBSET {"container"} : /\ docker' = docker \cup done
                                             /\ clean' = (clean /\ done = {})
      BY <2>3
    <3>2. clean' \in BOOLEAN /\ (clean' => clean /\ done = {})
      BY <2>1, <3>1
    <3>3. docker' \subseteq {"network", "proxy", "container"} /\ (done = {} => docker' = docker)
      BY <2>1, <3>1
    <3> QED BY <3>2, <3>3
  <2> QED BY <2>2, <2>3 DEF CopyIn, CopyOut, ProbeWorkspace, container
<1>5. TypeOK'
  BY <1>1, <1>2, <1>3, <1>4 DEF TypeOK, Pcs, record, ghosts
<1>6. adapter = "docker"
  BY <1>1, <1>2 DEF Phases, InContainer, WithNetwork, WithProxy
<1>7. DockerFits'
  BY <1>1, <1>2, <1>4, <1>6 DEF DockerFits, WithNetwork, WithProxy
<1> QED BY <1>2, <1>5, <1>6, <1>7, LaunchGoesOn DEF ghosts

(* The executor edits its own tree.                                        *)
LEMMA ExecutorWorksStep ==
    ASSUME IInv, ExecutorWorks PROVE IInv'
<1>1. TypeOK /\ Phases /\ DockerFits
  BY DEF IInv
<1>2. /\ pc = "running" /\ pc' = pc
      /\ UNCHANGED <<adapter, primary, opened, result, record, container, ghosts>>
  BY DEF ExecutorWorks
<1>3. /\ box' \in [Paths -> Contents] /\ copy' \in [Paths -> Contents]
      /\ index' \in [Paths -> Contents] /\ head' \in [Paths -> Contents]
  <2>1. PICK change \in [Paths -> {"keep", "work", NoFile}], hidden \in SUBSET Unsafe :
          LET after == [p \in Paths |-> IF p \in hidden THEN Unreadable
                                        ELSE IF change[p] = "keep" THEN box[p] ELSE change[p]]
          IN  IF adapter = "docker"
              THEN /\ box' = after
                   /\ UNCHANGED <<copy, index, head>>
              ELSE \E staged \in StagedSets, commits \in BOOLEAN :
                      LET added == [p \in Paths |-> IF p \in staged THEN after[p] ELSE index[p]]
                      IN  /\ \A p \in staged : after[p] # Unreadable
                          /\ box' = after /\ copy' = after
                          /\ index' = added
                          /\ head' = IF commits THEN added ELSE head
    BY DEF ExecutorWorks
  <2> DEFINE after == [p \in Paths |-> IF p \in hidden THEN Unreadable
                                       ELSE IF change[p] = "keep" THEN box[p] ELSE change[p]]
  <2>2. after \in [Paths -> Contents]
    BY <1>1 DEF TypeOK, Contents
  <2>3. CASE adapter = "docker"
    BY <1>1, <2>1, <2>2, <2>3 DEF TypeOK
  <2>4. CASE adapter # "docker"
    <3>1. PICK staged \in StagedSets, commits \in BOOLEAN :
             LET added == [p \in Paths |-> IF p \in staged THEN after[p] ELSE index[p]]
             IN  /\ box' = after /\ copy' = after
                 /\ index' = added
                 /\ head' = IF commits THEN added ELSE head
      BY <2>1, <2>4
    <3> HIDE DEF after
    <3>2. [p \in Paths |-> IF p \in staged THEN after[p] ELSE index[p]] \in [Paths -> Contents]
      BY <1>1, <2>2 DEF TypeOK
    <3> QED BY <1>1, <2>2, <3>1, <3>2 DEF TypeOK
  <2> QED BY <2>3, <2>4
<1>4. TypeOK' /\ DockerFits'
  <2>1. TypeOK'
    BY <1>1, <1>2, <1>3 DEF TypeOK, result, record, container, ghosts
  <2>2. DockerFits'
    BY <1>1, <1>2 DEF DockerFits, container
  <2> QED BY <2>1, <2>2
<1> QED BY <1>2, <1>4, LaunchGoesOn DEF result, ghosts, InContainer
(* The child ends, is killed, or kills the client of a container.          *)
LEMMA ChildEndsStep ==
    ASSUME IInv, ChildEnds PROVE IInv'
<1>1. TypeOK /\ Phases /\ DockerFits
  BY DEF IInv
<1>2. PICK code \in {"ok", "failed", "timeout"} :
         IF adapter = "docker"
         THEN /\ Goto(IF code = "ok" THEN "copy out" ELSE "cleanup proxy")
              /\ docker' = IF code = "timeout" THEN docker \cup {"container"} ELSE docker
              /\ clean' = (clean /\ code # "timeout")
              /\ token' = IF code = "ok" THEN "none" ELSE "retryable"
              /\ UNCHANGED record
         ELSE /\ IF code = "ok" THEN Goto("returned") /\ UNCHANGED <<token, record>> ELSE Retry
              /\ UNCHANGED <<docker, clean>>
  BY DEF ChildEnds
<1>3. pc = "running" /\ UNCHANGED <<adapter, trees, state, rows, todo, created, ghosts>>
  BY DEF ChildEnds
<1>4. /\ pc' \in {"idle", "copy out", "cleanup proxy", "returned"}
      /\ token' \in {"none", "implemented", "blocked", "retryable", "raised"}
      /\ pc' = "idle" => token' = "retryable"
      /\ pc' \in InContainer => adapter = "docker"
      /\ memory' \in Records /\ disk' \in Records
      /\ docker' \subseteq {"network", "proxy", "container"}
  <2>1. CASE adapter = "docker"
    <3>1. pc' \in {"copy out", "cleanup proxy"} /\ token' \in {"none", "retryable"}
      BY <1>2, <2>1 DEF Goto
    <3>2. memory' = memory /\ disk' = disk /\ docker' \subseteq docker \cup {"container"}
      BY <1>2, <2>1 DEF record
    <3> QED BY <1>1, <2>1, <3>1, <3>2 DEF TypeOK
  <2>2. CASE adapter # "docker"
    <3>1. docker' = docker
      BY <1>2, <2>2
    <3>2. CASE Retry
      <4>1. token' = "retryable" /\ pc' = "idle" /\ "idle" \notin InContainer
        BY <3>2 DEF Retry, Goto, InContainer, WithNetwork, WithProxy
      <4> QED BY <1>1, <3>1, <3>2, <4>1, RetryStep DEF TypeOK
    <3>3. CASE Goto("returned") /\ UNCHANGED <<token, record>>
      BY <1>1, <3>1, <3>3 DEF TypeOK, Goto, record, InContainer, WithNetwork, WithProxy
    <3> QED BY <1>2, <2>2, <3>2, <3>3
  <2> QED BY <2>1, <2>2
<1>5. clean' \in BOOLEAN /\ (clean' => clean /\ docker' = docker)
  BY <1>1, <1>2 DEF TypeOK
<1>6. TypeOK'
  BY <1>1, <1>3, <1>4, <1>5 DEF TypeOK, Pcs, trees, ghosts
<1>7. DockerFits'
  <2>1. adapter # "docker" /\ clean' => docker = {}
    BY <1>1, <1>5 DEF DockerFits
  <2>2. adapter = "docker" => pc' \in {"copy out", "cleanup proxy"}
    BY <1>2 DEF Goto
  <2> QED BY <1>1, <1>3, <1>5, <2>1, <2>2 DEF DockerFits, WithNetwork, WithProxy
<1> QED BY <1>3, <1>4, <1>6, <1>7, LaunchGoesOn DEF trees, ghosts

(* The cleanup, which is only good if both commands work.                  *)
LEMMA CleanupProxyStep ==
    ASSUME IInv, CleanupProxy PROVE IInv'
<1>1. TypeOK /\ Phases /\ DockerFits
  BY DEF IInv
<1>2. /\ pc = "cleanup proxy" /\ pc' = "cleanup network"
      /\ UNCHANGED <<adapter, trees, result, record, created, ghosts>>
      /\ \/ docker' = docker \ {"proxy"} /\ clean' = clean
         \/ clean' = FALSE /\ docker' = docker
  BY DEF CleanupProxy, Goto
<1>3. adapter = "docker"
  BY <1>1, <1>2 DEF Phases, InContainer, WithNetwork, WithProxy
<1>4. clean' \in BOOLEAN /\ docker' \subseteq docker /\ (clean' => clean /\ docker' = docker \ {"proxy"})
  <2>1. clean \in BOOLEAN
    BY <1>1 DEF TypeOK
  <2>2. CASE docker' = docker \ {"proxy"} /\ clean' = clean
    BY <2>1, <2>2
  <2>3. CASE clean' = FALSE /\ docker' = docker
    BY <2>3
  <2> QED BY <1>2, <2>2, <2>3
<1>5. TypeOK'
  BY <1>1, <1>2, <1>4 DEF TypeOK, Pcs, trees, result, record, ghosts
<1>6. DockerFits'
  BY <1>1, <1>2, <1>3, <1>4 DEF DockerFits, WithNetwork, WithProxy
<1> QED BY <1>2, <1>3, <1>5, <1>6, LaunchGoesOn DEF trees, result, ghosts

(* The network goes last, and the launch ends with what it came to.        *)
LEMMA CleanupNetworkStep ==
    ASSUME IInv, CleanupNetwork PROVE IInv'
<1>1. TypeOK /\ Phases /\ DockerFits
  BY DEF IInv
<1>2. /\ pc = "cleanup network"
      /\ UNCHANGED <<adapter, trees, state, rows, todo, created, ghosts>>
      /\ IF ~created THEN docker' = docker /\ clean' = clean
         ELSE \/ docker \subseteq {"network"} /\ docker' = docker \ {"network"} /\ clean' = clean
              \/ clean' = FALSE /\ docker' = docker
      /\ AfterLaunch
  BY DEF CleanupNetwork
<1>3. /\ pc' \in {"idle", "returned"} /\ memory' \in Records /\ disk' \in Records
      /\ token' \in {"none", "implemented", "blocked", "retryable", "raised"}
      /\ pc' = "idle" => token' \in {"blocked", "retryable", "raised"}
  <2>1. CASE Retry
    BY <1>1, <2>1, RetryStep
  <2>2. CASE Raise
    BY <1>1, <2>2 DEF TypeOK, Raise, Goto
  <2>3. CASE Goto("returned") /\ UNCHANGED <<token, record>>
    BY <1>1, <2>3 DEF TypeOK, Goto, record
  <2> QED BY <1>2, <2>1, <2>2, <2>3 DEF AfterLaunch
<1>4. /\ clean' \in BOOLEAN /\ docker' \subseteq docker /\ (clean' => docker' = {})
  <2>1. /\ clean \in BOOLEAN
        /\ clean => /\ docker \subseteq {"network"}
                    /\ ~created => docker = {}
    BY <1>1, <1>2 DEF TypeOK, DockerFits, WithProxy
  <2> QED BY <1>2, <2>1
<1>5. TypeOK'
  BY <1>1, <1>2, <1>3, <1>4 DEF TypeOK, Pcs, trees, ghosts
<1>6. DockerFits'
  BY <1>4 DEF DockerFits
<1> QED
  BY <1>2, <1>3, <1>5, <1>6, LaunchGoesOn DEF trees, ghosts, InContainer, WithNetwork, WithProxy
(* The attribution: for a path whose index entry is what it was, the       *)
(* content before the window is the content that was copied.               *)
LEMMA AttributeStep ==
    ASSUME IInv, Attribute PROVE IInv'
<1>1. TypeOK /\ Phases /\ DockerFits
  BY DEF IInv
<1>2. /\ pc = "settled" /\ pc' = "recorded"
      /\ UNCHANGED <<adapter, trees, token, todo, record, container, ghosts>>
      /\ \/ /\ rows' = Attributed
            /\ state' = IF Ambiguous THEN "unavailable"
                        ELSE IF Attributed = {} THEN "known-empty" ELSE "known"
         \/ rows' = {} /\ state' = "unavailable"
  BY DEF Attribute, Goto
<1>3. todo' = {} /\ token' = "implemented"
  BY <1>1, <1>2 DEF Phases
<1>4. /\ rows' \subseteq Paths
      /\ state' \in {"none", "known", "known-empty", "unavailable"}
      /\ state' \in {"known", "known-empty"} => rows' = Attributed
  <2>1. Attributed \subseteq Paths
    BY DEF Attributed, Candidates, OpenBodies, Reported
  <2> QED BY <1>2, <2>1
<1>5. TypeOK'
  BY <1>1, <1>2, <1>3, <1>4 DEF TypeOK, Pcs, trees, record, container, ghosts
<1>6. Phases' /\ DockerFits'
  BY <1>1, <1>2, <1>3
     DEF Phases, DockerFits, container, InContainer, WithNetwork, WithProxy
<1>7. AttributionExact'
  <2>1. ASSUME NEW p \in Paths, IndexLeftAlone(p)
        PROVE  p \in Attributed <=> copy[p] # opened[p]
    <3>1. index[p] = Base[p] /\ head[p] = Base[p]
      BY <2>1 DEF IndexLeftAlone
    <3>2. Before(p) = opened[p]
      BY <3>1 DEF Before, OpenBodies, Blob
    <3>3. copy[p] # opened[p] => p \in Candidates
      BY <3>1 DEF Candidates, OpenBodies, Reported
    <3> QED BY <3>2, <3>3 DEF Attributed
  <2>2. ASSUME state' \in {"known", "known-empty"}, NEW p \in Paths, IndexLeftAlone(p)'
        PROVE  p \in rows' <=> copy'[p] # opened'[p]
    <3>1. copy' = copy /\ opened' = opened /\ index' = index /\ head' = head
      BY <1>2 DEF trees
    <3>2. IndexLeftAlone(p) /\ rows' = Attributed
      BY <1>4, <2>2, <3>1 DEF IndexLeftAlone
    <3> QED BY <2>1, <3>1, <3>2
  <2> QED BY <2>2 DEF AttributionExact
<1>8. EditsAreCopied' /\ PrimaryIsKept' /\ PromotionIsCleared' /\ ExpansionIsNoted'
  BY <1>2, EarlyStep DEF trees, ghosts
<1> QED BY <1>5, <1>6, <1>7, <1>8 DEF IInv

(* The decision: a wait, or a promotion of nothing unsafe with everything  *)
(* out of scope noted.                                                     *)
LEMMA DecideStep ==
    ASSUME IInv, Decide PROVE IInv'
<1>1. /\ TypeOK /\ Phases /\ DockerFits /\ EditsAreCopied /\ PrimaryIsKept
      /\ PromotionIsCleared /\ ExpansionIsNoted /\ AttributionExact
  BY DEF IInv
<1>2. /\ pc = "recorded" /\ token = "implemented"
      /\ UNCHANGED <<adapter, trees, state, rows, container, edited, late, torn, edits>>
  BY <1>1 DEF Decide, Phases
<1>3. /\ Noted \in Records /\ Noted.changed = rows /\ Noted.amended = rows \ InScope
  BY <1>1 DEF Noted, TypeOK, Records, OutOfScope
<1>4. \A p \in Paths \ late : primary[p] = opened[p]
  BY <1>1, <1>2 DEF PrimaryIsKept
<1>5. CASE ScopeBlock
  <2>1. /\ token' = "blocked" /\ pc' = "idle" /\ disk' = memory' /\ todo' = todo
        /\ memory' = [Noted EXCEPT !.last = "blocked"]
        /\ reviewed' = reviewed \cup Noted.amended
    BY <1>5 DEF Decide, Saved, Goto
  <2>2. memory' \in Records
    <3>1. "blocked" \in Notes
      BY DEF Notes
    <3> QED BY <1>3, <2>1, <3>1, NoteIsRecord
  <2>3. TypeOK'
    BY <1>1, <1>2, <1>3, <2>1, <2>2 DEF TypeOK, Pcs, Records, trees, container
  <2>4. Phases' /\ DockerFits' /\ AttributionExact'
    BY <1>1, <1>2, <2>1
       DEF Phases, DockerFits, AttributionExact, container, InContainer, WithNetwork, WithProxy
  <2>5. EditsAreCopied' /\ PromotionIsCleared' /\ ExpansionIsNoted'
    BY <1>1, <1>2, <2>1
       DEF EditsAreCopied, SettledEditsSurvive, PromotionIsCleared, UnsafeNeverPromoted,
           ExpansionIsNoted, trees
  <2>6. PrimaryIsKept'
    BY <1>2, <1>4, <2>1 DEF PrimaryIsKept, WindowIsAllOrNothing, Elsewhere, trees
  <2> QED BY <2>3, <2>4, <2>5, <2>6 DEF IInv
<1>6. CASE ~ScopeBlock
  <2>1. /\ memory' = Noted /\ todo' = rows /\ pc' = "promoting"
        /\ UNCHANGED <<token, disk, reviewed>>
    BY <1>6 DEF Decide, Goto
  <2>2. TypeOK'
    BY <1>1, <1>2, <1>3, <2>1 DEF TypeOK, Pcs, trees, container
  <2>3. Phases' /\ DockerFits' /\ AttributionExact'
    BY <1>1, <1>2, <2>1
       DEF Phases, DockerFits, AttributionExact, IndexLeftAlone, container, trees,
           InContainer, WithNetwork, WithProxy
  <2>4. EditsAreCopied' /\ ExpansionIsNoted'
    BY <1>1, <1>2, <2>1 DEF EditsAreCopied, SettledEditsSurvive, ExpansionIsNoted, trees
  <2>5. PromotionIsCleared'
    <3>1. rows \cap (Unsafe \ InScope) = {}
      BY <1>6 DEF ScopeBlock, OutOfScope
    <3> QED BY <1>1, <1>2, <1>3, <2>1, <3>1 DEF PromotionIsCleared, UnsafeNeverPromoted, trees
  <2>6. PrimaryIsKept'
    <3>1. rows' \ todo' = {} /\ primary' = primary /\ opened' = opened /\ late' = late
      BY <1>2, <2>1 DEF trees
    <3> QED BY <1>4, <2>1, <3>1 DEF PrimaryIsKept, WindowIsAllOrNothing
  <2> QED BY <2>2, <2>3, <2>4, <2>5, <2>6 DEF IInv
<1> QED BY <1>5, <1>6
(* One path of the promotion.                                              *)
LEMMA PromotePathStep ==
    ASSUME IInv, PromotePath PROVE IInv'
<1>1. /\ TypeOK /\ Phases /\ DockerFits /\ EditsAreCopied /\ PrimaryIsKept
      /\ PromotionIsCleared /\ ExpansionIsNoted /\ AttributionExact
  BY DEF IInv
<1>2. PICK p \in todo :
         /\ primary' = IF Preserved(p) THEN primary ELSE [primary EXCEPT ![p] = copy[p]]
         /\ late' = IF Preserved(p) THEN late ELSE late \ {p}
         /\ edited' = edited \ ({p} \cap InScope)
         /\ todo' = todo \ {p}
  BY DEF PromotePath
<1>3. /\ pc = "promoting" /\ pc' = "promoting"
      /\ adapter' = adapter /\ opened' = opened /\ copy' = copy /\ box' = box /\ index' = index
      /\ head' = head /\ token' = token /\ state' = state /\ rows' = rows
      /\ memory' = memory /\ disk' = disk /\ docker' = docker /\ created' = created
      /\ clean' = clean /\ reviewed' = reviewed /\ torn' = torn /\ edits' = edits
  BY DEF PromotePath, record, container
<1>4. p \in rows /\ p \in Paths
  BY <1>1, <1>2 DEF TypeOK
<1>5. /\ primary' \in [Paths -> Contents]
      /\ \A q \in Paths \ {p} : primary'[q] = primary[q]
      /\ Preserved(p) => primary'[p] = primary[p]
      /\ ~Preserved(p) => primary'[p] = copy[p]
  BY <1>1, <1>2, <1>4 DEF TypeOK
<1>6. TypeOK'
  BY <1>1, <1>2, <1>3, <1>5 DEF TypeOK
<1>7. Phases' /\ DockerFits' /\ AttributionExact'
  BY <1>1, <1>2, <1>3 DEF Phases, DockerFits, AttributionExact, IndexLeftAlone
<1>8. EditsAreCopied'
  <2>1. ASSUME NEW q \in edited' \ InScope
        PROVE  primary'[q] = "user" /\ opened'[q] = "user"
    <3>1. q \in edited \ InScope /\ q \in Paths
      BY <1>1, <1>2, <2>1 DEF TypeOK
    <3>2. primary[q] = "user" /\ opened[q] = "user"
      BY <1>1, <1>3, <3>1 DEF EditsAreCopied, SettledEditsSurvive
    <3>3. q = p => Preserved(p)
      <4>1. Base[q] # "user"
        BY <3>1, PathsAssumption DEF NoFile
      <4> QED BY <3>1, <3>2, <4>1 DEF Preserved, OpenBodies
    <3> QED BY <1>3, <1>5, <3>1, <3>2, <3>3
  <2> QED BY <2>1 DEF EditsAreCopied, SettledEditsSurvive
<1>9. PrimaryIsKept'
  <2>1. \A q \in Paths : Preserved(q)' <=> Preserved(q)
    BY <1>3 DEF Preserved, OpenBodies
  <2>2. ASSUME NEW q \in Paths \ late'
        PROVE  IF q \in rows' \ todo' THEN Preserved(q)' \/ primary'[q] = copy'[q]
               ELSE primary'[q] = opened'[q]
    <3>1. CASE q = p
      BY <1>2, <1>3, <1>4, <1>5, <2>1, <3>1
    <3>2. CASE q # p
      <4>1. q \notin late /\ (q \in rows' \ todo' <=> q \in rows \ todo)
        BY <1>2, <1>3, <2>2, <3>2
      <4>2. IF q \in rows \ todo THEN Preserved(q) \/ primary[q] = copy[q]
            ELSE primary[q] = opened[q]
        BY <1>1, <1>3, <2>2, <4>1 DEF PrimaryIsKept
      <4> QED BY <1>3, <1>5, <2>1, <2>2, <3>2, <4>1, <4>2
    <3> QED BY <3>1, <3>2
  <2> QED BY <1>3, <2>2 DEF PrimaryIsKept, WindowIsAllOrNothing
<1>10. PromotionIsCleared' /\ ExpansionIsNoted'
  <2>1. p \notin Unsafe \ InScope /\ (p \notin InScope => p \in memory.amended)
    BY <1>1, <1>3, <1>4 DEF PromotionIsCleared
  <2>2. \A q \in Unsafe \ InScope : q \in Paths
    BY PathsAssumption
  <2>3. PromotionIsCleared'
    BY <1>1, <1>3, <1>5, <2>1, <2>2 DEF PromotionIsCleared, UnsafeNeverPromoted
  <2>4. ExpansionIsNoted'
    BY <1>1, <1>3, <1>5, <2>1 DEF ExpansionIsNoted
  <2> QED BY <2>3, <2>4
<1> QED BY <1>6, <1>7, <1>8, <1>9, <1>10 DEF IInv

(* The save that follows the last path.                                    *)
LEMMA FinishStep ==
    ASSUME IInv, Finish PROVE IInv'
<1>1. /\ TypeOK /\ Phases /\ DockerFits /\ EditsAreCopied /\ PrimaryIsKept
      /\ PromotionIsCleared /\ ExpansionIsNoted /\ AttributionExact
  BY DEF IInv
<1>2. /\ pc = "promoting" /\ pc' = "idle" /\ todo = {}
      /\ memory' = [memory EXCEPT !.last = "succeeded"] /\ disk' = memory'
      /\ reviewed' = reviewed \cup memory.amended
      /\ adapter' = adapter /\ primary' = primary /\ opened' = opened /\ copy' = copy
      /\ box' = box /\ index' = index /\ head' = head /\ token' = token /\ state' = state
      /\ rows' = rows /\ todo' = todo /\ docker' = docker /\ created' = created /\ clean' = clean
      /\ edited' = edited /\ late' = late /\ torn' = torn /\ edits' = edits
  BY DEF Finish, Saved, Goto, trees, result, container
<1>3. /\ memory' \in Records /\ memory'.changed = memory.changed /\ token = "implemented"
      /\ memory.amended \subseteq Paths
  <2>1. memory \in Records /\ "succeeded" \in Notes
    BY <1>1 DEF TypeOK, Notes
  <2>2. memory.amended \subseteq Paths
    BY <2>1 DEF Records
  <2>3. token = "implemented"
    BY <1>1, <1>2 DEF Phases
  <2> QED BY <1>2, <2>1, <2>2, <2>3, NoteIsRecord
<1>4. TypeOK'
  BY <1>1, <1>2, <1>3 DEF TypeOK, Pcs
<1>5. Phases' /\ DockerFits' /\ AttributionExact'
  BY <1>1, <1>2 DEF Phases, DockerFits, AttributionExact, InContainer, WithNetwork, WithProxy
<1>6. EditsAreCopied' /\ PromotionIsCleared' /\ ExpansionIsNoted'
  BY <1>1, <1>2
     DEF EditsAreCopied, SettledEditsSurvive, PromotionIsCleared, UnsafeNeverPromoted,
         ExpansionIsNoted
<1>7. PrimaryIsKept'
  <2>1. \A q \in Paths : Preserved(q)' <=> Preserved(q)
    BY <1>2, <1>3 DEF Preserved, OpenBodies
  <2>2. \A q \in rows \ late : Preserved(q) \/ primary[q] = copy[q]
    BY <1>1, <1>2 DEF PrimaryIsKept, TypeOK
  <2> QED BY <1>1, <1>2, <1>3, <2>1, <2>2 DEF PrimaryIsKept, WindowIsAllOrNothing, Elsewhere, TypeOK
<1> QED BY <1>4, <1>5, <1>6, <1>7 DEF IInv

(* Somebody else edits, in a window or between two.                        *)
LEMMA UserEditsStep ==
    ASSUME IInv, UserEdits PROVE IInv'
<1>1. /\ TypeOK /\ Phases /\ DockerFits /\ EditsAreCopied /\ PrimaryIsKept
      /\ PromotionIsCleared /\ ExpansionIsNoted /\ AttributionExact
  BY DEF IInv
<1>2. PICK p \in Paths :
         /\ primary' = [primary EXCEPT ![p] = "user"]
         /\ edited' = IF pc = "idle" THEN edited \cup {p} ELSE edited
         /\ late' = IF pc = "idle" THEN late ELSE late \cup {p}
  BY DEF UserEdits
<1>3. /\ adapter' = adapter /\ pc' = pc /\ opened' = opened /\ copy' = copy
      /\ box' = box /\ index' = index /\ head' = head /\ token' = token /\ state' = state
      /\ rows' = rows /\ todo' = todo /\ memory' = memory /\ disk' = disk /\ docker' = docker
      /\ created' = created /\ clean' = clean /\ reviewed' = reviewed /\ torn' = torn
      /\ edits' \in 0..MaxUserEdits
  BY <1>1, PathsAssumption DEF UserEdits, result, record, container, TypeOK
<1>4. /\ primary' \in [Paths -> Contents] /\ primary'[p] = "user"
      /\ \A q \in Paths \ {p} : primary'[q] = primary[q]
  BY <1>1, <1>2 DEF TypeOK, Contents
<1>5. TypeOK'
  BY <1>1, <1>2, <1>3, <1>4 DEF TypeOK
<1>6. Phases' /\ DockerFits' /\ AttributionExact'
  BY <1>1, <1>3 DEF Phases, DockerFits, AttributionExact, IndexLeftAlone
<1>7. EditsAreCopied'
  BY <1>1, <1>2, <1>3, <1>4 DEF EditsAreCopied, SettledEditsSurvive, TypeOK
<1>8. PromotionIsCleared' /\ ExpansionIsNoted'
  BY <1>1, <1>3, <1>4, PathsAssumption DEF PromotionIsCleared, UnsafeNeverPromoted, ExpansionIsNoted
<1>9. PrimaryIsKept'
  <2>1. \A q \in Paths : Preserved(q)' <=> Preserved(q)
    BY <1>3 DEF Preserved, OpenBodies
  <2>2. CASE pc = "idle"
    <3>1. late' \cup edited' = Elsewhere \cup {p}
      BY <1>2, <2>2 DEF Elsewhere
    <3>2. WindowIsAllOrNothing'
      BY <1>1, <1>3, <1>4, <2>1, <2>2, <3>1 DEF PrimaryIsKept, WindowIsAllOrNothing, Elsewhere, TypeOK
    <3> QED BY <1>3, <2>2, <3>2 DEF PrimaryIsKept
  <2>3. CASE pc # "idle"
    BY <1>1, <1>2, <1>3, <1>4, <2>1, <2>3 DEF PrimaryIsKept, WindowIsAllOrNothing
  <2> QED BY <2>2, <2>3
<1> QED BY <1>5, <1>6, <1>7, <1>8, <1>9 DEF IInv
(* A crash: nothing is promised about the window it ended.                 *)
LEMMA CrashStep ==
    ASSUME IInv, Crash PROVE IInv'
<1>1. /\ TypeOK /\ Phases /\ DockerFits /\ EditsAreCopied /\ PrimaryIsKept
      /\ PromotionIsCleared /\ ExpansionIsNoted /\ AttributionExact
  BY DEF IInv
<1>2. /\ pc # "idle" /\ pc' = "idle" /\ memory' = disk /\ disk' = disk /\ token' = "none"
      /\ todo' = {} /\ torn' = (torn \/ pc = "promoting") /\ clean' = FALSE
      /\ adapter' = adapter /\ primary' = primary /\ opened' = opened /\ copy' = copy
      /\ box' = box /\ index' = index /\ head' = head /\ state' = state
      /\ rows' = rows /\ docker' = docker /\ created' = created
      /\ edited' = edited /\ late' = late /\ reviewed' = reviewed /\ edits' = edits
  BY DEF Crash, Goto, trees
<1>3. torn' \in BOOLEAN /\ (~torn' => ~torn /\ pc # "promoting")
  BY <1>1, <1>2 DEF TypeOK
<1>4. TypeOK'
  BY <1>1, <1>2, <1>3 DEF TypeOK, Pcs
<1>5. Phases' /\ DockerFits' /\ AttributionExact'
  BY <1>2 DEF Phases, DockerFits, AttributionExact, InContainer, WithNetwork, WithProxy
<1>6. EditsAreCopied' /\ PromotionIsCleared'
  BY <1>1, <1>2
     DEF EditsAreCopied, SettledEditsSurvive, PromotionIsCleared, UnsafeNeverPromoted
<1>7. PrimaryIsKept' /\ ExpansionIsNoted'
  BY <1>1, <1>2, <1>3 DEF PrimaryIsKept, WindowIsAllOrNothing, ExpansionIsNoted
<1> QED BY <1>4, <1>5, <1>6, <1>7 DEF IInv

(* A new window copies the primary worktree as it is.                      *)
LEMMA DispatchStep ==
    ASSUME IInv, Dispatch PROVE IInv'
<1>1. /\ TypeOK /\ Phases /\ DockerFits /\ EditsAreCopied /\ PrimaryIsKept
      /\ PromotionIsCleared /\ ExpansionIsNoted /\ AttributionExact
  BY DEF IInv
<1>2. /\ pc = "idle" /\ pc' = "copied" /\ disk.generation < MaxLaunches
      /\ memory' = [disk EXCEPT !.generation = disk.generation + 1, !.last = "started"]
      /\ disk' = memory'
      /\ opened' = primary /\ copy' = primary /\ box' = primary /\ index' = Base /\ head' = Base
      /\ token' = "none" /\ state' = "none" /\ rows' = {} /\ todo' = {} /\ late' = {}
      /\ clean' = (docker = {}) /\ created' = FALSE
      /\ adapter' = adapter /\ primary' = primary /\ docker' = docker /\ edited' = edited
      /\ reviewed' = reviewed /\ torn' = torn /\ edits' = edits
  BY DEF Dispatch, Saved, Goto
<1>3. memory' \in Records
  <2>1. disk \in Records /\ disk.generation + 1 \in 0..MaxLaunches /\ "started" \in Notes
    BY <1>1, <1>2, PathsAssumption DEF TypeOK, Records, Notes
  <2> QED BY <1>2, <2>1 DEF Records
<1>4. clean' \in BOOLEAN /\ (clean' => docker' = {})
  BY <1>2
<1>5. TypeOK'
  <2>1. Base \in [Paths -> Contents]
    BY PathsAssumption DEF Contents
  <2> QED BY <1>1, <1>2, <1>3, <1>4, <2>1 DEF TypeOK, Pcs
<1>6. Phases' /\ DockerFits' /\ AttributionExact'
  BY <1>2, <1>4 DEF Phases, DockerFits, AttributionExact, InContainer, WithNetwork, WithProxy
<1>7. EditsAreCopied' /\ PromotionIsCleared' /\ ExpansionIsNoted'
  BY <1>1, <1>2
     DEF EditsAreCopied, SettledEditsSurvive, PromotionIsCleared, UnsafeNeverPromoted,
         ExpansionIsNoted
<1>8. PrimaryIsKept'
  BY <1>2 DEF PrimaryIsKept, WindowIsAllOrNothing
<1> QED BY <1>5, <1>6, <1>7, <1>8 DEF IInv

(* A container that was left behind goes.                                  *)
LEMMA ContainerExitsStep ==
    ASSUME IInv, ContainerExits PROVE IInv'
<1>1. /\ TypeOK /\ Phases /\ DockerFits /\ EditsAreCopied /\ PrimaryIsKept
      /\ PromotionIsCleared /\ ExpansionIsNoted /\ AttributionExact
  BY DEF IInv
<1>2. /\ docker' = docker \ {"container"}
      /\ adapter' = adapter /\ pc' = pc /\ primary' = primary /\ opened' = opened /\ copy' = copy
      /\ box' = box /\ index' = index /\ head' = head /\ token' = token /\ state' = state
      /\ rows' = rows /\ todo' = todo /\ memory' = memory /\ disk' = disk
      /\ created' = created /\ clean' = clean /\ edited' = edited /\ late' = late
      /\ reviewed' = reviewed /\ torn' = torn /\ edits' = edits
  BY DEF ContainerExits, trees, result, record, ghosts
<1>3. TypeOK' /\ Phases' /\ DockerFits'
  BY <1>1, <1>2 DEF TypeOK, Phases, DockerFits
<1>4. AttributionExact' /\ EditsAreCopied' /\ PromotionIsCleared' /\ ExpansionIsNoted'
  BY <1>1, <1>2
     DEF AttributionExact, IndexLeftAlone, EditsAreCopied, SettledEditsSurvive,
         PromotionIsCleared, UnsafeNeverPromoted, ExpansionIsNoted
<1>5. PrimaryIsKept'
  BY <1>1, <1>2
     DEF PrimaryIsKept, WindowIsAllOrNothing, Elsewhere, Preserved, OpenBodies
<1> QED BY <1>3, <1>4, <1>5 DEF IInv

(* Before the first window the primary worktree is what was committed.     *)
LEMMA InitInv ==
    ASSUME Init PROVE IInv
<1>1. Base \in [Paths -> Contents] /\ \A p \in Paths : Base[p] # "work"
  BY PathsAssumption DEF Contents, NoFile
<1>2. Fresh \in Records
  BY PathsAssumption DEF Fresh, Records, Notes
<1>3. TypeOK
  <2>1. /\ adapter \in Adapters /\ pc \in Pcs
        /\ token \in {"none", "implemented", "blocked", "retryable", "raised"}
        /\ state \in {"none", "known", "known-empty", "unavailable"}
        /\ rows \subseteq Paths /\ todo \subseteq rows
    BY DEF Init, Pcs
  <2>2. /\ primary \in [Paths -> Contents] /\ opened \in [Paths -> Contents]
        /\ copy \in [Paths -> Contents] /\ box \in [Paths -> Contents]
        /\ index \in [Paths -> Contents] /\ head \in [Paths -> Contents]
    BY <1>1 DEF Init
  <2>3. memory \in Records /\ disk \in Records
    BY <1>2 DEF Init
  <2>4. /\ docker \subseteq {"network", "proxy", "container"}
        /\ created \in BOOLEAN /\ clean \in BOOLEAN /\ torn \in BOOLEAN
        /\ edited \subseteq Paths /\ late \subseteq Paths /\ reviewed \subseteq Paths
    BY DEF Init
  <2>5. edits \in 0..MaxUserEdits
    BY PathsAssumption DEF Init
  <2> QED BY <2>1, <2>2, <2>3, <2>4, <2>5 DEF TypeOK
<1>4. Phases /\ DockerFits /\ AttributionExact
  BY DEF Init, Phases, DockerFits, AttributionExact, InContainer, WithNetwork, WithProxy
<1>5. EditsAreCopied /\ PrimaryIsKept /\ PromotionIsCleared /\ ExpansionIsNoted
  BY <1>1, PathsAssumption
     DEF Init, EditsAreCopied, SettledEditsSurvive, PrimaryIsKept, WindowIsAllOrNothing,
         PromotionIsCleared, UnsafeNeverPromoted, ExpansionIsNoted
<1> QED BY <1>3, <1>4, <1>5 DEF IInv
-----------------------------------------------------------------------------
(* Theorem: the inductive invariant holds, whatever executors leave,       *)
(* others edit, commands report, and wherever the runner dies.             *)
THEOREM Inductive == Spec => []IInv
<1>1. Init => IInv
  BY InitInv
<1>2. IInv /\ [Next]_vars => IInv'
  <2> SUFFICES ASSUME IInv, [Next]_vars
               PROVE  IInv'
    OBVIOUS
  <2>1. CASE Launch
    BY <2>1, LaunchStep
  <2>2. CASE CreateNetwork \/ StartProxy \/ CheckVersion
    BY <2>2, CreatingSteps
  <2>3. CASE CopyIn \/ CopyOut \/ ProbeWorkspace
    BY <2>3, CopySteps
  <2>4. CASE ChildEnds
    BY <2>4, ChildEndsStep
  <2>5. CASE CleanupProxy
    BY <2>5, CleanupProxyStep
  <2>6. CASE CleanupNetwork
    BY <2>6, CleanupNetworkStep
  <2>7. CASE SettleStream \/ AskEnvelope \/ SettleEnvelope
    BY <2>7, SettleSteps
  <2>8. CASE Attribute
    BY <2>8, AttributeStep
  <2>9. CASE Decide
    BY <2>9, DecideStep
  <2>10. CASE PromotePath
    BY <2>10, PromotePathStep
  <2>11. CASE Finish
    BY <2>11, FinishStep
  <2>12. CASE Dispatch
    BY <2>12, DispatchStep
  <2>13. CASE ExecutorWorks
    BY <2>13, ExecutorWorksStep
  <2>14. CASE ContainerExits
    BY <2>14, ContainerExitsStep
  <2>15. CASE UserEdits
    BY <2>15, UserEditsStep
  <2>16. CASE Crash
    BY <2>16, CrashStep
  <2>17. CASE UNCHANGED vars
    <3>1. /\ adapter' = adapter /\ pc' = pc /\ primary' = primary /\ opened' = opened
          /\ copy' = copy /\ box' = box /\ index' = index /\ head' = head /\ token' = token
          /\ state' = state /\ rows' = rows /\ todo' = todo /\ memory' = memory /\ disk' = disk
          /\ docker' = docker /\ created' = created /\ clean' = clean /\ edited' = edited
          /\ late' = late /\ reviewed' = reviewed /\ torn' = torn /\ edits' = edits
      BY <2>17 DEF vars, trees, result, record, container, ghosts
    <3>2. TypeOK' /\ Phases' /\ DockerFits'
      BY <3>1 DEF IInv, TypeOK, Phases, DockerFits
    <3>3. AttributionExact' /\ EditsAreCopied' /\ PromotionIsCleared' /\ ExpansionIsNoted'
      BY <3>1
         DEF IInv, AttributionExact, IndexLeftAlone, EditsAreCopied, SettledEditsSurvive,
             PromotionIsCleared, UnsafeNeverPromoted, ExpansionIsNoted
    <3>4. PrimaryIsKept'
      BY <3>1 DEF IInv, PrimaryIsKept, WindowIsAllOrNothing, Elsewhere, Preserved, OpenBodies
    <3> QED BY <3>2, <3>3, <3>4 DEF IInv
  <2> QED BY <2>1, <2>2, <2>3, <2>4, <2>5, <2>6, <2>7, <2>8, <2>9, <2>10, <2>11, <2>12, <2>13,
             <2>14, <2>15, <2>16, <2>17 DEF Next, RunnerStep
<1> QED BY <1>1, <1>2, PTL DEF Spec

(* Theorem: what somebody changed out of scope between two windows         *)
(* survives every window (_promote_reviewable_paths).                      *)
THEOREM EditsSurvive == Spec => []SettledEditsSurvive
<1>1. IInv => SettledEditsSurvive
  BY DEF IInv, EditsAreCopied
<1> QED BY <1>1, Inductive, PTL

(* Theorem: a window without a crash promotes everything or nothing        *)
(* (dispatch_executor).                                                    *)
THEOREM AllOrNothing == Spec => []WindowIsAllOrNothing
<1>1. IInv => WindowIsAllOrNothing
  BY DEF IInv, PrimaryIsKept
<1> QED BY <1>1, Inductive, PTL

(* Theorem: with an index left alone the attribution is exact, and what    *)
(* was promoted out of scope is in a saved record (GitWorktreeInspector,   *)
(* _record_scope_amendment).                                               *)
THEOREM Attribution == Spec => []AttributionIsExact
<1>1. IInv => AttributionIsExact
  BY DEF IInv, ExpansionIsNoted, ExpansionIsReported, AttributionIsExact
<1> QED BY <1>1, Inductive, PTL

(* Theorem: a launch whose commands did what they reported leaves nothing  *)
(* in Docker, whichever of its steps failed (_launch_contained).           *)
THEOREM DockerIsClean == Spec => []NothingLeftInDocker
<1>1. IInv => NothingLeftInDocker
  BY DEF IInv, DockerFits, NothingLeftInDocker, WithNetwork, WithProxy
<1> QED BY <1>1, Inductive, PTL
-----------------------------------------------------------------------------
(* A request as the runner composes it: no required inputs merged yet.     *)
Unmerged(role, recipient, scope, grant, flags, tools, approved, digest, bound) ==
    [role |-> role, recipient |-> recipient, scope |-> scope, grant |-> grant,
     readOnly |-> flags.readOnly, noTools |-> flags.noTools, resume |-> flags.resume,
     fresh |-> flags.fresh, tools |-> tools, approved |-> approved, inputs |-> {},
     digest |-> digest, bound |-> bound]

IsUnmerged(r) ==
    \E role, recipient, scope, grant, flags, tools, approved, digest, bound :
        r = Unmerged(role, recipient, scope, grant, flags, tools, approved, digest, bound)

(* Every request the runner composes, altered or not, is one.              *)
LEMMA ComposedIsUnmerged ==
    ASSUME NEW r \in Composed PROVE IsUnmerged(r)
<1>1. ASSUME NEW role, NEW scope, NEW grant
      PROVE  IsUnmerged(ExecutorRequest(role, scope, grant, {}, {}))
  <2> DEFINE flags == [readOnly |-> FALSE, noTools |-> FALSE, resume |-> FALSE, fresh |-> TRUE]
  <2>1. ExecutorRequest(role, scope, grant, {}, {}) =
            Unmerged(role, "executor", scope, grant, flags, GrantToolNames(grant),
                     ApprovedTools(CheckAllowances({}, grant, "root")), NoDigest,
                     Composition("executor", role, scope, grant))
    BY DEF ExecutorRequest, Unmerged
  <2> HIDE DEF flags
  <2> QED BY <2>1 DEF IsUnmerged
<1>2. ASSUME NEW c, IsUnmerged(c), NEW recipient, NEW readOnly, NEW noTools, NEW bound, NEW q,
             q = [c EXCEPT !.recipient = recipient, !.readOnly = readOnly,
                           !.noTools = noTools, !.bound = bound]
      PROVE  IsUnmerged(q)
  <2>1. PICK role, to, scope, grant, flags, tools, approved, digest, by :
            c = Unmerged(role, to, scope, grant, flags, tools, approved, digest, by)
    BY <1>2 DEF IsUnmerged
  <2> DEFINE now == [readOnly |-> readOnly, noTools |-> noTools,
                     resume |-> flags.resume, fresh |-> flags.fresh]
  <2>2. q = Unmerged(role, recipient, scope, grant, now, tools, approved, digest, bound)
    BY <1>2, <2>1 DEF Unmerged
  <2> HIDE DEF now
  <2> QED BY <2>2 DEF IsUnmerged
<1>3. ASSUME NEW c, IsUnmerged(c), NEW grant, NEW noTools, NEW resume, NEW fresh, NEW tools,
             NEW q, q = [c EXCEPT !.grant = grant, !.noTools = noTools, !.resume = resume,
                                  !.fresh = fresh, !.tools = tools]
      PROVE  IsUnmerged(q)
  <2>1. PICK role, recipient, scope, old, flags, listed, approved, digest, bound :
            c = Unmerged(role, recipient, scope, old, flags, listed, approved, digest, bound)
    BY <1>3 DEF IsUnmerged
  <2> DEFINE now == [readOnly |-> flags.readOnly, noTools |-> noTools,
                     resume |-> resume, fresh |-> fresh]
  <2>2. q = Unmerged(role, recipient, scope, grant, now, tools, approved, digest, bound)
    BY <1>3, <2>1 DEF Unmerged
  <2> HIDE DEF now
  <2> QED BY <2>2 DEF IsUnmerged
<1>4. ASSUME NEW role PROVE IsUnmerged(VerifierRequest(role, InScope))
  BY <1>1, <1>2 DEF VerifierRequest
<1>5. ASSUME NEW role PROVE IsUnmerged(VerdictRequest(role, InScope))
  BY <1>3, <1>4 DEF VerdictRequest
<1> QED BY <1>1, <1>4, <1>5 DEF Composed

(* What is altered of it leaves the inputs empty and the binding alone.    *)
LEMMA AlteredIsUnmerged ==
    ASSUME NEW r \in Altered PROVE IsUnmerged(r) /\ r.scope \subseteq Paths
<1>1. PICK c \in Composed : r \in AlterationsOf(c)
  BY DEF Altered
<1>2. PICK grant, readOnly, scope, tools, digest :
          /\ r = Alteration(c, grant, readOnly, scope, tools, digest)
          /\ scope \in {{}, InScope, Paths}
  BY <1>1 DEF AlterationsOf
<1>3. PICK role, recipient, scope0, grant0, flags, tools0, approved, digest0, bound :
          c = Unmerged(role, recipient, scope0, grant0, flags, tools0, approved, digest0, bound)
  BY ComposedIsUnmerged DEF IsUnmerged
<1> DEFINE now == [readOnly |-> readOnly, noTools |-> flags.noTools,
                   resume |-> flags.resume, fresh |-> flags.fresh]
<1>4. r = Unmerged(role, recipient, scope, grant, now, tools, approved, digest, bound)
  BY <1>2, <1>3 DEF Unmerged, Alteration
<1> HIDE DEF now
<1>5. r.scope \subseteq Paths
  <2>1. r.scope = scope
    BY <1>4 DEF Unmerged
  <2> QED BY <1>2, <2>1, PathsAssumption
<1> QED BY <1>4, <1>5 DEF IsUnmerged

(* Merging required inputs changes nothing but the inputs.                 *)
LEMMA MergedInputs ==
    ASSUME NEW r, IsUnmerged(r), NEW inputs
    PROVE  LET m == WithRequiredInputs(r, inputs)
           IN  /\ m.role = r.role /\ m.scope = r.scope /\ m.grant = r.grant
               /\ m.readOnly = r.readOnly /\ m.noTools = r.noTools /\ m.tools = r.tools
               /\ m.bound = r.bound /\ m.inputs \subseteq inputs
<1>1. PICK role, recipient, scope, grant, flags, tools, approved, digest, bound :
          r = Unmerged(role, recipient, scope, grant, flags, tools, approved, digest, bound)
  BY DEF IsUnmerged
<1>2. CASE r.resume
  BY <1>1, <1>2 DEF WithRequiredInputs, Unmerged
<1>3. CASE ~r.resume
  BY <1>1, <1>3 DEF WithRequiredInputs, Unmerged
<1> QED BY <1>2, <1>3

(* A request with a writing tool that passes the identity checks was       *)
(* composed with the write grant, and its scope is the composed one's.     *)
LEMMA IdentityBounds ==
    ASSUME NEW r, IdentityHolds(r)
    PROVE  /\ r.tools \cap WritingTools # {} => "write" \in r.bound.grant
           /\ r.scope \subseteq r.bound.scope
           /\ IsVerifierRole(r.role) => IsReadOnly(r)
<1>1. /\ r.tools \subseteq GrantToolNames(EffectiveGrant(r))
      /\ EffectiveGrant(r) \subseteq r.bound.grant
      /\ r.scope \subseteq r.bound.scope
  BY DEF IdentityHolds
<1>2. ASSUME NEW grant, GrantToolNames(grant) \cap WritingTools # {}
      PROVE  "write" \in grant
  BY <1>2 DEF GrantToolNames, WritingTools, ReadTools
<1> QED BY <1>1, <1>2 DEF IsReadOnly

(* The directories beyond the inputs are in scope, and for writers only.   *)
LEMMA WriteDirsInScope ==
    ASSUME NEW m, NEW host
    PROVE  /\ WriteDirs(m, host) \subseteq FoldersOf(m.scope, host) \cup FoldersOf(host.declared, host)
           /\ ~Writes(m) => WriteDirs(m, host) = {} /\ CodexRoots(m, host) = {}
           /\ CodexRoots(m, host) \subseteq {"working root", "workspace"}
           /\ "workspace" \in CodexRoots(m, host) => host.root = "disposable"
<1>1. /\ ScopedAddDirs(m, host) \subseteq FoldersOf(m.scope, host)
      /\ TaskScopeDirs(host) \subseteq FoldersOf(host.declared, host)
  BY DEF ScopedAddDirs, TaskScopeDirs, FoldersOf
<1>2. ~Writes(m) => ScopedAddDirs(m, host) = {}
  BY DEF ScopedAddDirs
<1>3. /\ CodexRoots(m, host) \subseteq {"working root", "workspace"}
      /\ ~Writes(m) => CodexRoots(m, host) = {}
      /\ "workspace" \in CodexRoots(m, host) => host.root = "disposable"
  BY DEF CodexRoots
<1> QED BY <1>1, <1>2, <1>3 DEF WriteDirs

(* What each adapter lets the child do stays inside the composition.  The  *)
(* folders of the project are told from the two names the child's own root *)
(* goes by.                                                                *)
LEMMA ArgvIsBounded ==
    ASSUME NEW r \in Altered, NEW inputs, NEW host \in Hosts, adapter \in Adapters,
           inputs \subseteq {Folder[p] : p \in Paths},
           Admitted(adapter, r, Proof(TRUE), inputs)
    PROVE  ArgvInComposition(r, inputs, host)
<1>1. PICK m : m = WithRequiredInputs(r, inputs)
  OBVIOUS
<1>2. /\ m.role = r.role /\ m.scope = r.scope /\ m.grant = r.grant
      /\ m.readOnly = r.readOnly /\ m.noTools = r.noTools /\ m.tools = r.tools
      /\ m.bound = r.bound /\ m.inputs \subseteq inputs
  BY <1>1, AlteredIsUnmerged, MergedInputs
<1>3. /\ r.tools \cap WritingTools # {} => "write" \in r.bound.grant
      /\ r.scope \subseteq r.bound.scope
      /\ IsVerifierRole(r.role) => IsReadOnly(r)
      /\ EffectiveGrant(r) \subseteq r.bound.grant
  BY IdentityBounds DEF Admitted, IdentityHolds
<1>4. /\ IsReadOnly(m) <=> IsReadOnly(r)
      /\ Writes(m) => "write" \in r.bound.grant /\ ~IsReadOnly(r)
  BY <1>2, <1>3 DEF IsReadOnly, Writes, EffectiveGrant
<1>5. /\ FoldersOf(m.scope, host) \subseteq FoldersOf(r.bound.scope, host)
      /\ FoldersOf(r.bound.scope, host) \subseteq Reach(r, host, inputs)
      /\ FoldersOf(host.declared, host) \subseteq Reach(r, host, inputs)
      /\ inputs \subseteq Reach(r, host, inputs)
      /\ {"working root", "workspace"} \subseteq Reach(r, host, inputs)
  BY <1>2, <1>3 DEF FoldersOf, Reach, OwnRoots
<1>6. /\ WriteDirs(m, host) \subseteq Reach(r, host, inputs)
      /\ CodexRoots(m, host) \subseteq Reach(r, host, inputs)
      /\ m.inputs \subseteq Reach(r, host, inputs)
      /\ ~Writes(m) => WriteDirs(m, host) = {} /\ CodexRoots(m, host) = {}
      /\ "workspace" \in CodexRoots(m, host) => host.root = "disposable"
  BY <1>2, <1>5, WriteDirsInScope
<1>7. "workspace" \notin WriteDirs(m, host) \cup m.inputs
  <2>1. /\ host.folder = Folder /\ host.declared \subseteq Paths
    BY DEF Hosts
  <2>2. m.scope \subseteq Paths /\ "workspace" \notin {Folder[p] : p \in Paths}
    BY <1>2, AlteredIsUnmerged, FolderAssumption DEF OwnRoots
  <2>3. /\ FoldersOf(m.scope, host) \subseteq {Folder[p] : p \in Paths}
        /\ FoldersOf(host.declared, host) \subseteq {Folder[p] : p \in Paths}
    BY <2>1, <2>2 DEF FoldersOf
  <2> QED BY <1>2, <2>2, <2>3, WriteDirsInScope
<1>8. CASE adapter = "claude"
  <2>1. ArgvOf(adapter, r, inputs, host) = ClaudeArgv(m, host)
    BY <1>1, <1>8 DEF ArgvOf
  <2>2. /\ ClaudeArgv(m, host).tools \subseteq r.tools
        /\ IsReadOnly(m) => ClaudeArgv(m, host).tools \cap WritingTools = {}
        /\ ClaudeArgv(m, host).sandbox = IF IsReadOnly(m) THEN "manual" ELSE "acceptEdits"
        /\ ClaudeArgv(m, host).dirs = WriteDirs(m, host) \cup m.inputs
    BY <1>2 DEF ClaudeArgv
  <2> QED BY <1>2, <1>3, <1>4, <1>6, <1>7, <2>1, <2>2 DEF ArgvInComposition
<1>9. CASE adapter = "codex"
  <2>1. ArgvOf(adapter, r, inputs, host) = CodexArgv(m, host)
    BY <1>1, <1>9 DEF ArgvOf
  <2>2. /\ CodexArgv(m, host).tools \cap WritingTools = {}
        /\ CodexArgv(m, host).sandbox = CodexSandbox(m, host)
        /\ CodexArgv(m, host).dirs =
              CodexRoots(m, host) \cup WriteDirs(m, host) \cup m.inputs
    BY DEF CodexArgv, ReadTools, WritingTools
  <2>3. /\ IsReadOnly(m) => CodexSandbox(m, host) = "read-only"
        /\ CodexSandbox(m, host) = "danger-full-access" => ~IsReadOnly(m) /\ host.root = "disposable"
    BY DEF CodexSandbox
  <2> QED BY <1>2, <1>3, <1>4, <1>6, <1>7, <2>1, <2>2, <2>3 DEF ArgvInComposition
<1>10. CASE adapter = "docker"
  <2>1. ArgvOf(adapter, r, inputs, host) = DockerArgv(r)
    BY <1>10 DEF ArgvOf
  <2>2. /\ DockerArgv(r).tools \cap WritingTools = {}
        /\ DockerArgv(r).dirs = {}
    BY DEF DockerArgv, ReadTools, WritingTools
  <2>3. ~IsReadOnly(r)
    BY <1>10 DEF Admitted, DockerRefuses
  <2> QED BY <1>3, <1>10, <2>1, <2>2, <2>3 DEF ArgvInComposition
<1> QED BY <1>8, <1>9, <1>10 DEF Adapters

(* Theorem: an executor stays inside what was granted, and none of its     *)
(* content reaches an unsafe path outside the scope (_assert_bundle_       *)
(* identity, the adapters' argv builders, _scope_or_provenance_block).     *)
THEOREM InBounds == Spec => []StaysInBounds
<1>1. IInv => UnsafeNeverPromoted
  BY DEF IInv, PromotionIsCleared
<1>2. IInv => LaunchStaysInComposition
  BY ArgvIsBounded DEF IInv, TypeOK, LaunchStaysInComposition
<1>3. IInv => StaysInBounds
  BY <1>1, <1>2 DEF StaysInBounds
<1> QED BY <1>3, Inductive, PTL
=============================================================================
