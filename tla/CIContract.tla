----------------------------- MODULE CIContract -----------------------------
(***************************************************************************)
(* What the CI tooling computes without running anything: the gate         *)
(* manifest and its validation (contract.py), the check identities and the *)
(* commands they stand for (promotion.py, required_checks.py), the gate    *)
(* driver (runner.py) and the drift rules over workflows (workflows.py).   *)
(*                                                                         *)
(* A path, a working directory or a token is the kind its validator tells  *)
(* apart; a check name is a pair.                                          *)
(***************************************************************************)
EXTENDS Integers, Sequences, FiniteSets

CONSTANTS
    Texts,     \* what a gate command says
    Files,     \* plain repository-relative paths
    None

SchemaVersion == 1

GateIds == {"lint", "types", "coverage", "platform", "fault-injection",
            "performance", "installed-package", "documentation"}

WorkflowGroups == {"core", "consumer"}

SupportedOS == {"ubuntu-latest", "windows-latest", "macos-latest"}

PythonVersions == {"3.11", "3.12", "3.13"}

Elements(s) == {s[i] : i \in DOMAIN s}

Distinct(s) == Cardinality(Elements(s)) = Len(s)
-----------------------------------------------------------------------------
(* The manifest: [version, extra, entries], an entry [id, group, extra,    *)
(* commands, paths, os, python], a command [text, tokens].                 *)

(* An argv with no token, an empty one, or one a shell would interpret.    *)
CommandValid(c) == c.tokens # {} /\ c.tokens \cap {"empty", "shell"} = {}

CommandsValid(cs) == cs # << >> /\ \A c \in Elements(cs) : CommandValid(c)

(* Absolute, home, backslash, drive and dotted paths.                      *)
UnsafePath(p) == p \notin Files

OsValid(images) == Elements(images) \subseteq SupportedOS /\ Distinct(images)

PythonValid(versions) ==
    Elements(versions) \subseteq PythonVersions /\ Distinct(versions)

GateValid(e) ==
    /\ ~e.extra
    /\ e.id \in GateIds
    /\ e.group \in WorkflowGroups
    /\ CommandsValid(e.commands)
    /\ ~\E p \in e.paths : UnsafePath(p)
    /\ OsValid(e.os)
    /\ PythonValid(e.python)

ManifestValid(m) ==
    /\ m.version = SchemaVersion
    /\ ~m.extra
    /\ \A e \in Elements(m.entries) : GateValid(e)
    /\ Cardinality({e.id : e \in Elements(m.entries)}) = Len(m.entries)
    /\ {e.id : e \in Elements(m.entries)} = GateIds

Gate(m, id) == CHOOSE e \in Elements(m.entries) : e.id = id

Group(m, name) == {e \in Elements(m.entries) : e.group = name}
-----------------------------------------------------------------------------
(* Check identities                                                        *)

LintTypes == <<"ruff + mypy (incl. complexity)", "">>
Coverage == <<"coverage (branch, ratcheted floor)", "">>
PromotionCheck == <<"same-SHA core promotion", "">>

IdentitiesOf(e) ==
    CASE e.id \in {"lint", "types"} -> {LintTypes}
      [] e.id = "coverage"          -> {Coverage}
      [] OTHER                      -> {<<e.id, image>> : image \in Elements(e.os)}

RequiredCoreChecks(m) == UNION {IdentitiesOf(e) : e \in Group(m, "core")}

ConsumerChecks(m) ==
    LET e == Gate(m, "installed-package") IN Elements(e.os) \X Elements(e.python)

RequiredCheckContract(m) ==
    [producer |-> RequiredCoreChecks(m), consumer |-> ConsumerChecks(m),
     promotion |-> PromotionCheck]

(* The gates a run of a check stands for: a name with a separator that is  *)
(* no gate's is a cell of the consumer matrix.                             *)
GatesOf(identity) ==
    CASE identity = LintTypes      -> <<"lint", "types">>
      [] identity = Coverage       -> <<"coverage">>
      [] identity = PromotionCheck -> << >>
      [] identity[1] \in GateIds   -> <<identity[1]>>
      [] OTHER                     -> <<"installed-package">>

CommandsOf(m, gates) ==
    UNION {{c.text : c \in Elements(Gate(m, g).commands)} : g \in Elements(gates)}

ExpectedCommands(m, identity) == CommandsOf(m, GatesOf(identity))

(* The branch ruleset of one repository: the identities it requires and    *)
(* the app that must have reported them.                                   *)
DesiredRuleset(m, target) ==
    LET rcc == RequiredCheckContract(m) IN
      [name |-> target.name, branch |-> target.branch,
       enforcement |-> target.enforcement,
       checks |-> (IF target.role = "producer" THEN rcc.producer
                   ELSE rcc.consumer \cup {rcc.promotion}) \X {target.app}]
-----------------------------------------------------------------------------
(* The gate driver: what "run GATE" exits with, and the commands it ran to *)
(* success.  A command that says fails does not succeed.                   *)
Refused == [exit |-> 2, ran |-> {}]

Driven(commands, fails) ==
    LET before == {i \in DOMAIN commands : \A k \in 1 .. i : commands[k].text # fails} IN
      [exit |-> IF before = DOMAIN commands THEN 0 ELSE 1,
       ran  |-> {commands[i].text : i \in before}]

(* Mutant: --expected-source-sha is not compared.                          *)
RunGateUnpinned(m, valid, id, expected, found, missing, fails) ==
    IF Gate(m, id).paths \cap missing # {} THEN Refused
    ELSE Driven(Gate(m, id).commands, fails)

RunGate(m, valid, id, expected, found, missing, fails) ==
    IF \/ ~valid \/ id \notin GateIds
       \/ expected \notin {None, found}
       \/ Gate(m, id).paths \cap missing # {}
    THEN Refused
    ELSE Driven(Gate(m, id).commands, fails)
-----------------------------------------------------------------------------
(* Workflows: [parses, jobs], a job [workdir, suites, steps], a step       *)
(* [workdir, run, gate, pinned] whose run is "none", "driver", "direct" (a *)
(* gate's own command) or "other".                                         *)

UnsafeDirectories == {"absolute", "home", "backslash", "traversal", "repository"}

LayoutProblem(root, workdir) == workdir \notin root

JobViolations(root, job) ==
    (IF job.workdir \in UnsafeDirectories THEN {"unsafe-working-directory"} ELSE {})
    \cup (IF LayoutProblem(root, job.workdir) THEN {"checkout-path-drift"} ELSE {})

StepViolations(step) ==
    (IF step.workdir \in UnsafeDirectories THEN {"unsafe-working-directory"} ELSE {})
    \cup CASE step.run = "driver" /\ step.gate \notin GateIds -> {"unknown-gate"}
           [] step.run = "driver" /\ ~step.pinned -> {"missing-expected-sha"}
           [] step.run = "direct" -> {"bypasses-driver"}
           [] OTHER -> {}

CoreMatrix(m) == {e.id : e \in {g \in Group(m, "core") : Len(g.os) > 1}}

MatrixDrift(m, suites, documented) ==
    (IF suites # CoreMatrix(m) THEN {"matrix-drift"} ELSE {})
    \cup (IF CoreMatrix(m) \subseteq documented THEN {} ELSE {"documentation-drift"})

WorkflowViolations(m, w, root, documented) ==
    LET suites == UNION {j.suites : j \in w.jobs} IN
      IF ~w.parses THEN {"unparseable-yaml"}
      ELSE UNION {JobViolations(root, j) : j \in w.jobs}
           \cup UNION {UNION {StepViolations(s) : s \in j.steps} : j \in w.jobs}
           \cup (IF suites = {} THEN {} ELSE MatrixDrift(m, suites, documented))

(* "ci.run validate", the step every matrix cell needs.                    *)
Validates(t) ==
    /\ ManifestValid(t.manifest)
    /\ \A w \in t.workflows :
          WorkflowViolations(t.manifest, w, t.root, t.documented) = {}
=============================================================================
