---------------------------- MODULE LaunchPolicy ----------------------------
(***************************************************************************)
(* What one launch request is allowed to become: the capability grant in   *)
(* force, the tools it names, the identity checks, the argv of each        *)
(* adapter, and the two ways a finished launch states its result           *)
(* (pipeline_core/adapters.py, pipeline_core/dispatch.py,                  *)
(* pipeline_core/verification.py, feature_pipeline/reports/settlement.py). *)
(* Strings are abstracted to what the checks tell apart; a refusal is an   *)
(* AdapterError, whatever its code.                                        *)
(***************************************************************************)
EXTENDS Integers, Sequences, FiniteSets

Adapters == {"claude", "codex", "docker"}
Capabilities == {"read", "run_checks", "write"}
VerifierRoles == {"task_verifier", "test_verifier"}
ReadTools == {"Read", "Glob", "Grep"}
WritingTools == {"Edit", "Write", "NotebookEdit", "MultiEdit"}
NoDigest == <<>>

(***************************************************************************)
(* A request carries its grants and tools, and the composition it was      *)
(* bound to: the scope, grant and recipient the runner resolved, with the  *)
(* digest of the request as it was when it was sealed.                     *)
(***************************************************************************)
IsVerifierRole(role) == role \in VerifierRoles
IsReadOnly(request) == request.readOnly \/ IsVerifierRole(request.role)

\* A verifier that is not marked read-only has no grant at all.
GrantRefused(request) == IsVerifierRole(request.role) /\ ~request.readOnly
EffectiveGrant(request) ==
    IF IsReadOnly(request) THEN request.grant \ {"write"} ELSE request.grant

GrantToolNames(grant) ==
    UNION { IF "read" \in grant THEN ReadTools ELSE {},
            IF "run_checks" \in grant THEN {"Bash"} ELSE {},
            IF "write" \in grant THEN WritingTools ELSE {} }

\* The declared checks an executor may run without asking.
CheckAllowances(commands, grant, root) ==
    {c \in commands : "run_checks" \in grant /\ c.root = root /\ c.argv = "plain"}
ApprovedTools(commands) == IF commands = {} THEN {} ELSE {"Bash"}

\* Only these requests reach a directory beyond their inputs.
Writes(request) == ~IsReadOnly(request) /\ "write" \in EffectiveGrant(request)

(***************************************************************************)
(* Where a launch happens: the folder of each path, whether a path lies    *)
(* under the task's working root, elsewhere in the project or below an     *)
(* external scope root, the scope the plan declared when the adapters were *)
(* built, the working root the child gets (a folder of the disposable      *)
(* workspace, any other one, or none), and whether the host is Windows.    *)
(***************************************************************************)
Places == {"working root", "project", "external"}
Roots == {"none", "other", "disposable"}
TopFolder == "."
FoldersOf(paths, host) == {host.folder[p] : p \in paths}

\* The folder of a path, even when the scope names the one file in it.
ScopedAddDirs(request, host) ==
    IF Writes(request)
    THEN FoldersOf({p \in request.scope : host.place[p] = "external"}, host) ELSE {}

TaskScopeDirs(host) ==
    FoldersOf({p \in host.declared : host.place[p] = "project"}, host) \ {TopFolder}

\* Mutant: a launch without the write grant reaches them, too.
WriteDirsForAll(request, host) == ScopedAddDirs(request, host) \cup TaskScopeDirs(host)
WriteDirs(request, host) ==
    ScopedAddDirs(request, host) \cup IF Writes(request) THEN TaskScopeDirs(host) ELSE {}

\* Codex needs the root it is sent to, and the disposable workspace around that.
CodexRoots(request, host) ==
    IF ~Writes(request) \/ host.root = "none" THEN {}
    ELSE {"working root"} \cup IF host.root = "disposable" THEN {"workspace"} ELSE {}

CodexSandbox(request, host) ==
    IF IsReadOnly(request) THEN "read-only"
    ELSE IF host.windows /\ host.root = "disposable" THEN "danger-full-access"
    ELSE "workspace-write"

\* Everything the seal covers; the composition's own digest is not part of it.
SecurityDigest(request) ==
    <<request.role, request.recipient, request.scope, request.grant, request.readOnly,
      request.noTools, request.tools, request.approved, request.inputs, request.fresh,
      request.resume, request.bound>>

CompatibleRecipient(request) ==
    IF request.recipient = "executor"
    THEN ~IsVerifierRole(request.role) /\ request.role = request.bound.executor
    ELSE request.recipient = request.role

\* _assert_bundle_identity: the request is the one that was composed.
IdentityHolds(request) ==
    /\ request.digest \in {NoDigest, SecurityDigest(request)}
    /\ request.recipient = request.bound.recipient
    /\ request.scope \subseteq request.bound.scope
    /\ ~GrantRefused(request)
    /\ EffectiveGrant(request) \subseteq request.bound.grant
    /\ request.tools \cup request.approved \subseteq GrantToolNames(EffectiveGrant(request))
    /\ CompatibleRecipient(request)

Sealed(request) == [request EXCEPT !.digest = SecurityDigest(request)]

\* A capability set proves what it declares only for the runtime and surface it names.
StrictIsolation(proof, adapter) ==
    proof.complete /\ proof.runtime = adapter /\ proof.surface = adapter

\* Mandatory read inputs are merged into a launch that opens a session.
WithRequiredInputs(request, inputs) ==
    IF request.resume THEN request ELSE [request EXCEPT !.inputs = @ \cup inputs]
-----------------------------------------------------------------------------
(***************************************************************************)
(* The argv each adapter builds, as what it lets the child do.             *)
(***************************************************************************)
ClaudeRefuses(request) ==
    \/ request.resume /\ request.fresh
    \/ IsReadOnly(request) /\ request.tools \cap WritingTools # {}
    \/ "push" \in request.approved
    \/ GrantRefused(request)

ClaudeArgv(request, host) ==
    [tools |-> IF request.noTools THEN {}
               ELSE request.tools \ (IF IsReadOnly(request) THEN WritingTools ELSE {}),
     denied |-> IF request.noTools THEN {}
                ELSE {"push"} \cup (IF IsReadOnly(request) THEN WritingTools ELSE {}),
     sandbox |-> IF IsReadOnly(request) THEN "manual" ELSE "acceptEdits",
     dirs |-> WriteDirs(request, host) \cup request.inputs,
     resume |-> request.resume]

CodexRefuses(request) == GrantRefused(request) \/ request.noTools

CodexArgv(request, host) ==
    [tools |-> ReadTools \cup {"Bash"}, denied |-> {},
     sandbox |-> CodexSandbox(request, host),
     dirs |-> CodexRoots(request, host) \cup WriteDirs(request, host) \cup request.inputs,
     resume |-> FALSE]

\* The container mounts a writable tree: it takes no read-only and no tool-free request.
DockerRefuses(request) ==
    \/ IsReadOnly(request)
    \/ request.noTools
    \/ "write" \notin EffectiveGrant(request)

DockerArgv(request) ==
    [tools |-> ReadTools \cup {"Bash"}, denied |-> {}, sandbox |-> "danger-full-access",
     dirs |-> {}, resume |-> FALSE]

(***************************************************************************)
(* launch, up to the start of the child: the checks in the order the       *)
(* adapters make them.  The container adapter merges no inputs.            *)
(***************************************************************************)
Admitted(adapter, request, proof, inputs) ==
    LET merged == IF adapter = "docker" THEN request
                  ELSE WithRequiredInputs(request, inputs) IN
    /\ IdentityHolds(request)
    /\ StrictIsolation(proof, adapter)
    /\ IdentityHolds(merged)
    /\ adapter = "claude" => ~ClaudeRefuses(merged)
    /\ adapter = "codex" => ~CodexRefuses(merged)
    /\ adapter = "docker" => ~DockerRefuses(merged)

ArgvOf(adapter, request, inputs, host) ==
    CASE adapter = "claude" -> ClaudeArgv(WithRequiredInputs(request, inputs), host)
      [] adapter = "codex" -> CodexArgv(WithRequiredInputs(request, inputs), host)
      [] adapter = "docker" -> DockerArgv(request)
-----------------------------------------------------------------------------
(***************************************************************************)
(* The requests the runner composes: the executor window, its status       *)
(* envelope, a verifier and its verdict envelope.                          *)
(***************************************************************************)
Composition(recipient, executor, scope, grant) ==
    [recipient |-> recipient, executor |-> executor, scope |-> scope, grant |-> grant]

ExecutorRequest(executor, scope, grant, commands, inputs) ==
    [role |-> executor, recipient |-> "executor", scope |-> scope, grant |-> grant,
     readOnly |-> FALSE, noTools |-> FALSE, resume |-> FALSE, fresh |-> TRUE,
     tools |-> GrantToolNames(grant),
     approved |-> ApprovedTools(CheckAllowances(commands, grant, "root")),
     inputs |-> inputs, digest |-> NoDigest,
     bound |-> Composition("executor", executor, scope, grant)]

EnvelopeRequest(executor, scope, grant) ==
    [ExecutorRequest(executor, scope, grant, {}, {}) EXCEPT
        !.readOnly = TRUE, !.noTools = TRUE, !.resume = TRUE, !.fresh = FALSE, !.tools = {}]

\* The task verifier may read; the test verifier has no tools at all.
VerifierGrant(role) == IF role = "test_verifier" THEN {} ELSE {"read"}

VerifierRequest(role, scope) ==
    [ExecutorRequest(role, scope, VerifierGrant(role), {}, {}) EXCEPT
        !.recipient = role, !.readOnly = TRUE, !.noTools = (role = "test_verifier"),
        !.bound = Composition(role, "none", scope, VerifierGrant(role))]

VerdictRequest(role, scope) ==
    [VerifierRequest(role, scope) EXCEPT
        !.grant = {}, !.noTools = TRUE, !.resume = TRUE, !.fresh = FALSE, !.tools = {}]
-----------------------------------------------------------------------------
(***************************************************************************)
(* Results.  A Codex stream is the sequence of its agent messages, each    *)
(* a terminal payload (for this launch or for another one) or an aside,    *)
(* and whether turn.completed followed the last of them.                   *)
(***************************************************************************)
TerminalAt(messages) == {i \in DOMAIN messages : messages[i].kind # "aside"}

FinalResult(messages, completed) ==
    LET terminal == TerminalAt(messages) IN
    IF /\ terminal = {Len(messages)}
       /\ completed
       /\ messages[Len(messages)].mine
    THEN messages[Len(messages)].kind ELSE "invalid"

(***************************************************************************)
(* The prose line and the JSON envelope of a resumed session.  An envelope *)
(* that names a reason beside another token than "blocked", or misses a    *)
(* required one, is invalid whatever the prose says.                       *)
(***************************************************************************)
Envelopes == [token : {"implemented", "blocked", "other"}, mine : BOOLEAN,
              reason : {"none", "empty", "given"}]

EnvelopeValid(envelope, requireReason) ==
    /\ envelope.token # "other"
    /\ envelope.mine
    /\ envelope.token # "blocked" => envelope.reason = "none"
    /\ envelope.token = "blocked" =>
          envelope.reason \in {"given"} \cup IF requireReason THEN {} ELSE {"none"}

Settle(prose, envelope, requireReason) ==
    IF /\ EnvelopeValid(envelope, requireReason)
       /\ prose \in {"none", envelope.token}
    THEN envelope.token ELSE "invalid"
=============================================================================
