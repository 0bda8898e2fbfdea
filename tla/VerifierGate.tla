---------------------------- MODULE VerifierGate ----------------------------
(***************************************************************************)
(* One verification gate from inside (verification.py, reports.py): the    *)
(* runner's facts, the two verifiers one after the other, what is settled  *)
(* out of a report and an envelope, the facts that override both answers,  *)
(* the repair report - and the directory that keeps all of it, across      *)
(* repairs, amendments, waits and crashes.                                 *)
(*                                                                         *)
(* TaskLoop has the same loop seen from outside: there a gate answers, or  *)
(* it does not.  Commands, their records and the executor are as there and *)
(* left out here.                                                          *)
(***************************************************************************)
EXTENDS Naturals, Sequences

CONSTANTS Reports,         \* what a verifier may write
          RemoteRequired,  \* the criteria ask for a remote observation
          MaxRepairs,      \* the task's max_repair_attempts
          MaxRevs,         \* bound: amendments
          MaxWorks,        \* bound: executor windows
          MaxCalls         \* bound: invocations

ASSUME BoundAssumption ==
    /\ RemoteRequired \in BOOLEAN
    /\ MaxRepairs \in Nat /\ MaxRevs \in Nat /\ MaxWorks \in Nat /\ MaxCalls \in Nat

Roles == {"task", "test"}
Tokens == {"PASS", "FAIL", "BLOCKED"}
Garbage == "garbage"
Labels == {"plain", "emphasis", "translated"}

(* A report: its verdict lines, the finding on the amendment, the revision *)
(* it names, and (history) the window it judged.                           *)
ASSUME ReportAssumption ==
    Reports \subseteq [lines : Seq([label : Labels, token : Tokens]),
                      finding : BOOLEAN, names : Nat, of : Nat]

NoVerdict == [r \in Roles |-> "none"]

(* Where the invocation is between the calls it makes for a role.          *)
Asks == [task |-> "ask task", test |-> "ask test"]
Settles == [task |-> "settle task", test |-> "settle test"]

(* verifier_artifacts, repair_report_path: a directory and a report for    *)
(* every attempt of every revision.                                        *)
Gates == (1..(MaxRepairs + 1)) \X (0..MaxRevs)
Nothing == [report |-> << >>, envelope |-> << >>]

VARIABLES disk,    \* the task's record in run.json
          mem,     \* the invocation's copy of it
          art,     \* what the verifiers' directories hold, by gate and role
          filed,   \* verdict-<n>.json, by gate
          repair,  \* the repair report a gate left, as the two reports it quotes
          pc,      \* where the invocation is
          facts,   \* the evidence both verifiers are given
          answer,  \* their settled tokens
          works, calls

vars == <<disk, mem, art, filed, repair, pc, facts, answer, works, calls>>

(* Execution evidence: the executor window, what it did outside its task,  *)
(* and the remote observation <<what, of which window>>.                   *)
NoRemote == <<"none", 0>>
NoEvidence == [work |-> 0, mutated |-> FALSE, expanded |-> FALSE, remote |-> NoRemote]

Record == [status |-> "in_progress", attempts |-> 0, rev |-> 0, verdict |-> NoVerdict,
           evidence |-> NoEvidence, last |-> "none"]
NoFacts == [evidence |-> NoEvidence, rev |-> 0]

Init ==
    /\ disk = Record /\ mem = Record
    /\ art = [g \in Gates |-> [r \in Roles |-> Nothing]]
    /\ filed = [g \in Gates |-> NoVerdict]
    /\ repair = [g \in Gates |-> << >>]
    /\ pc = "idle" /\ facts = NoFacts /\ answer = NoVerdict
    /\ works = 0 /\ calls = 0

Gate == <<mem.attempts + 1, mem.rev>>
Save(r) == mem' = r /\ disk' = r
Local == <<facts, answer>>
Forget == facts' = NoFacts /\ answer' = NoVerdict
Files == <<art, filed, repair>>

---------------------------------------------------------------------------
(* What a report and an envelope are settled to                            *)

(* parse_verifier_verdict takes the first line with the field, emphasised  *)
(* or not; _explicit_report_verdicts all of them, in two languages, but    *)
(* none with the field emphasised.                                         *)
Prose(lines) ==
    LET found == SelectSeq(lines, LAMBDA l : l.label \in {"plain", "emphasis"})
    IN  IF found = << >> THEN "none" ELSE Head(found).token
Explicit(lines) ==
    {lines[i].token : i \in {j \in DOMAIN lines : lines[j].label \in {"plain", "translated"}}}

\* Mutant: the identity of the amendment need not be repeated.
AssessedIfMentioned(report, f) ==
    f.rev > 0 \/ f.evidence.expanded => report.finding

(* _amendment_assessment_failure: a PASS has the finding, and names the    *)
(* revision that governs.                                                  *)
Assessed(report, f) ==
    /\ f.rev > 0 \/ f.evidence.expanded => report.finding
    /\ f.rev > 0 => report.names = f.rev

(* settle_verifier_verdict and _run_one_verifier after it: the envelope    *)
(* stands unless the report contradicts it or does not support a PASS.     *)
Settlement(report, envelope, f) ==
    IF /\ envelope # Garbage
       /\ Prose(report.lines) \in {"none", envelope}
       /\ Explicit(report.lines) \subseteq {envelope}
       /\ envelope = "PASS" => Assessed(report, f)
    THEN envelope ELSE "invalid"

(* remote_evidence_failure, current_run_mutation_reason.  No caller claims *)
(* a check, so evidence_forces_fail has nothing to find.                   *)
Observed(evidence) == evidence.remote[1] = "right"
Forced(evidence) == evidence.mutated \/ (RemoteRequired /\ ~Observed(evidence))

---------------------------------------------------------------------------
(* TaskEngine up to the gate                                               *)

(* _enter: a gate that waits is continued.                                 *)
Enter ==
    /\ pc = "idle" /\ disk.status = "in_progress" /\ calls < MaxCalls
    /\ mem' = disk /\ calls' = calls + 1
    /\ pc' = IF disk.last = "blocked" /\ disk.evidence.work > 0 THEN "gate" ELSE "work"
    /\ UNCHANGED <<disk, Files, Local, works>>

\* Mutant: what was observed of the last window is kept.
WorkOnTop ==
    /\ pc = "work" /\ works < MaxWorks
    /\ \E m, x \in BOOLEAN : ~(m /\ x) /\
          Save([mem EXCEPT !.last = "executor",
                  !.evidence = [mem.evidence EXCEPT !.work = works + 1, !.mutated = m, !.expanded = x]])
    /\ pc' = "gate" /\ works' = works + 1
    /\ UNCHANGED <<Files, Local, calls>>

(* The executor window: record_executor_evidence starts a new record.      *)
Work ==
    /\ pc = "work" /\ works < MaxWorks
    /\ \E m, x \in BOOLEAN : ~(m /\ x) /\
          Save([mem EXCEPT !.last = "executor",
                  !.evidence = [NoEvidence EXCEPT !.work = works + 1, !.mutated = m, !.expanded = x]])
    /\ pc' = "gate" /\ works' = works + 1
    /\ UNCHANGED <<Files, Local, calls>>

NotImplemented ==
    /\ pc = "work"
    /\ Save([mem EXCEPT !.last = "execution"])
    /\ pc' = "idle"
    /\ UNCHANGED <<Files, Local, works, calls>>

(* VerificationService.verify up to the verifiers: a remote system is only *)
(* looked at while nothing is recorded of it.                              *)
Remotes ==
    IF RemoteRequired /\ mem.evidence.remote = NoRemote
    THEN {NoRemote} \cup ({"right", "wrong"} \X {mem.evidence.work})
    ELSE {mem.evidence.remote}

BuildEvidence ==
    /\ pc = "gate"
    /\ \E remote \in Remotes :
          LET e == [mem.evidence EXCEPT !.remote = remote]
          IN  /\ mem' = [mem EXCEPT !.evidence = e]
              /\ facts' = [evidence |-> e, rev |-> mem.rev]
    /\ answer' = NoVerdict
    /\ pc' = Asks["task"]
    /\ UNCHANGED <<disk, Files, works, calls>>

---------------------------------------------------------------------------
(* orchestrate_verification                                                *)

\* Mutant: the new answer replaces the old one, as in dispatch.py.
Overwritten(kept, new) == <<new>>

(* _settle_text: what the file says, or if there is none what was          *)
(* captured; no adapter writes the file.                                   *)
SettledText(kept, new) == IF kept # << >> THEN kept ELSE <<new>>

(* _diagnose and _block: no verdict, and the gate waits.                   *)
Unavailable ==
    /\ Save([mem EXCEPT !.last = "blocked"])
    /\ pc' = "waiting"

(* The launch: it fails with or without output, or yields a report.        *)
AskReport(role) ==
    /\ pc = Asks[role]
    /\ \/ Unavailable /\ UNCHANGED art
       \/ \E said \in Reports :
             /\ art' = [art EXCEPT ![Gate][role].report =
                           SettledText(@, [said EXCEPT !.of = facts.evidence.work])]
             /\ Unavailable \/ (pc' = Settles[role] /\ UNCHANGED <<disk, mem>>)
    /\ UNCHANGED <<filed, repair, Local, works, calls>>

(* The same session is asked for the envelope, and both are settled.       *)
AskEnvelope(role) ==
    /\ pc = Settles[role]
    /\ \/ Unavailable /\ UNCHANGED <<art, answer>>
       \/ \E said \in Tokens \cup {Garbage} :
             LET kept == art[Gate][role]
                 text == SettledText(kept.envelope, said)
                 token == Settlement(kept.report[1], text[1], facts)
             IN  /\ art' = [art EXCEPT ![Gate][role].envelope = text]
                 /\ \/ Unavailable /\ UNCHANGED answer
                    \/ /\ token # "invalid"
                       /\ answer' = [answer EXCEPT ![role] = token]
                       /\ pc' = IF role = "task" THEN Asks["test"] ELSE "verdict"
                       /\ UNCHANGED <<disk, mem>>
    /\ UNCHANGED <<filed, repair, facts, works, calls>>

(* record_verdicts in memory, and the verdict file; run.json follows.      *)
RecordVerdicts ==
    /\ pc = "verdict"
    /\ LET v == IF Forced(facts.evidence) THEN [r \in Roles |-> "FAIL"] ELSE answer
           said == {v[r] : r \in Roles}
       IN  /\ mem' = [mem EXCEPT !.verdict = v,
                         !.status = IF said = {"PASS"} THEN "done" ELSE @,
                         !.last = IF "BLOCKED" \in said THEN "blocked" ELSE "verdict"]
           /\ filed' = [filed EXCEPT ![Gate] = v]
    /\ pc' = "judged"
    /\ UNCHANGED <<disk, art, repair, Local, works, calls>>

SaveVerdicts ==
    /\ pc = "judged"
    /\ disk' = mem
    /\ pc' = CASE mem.status = "done" -> "idle"
               [] mem.status # "done" /\ mem.last = "blocked" -> "waiting"
               [] OTHER -> "failed"
    /\ Forget
    /\ UNCHANGED <<mem, Files, works, calls>>

(* The scheduler notes a failed execution after every wait.                *)
Waits ==
    /\ pc = "waiting"
    /\ Save([mem EXCEPT !.last = "execution"])
    /\ pc' = "idle"
    /\ Forget
    /\ UNCHANGED <<Files, works, calls>>

(* A report that is there stays.                                           *)
WriteRepairReport ==
    /\ pc = "failed"
    /\ repair' = [repair EXCEPT ![Gate] =
          IF @ # << >> THEN @ ELSE <<[r \in Roles |-> art[Gate][r].report]>>]
    /\ pc' = "repair"
    /\ UNCHANGED <<disk, mem, art, filed, Local, works, calls>>

BeginRepair ==
    /\ pc = "repair"
    /\ IF mem.attempts < MaxRepairs
       THEN Save([mem EXCEPT !.attempts = @ + 1, !.last = "repair"]) /\ pc' = "work"
       ELSE Save([mem EXCEPT !.last = "execution"]) /\ pc' = "idle"
    /\ UNCHANGED <<Files, Local, works, calls>>

---------------------------------------------------------------------------
Crash ==
    /\ pc # "idle"
    /\ pc' = "idle" /\ mem' = disk /\ Forget
    /\ UNCHANGED <<disk, Files, works, calls>>

(* apply_amendment, while nobody works on the task.                        *)
Amend ==
    /\ pc = "idle" /\ disk.status # "done" /\ disk.rev < MaxRevs
    /\ Save([disk EXCEPT !.rev = @ + 1, !.attempts = 0, !.verdict = NoVerdict,
               !.last = "amendment"])
    /\ UNCHANGED <<pc, Files, Local, works, calls>>

Next ==
    \/ Enter \/ Work \/ NotImplemented \/ BuildEvidence
    \/ \E role \in Roles : AskReport(role) \/ AskEnvelope(role)
    \/ RecordVerdicts \/ SaveVerdicts \/ Waits \/ WriteRepairReport \/ BeginRepair
    \/ Crash \/ Amend

Spec == Init /\ [][Next]_vars

---------------------------------------------------------------------------
(* Properties                                                              *)

(* Attempts stay within the budget, and every file belongs to a gate.      *)
TypeOK ==
    /\ disk.attempts \in 0..MaxRepairs /\ mem.attempts \in 0..MaxRepairs
    /\ disk.rev \in 0..MaxRevs /\ disk.status \in {"in_progress", "done"}
    /\ \A g \in Gates, r \in Roles :
          Len(art[g][r].report) <= 1 /\ Len(art[g][r].envelope) <= 1
    /\ \A r \in Roles : answer[r] \in Tokens \cup {"none"}

States(kept, token) ==
    /\ kept.envelope = <<token>>
    /\ \A i \in DOMAIN kept.report[1].lines : kept.report[1].lines[i].label # "emphasis" =>
          kept.report[1].lines[i].token = token

At(r) == <<r.attempts + 1, r.rev>>

(* A done task has, in the directory of its gate, two reports and two      *)
(* envelopes that say PASS and nothing else, that name the amendment which *)
(* governs, and the verdict file: whatever waits, crashes and revisions    *)
(* came before, nobody's PASS has to be taken on trust.                    *)
CompletionIsStated ==
    disk.status = "done" =>
        /\ filed[At(disk)] = [r \in Roles |-> "PASS"]
        /\ \A r \in Roles :
              LET kept == art[At(disk)][r]
              IN  /\ States(kept, "PASS")
                  /\ disk.rev > 0 => kept.report[1].names = disk.rev
                  /\ disk.evidence.expanded => kept.report[1].finding

(* A done task was not failed by the runner's own facts, and what was      *)
(* observed remotely was observed of the executor's last window.           *)
CompletionHasFacts ==
    disk.status = "done" =>
        /\ ~disk.evidence.mutated
        /\ RemoteRequired => disk.evidence.remote = <<"right", disk.evidence.work>>

(* Every repair attempt that was spent can be explained from the run       *)
(* directory for good: two usable answers, a verdict file without a wait   *)
(* and without two PASS, and a repair report that quotes those very        *)
(* reports - also where a crash made the gate run twice.                   *)
SpentAttemptsStand ==
    \A i \in 1..disk.attempts :
        LET g == <<i, disk.rev>>
        IN  /\ repair[g] = <<[r \in Roles |-> art[g][r].report]>>
            /\ \A r \in Roles : filed[g][r] \in {"PASS", "FAIL"}
            /\ \E r \in Roles : filed[g][r] = "FAIL"

(* The budget and the account of it.                                       *)
AttemptsAreExplained == TypeOK /\ SpentAttemptsStand

(* NOT an invariant (verifier_stale.cfg).                                  *)
(* orchestrate_verification: "Obtain two fresh, independent, read-only     *)
(* verdicts and let only their parsed combination change" the task: what   *)
(* completes it are answers to the evidence of the work it has.            *)
CompletionIsJudged ==
    disk.status = "done" =>
        \A r \in Roles : art[At(disk)][r].report[1].of = disk.evidence.work
=============================================================================
