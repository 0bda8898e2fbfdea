------------------------- MODULE VerifierGateProofs -------------------------
(***************************************************************************)
(* Theorems about VerifierGate for every set of reports a verifier may     *)
(* write, every repair budget and every bound.                             *)
(***************************************************************************)
EXTENDS VerifierGate, SequenceTheorems, TLAPS

(* The values the variables have.                                          *)
Report == [lines : Seq([label : Labels, token : Tokens]), finding : BOOLEAN,
           names : Nat, of : Nat]
AtMostOne(S) == {q \in Seq(S) : Len(q) <= 1}
ReportFiles == AtMostOne(Report)
EnvelopeFiles == AtMostOne(Tokens \cup {Garbage})
Verdicts == [Roles -> Tokens \cup {"none"}]
Windows == [work : Nat, mutated : BOOLEAN, expanded : BOOLEAN,
            remote : {"none", "right", "wrong"} \X Nat]
Notes == {"none", "executor", "execution", "blocked", "verdict", "repair", "amendment"}
Records == [status : {"in_progress", "done"}, attempts : 0..MaxRepairs, rev : 0..MaxRevs,
            verdict : Verdicts, evidence : Windows, last : Notes]
Asking == {"ask task", "settle task", "ask test", "settle test"}
Points == {"idle", "work", "gate", "verdict", "judged", "waiting", "failed", "repair"} \cup Asking

Types ==
    /\ disk \in Records /\ mem \in Records
    /\ art \in [Gates -> [Roles -> [report : ReportFiles, envelope : EnvelopeFiles]]]
    /\ filed \in [Gates -> Verdicts]
    /\ repair \in [Gates -> AtMostOne([Roles -> ReportFiles])]
    /\ pc \in Points
    /\ facts \in [evidence : Windows, rev : 0..MaxRevs]
    /\ answer \in Verdicts
    /\ works \in Nat /\ calls \in Nat

(* The copy in memory and run.json differ only between two saves, and a    *)
(* task that is done is not worked on.                                     *)
InStep ==
    /\ disk.attempts = mem.attempts /\ disk.rev = mem.rev
    /\ pc = "idle" => mem = disk
    /\ disk.status = "done" => pc = "idle"
    /\ mem.status = "done" => pc \in {"idle", "judged"}

(* A remote observation is of the window it is recorded with.              *)
OfWindow(e) == e.remote # NoRemote => e.remote[2] = e.work
RemoteOfWindow == OfWindow(mem.evidence) /\ OfWindow(disk.evidence)

(* What both verifiers are given is what the record says, and each answer  *)
(* is settled out of what its directory holds.                             *)
Settled(g, r, f) ==
    /\ art[g][r].report # << >> /\ art[g][r].envelope # << >>
    /\ Settlement(art[g][r].report[1], art[g][r].envelope[1], f) = answer[r]

AnswersAreSettled ==
    pc \in Asking \cup {"verdict"} =>
        /\ facts.evidence = mem.evidence /\ facts.rev = mem.rev
        /\ \A r \in Roles : answer[r] # "none" => Settled(Gate, r, facts)
        /\ \A r \in Roles : pc = Settles[r] => art[Gate][r].report # << >>
        /\ pc \in {"ask test", "settle test", "verdict"} => answer["task"] # "none"
        /\ pc = "verdict" => answer["test"] # "none"

(* A record that is done.                                                  *)
Stated(rec) ==
    rec.status = "done" =>
        /\ filed[At(rec)] = [r \in Roles |-> "PASS"]
        /\ \A r \in Roles :
              LET kept == art[At(rec)][r]
              IN  /\ States(kept, "PASS")
                  /\ rec.rev > 0 => kept.report[1].names = rec.rev
                  /\ rec.evidence.expanded => kept.report[1].finding

HasFacts(rec) ==
    rec.status = "done" =>
        /\ ~rec.evidence.mutated
        /\ RemoteRequired => rec.evidence.remote = <<"right", rec.evidence.work>>

DoneIsFounded == Stated(mem) /\ Stated(disk) /\ HasFacts(mem) /\ HasFacts(disk)

(* A gate that failed, before its attempt is spent.                        *)
Failed(g) ==
    /\ \A r \in Roles : filed[g][r] \in {"PASS", "FAIL"} /\ art[g][r].report # << >>
    /\ \E r \in Roles : filed[g][r] = "FAIL"

Failing ==
    \/ pc \in {"failed", "repair"}
    \/ pc = "judged" /\ mem.status # "done" /\ mem.last # "blocked"

(* A repair report is never out of date: the reports it quotes stay.       *)
Quotes(g) ==
    /\ repair[g] = <<[r \in Roles |-> art[g][r].report]>>
    /\ \A r \in Roles : art[g][r].report # << >>

RepairsAreQuoted ==
    /\ Failing => Failed(Gate)
    /\ pc = "repair" => repair[Gate] # << >>
    /\ \A g \in Gates : repair[g] # << >> => Quotes(g)

(* The inductive invariant.                                                *)
IInv ==
    /\ Types /\ InStep /\ RemoteOfWindow /\ AnswersAreSettled
    /\ DoneIsFounded /\ RepairsAreQuoted /\ SpentAttemptsStand
-----------------------------------------------------------------------------
(* A file that is not there, or the one there is.                          *)
LEMMA AtMostOneFile ==
    ASSUME NEW S
    PROVE  /\ << >> \in AtMostOne(S)
           /\ \A x \in S : <<x>> \in AtMostOne(S) /\ <<x>> # << >> /\ <<x>>[1] = x
           /\ \A q \in AtMostOne(S) : q = << >> \/ (q[1] \in S /\ q = <<q[1]>>)
           /\ \A q \in AtMostOne(S) : Len(q) <= 1
<1>1. << >> \in AtMostOne(S) /\ \A x \in S : <<x>> \in AtMostOne(S) /\ <<x>> # << >> /\ <<x>>[1] = x
  BY DEF AtMostOne
<1>2. ASSUME NEW q \in AtMostOne(S) PROVE q = << >> \/ (q[1] \in S /\ q = <<q[1]>>)
  <2>0. q \in Seq(S) /\ Len(q) <= 1
    BY DEF AtMostOne
  <2>1. q \in Seq(S) /\ Len(q) \in {0, 1}
    <3> DEFINE n == Len(q)
    <3>1. n \in Nat /\ n <= 1
      BY <2>0, LenProperties
    <3> HIDE DEF n
    <3>2. n \in {0, 1}
      BY <3>1
    <3> QED BY <2>0, <3>2 DEF n
  <2>2. CASE Len(q) = 0
    BY <2>1, <2>2, EmptySeq
  <2>3. CASE Len(q) = 1
    <3>1. q[1] \in S
      BY <2>1, <2>3
    <3>2. q = [i \in 1..1 |-> q[i]]
      BY <2>1, <2>3
    <3>3. <<q[1]>> = [i \in 1..1 |-> q[i]]
      OBVIOUS
    <3> QED BY <3>1, <3>2, <3>3
  <2> QED BY <2>1, <2>2, <2>3
<1> QED BY <1>1, <1>2 DEF AtMostOne

(* What is there stays, what is not is written.                            *)
LEMMA SettledFile ==
    ASSUME NEW S, NEW kept \in AtMostOne(S), NEW new \in S
    PROVE  /\ SettledText(kept, new) \in AtMostOne(S)
           /\ SettledText(kept, new) # << >>
           /\ SettledText(kept, new)[1] \in S
           /\ kept # << >> => SettledText(kept, new) = kept
<1>1. CASE kept = << >>
  BY <1>1, AtMostOneFile DEF SettledText
<1>2. CASE kept # << >>
  BY <1>2, AtMostOneFile DEF SettledText
<1> QED BY <1>1, <1>2

(* An answer that can be used is the envelope; a PASS has a report whose   *)
(* lines say nothing else and which assesses what governs.                 *)
LEMMA UsableAnswer ==
    ASSUME NEW report, NEW envelope \in Tokens \cup {Garbage}, NEW f,
           Settlement(report, envelope, f) # "invalid"
    PROVE  /\ envelope \in Tokens /\ Settlement(report, envelope, f) = envelope
           /\ Explicit(report.lines) \subseteq {envelope}
           /\ envelope = "PASS" => Assessed(report, f)
BY DEF Settlement, Garbage, Tokens

(* So the directory of an answer that is PASS states it.                   *)
LEMMA PassIsStated ==
    ASSUME Types, NEW g \in Gates, NEW r \in Roles, NEW f, Settled(g, r, f), answer[r] = "PASS"
    PROVE  /\ States(art[g][r], "PASS")
           /\ f.rev > 0 => art[g][r].report[1].names = f.rev
           /\ f.evidence.expanded => art[g][r].report[1].finding
<1> DEFINE kept == art[g][r]
           report == kept.report[1]
           envelope == kept.envelope[1]
<1>1. kept \in [report : ReportFiles, envelope : EnvelopeFiles]
  BY DEF Types
<1>2. report \in Report
  BY <1>1, AtMostOneFile DEF Settled, ReportFiles
<1>3. envelope \in Tokens \cup {Garbage} /\ kept.envelope = <<envelope>>
  BY <1>1, AtMostOneFile DEF Settled, EnvelopeFiles
<1>4. Settlement(report, envelope, f) = "PASS" /\ Settlement(report, envelope, f) # "invalid"
  BY DEF Settled
<1> HIDE DEF report, envelope
<1>5. envelope = "PASS" /\ Explicit(report.lines) \subseteq {"PASS"} /\ Assessed(report, f)
  BY <1>3, <1>4, UsableAnswer
<1>6. ASSUME NEW i \in DOMAIN report.lines, report.lines[i].label # "emphasis"
      PROVE  report.lines[i].token = "PASS"
  <2>0. report.lines \in Seq([label : Labels, token : Tokens])
    BY <1>2 DEF Report
  <2>1. report.lines[i] \in [label : Labels, token : Tokens]
    <3> DEFINE S == [label : Labels, token : Tokens]
               lines == report.lines
    <3>1. lines \in Seq(S) /\ i \in DOMAIN lines
      BY <1>6, <2>0
    <3> HIDE DEF S, lines
    <3>2. lines \in [1..Len(lines) -> S]
      BY <3>1, LenProperties
    <3>3. lines[i] \in S
      BY <3>1, <3>2
    <3> QED BY <3>3 DEF S, lines
  <2>2. report.lines[i].label \in {"plain", "translated"}
    BY <1>6, <2>1 DEF Labels
  <2>3. report.lines[i].token \in Explicit(report.lines)
    BY <2>2 DEF Explicit
  <2> QED BY <1>5, <2>3
<1> QED BY <1>3, <1>5, <1>6 DEF States, Assessed, report

(* The gates of a record that is one.                                      *)
LEMMA GateTypes ==
    ASSUME Types, InStep
    PROVE  /\ Gate \in Gates /\ Gate = At(mem)
           /\ At(disk) \in Gates
           /\ \A i \in 1..disk.attempts : <<i, disk.rev>> \in Gates /\ <<i, disk.rev>> # Gate
<1>1. /\ mem.attempts \in 0..MaxRepairs /\ mem.rev \in 0..MaxRevs
      /\ disk.attempts = mem.attempts /\ disk.rev = mem.rev
  BY DEF Types, Records, InStep
<1> QED BY <1>1, BoundAssumption DEF Gate, Gates, At

(* Nothing a verifier's directory has is lost.                             *)
Grown ==
    \A g \in Gates, r \in Roles :
        /\ art[g][r].report # << >> => art'[g][r].report = art[g][r].report
        /\ art[g][r].envelope # << >> => art'[g][r].envelope = art[g][r].envelope

(* The account of the attempts survives every step that spends none: the   *)
(* reports stay, the repair report stays, and only the gate at hand is     *)
(* judged.                                                                 *)
LEMMA AccountKept ==
    ASSUME Types, InStep, RepairsAreQuoted, SpentAttemptsStand, Grown,
           \A g \in Gates : repair[g] # << >> => repair'[g] = repair[g],
           \A g \in Gates \ {Gate} : filed'[g] = filed[g],
           disk'.attempts = disk.attempts, disk'.rev = disk.rev
    PROVE  /\ SpentAttemptsStand'
           /\ \A g \in Gates : repair[g] # << >> => Quotes(g)'
<1>1. ASSUME NEW g \in Gates, repair[g] # << >>
      PROVE  Quotes(g)' /\ \A r \in Roles : art'[g][r].report = art[g][r].report
  BY <1>1 DEF RepairsAreQuoted, Quotes, Grown
<1>2. ASSUME NEW i \in 1..disk.attempts, NEW g, g = <<i, disk.rev>>
      PROVE  /\ repair'[g] = <<[r \in Roles |-> art'[g][r].report]>>
             /\ \A r \in Roles : filed'[g][r] \in {"PASS", "FAIL"}
             /\ \E r \in Roles : filed'[g][r] = "FAIL"
  <2>1. g \in Gates /\ g # Gate
    BY <1>2, GateTypes
  <2>2. /\ repair[g] = <<[r \in Roles |-> art[g][r].report]>>
        /\ \A r \in Roles : filed[g][r] \in {"PASS", "FAIL"}
        /\ \E r \in Roles : filed[g][r] = "FAIL"
    BY <1>2 DEF SpentAttemptsStand
  <2>3. repair[g] # << >>
    BY <2>2
  <2>4. repair'[g] = repair[g] /\ filed'[g] = filed[g] /\ Quotes(g)'
    BY <1>1, <2>1, <2>3
  <2> QED BY <2>2, <2>4 DEF Quotes
<1>3. SpentAttemptsStand'
  <2>1. ASSUME NEW i \in 1..disk.attempts
        PROVE  LET g == <<i, disk.rev>>
               IN  /\ repair'[g] = <<[r \in Roles |-> art'[g][r].report]>>
                   /\ \A r \in Roles : filed'[g][r] \in {"PASS", "FAIL"}
                   /\ \E r \in Roles : filed'[g][r] = "FAIL"
    BY <1>2, <2>1
  <2>2. disk'.attempts = disk.attempts /\ disk'.rev = disk.rev
    OBVIOUS
  <2> QED BY ONLY <2>1, <2>2 DEF SpentAttemptsStand
<1> QED BY <1>1, <1>3

(* A step that writes no file and judges nothing keeps the account.        *)
LEMMA QuietStep ==
    ASSUME IInv, UNCHANGED Files, disk'.attempts = disk.attempts, disk'.rev = disk.rev,
           pc' \notin {"judged", "failed", "repair"}
    PROVE  RepairsAreQuoted' /\ SpentAttemptsStand'
<1>1. art' = art /\ filed' = filed /\ repair' = repair
  BY DEF Files
<1>2. Types /\ InStep /\ RepairsAreQuoted /\ SpentAttemptsStand
  BY DEF IInv
<1>3. Grown
  BY <1>1 DEF Grown
<1>4. SpentAttemptsStand' /\ \A g \in Gates : repair[g] # << >> => Quotes(g)'
  BY <1>1, <1>2, <1>3, AccountKept
<1> QED BY <1>1, <1>4 DEF RepairsAreQuoted, Failing

(* Steps that leave run.json, the copy and what both verifiers are given.  *)
LEMMA SettledKept ==
    ASSUME NEW g \in Gates, NEW r \in Roles, NEW f, Settled(g, r, f), Grown,
           answer'[r] = answer[r]
    PROVE  /\ art'[g][r].report # << >> /\ art'[g][r].envelope # << >>
           /\ Settlement(art'[g][r].report[1], art'[g][r].envelope[1], f) = answer'[r]
BY DEF Settled, Grown

(* A verifier's directory after a launch, and after a question.            *)
LEMMA ReportArrives ==
    ASSUME Types, NEW g \in Gates, NEW role \in Roles, NEW new \in Report,
           art' = [art EXCEPT ![g][role].report = SettledText(@, new)]
    PROVE  /\ art' \in [Gates -> [Roles -> [report : ReportFiles, envelope : EnvelopeFiles]]]
           /\ Grown
           /\ art'[g][role].report # << >>
<1> DEFINE D == [report : ReportFiles, envelope : EnvelopeFiles]
           text == SettledText(art[g][role].report, new)
<1>1. art \in [Gates -> [Roles -> D]]
  BY DEF Types
<1>2. art[g][role] \in D /\ art[g][role].report \in AtMostOne(Report)
  <2>1. ASSUME NEW C, art \in [Gates -> [Roles -> C]] PROVE art[g][role] \in C
    BY <2>1
  <2>2. art[g][role] \in D
    BY <1>1, <2>1
  <2> QED BY <2>2 DEF ReportFiles
<1>3. /\ text \in ReportFiles /\ text # << >>
      /\ art[g][role].report # << >> => text = art[g][role].report
  BY <1>2, SettledFile DEF ReportFiles
<1>4. art' = [art EXCEPT ![g] = [art[g] EXCEPT ![role] = [art[g][role] EXCEPT !.report = text]]]
  BY <1>1
<1> HIDE DEF text
<1>5. PICK d \in D : /\ d = [art[g][role] EXCEPT !.report = text]
                     /\ d.report = text /\ d.envelope = art[g][role].envelope
  <2>1. ASSUME NEW A, NEW B, NEW d \in [report : A, envelope : B], NEW t,
               t \in A
        PROVE  /\ [d EXCEPT !.report = t] \in [report : A, envelope : B]
               /\ [d EXCEPT !.report = t].report = t /\ [d EXCEPT !.report = t].envelope = d.envelope
    BY <2>1
  <2>2. LET e == [art[g][role] EXCEPT !.report = text]
        IN  e \in D /\ e.report = text /\ e.envelope = art[g][role].envelope
    BY <1>2, <1>3, <2>1
  <2> QED BY <2>2
<1> HIDE DEF D
<1>6. art' \in [Gates -> [Roles -> D]]
  BY <1>1, <1>4, <1>5
<1>7. /\ art'[g][role] = d
      /\ \A h \in Gates, r \in Roles : (h # g \/ r # role) => art'[h][r] = art[h][r]
  BY <1>1, <1>4, <1>5
<1>8. Grown
  BY <1>3, <1>5, <1>7 DEF Grown
<1> QED BY <1>3, <1>5, <1>6, <1>7, <1>8 DEF D

WithEnvelope(g, role, text) == [art EXCEPT ![g][role].envelope = text]

(* An envelope is written beside the report, and nothing else changes.     *)
LEMMA EnvelopeArrives ==
    ASSUME Types, NEW g \in Gates, NEW role \in Roles, NEW new \in Tokens \cup {Garbage},
           NEW text, text = SettledText(art[g][role].envelope, new),
           art' = WithEnvelope(g, role, text)
    PROVE  /\ art' \in [Gates -> [Roles -> [report : ReportFiles, envelope : EnvelopeFiles]]]
           /\ Grown
           /\ text # << >> /\ text[1] \in Tokens \cup {Garbage}
           /\ art'[g][role].envelope = text
           /\ \A h \in Gates, r \in Roles : art'[h][r].report = art[h][r].report
<1> DEFINE D == [report : ReportFiles, envelope : EnvelopeFiles]
<1>1. art \in [Gates -> [Roles -> D]]
  BY DEF Types
<1>2. art[g][role] \in D /\ art[g][role].envelope \in AtMostOne(Tokens \cup {Garbage})
  <2>1. ASSUME NEW C, art \in [Gates -> [Roles -> C]] PROVE art[g][role] \in C
    BY <2>1
  <2>2. art[g][role] \in D
    BY <1>1, <2>1
  <2> QED BY <2>2 DEF EnvelopeFiles
<1>3. /\ text \in EnvelopeFiles /\ text # << >> /\ text[1] \in Tokens \cup {Garbage}
      /\ art[g][role].envelope # << >> => text = art[g][role].envelope
  BY <1>2, SettledFile DEF EnvelopeFiles
<1>4. art' = [art EXCEPT ![g] = [art[g] EXCEPT ![role] = [art[g][role] EXCEPT !.envelope = text]]]
  BY <1>1 DEF WithEnvelope
<1>5. PICK d \in D : /\ d = [art[g][role] EXCEPT !.envelope = text]
                     /\ d.envelope = text /\ d.report = art[g][role].report
  <2>1. ASSUME NEW A, NEW B, NEW d \in [report : A, envelope : B], NEW t,
               t \in B
        PROVE  /\ [d EXCEPT !.envelope = t] \in [report : A, envelope : B]
               /\ [d EXCEPT !.envelope = t].envelope = t /\ [d EXCEPT !.envelope = t].report = d.report
    BY <2>1
  <2>2. LET e == [art[g][role] EXCEPT !.envelope = text]
        IN  e \in D /\ e.envelope = text /\ e.report = art[g][role].report
    BY <1>2, <1>3, <2>1
  <2> QED BY <2>2
<1> HIDE DEF D
<1>6. art' \in [Gates -> [Roles -> D]]
  BY <1>1, <1>4, <1>5
<1>7. /\ art'[g][role] = d
      /\ \A h \in Gates, r \in Roles : (h # g \/ r # role) => art'[h][r] = art[h][r]
  BY <1>1, <1>4, <1>5
<1>8. Grown
  BY <1>3, <1>5, <1>7 DEF Grown
<1>9. \A h \in Gates, r \in Roles : art'[h][r].report = art[h][r].report
  BY <1>5, <1>7
<1> QED BY <1>3, <1>5, <1>6, <1>7, <1>8, <1>9 DEF D

(* What every step of a running invocation may use: nothing is done yet,   *)
(* and the gate is one of the gates.                                       *)
LEMMA Running ==
    ASSUME IInv, pc \notin {"idle", "judged"}
    PROVE  /\ mem.status = "in_progress" /\ disk.status = "in_progress"
           /\ mem.attempts = disk.attempts /\ mem.rev = disk.rev
           /\ mem.attempts \in 0..MaxRepairs /\ mem.rev \in 0..MaxRevs
           /\ Gate \in Gates
           /\ disk \in Records /\ mem \in Records
<1>1. Types /\ InStep
  BY DEF IInv
<1> QED BY <1>1, GateTypes DEF Types, InStep, Records

(* A copy that is saved is a record.                                       *)
LEMMA NoteIsRecord ==
    ASSUME NEW rec \in Records, NEW note \in Notes
    PROVE  /\ [rec EXCEPT !.last = note] \in Records
           /\ \A f \in {"status", "attempts", "rev", "verdict", "evidence"} :
                 [rec EXCEPT !.last = note][f] = rec[f]
BY DEF Records

(* No answer is left of the gate.                                          *)
LEMMA Forgotten == NoVerdict \in Verdicts /\ NoFacts \in [evidence : Windows, rev : 0..MaxRevs]
BY BoundAssumption DEF NoVerdict, Verdicts, NoFacts, Windows, NoEvidence, NoRemote

(* The step of a verifier that cannot answer.                              *)
LEMMA UnavailableStep ==
    ASSUME IInv, Unavailable, pc \in Asking, Grown,
           art' \in [Gates -> [Roles -> [report : ReportFiles, envelope : EnvelopeFiles]]],
           UNCHANGED <<filed, repair, Local, works, calls>>
    PROVE  IInv'
<1>1. /\ mem' = [mem EXCEPT !.last = "blocked"] /\ disk' = mem' /\ pc' = "waiting"
      /\ filed' = filed /\ repair' = repair /\ facts' = facts /\ answer' = answer
      /\ works' = works /\ calls' = calls
  BY DEF Unavailable, Save, Local
<1>2. Types /\ InStep /\ RepairsAreQuoted /\ SpentAttemptsStand /\ RemoteOfWindow
  BY DEF IInv
<1>3. /\ mem.status = "in_progress" /\ disk.status = "in_progress"
      /\ mem.attempts = disk.attempts /\ mem.rev = disk.rev /\ mem \in Records
  BY Running DEF Asking
<1>4. "blocked" \in Notes
  BY DEF Notes
<1>5. /\ mem' \in Records /\ mem'.status = "in_progress" /\ mem'.attempts = mem.attempts
      /\ mem'.rev = mem.rev /\ mem'.evidence = mem.evidence
  BY <1>1, <1>3, <1>4, NoteIsRecord DEF Records
<1>6. Types'
  BY <1>1, <1>2, <1>5 DEF Types, Points
<1>7. InStep' /\ RemoteOfWindow' /\ AnswersAreSettled' /\ DoneIsFounded'
  BY <1>1, <1>2, <1>3, <1>5
     DEF InStep, RemoteOfWindow, OfWindow, AnswersAreSettled, DoneIsFounded, Stated, HasFacts, Asking
<1>8. disk'.attempts = disk.attempts /\ disk'.rev = disk.rev
  BY <1>1, <1>3, <1>5
<1>9. SpentAttemptsStand' /\ \A g \in Gates : repair[g] # << >> => Quotes(g)'
  BY <1>1, <1>2, <1>8, AccountKept
<1>10. RepairsAreQuoted'
  BY <1>1, <1>9 DEF RepairsAreQuoted, Failing
<1> QED BY <1>6, <1>7, <1>9, <1>10 DEF IInv

(* The step of a verifier that goes on with what it was given.             *)
LEMMA AnswerStep ==
    ASSUME IInv, pc \in Asking, Grown,
           art' \in [Gates -> [Roles -> [report : ReportFiles, envelope : EnvelopeFiles]]],
           UNCHANGED <<disk, mem, filed, repair, facts, works, calls>>,
           answer' \in Verdicts, pc' \in Asking \cup {"verdict"},
           AnswersAreSettled'
    PROVE  IInv'
<1>2. Types /\ InStep /\ RepairsAreQuoted /\ SpentAttemptsStand /\ RemoteOfWindow /\ DoneIsFounded
  BY DEF IInv
<1>3. mem.status = "in_progress" /\ disk.status = "in_progress"
  BY Running DEF Asking
<1>4. Types'
  BY <1>2 DEF Types, Points
<1>5. InStep' /\ RemoteOfWindow' /\ DoneIsFounded'
  BY <1>2, <1>3
     DEF InStep, RemoteOfWindow, OfWindow, DoneIsFounded, Stated, HasFacts, Asking
<1>6. SpentAttemptsStand' /\ \A g \in Gates : repair[g] # << >> => Quotes(g)'
  BY <1>2, AccountKept
<1>7. RepairsAreQuoted'
  BY <1>6 DEF RepairsAreQuoted, Failing, Asking
<1> QED BY <1>4, <1>5, <1>6, <1>7 DEF IInv

(* Where the invocation is when it asks a verifier.                        *)
LEMMA Places ==
    /\ Roles = {"task", "test"}
    /\ Asks["task"] = "ask task" /\ Asks["test"] = "ask test"
    /\ Settles["task"] = "settle task" /\ Settles["test"] = "settle test"
    /\ Asking = {"ask task", "settle task", "ask test", "settle test"}
BY DEF Roles, Asks, Settles, Asking

(* A launch: its report arrives, or what an earlier one left is read.      *)
LEMMA AskReportStep ==
    ASSUME IInv, NEW role \in Roles, AskReport(role)
    PROVE  IInv'
<1>1. Types /\ AnswersAreSettled
  BY DEF IInv
<1>2. /\ pc = Asks[role] /\ pc \in Asking /\ pc \notin {"idle", "judged"}
      /\ UNCHANGED <<filed, repair, Local, works, calls>>
  BY Places DEF AskReport
<1>3. Gate \in Gates
  BY <1>2, Running
<1>4. CASE Unavailable /\ UNCHANGED art
  <2>1. Grown /\ art' \in [Gates -> [Roles -> [report : ReportFiles, envelope : EnvelopeFiles]]]
    BY <1>1, <1>4 DEF Grown, Types
  <2> QED BY <1>2, <1>4, <2>1, UnavailableStep
<1>5. ASSUME NEW said \in Reports,
             art' = [art EXCEPT ![Gate][role].report =
                        SettledText(@, [said EXCEPT !.of = facts.evidence.work])],
             Unavailable \/ (pc' = Settles[role] /\ UNCHANGED <<disk, mem>>)
      PROVE  IInv'
  <2>1. [said EXCEPT !.of = facts.evidence.work] \in Report
    <3>1. facts.evidence.work \in Nat
      BY <1>1 DEF Types, Windows
    <3>2. said \in Report
      BY ReportAssumption DEF Report
    <3> QED BY <3>1, <3>2 DEF Report
  <2>2. /\ art' \in [Gates -> [Roles -> [report : ReportFiles, envelope : EnvelopeFiles]]]
        /\ Grown /\ art'[Gate][role].report # << >>
    <3> DEFINE g == Gate
               new == [said EXCEPT !.of = facts.evidence.work]
    <3>1. g \in Gates /\ new \in Report /\ art' = [art EXCEPT ![g][role].report = SettledText(@, new)]
      BY <1>3, <1>5, <2>1
    <3> HIDE DEF g, new
    <3>2. /\ art' \in [Gates -> [Roles -> [report : ReportFiles, envelope : EnvelopeFiles]]]
          /\ Grown /\ art'[g][role].report # << >>
      BY <1>1, <3>1, ReportArrives
    <3> QED BY <3>2 DEF g
  <2>3. CASE Unavailable
    BY <1>2, <2>2, <2>3, UnavailableStep
  <2>4. CASE pc' = Settles[role] /\ UNCHANGED <<disk, mem>>
    <3>1. facts' = facts /\ answer' = answer /\ mem' = mem /\ disk' = disk
      BY <1>2, <2>4 DEF Local
    <3>2. Gate' = Gate
      BY <3>1 DEF Gate
    <3>3. facts.evidence = mem.evidence /\ facts.rev = mem.rev
      BY <1>1, <1>2 DEF AnswersAreSettled
    <3>4. ASSUME NEW r \in Roles, answer[r] # "none"
          PROVE  Settled(Gate, r, facts)'
      <4>1. Settled(Gate, r, facts)
        BY <1>1, <1>2, <3>4 DEF AnswersAreSettled
      <4>2. /\ art'[Gate][r].report # << >> /\ art'[Gate][r].envelope # << >>
            /\ Settlement(art'[Gate][r].report[1], art'[Gate][r].envelope[1], facts) = answer'[r]
        BY <1>3, <2>2, <3>1, <4>1, SettledKept
      <4> QED BY <3>1, <3>2, <4>2 DEF Settled
    <3>5. \A r \in Roles : pc' = Settles[r] => art'[Gate][r].report # << >>
      BY <2>2, <2>4, Places
    <3>6. pc' = "settle test" => answer["task"] # "none"
      BY <1>1, <1>2, <2>4, Places DEF AnswersAreSettled
    <3>7. pc' \in {"settle task", "settle test"}
      BY <2>4, Places
    <3>8. AnswersAreSettled'
      BY <3>1, <3>2, <3>3, <3>4, <3>5, <3>6, <3>7 DEF AnswersAreSettled, Asking
    <3>9. answer' \in Verdicts /\ pc' \in Asking \cup {"verdict"}
      BY <1>1, <3>1, <3>7 DEF Types, Asking
    <3> QED BY <1>2, <2>2, <3>1, <3>8, <3>9, AnswerStep
  <2> QED BY <1>5, <2>3, <2>4
<1> QED BY <1>4, <1>5 DEF AskReport

(* An envelope: no answer, or one the report and the envelope support.     *)
LEMMA AskEnvelopeStep ==
    ASSUME IInv, NEW role \in Roles, AskEnvelope(role)
    PROVE  IInv'
<1>1. Types /\ AnswersAreSettled
  BY DEF IInv
<1>2. /\ pc = Settles[role] /\ pc \in Asking /\ pc \notin {"idle", "judged"}
      /\ UNCHANGED <<filed, repair, facts, works, calls>>
  BY Places DEF AskEnvelope
<1>3. Gate \in Gates /\ art[Gate][role].report # << >>
  BY <1>1, <1>2, Running DEF AnswersAreSettled
<1>4. CASE Unavailable /\ UNCHANGED <<art, answer>>
  <2>1. Grown /\ art' \in [Gates -> [Roles -> [report : ReportFiles, envelope : EnvelopeFiles]]]
    BY <1>1, <1>4 DEF Grown, Types
  <2> QED BY <1>2, <1>4, <2>1, UnavailableStep DEF Local
<1>5. ASSUME NEW said \in Tokens \cup {Garbage}, NEW text, NEW token,
             text = SettledText(art[Gate][role].envelope, said),
             token = Settlement(art[Gate][role].report[1], text[1], facts),
             art' = [art EXCEPT ![Gate][role].envelope = text],
             \/ Unavailable /\ UNCHANGED answer
             \/ /\ token # "invalid"
                /\ answer' = [answer EXCEPT ![role] = token]
                /\ pc' = IF role = "task" THEN Asks["test"] ELSE "verdict"
                /\ UNCHANGED <<disk, mem>>
      PROVE  IInv'
  <2>2. /\ art' \in [Gates -> [Roles -> [report : ReportFiles, envelope : EnvelopeFiles]]]
        /\ Grown /\ text # << >> /\ text[1] \in Tokens \cup {Garbage}
        /\ art'[Gate][role].envelope = text
        /\ art'[Gate][role].report = art[Gate][role].report
    <3> DEFINE g == Gate
    <3>1. g \in Gates
      BY <1>3
    <3>3. text = SettledText(art[g][role].envelope, said)
      BY <1>5
    <3>4. art' = WithEnvelope(g, role, text)
      BY <1>5 DEF WithEnvelope
    <3> HIDE DEF g
    <3>2. /\ art' \in [Gates -> [Roles -> [report : ReportFiles, envelope : EnvelopeFiles]]]
          /\ Grown /\ text # << >> /\ text[1] \in Tokens \cup {Garbage}
          /\ art'[g][role].envelope = text
          /\ \A h \in Gates, r \in Roles : art'[h][r].report = art[h][r].report
      BY <1>1, <3>1, <3>3, <3>4, EnvelopeArrives
    <3> QED BY <3>1, <3>2 DEF g
  <2>3. CASE Unavailable /\ UNCHANGED answer
    BY <1>2, <2>2, <2>3, UnavailableStep DEF Local
  <2>4. CASE /\ token # "invalid"
             /\ answer' = [answer EXCEPT ![role] = token]
             /\ pc' = IF role = "task" THEN Asks["test"] ELSE "verdict"
             /\ UNCHANGED <<disk, mem>>
    <3>1. facts' = facts /\ mem' = mem /\ disk' = disk /\ answer \in Verdicts
      BY <1>1, <1>2, <2>4 DEF Types
    <3>2. Gate' = Gate
      BY <3>1 DEF Gate
    <3>3. facts.evidence = mem.evidence /\ facts.rev = mem.rev
      BY <1>1, <1>2 DEF AnswersAreSettled
    <3>4. token \in Tokens
      <4> DEFINE report == art[Gate][role].report[1]
                 envelope == text[1]
      <4>1. token = Settlement(report, envelope, facts) /\ token # "invalid"
        BY <1>5, <2>4
      <4>2. envelope \in Tokens \cup {Garbage}
        BY <2>2
      <4> HIDE DEF report, envelope
      <4>3. Settlement(report, envelope, facts) # "invalid"
        BY <4>1
      <4>4. envelope \in Tokens /\ Settlement(report, envelope, facts) = envelope
        BY <4>2, <4>3, UsableAnswer
      <4> QED BY <4>1, <4>4
    <3>5. /\ answer' \in Verdicts /\ answer'[role] = token /\ token # "none"
          /\ \A r \in Roles \ {role} : answer'[r] = answer[r]
      BY <2>4, <3>1, <3>4 DEF Verdicts, Tokens
    <3>6. ASSUME NEW r \in Roles, answer'[r] # "none"
          PROVE  Settled(Gate, r, facts)'
      <4>1. CASE r = role
        <5>1. /\ art'[Gate][r].report # << >> /\ art'[Gate][r].envelope # << >>
              /\ Settlement(art'[Gate][r].report[1], art'[Gate][r].envelope[1], facts) = answer'[r]
          BY <1>3, <1>5, <2>2, <3>5, <4>1
        <5> QED BY <3>1, <3>2, <5>1 DEF Settled
      <4>2. CASE r # role
        <5>1. answer'[r] = answer[r] /\ answer[r] # "none"
          BY <3>5, <3>6, <4>2
        <5>2. Settled(Gate, r, facts)
          BY <1>1, <1>2, <5>1 DEF AnswersAreSettled
        <5>3. /\ art'[Gate][r].report # << >> /\ art'[Gate][r].envelope # << >>
              /\ Settlement(art'[Gate][r].report[1], art'[Gate][r].envelope[1], facts) = answer'[r]
          BY <1>3, <2>2, <5>1, <5>2, SettledKept
        <5> QED BY <3>1, <3>2, <5>3 DEF Settled
      <4> QED BY <4>1, <4>2
    <3>7. /\ pc' \in {"ask test", "verdict"} /\ answer'["task"] # "none"
          /\ pc' = "verdict" => answer'["test"] # "none"
      <4>1. CASE role = "task"
        BY <2>4, <3>5, <4>1, Places
      <4>2. CASE role = "test"
        <5>1. answer["task"] # "none"
          BY <1>1, <1>2, <4>2, Places DEF AnswersAreSettled
        <5> QED BY <2>4, <3>5, <4>2, <5>1 DEF Roles
      <4> QED BY <4>1, <4>2 DEF Roles
    <3>8. AnswersAreSettled'
      BY <3>1, <3>2, <3>3, <3>6, <3>7, Places DEF AnswersAreSettled
    <3>9. pc' \in Asking \cup {"verdict"}
      BY <3>7 DEF Asking
    <3> QED BY <1>2, <2>2, <3>1, <3>5, <3>8, <3>9, AnswerStep
  <2> QED BY <1>5, <2>3, <2>4
<1> QED BY <1>4, <1>5 DEF AskEnvelope

(* The verdict file and the copy: two PASS make the task done and state    *)
(* it, a FAIL without a wait has an account.                               *)
LEMMA RecordVerdictsStep ==
    ASSUME IInv, RecordVerdicts
    PROVE  IInv'
<1> DEFINE v == IF Forced(facts.evidence) THEN [r \in Roles |-> "FAIL"] ELSE answer
           said == {v[r] : r \in Roles}
           status == IF said = {"PASS"} THEN "done" ELSE mem.status
           last == IF "BLOCKED" \in said THEN "blocked" ELSE "verdict"
<1>1. /\ pc = "verdict" /\ pc' = "judged" /\ pc \notin {"idle", "judged"}
      /\ mem' = [mem EXCEPT !.verdict = v, !.status = status, !.last = last]
      /\ filed' = [filed EXCEPT ![Gate] = v]
      /\ disk' = disk /\ art' = art /\ repair' = repair
      /\ facts' = facts /\ answer' = answer /\ works' = works /\ calls' = calls
  BY DEF RecordVerdicts, Local
<1>2. /\ Types /\ InStep /\ RemoteOfWindow /\ AnswersAreSettled /\ DoneIsFounded
      /\ RepairsAreQuoted /\ SpentAttemptsStand
  BY DEF IInv
<1>3. /\ mem.status = "in_progress" /\ disk.status = "in_progress"
      /\ mem.attempts = disk.attempts /\ mem.rev = disk.rev
      /\ Gate \in Gates /\ mem \in Records
  BY <1>1, Running
<1>4. /\ facts.evidence = mem.evidence /\ facts.rev = mem.rev
      /\ \A r \in Roles : answer[r] # "none" /\ Settled(Gate, r, facts)
  BY <1>1, <1>2, Places DEF AnswersAreSettled
<1>5. /\ v \in [Roles -> Tokens] /\ v \in Verdicts
      /\ Forced(facts.evidence) => v = [r \in Roles |-> "FAIL"]
      /\ ~Forced(facts.evidence) => v = answer
  <2>1. answer \in [Roles -> Tokens]
    <3>1. answer \in [Roles -> Tokens \cup {"none"}]
      BY <1>2 DEF Types, Verdicts
    <3> QED BY <1>4, <3>1
  <2> QED BY <2>1 DEF Verdicts, Tokens
<1>6. /\ said = {"PASS"} => v = [r \in Roles |-> "PASS"]
      /\ \A r \in Roles : v[r] \in said
      /\ said # {"PASS"} /\ "BLOCKED" \notin said =>
            /\ \A r \in Roles : v[r] \in {"PASS", "FAIL"}
            /\ \E r \in Roles : v[r] = "FAIL"
  <2> HIDE DEF v
  <2>1. v["task"] \in Tokens /\ v["test"] \in Tokens /\ said = {v["task"], v["test"]}
    BY <1>5, Places
  <2>2. said = {"PASS"} => v = [r \in Roles |-> "PASS"]
    BY <1>5, <2>1, Places
  <2> QED BY <2>1, <2>2, Places DEF Tokens
<1>7. last \in {"blocked", "verdict"} /\ (last # "blocked" => "BLOCKED" \notin said)
      /\ status \in {"in_progress", "done"} /\ (status = "done" <=> said = {"PASS"})
  BY <1>3
<1> HIDE DEF v, said, status, last
<1>8. /\ mem'.status = status /\ mem'.last = last /\ mem'.attempts = mem.attempts
      /\ mem'.rev = mem.rev /\ mem'.evidence = mem.evidence /\ mem' \in Records
  <2>1. last \in Notes
    BY <1>7 DEF Notes
  <2> QED BY <1>1, <1>3, <1>5, <1>7, <2>1 DEF Records
<1>9. filed' \in [Gates -> Verdicts] /\ filed'[Gate] = v
      /\ \A g \in Gates \ {Gate} : filed'[g] = filed[g]
  <2>1. filed \in [Gates -> Verdicts]
    BY <1>2 DEF Types
  <2> DEFINE g == Gate
  <2>2. g \in Gates /\ filed' = [filed EXCEPT ![g] = v]
    BY <1>1, <1>3
  <2> HIDE DEF g
  <2>3. filed' \in [Gates -> Verdicts] /\ filed'[g] = v
        /\ \A h \in Gates \ {g} : filed'[h] = filed[h]
    BY <1>5, <2>1, <2>2
  <2> QED BY <2>3 DEF g
<1>10. Gate' = Gate /\ At(mem)' = Gate /\ At(mem') = Gate
  BY <1>8 DEF Gate, At
<1>11. Types'
  BY <1>1, <1>2, <1>8, <1>9 DEF Types, Points
<1>12. InStep' /\ RemoteOfWindow' /\ AnswersAreSettled'
  BY <1>1, <1>2, <1>3, <1>8 DEF InStep, RemoteOfWindow, OfWindow, AnswersAreSettled, Asking
<1>13. DoneIsFounded'
  <2>1. Stated(disk)' /\ HasFacts(disk)'
    BY <1>1, <1>3 DEF Stated, HasFacts
  <2>2. CASE status # "done"
    BY <1>8, <2>1, <2>2 DEF DoneIsFounded, Stated, HasFacts
  <2>3. CASE status = "done"
    <3>1. v = [r \in Roles |-> "PASS"] /\ ~Forced(facts.evidence) /\ v = answer
      <4>1. v = [r \in Roles |-> "PASS"]
        BY <1>6, <1>7, <2>3
      <4>2. ~Forced(facts.evidence)
        <5>1. v["task"] = "PASS"
          BY <4>1, Places
        <5>2. [r \in Roles |-> "FAIL"]["task"] = "FAIL"
          BY Places
        <5> QED BY <1>5, <5>1, <5>2
      <4> QED BY <1>5, <4>1, <4>2
    <3>2. ASSUME NEW r \in Roles
          PROVE  /\ States(art[Gate][r], "PASS")
                 /\ facts.rev > 0 => art[Gate][r].report[1].names = facts.rev
                 /\ facts.evidence.expanded => art[Gate][r].report[1].finding
      <4>1. answer[r] = "PASS" /\ Settled(Gate, r, facts)
        BY <1>4, <3>1
      <4> QED BY <1>2, <1>3, <4>1, PassIsStated
    <3>3. Stated(mem)'
      <4>1. filed'[At(mem')] = [r \in Roles |-> "PASS"]
        BY <1>9, <1>10, <3>1
      <4>2. ASSUME NEW r \in Roles
            PROVE  /\ States(art'[At(mem')][r], "PASS")
                   /\ mem'.rev > 0 => art'[At(mem')][r].report[1].names = mem'.rev
                   /\ mem'.evidence.expanded => art'[At(mem')][r].report[1].finding
        BY <1>1, <1>4, <1>8, <1>10, <3>2
      <4> QED BY <4>1, <4>2 DEF Stated, At, States
    <3>4. HasFacts(mem)'
      <4>1. ~mem.evidence.mutated /\ (RemoteRequired => Observed(mem.evidence))
        BY <1>4, <3>1 DEF Forced
      <4>2. ASSUME RemoteRequired PROVE mem.evidence.remote = <<"right", mem.evidence.work>>
        <5>1. mem.evidence.remote \in {"none", "right", "wrong"} \X Nat
          BY <1>3 DEF Records, Windows
        <5>2. mem.evidence.remote[1] = "right"
          BY <4>1, <4>2 DEF Observed
        <5>3. mem.evidence.remote # NoRemote
          BY <5>1, <5>2 DEF NoRemote
        <5>4. mem.evidence.remote[2] = mem.evidence.work
          BY <1>2, <5>3 DEF RemoteOfWindow, OfWindow
        <5> QED BY <5>1, <5>2, <5>4
      <4> QED BY <1>8, <4>1, <4>2 DEF HasFacts
    <3> QED BY <2>1, <3>3, <3>4 DEF DoneIsFounded
  <2> QED BY <2>2, <2>3
<1>14. SpentAttemptsStand' /\ \A g \in Gates : repair[g] # << >> => Quotes(g)'
  <2>1. Grown
    BY <1>1 DEF Grown
  <2> QED BY <1>1, <1>2, <1>9, <2>1, AccountKept
<1>15. RepairsAreQuoted'
  <2>1. ASSUME Failing' PROVE Failed(Gate)'
    <3>1. status # "done" /\ last # "blocked"
      BY <1>1, <1>8, <2>1 DEF Failing
    <3>2. /\ \A r \in Roles : v[r] \in {"PASS", "FAIL"}
          /\ \E r \in Roles : v[r] = "FAIL"
      BY <1>6, <1>7, <3>1
    <3>3. \A r \in Roles : art[Gate][r].report # << >>
      BY <1>4 DEF Settled
    <3> QED BY <1>1, <1>9, <1>10, <3>2, <3>3 DEF Failed
  <2> QED BY <1>1, <1>14, <2>1 DEF RepairsAreQuoted
<1> QED BY <1>11, <1>12, <1>13, <1>14, <1>15 DEF IInv

(* run.json follows the verdict file.                                      *)
LEMMA SaveVerdictsStep ==
    ASSUME IInv, SaveVerdicts
    PROVE  IInv'
<1>1. /\ pc = "judged" /\ disk' = mem /\ mem' = mem
      /\ pc' = CASE mem.status = "done" -> "idle"
                 [] mem.status # "done" /\ mem.last = "blocked" -> "waiting"
                 [] OTHER -> "failed"
      /\ facts' = NoFacts /\ answer' = NoVerdict
      /\ art' = art /\ filed' = filed /\ repair' = repair
      /\ works' = works /\ calls' = calls
  BY DEF SaveVerdicts, Forget, Files
<1>2. /\ Types /\ InStep /\ RemoteOfWindow /\ AnswersAreSettled /\ DoneIsFounded
      /\ RepairsAreQuoted /\ SpentAttemptsStand
  BY DEF IInv
<1>3. /\ pc' \in {"idle", "waiting", "failed"}
      /\ (pc' = "idle" <=> mem.status = "done")
      /\ (pc' = "failed" => mem.status # "done" /\ mem.last # "blocked")
  <2>1. CASE mem.status = "done"
    BY <1>1, <2>1
  <2>2. CASE mem.status # "done" /\ mem.last = "blocked"
    BY <1>1, <2>2
  <2>3. CASE mem.status # "done" /\ mem.last # "blocked"
    BY <1>1, <2>3
  <2> QED BY <2>1, <2>2, <2>3
<1>4. disk'.attempts = disk.attempts /\ disk'.rev = disk.rev
  BY <1>1, <1>2 DEF InStep
<1>5. Types'
  BY <1>1, <1>2, <1>3, Forgotten DEF Types, Points
<1>6. InStep' /\ RemoteOfWindow' /\ AnswersAreSettled'
  BY <1>1, <1>2, <1>3 DEF InStep, RemoteOfWindow, OfWindow, AnswersAreSettled, Asking
<1>7. DoneIsFounded'
  BY <1>1, <1>2 DEF DoneIsFounded, Stated, HasFacts, At, States
<1>8. SpentAttemptsStand' /\ \A g \in Gates : repair[g] # << >> => Quotes(g)'
  <2>1. Grown
    BY <1>1 DEF Grown
  <2> QED BY <1>1, <1>2, <1>4, <2>1, AccountKept
<1>9. RepairsAreQuoted'
  <2>1. ASSUME Failing' PROVE Failed(Gate)'
    <3>1. pc' = "failed"
      BY <1>3, <2>1 DEF Failing
    <3>2. Failed(Gate)
      BY <1>1, <1>2, <1>3, <3>1 DEF RepairsAreQuoted, Failing
    <3> QED BY <1>1, <3>2 DEF Failed, Gate
  <2> QED BY <1>1, <1>3, <1>8, <2>1 DEF RepairsAreQuoted
<1> QED BY <1>5, <1>6, <1>7, <1>8, <1>9 DEF IInv

(* The repair report quotes both reports, which are there.                 *)
LEMMA WriteRepairReportStep ==
    ASSUME IInv, WriteRepairReport
    PROVE  IInv'
<1> DEFINE quoted == <<[r \in Roles |-> art[Gate][r].report]>>
           text == IF repair[Gate] # << >> THEN repair[Gate] ELSE quoted
<1>1. /\ pc = "failed" /\ pc' = "repair" /\ pc \notin {"idle", "judged"}
      /\ repair' = [repair EXCEPT ![Gate] = text]
      /\ disk' = disk /\ mem' = mem /\ art' = art /\ filed' = filed
      /\ facts' = facts /\ answer' = answer /\ works' = works /\ calls' = calls
  BY DEF WriteRepairReport, Local
<1>2. /\ Types /\ InStep /\ RemoteOfWindow /\ AnswersAreSettled /\ DoneIsFounded
      /\ RepairsAreQuoted /\ SpentAttemptsStand
  BY DEF IInv
<1>3. Gate \in Gates /\ Gate' = Gate /\ mem.status = "in_progress" /\ disk.status = "in_progress"
  BY <1>1, Running DEF Gate
<1>4. Failed(Gate)
  BY <1>1, <1>2 DEF RepairsAreQuoted, Failing
<1>5. /\ [r \in Roles |-> art[Gate][r].report] \in [Roles -> ReportFiles]
      /\ \A r \in Roles : art[Gate][r].report # << >>
  <2>1. \A r \in Roles : art[Gate][r] \in [report : ReportFiles, envelope : EnvelopeFiles]
    BY <1>2, <1>3 DEF Types
  <2> QED BY <1>4, <2>1 DEF Failed
<1>6. text = quoted /\ text \in AtMostOne([Roles -> ReportFiles]) /\ text # << >>
  <2>1. quoted \in AtMostOne([Roles -> ReportFiles]) /\ quoted # << >>
    BY <1>5, AtMostOneFile
  <2>2. repair[Gate] # << >> => repair[Gate] = quoted
    BY <1>2, <1>3 DEF RepairsAreQuoted, Quotes
  <2> QED BY <2>1, <2>2
<1>7. /\ repair' \in [Gates -> AtMostOne([Roles -> ReportFiles])]
      /\ repair'[Gate] = quoted
      /\ \A g \in Gates \ {Gate} : repair'[g] = repair[g]
  <2> DEFINE g == Gate
  <2>1. repair \in [Gates -> AtMostOne([Roles -> ReportFiles])]
    BY <1>2 DEF Types
  <2>2. g \in Gates /\ repair' = [repair EXCEPT ![g] = text]
    BY <1>1, <1>3
  <2> HIDE DEF g, text
  <2>3. /\ repair' \in [Gates -> AtMostOne([Roles -> ReportFiles])] /\ repair'[g] = text
        /\ \A h \in Gates \ {g} : repair'[h] = repair[h]
    BY <1>6, <2>1, <2>2
  <2> QED BY <1>6, <2>3 DEF g
<1> HIDE DEF text
<1>8. Types'
  BY <1>1, <1>2, <1>7 DEF Types, Points
<1>9. InStep' /\ RemoteOfWindow' /\ AnswersAreSettled' /\ DoneIsFounded'
  BY <1>1, <1>2, <1>3
     DEF InStep, RemoteOfWindow, OfWindow, AnswersAreSettled, Asking, DoneIsFounded, Stated, HasFacts
<1>10. SpentAttemptsStand' /\ \A g \in Gates : repair[g] # << >> => Quotes(g)'
  <2>1. Grown
    BY <1>1 DEF Grown
  <2>2. \A g \in Gates : repair[g] # << >> => repair'[g] = repair[g]
    BY <1>2, <1>7 DEF RepairsAreQuoted, Quotes
  <2> QED BY <1>1, <1>2, <2>1, <2>2, AccountKept
<1>11. RepairsAreQuoted'
  <2>1. Failed(Gate)' /\ repair'[Gate] # << >>
    BY <1>1, <1>3, <1>4, <1>6, <1>7 DEF Failed
  <2>2. ASSUME NEW g \in Gates, repair'[g] # << >> PROVE Quotes(g)'
    <3>1. CASE g = Gate
      BY <1>1, <1>5, <1>7, <3>1 DEF Quotes
    <3>2. CASE g # Gate
      BY <1>7, <1>10, <2>2, <3>2
    <3> QED BY <3>1, <3>2
  <2> QED BY <1>3, <2>1, <2>2 DEF RepairsAreQuoted
<1> QED BY <1>8, <1>9, <1>10, <1>11 DEF IInv

(* The attempt is spent with its account complete.                         *)
LEMMA BeginRepairStep ==
    ASSUME IInv, BeginRepair
    PROVE  IInv'
<1>1. /\ pc = "repair" /\ pc \notin {"idle", "judged"} /\ disk' = mem'
      /\ art' = art /\ filed' = filed /\ repair' = repair
      /\ facts' = facts /\ answer' = answer /\ works' = works /\ calls' = calls
  BY DEF BeginRepair, Save, Files, Local
<1>2. /\ Types /\ InStep /\ RemoteOfWindow /\ AnswersAreSettled /\ DoneIsFounded
      /\ RepairsAreQuoted /\ SpentAttemptsStand
  BY DEF IInv
<1>3. /\ mem.status = "in_progress" /\ disk.status = "in_progress"
      /\ mem.attempts = disk.attempts /\ mem.rev = disk.rev
      /\ mem.attempts \in 0..MaxRepairs /\ mem.rev \in 0..MaxRevs
      /\ Gate \in Gates /\ mem \in Records
  BY <1>1, Running
<1>4. CASE mem.attempts < MaxRepairs
  <2>1. mem' = [mem EXCEPT !.attempts = @ + 1, !.last = "repair"] /\ pc' = "work"
    BY <1>4 DEF BeginRepair, Save
  <2>2. /\ mem' \in Records /\ mem'.status = "in_progress" /\ mem'.attempts = mem.attempts + 1
        /\ mem'.rev = mem.rev /\ mem'.evidence = mem.evidence
    <3>1. mem.attempts + 1 \in 0..MaxRepairs /\ "repair" \in Notes
      BY <1>3, <1>4, BoundAssumption DEF Notes
    <3> QED BY <1>3, <2>1, <3>1 DEF Records
  <2>3. Types'
    BY <1>1, <1>2, <2>1, <2>2 DEF Types, Points
  <2>4. InStep' /\ RemoteOfWindow' /\ AnswersAreSettled' /\ DoneIsFounded'
    BY <1>1, <1>2, <2>1, <2>2
       DEF InStep, RemoteOfWindow, OfWindow, AnswersAreSettled, Asking, DoneIsFounded, Stated, HasFacts
  <2>5. SpentAttemptsStand'
    <3>1. ASSUME NEW i \in 1..(mem.attempts + 1), NEW g, g = <<i, mem.rev>>
          PROVE  /\ repair[g] = <<[r \in Roles |-> art[g][r].report]>>
                 /\ \A r \in Roles : filed[g][r] \in {"PASS", "FAIL"}
                 /\ \E r \in Roles : filed[g][r] = "FAIL"
      <4>1. CASE i \in 1..mem.attempts
        BY <1>2, <1>3, <3>1, <4>1 DEF SpentAttemptsStand
      <4>2. CASE i = mem.attempts + 1
        <5>1. g = Gate
          BY <3>1, <4>2 DEF Gate
        <5>2. Failed(Gate) /\ Quotes(Gate)
          BY <1>1, <1>2, <1>3 DEF RepairsAreQuoted, Failing
        <5> QED BY <5>1, <5>2 DEF Failed, Quotes
      <4> QED BY <1>3, <4>1, <4>2
    <3> QED BY <1>1, <2>2, <3>1 DEF SpentAttemptsStand
  <2>6. RepairsAreQuoted'
    BY <1>1, <1>2, <2>1 DEF RepairsAreQuoted, Failing, Quotes
  <2> QED BY <2>3, <2>4, <2>5, <2>6 DEF IInv
<1>5. CASE ~(mem.attempts < MaxRepairs)
  <2>1. mem' = [mem EXCEPT !.last = "execution"] /\ pc' = "idle"
    BY <1>5 DEF BeginRepair, Save
  <2>2. /\ mem' \in Records /\ mem'.status = "in_progress" /\ mem'.attempts = mem.attempts
        /\ mem'.rev = mem.rev /\ mem'.evidence = mem.evidence
    <3>1. "execution" \in Notes
      BY DEF Notes
    <3> QED BY <1>3, <2>1, <3>1 DEF Records
  <2>3. Types'
    BY <1>1, <1>2, <2>1, <2>2 DEF Types, Points
  <2>4. InStep' /\ RemoteOfWindow' /\ AnswersAreSettled' /\ DoneIsFounded'
    BY <1>1, <1>2, <2>1, <2>2
       DEF InStep, RemoteOfWindow, OfWindow, AnswersAreSettled, Asking, DoneIsFounded, Stated, HasFacts
  <2>5. RepairsAreQuoted' /\ SpentAttemptsStand'
    BY <1>1, <1>3, <2>1, <2>2, QuietStep DEF Files
  <2> QED BY <2>3, <2>4, <2>5 DEF IInv
<1> QED BY <1>4, <1>5

(* The window, and what is known of it.                                    *)
LEMMA WorkStep ==
    ASSUME IInv, Work
    PROVE  IInv'
<1>1. PICK m \in BOOLEAN, x \in BOOLEAN :
         mem' = [mem EXCEPT !.last = "executor",
                   !.evidence = [NoEvidence EXCEPT !.work = works + 1, !.mutated = m, !.expanded = x]]
  BY DEF Work, Save
<1>2. /\ pc = "work" /\ pc \notin {"idle", "judged"} /\ disk' = mem' /\ pc' = "gate"
      /\ works' = works + 1 /\ UNCHANGED Files
      /\ facts' = facts /\ answer' = answer /\ calls' = calls
  BY DEF Work, Save, Local
<1>3. Types /\ InStep
  BY DEF IInv
<1>4. /\ mem.status = "in_progress" /\ mem.attempts = disk.attempts /\ mem.rev = disk.rev
      /\ mem \in Records
  BY <1>2, Running
<1> DEFINE e == [NoEvidence EXCEPT !.work = works + 1, !.mutated = m, !.expanded = x]
<1>5. e \in Windows /\ e.remote = NoRemote
  <2>1. works + 1 \in Nat
    BY <1>3 DEF Types
  <2> QED BY <2>1 DEF Windows, NoEvidence, NoRemote
<1> HIDE DEF e
<1>6. /\ mem' \in Records /\ mem'.status = "in_progress" /\ mem'.attempts = mem.attempts
      /\ mem'.rev = mem.rev /\ mem'.evidence = e
  <2>1. mem' = [mem EXCEPT !.last = "executor", !.evidence = e] /\ "executor" \in Notes
    BY <1>1 DEF e, Notes
  <2> QED BY <1>4, <1>5, <2>1 DEF Records
<1>7. Types'
  <2>1. works' \in Nat
    BY <1>2, <1>3 DEF Types
  <2> QED BY <1>2, <1>3, <1>6, <2>1 DEF Types, Points, Files
<1>8. InStep' /\ RemoteOfWindow' /\ AnswersAreSettled' /\ DoneIsFounded'
  BY <1>2, <1>5, <1>6
     DEF InStep, RemoteOfWindow, OfWindow, AnswersAreSettled, Asking, DoneIsFounded, Stated, HasFacts
<1>9. RepairsAreQuoted' /\ SpentAttemptsStand'
  BY <1>2, <1>4, <1>6, QuietStep
<1> QED BY <1>7, <1>8, <1>9 DEF IInv

(* The facts both verifiers are given are the record's.                    *)
LEMMA BuildEvidenceStep ==
    ASSUME IInv, BuildEvidence
    PROVE  IInv'
<1>1. PICK remote \in Remotes :
         /\ mem' = [mem EXCEPT !.evidence = [mem.evidence EXCEPT !.remote = remote]]
         /\ facts' = [evidence |-> [mem.evidence EXCEPT !.remote = remote], rev |-> mem.rev]
  BY DEF BuildEvidence
<1>2. /\ pc = "gate" /\ pc \notin {"idle", "judged"} /\ pc' = "ask task"
      /\ disk' = disk /\ UNCHANGED Files /\ answer' = NoVerdict
      /\ works' = works /\ calls' = calls
  BY Places DEF BuildEvidence
<1>3. Types /\ InStep /\ RemoteOfWindow
  BY DEF IInv
<1>4. /\ mem.status = "in_progress" /\ disk.status = "in_progress"
      /\ mem.attempts = disk.attempts /\ mem.rev = disk.rev
      /\ mem.rev \in 0..MaxRevs /\ mem \in Records
  BY <1>2, Running
<1> DEFINE e == [mem.evidence EXCEPT !.remote = remote]
<1>5. e \in Windows /\ OfWindow(e)
  <2>1. mem.evidence \in Windows /\ mem.evidence.work \in Nat
    BY <1>4 DEF Records, Windows
  <2>2. /\ remote \in {"none", "right", "wrong"} \X Nat
        /\ remote # NoRemote => remote[2] = mem.evidence.work
    <3>1. CASE remote = NoRemote
      BY <3>1 DEF NoRemote
    <3>2. CASE remote \in {"right", "wrong"} \X {mem.evidence.work}
      BY <2>1, <3>2
    <3>3. CASE remote = mem.evidence.remote
      BY <1>3, <2>1, <3>3 DEF Windows, RemoteOfWindow, OfWindow
    <3> QED BY <1>1, <3>1, <3>2, <3>3 DEF Remotes
  <2>3. e \in Windows /\ e.remote = remote /\ e.work = mem.evidence.work
    BY <2>1, <2>2 DEF Windows
  <2> QED BY <2>2, <2>3 DEF OfWindow
<1>6. mem' = [mem EXCEPT !.evidence = e] /\ facts' = [evidence |-> e, rev |-> mem.rev]
  BY <1>1
<1> HIDE DEF e
<1>7. /\ mem' \in Records /\ mem'.status = "in_progress" /\ mem'.attempts = mem.attempts
      /\ mem'.rev = mem.rev /\ mem'.evidence = e
  BY <1>4, <1>5, <1>6 DEF Records
<1>8. Types'
  BY <1>2, <1>3, <1>4, <1>5, <1>6, <1>7, Forgotten DEF Types, Points, Files, Asking
<1>9. InStep' /\ RemoteOfWindow' /\ DoneIsFounded'
  BY <1>2, <1>3, <1>4, <1>5, <1>7 DEF InStep, RemoteOfWindow, DoneIsFounded, Stated, HasFacts
<1>10. AnswersAreSettled'
  <2>1. /\ facts'.evidence = mem'.evidence /\ facts'.rev = mem'.rev
        /\ \A r \in Roles : answer'[r] = "none" /\ pc' # Settles[r]
    BY <1>2, <1>6, <1>7, Places DEF NoVerdict
  <2> QED BY <1>2, <2>1 DEF AnswersAreSettled
<1>11. RepairsAreQuoted' /\ SpentAttemptsStand'
  BY <1>2, QuietStep
<1> QED BY <1>8, <1>9, <1>10, <1>11 DEF IInv

(* A step that only notes something, reads run.json again or is amended.   *)
LEMMA PlainStep ==
    ASSUME IInv, NotImplemented \/ Waits \/ Enter \/ Crash
    PROVE  IInv'
<1>1. /\ Types /\ InStep /\ RemoteOfWindow /\ AnswersAreSettled /\ DoneIsFounded
      /\ RepairsAreQuoted /\ SpentAttemptsStand
  BY DEF IInv
<1>2. UNCHANGED Files /\ works' = works /\ calls' \in Nat
  BY <1>1 DEF NotImplemented, Waits, Enter, Crash, Types
<1>3. facts' \in [evidence : Windows, rev : 0..MaxRevs] /\ answer' \in Verdicts
  BY <1>1, Forgotten DEF NotImplemented, Waits, Enter, Crash, Local, Forget, Types
<1>4. /\ pc' \in {"idle", "work", "gate"} /\ disk.status = "in_progress"
      /\ disk' = mem' /\ mem' \in Records
      /\ mem'.status = "in_progress" /\ mem'.attempts = disk.attempts /\ mem'.rev = disk.rev
      /\ OfWindow(mem'.evidence)
  <2>1. CASE NotImplemented \/ Waits
    <3>1. /\ pc \notin {"idle", "judged"} /\ pc' = "idle"
          /\ mem' = [mem EXCEPT !.last = "execution"] /\ disk' = mem' /\ "execution" \in Notes
      BY <2>1 DEF NotImplemented, Waits, Save, Notes
    <3>2. /\ mem.status = "in_progress" /\ disk.status = "in_progress"
          /\ mem.attempts = disk.attempts /\ mem.rev = disk.rev /\ mem \in Records
      BY <3>1, Running
    <3>3. /\ mem' \in Records /\ mem'.status = mem.status /\ mem'.attempts = mem.attempts
          /\ mem'.rev = mem.rev /\ mem'.evidence = mem.evidence
      BY <3>1, <3>2 DEF Records
    <3> QED BY <1>1, <3>1, <3>2, <3>3 DEF RemoteOfWindow
  <2>2. CASE Enter \/ Crash
    <3>1. mem' = disk /\ disk' = disk /\ pc' \in {"idle", "work", "gate"}
      BY <2>2 DEF Enter, Crash
    <3>2. disk.status = "in_progress"
      BY <1>1, <2>2 DEF Enter, Crash, InStep, Types, Records
    <3> QED BY <1>1, <3>1, <3>2 DEF Types, RemoteOfWindow
  <2> QED BY <2>1, <2>2
<1>5. Types'
  BY <1>1, <1>2, <1>3, <1>4 DEF Types, Points, Files
<1>6. InStep' /\ RemoteOfWindow' /\ AnswersAreSettled' /\ DoneIsFounded'
  BY <1>4
     DEF InStep, RemoteOfWindow, OfWindow, AnswersAreSettled, Asking, DoneIsFounded, Stated, HasFacts
<1>7. RepairsAreQuoted' /\ SpentAttemptsStand'
  BY <1>2, <1>4, QuietStep
<1> QED BY <1>5, <1>6, <1>7 DEF IInv

(* An amendment opens a new budget: no attempt of its revision is spent.   *)
LEMMA AmendStep ==
    ASSUME IInv, Amend
    PROVE  IInv'
<1>1. /\ Types /\ InStep /\ RemoteOfWindow /\ AnswersAreSettled /\ DoneIsFounded
      /\ RepairsAreQuoted /\ SpentAttemptsStand
  BY DEF IInv
<1>2. /\ pc = "idle" /\ pc' = "idle" /\ disk.status # "done" /\ disk.rev < MaxRevs
      /\ mem' = [disk EXCEPT !.rev = @ + 1, !.attempts = 0, !.verdict = NoVerdict, !.last = "amendment"]
      /\ disk' = mem'
      /\ art' = art /\ filed' = filed /\ repair' = repair
      /\ facts' = facts /\ answer' = answer /\ works' = works /\ calls' = calls
  BY DEF Amend, Save, Files, Local
<1>3. /\ mem' \in Records /\ mem'.status = "in_progress" /\ mem'.attempts = 0
      /\ mem'.evidence = disk.evidence
  <2>1. /\ disk \in Records /\ disk.rev + 1 \in 0..MaxRevs /\ 0 \in 0..MaxRepairs
        /\ disk.status = "in_progress"
    BY <1>1, <1>2, BoundAssumption DEF Types, Records
  <2>2. NoVerdict \in Verdicts /\ "amendment" \in Notes
    BY Forgotten DEF Notes
  <2> QED BY <1>2, <2>1, <2>2 DEF Records
<1>4. Types'
  BY <1>1, <1>2, <1>3 DEF Types
<1>5. InStep' /\ RemoteOfWindow' /\ AnswersAreSettled' /\ DoneIsFounded'
  BY <1>1, <1>2, <1>3
     DEF InStep, RemoteOfWindow, OfWindow, AnswersAreSettled, Asking, DoneIsFounded, Stated, HasFacts
<1>6. RepairsAreQuoted' /\ SpentAttemptsStand'
  BY <1>1, <1>2, <1>3 DEF RepairsAreQuoted, Failing, Quotes, SpentAttemptsStand
<1> QED BY <1>4, <1>5, <1>6 DEF IInv

(* Before the first invocation nothing is recorded and nothing is kept.    *)
LEMMA InitInv ==
    ASSUME Init PROVE IInv
<1>1. Record \in Records
  BY BoundAssumption, Forgotten DEF Record, Records, Windows, NoEvidence, NoRemote, Notes
<1>2. Nothing \in [report : ReportFiles, envelope : EnvelopeFiles]
  BY AtMostOneFile DEF Nothing, ReportFiles, EnvelopeFiles
<1>3. Types
  BY <1>1, <1>2, Forgotten, AtMostOneFile DEF Init, Types, Points
<1>4. /\ InStep /\ RemoteOfWindow /\ AnswersAreSettled /\ DoneIsFounded
      /\ RepairsAreQuoted /\ SpentAttemptsStand
  BY BoundAssumption
     DEF Init, Record, NoEvidence, InStep, RemoteOfWindow, OfWindow, AnswersAreSettled, Asking,
         DoneIsFounded, Stated, HasFacts, RepairsAreQuoted, Failing, SpentAttemptsStand
<1> QED BY <1>3, <1>4 DEF IInv
-----------------------------------------------------------------------------
(* Theorem: the inductive invariant holds, whatever verifiers write and    *)
(* wherever the invocation waits or dies.                                  *)
THEOREM Inductive == Spec => []IInv
<1>1. Init => IInv
  BY InitInv
<1>2. IInv /\ [Next]_vars => IInv'
  <2> SUFFICES ASSUME IInv, [Next]_vars
               PROVE  IInv'
    OBVIOUS
  <2>1. CASE NotImplemented \/ Waits \/ Enter \/ Crash
    BY <2>1, PlainStep
  <2>2. CASE Work
    BY <2>2, WorkStep
  <2>3. CASE BuildEvidence
    BY <2>3, BuildEvidenceStep
  <2>4. CASE \E role \in Roles : AskReport(role) \/ AskEnvelope(role)
    BY <2>4, AskReportStep, AskEnvelopeStep
  <2>5. CASE RecordVerdicts
    BY <2>5, RecordVerdictsStep
  <2>6. CASE SaveVerdicts
    BY <2>6, SaveVerdictsStep
  <2>7. CASE WriteRepairReport
    BY <2>7, WriteRepairReportStep
  <2>8. CASE BeginRepair
    BY <2>8, BeginRepairStep
  <2>9. CASE Amend
    BY <2>9, AmendStep
  <2>10. CASE UNCHANGED vars
    <3>1. /\ disk' = disk /\ mem' = mem /\ art' = art /\ filed' = filed /\ repair' = repair
          /\ pc' = pc /\ facts' = facts /\ answer' = answer /\ works' = works /\ calls' = calls
      BY <2>10 DEF vars
    <3>2. Types' /\ InStep' /\ RemoteOfWindow'
      BY <3>1 DEF IInv, Types, InStep, RemoteOfWindow, OfWindow
    <3>3. AnswersAreSettled'
      BY <3>1 DEF IInv, AnswersAreSettled, Settled, Gate
    <3>4. DoneIsFounded'
      BY <3>1 DEF IInv, DoneIsFounded, Stated, At, States, HasFacts
    <3>5. RepairsAreQuoted' /\ SpentAttemptsStand'
      BY <3>1 DEF IInv, RepairsAreQuoted, Failing, Failed, Quotes, Gate, SpentAttemptsStand
    <3> QED BY <3>2, <3>3, <3>4, <3>5 DEF IInv
  <2> QED BY <2>1, <2>2, <2>3, <2>4, <2>5, <2>6, <2>7, <2>8, <2>9, <2>10 DEF Next
<1> QED BY <1>1, <1>2, PTL DEF Spec

(* Theorem: a done task has its two PASS stated in the directory of its    *)
(* gate, by reports that name the amendment which governs                  *)
(* (orchestrate_verification, settle_verifier_verdict).                    *)
THEOREM CompletionStated == Spec => []CompletionIsStated
<1>1. IInv => CompletionIsStated
  BY DEF IInv, DoneIsFounded, Stated, CompletionIsStated
<1> QED BY <1>1, Inductive, PTL

(* Theorem: a done task was not failed by the runner's own facts, and its  *)
(* remote observation is of its last window (remote_evidence_failure,      *)
(* current_run_mutation_reason).                                           *)
THEOREM CompletionFounded == Spec => []CompletionHasFacts
<1>1. IInv => CompletionHasFacts
  BY DEF IInv, DoneIsFounded, HasFacts, CompletionHasFacts
<1> QED BY <1>1, Inductive, PTL

(* Theorem: the attempts stay in the budget, and each one that was spent   *)
(* is explained by files nothing replaces (begin_repair,                   *)
(* write_repair_report).                                                   *)
THEOREM AttemptsExplained == Spec => []AttemptsAreExplained
<1>1. IInv => AttemptsAreExplained
  <2> SUFFICES ASSUME IInv PROVE AttemptsAreExplained
    OBVIOUS
  <2>1. Types /\ SpentAttemptsStand
    BY DEF IInv
  <2>2. ASSUME NEW g \in Gates, NEW r \in Roles
        PROVE  Len(art[g][r].report) <= 1 /\ Len(art[g][r].envelope) <= 1
    <3>1. art[g][r] \in [report : ReportFiles, envelope : EnvelopeFiles]
      BY <2>1 DEF Types
    <3> QED BY <3>1, AtMostOneFile DEF ReportFiles, EnvelopeFiles
  <2>3. TypeOK
    BY <2>1, <2>2 DEF Types, Records, Verdicts, TypeOK
  <2> QED BY <2>1, <2>3 DEF AttemptsAreExplained
<1> QED BY <1>1, Inductive, PTL
=============================================================================
