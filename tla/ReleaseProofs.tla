--------------------------- MODULE ReleaseProofs ---------------------------
(***************************************************************************)
(* Theorems about what lets work out: PostTask, the lifecycle that closes  *)
(* a task and releases a run, and Promotion, the checks that promote a     *)
(* core commit and the evidence that is accepted for it.  They hold for    *)
(* every set of tasks, requests, commits and trees, and every bound.       *)
(***************************************************************************)
EXTENDS PostTask, Promotion, FiniteSetTheorems, TLAPS

-----------------------------------------------------------------------------
(*                          The post-task lifecycle                        *)

(* What stage 13 looked for: the outputs and, where it was asked for, a    *)
(* clean workspace.                                                        *)
GraphInPlace == outputs /\ (req.integration.tracked_empty => "workspace" \notin dirty)

(* What a verdict that is computed and not yet recorded stands for.  A     *)
(* stage whose PASS is reused is not computed again.                       *)
PendingIsFounded ==
    pending # NoVerdict =>
        /\ pc \in Reusable => stages[pc] # "PASS"
        /\ pc = 13 /\ pending = "PASS" => GraphInPlace
        /\ pc = 15 /\ pending = "PASS" => req.approved

(* What this call recorded itself on its way to the stage it is at.        *)
CallIsFounded ==
    /\ pc # Idle => outcome = NoOutcome
    /\ pc > 13 => 13 \in fresh /\ GraphInPlace
    /\ pc > 15 => 15 \in fresh /\ (stages[15] = "PASS" => req.approved)

(* The inductive invariant.                                                *)
IInv ==
    /\ TailIsSound
    /\ ApprovalNotInherited
    /\ PendingIsFounded
    /\ CallIsFounded
-----------------------------------------------------------------------------
(* Every verdict a stage computes is one of the three.                     *)
LEMMA VerdictTypes ==
    /\ \A exit \in Exits, present \in BOOLEAN, new \in SUBSET Lines :
          RefreshVerdict(exit, present, new) \in Verdicts
    /\ GraphVerdict \in Verdicts
    /\ \A names, exits : CheckVerdict(names, exits) \in Verdicts
BY DEF RefreshVerdict, GraphVerdict, CheckVerdict, Verdicts

(* What a call that has not returned says.                                 *)
LEMMA NoOutcomeFields == NoOutcome.status = "none" /\ NoOutcome.would_commit = FALSE
BY DEF NoOutcome

(* A graph that passes the look of stage 13 is in place.                   *)
LEMMA GraphVerdictFounded == GraphVerdict = "PASS" => GraphInPlace
BY DEF GraphVerdict, GraphInPlace

(* The stages in front of the one after a stage are that stage and those   *)
(* in front of it.                                                         *)
LEMMA StageOrder ==
    /\ 0 \notin Stages
    /\ \A p \in Stages : \A s \in Stages : s < p + 1 => s < p \/ s = p
    /\ \A p \in Stages \ {16} : p + 1 \in Stages
    /\ \A s \in Stages : ~(s < 10)
BY DEF Stages

(* A judgement is a verdict and changes nothing that is recorded.  The     *)
(* stage it is for has no recorded PASS that a call would reuse; what is   *)
(* left to show of an action that judges is what the verdict stands for.   *)
LEMMA JudgePreserves ==
    ASSUME IInv, NEW v \in Verdicts, NEW s \in Stages, At(s), Judge(v),
           code' \in 0..MaxRev, docs' \in 0..MaxRev, verified' \subseteq 0..MaxRev,
           outputs' \in BOOLEAN, dirty' \subseteq Lines,
           s > 12 => UNCHANGED <<outputs, dirty>>,
           s = 13 /\ v = "PASS" => GraphInPlace,
           s = 15 /\ v = "PASS" => req.approved
    PROVE  IInv'
<1> USE DEF IInv, At, Judge
<1>1. pc = s /\ pc # Idle /\ pending' = v /\ UNCHANGED <<pc, req, outcome, calls, done, stages, fresh>>
  BY StageOrder DEF Idle
<1>2. TypeOK'
  BY <1>1 DEF TailIsSound, TypeOK
<1>3. StagesReachedInOrder'
  BY <1>1 DEF TailIsSound, StagesReachedInOrder
<1>4. CompleteHasOutputs' /\ ApprovalNotInherited'
  BY <1>1 DEF CompleteHasOutputs, ApprovalNotInherited, CallIsFounded, NoOutcome
<1>5. PendingIsFounded'
  BY <1>1 DEF PendingIsFounded, GraphInPlace, Recorded
<1>6. CallIsFounded'
  BY <1>1 DEF CallIsFounded, GraphInPlace, TailIsSound, TypeOK, Stages
<1> QED BY <1>2, <1>3, <1>4, <1>5, <1>6 DEF TailIsSound

(* A call that ends in an exception has recorded nothing and promises      *)
(* nothing.                                                                *)
LEMMA RaisePreserves ==
    ASSUME IInv, Raise, req' \in Callers, calls' \in 0..MaxCalls,
           pending = NoVerdict
    PROVE  IInv'
<1> USE DEF IInv, TailIsSound, Raise, Finish, run, tree, history
<1>1. TypeOK'
  BY DEF TypeOK
<1>2. StagesReachedInOrder' /\ CompleteHasOutputs' /\ ApprovalNotInherited'
  BY DEF StagesReachedInOrder, CompleteHasOutputs, ApprovalNotInherited
<1>3. PendingIsFounded' /\ CallIsFounded'
  BY DEF PendingIsFounded, CallIsFounded, Idle
<1> QED BY <1>1, <1>2, <1>3

(* Recording a verdict: the call goes on, or ends with what it has         *)
(* recorded and seen itself.                                               *)
LEMMA RecordPreserves == ASSUME IInv, Record PROVE IInv'
<1> USE DEF IInv, TailIsSound
<1> DEFINE goesOn == pc' = pc + 1 /\ UNCHANGED outcome
           stops == pc' = Idle /\ outcome'.status \in {"gate-pending", "blocked"}
                    /\ outcome'.would_commit = FALSE
           completes == /\ pc' = Idle /\ outcome'.status = "complete"
                        /\ outcome'.would_commit \in BOOLEAN
                        /\ outcome'.would_commit => pc = 16 /\ WouldCommit
                        /\ pc > 13 \/ (pc = 13 /\ pending = "PASS")
<1>1. /\ pending \in Verdicts /\ pc \in Stages
      /\ pending' = NoVerdict /\ stages' = [stages EXCEPT ![pc] = pending]
      /\ fresh' = fresh \cup {pc}
      /\ UNCHANGED <<done, code, docs, outputs, dirty, req, calls, verified>>
  BY DEF Record, TypeOK, tree
<1>2. \/ goesOn /\ pc # 16 /\ (pc # 15 => pending = "PASS")
      \/ stops
      \/ completes
  <2> HIDE DEF IInv, TailIsSound
  <2>1. CASE pc \in 10..14 /\ pending # "PASS"
              /\ Finish(IF pc = 11 /\ pending = "BLOCKED" THEN "gate-pending" ELSE "blocked", FALSE)
    BY <2>1 DEF Finish
  <2>2. CASE pc = 13 /\ pending = "PASS" /\ Finish("complete", FALSE)
    BY <2>2 DEF Finish
  <2>3. CASE pc = 16 /\ Finish(IF WouldCommit THEN "complete" ELSE "gate-pending", WouldCommit)
    <3>1. WouldCommit \in BOOLEAN
      BY DEF WouldCommit
    <3>2. CASE WouldCommit
      BY <2>3, <3>2 DEF Finish
    <3>3. CASE ~WouldCommit
      BY <2>3, <3>1, <3>3 DEF Finish
    <3> QED BY <3>2, <3>3
  <2>4. CASE pc \in 10..15 /\ (pc # 15 => pending = "PASS") /\ pc' = pc + 1 /\ UNCHANGED outcome
    BY <2>4
  <2> QED BY <2>1, <2>2, <2>3, <2>4 DEF Record
<1>3. TypeOK'
  <2>1. pc' \in Stages \cup {Idle}
    BY <1>1, <1>2, StageOrder
  <2>2. outcome'.status \in {"none", "error", "gate-pending", "blocked", "complete"}
        /\ outcome'.would_commit \in BOOLEAN
    BY <1>2 DEF TypeOK
  <2> QED BY <1>1, <2>1, <2>2 DEF TypeOK
<1>4. StagesReachedInOrder'
  <2>1. CASE goesOn /\ pc # 16 /\ (pc # 15 => pending = "PASS")
    BY <1>1, <2>1, StageOrder DEF StagesReachedInOrder, TypeOK, Idle, Stages
  <2>2. CASE stops \/ completes
    BY <2>2 DEF StagesReachedInOrder
  <2> QED BY <1>2, <2>1, <2>2
<1>5. pc > 13 \/ (pc = 13 /\ pending = "PASS") => GraphInPlace /\ GraphInPlace'
  BY <1>1 DEF CallIsFounded, PendingIsFounded, GraphInPlace, NoVerdict
<1>6. CompleteHasOutputs'
  <2>1. CASE goesOn
    BY <2>1, <1>1 DEF CallIsFounded, NoOutcome, CompleteHasOutputs, Idle, Stages
  <2>2. CASE stops
    BY <2>2 DEF CompleteHasOutputs
  <2>3. CASE completes
    BY <2>3, <1>5 DEF CompleteHasOutputs, GraphInPlace
  <2> QED BY <1>2, <2>1, <2>2, <2>3
<1>7. ApprovalNotInherited'
  <2>1. CASE goesOn
    BY <2>1, <1>1 DEF CallIsFounded, NoOutcome, ApprovalNotInherited, Idle, Stages
  <2>2. CASE stops
    BY <2>2 DEF ApprovalNotInherited
  <2>3. CASE completes /\ outcome'.would_commit
    <3>1. /\ pc = 16 /\ req.commit /\ stages[15] = "PASS" /\ stages[14] = "PASS"
          /\ 13 \in fresh /\ 15 \in fresh /\ req.approved
      BY <2>3 DEF WouldCommit, CallIsFounded
    <3> QED BY <3>1, <1>1 DEF ApprovalNotInherited, TypeOK, Stages
  <2> QED BY <1>2, <2>1, <2>2, <2>3 DEF ApprovalNotInherited
<1>8. PendingIsFounded'
  BY <1>1 DEF PendingIsFounded
<1>9. CallIsFounded'
  <2>1. CASE goesOn /\ pc # 16 /\ (pc # 15 => pending = "PASS")
    <3>1. pc' # Idle /\ outcome' = NoOutcome
      BY <1>1, <2>1 DEF CallIsFounded, Idle, Stages
    <3>2. pc' > 13 => 13 \in fresh' /\ GraphInPlace'
      BY <1>1, <1>5, <2>1 DEF CallIsFounded, Stages
    <3>3. pc' > 15 => pc = 15
      BY <1>1, <2>1 DEF Stages
    <3>4. pc = 15 => 15 \in fresh' /\ stages'[15] = pending
      BY <1>1 DEF TypeOK
    <3> QED BY <1>1, <3>1, <3>2, <3>3, <3>4 DEF CallIsFounded, PendingIsFounded, NoVerdict
  <2>2. CASE stops \/ completes
    BY <2>2 DEF CallIsFounded, Idle
  <2> QED BY <1>2, <2>1, <2>2
<1> QED BY <1>3, <1>4, <1>6, <1>7, <1>8, <1>9

-----------------------------------------------------------------------------
(* The inductive invariant holds: what a call promises it has recorded and *)
(* seen itself, however often it was interrupted and made again.           *)
THEOREM Inductive == Spec => []IInv
<1>1. Init => IInv
  <2> SUFFICES ASSUME Init PROVE IInv
    OBVIOUS
  <2>1. TypeOK
    <3>1. 0 \in 0..MaxRev /\ 0 \in 0..MaxCalls
      BY PostTaskAssumption
    <3>2. outcome.status = "none" /\ outcome.would_commit = FALSE
      BY NoOutcomeFields DEF Init
    <3> QED BY <3>1, <3>2, CallersAssumption DEF Init, TypeOK
  <2>2. StagesReachedInOrder /\ CompleteHasOutputs /\ ApprovalNotInherited
    BY DEF Init, StagesReachedInOrder, CompleteHasOutputs, ApprovalNotInherited, NoOutcome
  <2>3. PendingIsFounded /\ CallIsFounded
    BY DEF Init, PendingIsFounded, CallIsFounded, Idle
  <2> QED BY <2>1, <2>2, <2>3 DEF IInv, TailIsSound
<1>2. IInv /\ [Next]_vars => IInv'
  <2> SUFFICES ASSUME IInv, [Next]_vars PROVE IInv'
    OBVIOUS
  <2>0. TypeOK /\ IInv
    BY DEF IInv, TailIsSound
  <2>1. ASSUME NEW r \in Callers, Call(r) PROVE IInv'
    <3> USE <2>1, PostTaskAssumption DEF Call, tree, IInv, TailIsSound
    <3>1. CASE r.selected \subseteq done
      <4>1. TypeOK'
        <5>1. pc' \in Stages /\ calls' \in 0..MaxCalls /\ fresh' \subseteq Stages
          BY <3>1 DEF TypeOK, Stages
        <5>2. outcome'.status = "none" /\ outcome'.would_commit = FALSE
          BY <3>1, NoOutcomeFields
        <5>3. pending' = NoVerdict /\ req' \in Callers
          BY DEF TypeOK
        <5> QED BY <3>1, <5>1, <5>2, <5>3 DEF TypeOK
      <4>2. StagesReachedInOrder' /\ CompleteHasOutputs' /\ ApprovalNotInherited'
        BY <3>1, StageOrder DEF StagesReachedInOrder, CompleteHasOutputs, ApprovalNotInherited, NoOutcome
      <4>3. PendingIsFounded' /\ CallIsFounded'
        BY <3>1 DEF PendingIsFounded, CallIsFounded, TypeOK
      <4> QED BY <4>1, <4>2, <4>3
    <3>2. CASE ~(r.selected \subseteq done)
      <4>1. TypeOK'
        <5>1. outcome'.status = "gate-pending" /\ outcome'.would_commit = FALSE
          BY <3>2 DEF Finish
        <5>2. calls' \in 0..MaxCalls /\ fresh' \subseteq Stages /\ pc' = Idle
          BY <3>2 DEF TypeOK, Stages, Finish
        <5>3. pending' = NoVerdict /\ req' \in Callers
          BY DEF TypeOK
        <5>4. stages' \in [Stages -> Verdicts \cup {NoVerdict}]
          BY <3>2 DEF TypeOK, Verdicts
        <5> QED BY <3>2, <5>1, <5>2, <5>3, <5>4 DEF TypeOK
      <4>2. StagesReachedInOrder' /\ CompleteHasOutputs' /\ ApprovalNotInherited'
        BY <3>2 DEF StagesReachedInOrder, CompleteHasOutputs, ApprovalNotInherited, Finish
      <4>3. PendingIsFounded' /\ CallIsFounded'
        BY <3>2 DEF PendingIsFounded, CallIsFounded, TypeOK, Finish, Idle
      <4> QED BY <4>1, <4>2, <4>3
    <3> QED BY <3>1, <3>2
  <2>2. ASSUME NEW r \in Callers, ConfigError(r) PROVE IInv'
    <3>1. calls' \in 0..MaxCalls /\ pending = NoVerdict
      BY <2>0, <2>2, PostTaskAssumption DEF ConfigError, TypeOK
    <3> QED BY <2>2, <3>1, RaisePreserves DEF ConfigError
  <2>3. CASE Reuse
    <3> USE <2>3 DEF IInv, TailIsSound, Reuse, run, tree, history, Recorded, Reusable
    <3>1. pc' \in Stages /\ pc \in Stages /\ pc' = pc + 1 /\ stages[pc] = "PASS"
      BY DEF Stages
    <3>2. TypeOK'
      BY <3>1, StageOrder DEF TypeOK, Idle
    <3>3. StagesReachedInOrder'
      BY <3>1, StageOrder DEF StagesReachedInOrder, Idle
    <3>4. CompleteHasOutputs' /\ ApprovalNotInherited'
      BY DEF CompleteHasOutputs, ApprovalNotInherited
    <3>5. PendingIsFounded' /\ CallIsFounded'
      BY <3>1, StageOrder DEF PendingIsFounded, CallIsFounded, GraphInPlace, Idle
    <3> QED BY <3>2, <3>3, <3>4, <3>5
  <2>4. CASE Document
    <3>1. PICK v \in {"PASS", "BLOCKED"} : Judge(v)
      BY <2>4 DEF Document
    <3>2. docs' \in 0..MaxRev
      BY <2>0, <2>4, PostTaskAssumption DEF Document, TypeOK
    <3>3. At(10) /\ v \in Verdicts /\ 10 \in Stages /\ UNCHANGED <<code, outputs, dirty, verified>>
      BY <2>4 DEF Document, Verdicts, Stages
    <3>4. /\ code' \in 0..MaxRev /\ docs' \in 0..MaxRev /\ verified' \subseteq 0..MaxRev
          /\ outputs' \in BOOLEAN /\ dirty' \subseteq Lines
      BY <2>0, <3>2, <3>3 DEF TypeOK
    <3> QED BY <2>0, <3>1, <3>3, <3>4, JudgePreserves
  <2>5. CASE AuditNotIndependent
    BY <2>0, <2>5, RaisePreserves DEF AuditNotIndependent, TypeOK
  <2>6. CASE Audit
    <3>1. CASE \E v \in Verdicts : Judge(v) /\ UNCHANGED <<tree, verified>>
      <4>1. PICK v \in Verdicts : Judge(v) /\ UNCHANGED <<tree, verified>>
        BY <3>1
      <4>2. At(11) /\ 11 \in Stages /\ UNCHANGED <<code, docs, outputs, dirty, verified>>
        BY <2>6, <4>1 DEF Audit, Stages, tree
      <4>3. /\ code' \in 0..MaxRev /\ docs' \in 0..MaxRev /\ verified' \subseteq 0..MaxRev
            /\ outputs' \in BOOLEAN /\ dirty' \subseteq Lines
        BY <2>0, <4>2 DEF TypeOK
      <4> QED BY <2>0, <4>1, <4>2, <4>3, JudgePreserves
    <3>2. CASE Raise /\ UNCHANGED <<req, calls>>
      BY <2>0, <2>6, <3>2, RaisePreserves DEF Audit, At, TypeOK
    <3> QED BY <2>6, <3>1, <3>2 DEF Audit
  <2>7. CASE RefuseRefresh
    <3>1. /\ At(12) /\ Judge("BLOCKED") /\ "BLOCKED" \in Verdicts /\ 12 \in Stages
          /\ UNCHANGED <<code, docs, outputs, dirty, verified>>
      BY <2>7 DEF RefuseRefresh, tree, Verdicts, Stages
    <3>2. /\ code' \in 0..MaxRev /\ docs' \in 0..MaxRev /\ verified' \subseteq 0..MaxRev
          /\ outputs' \in BOOLEAN /\ dirty' \subseteq Lines
      BY <2>0, <3>1 DEF TypeOK
    <3> QED BY <2>0, <3>1, <3>2, JudgePreserves
  <2>8. CASE Refresh
    <3>1. PICK exit \in Exits :
             /\ IF exit = "unlaunched" THEN UNCHANGED <<outputs, dirty>>
                ELSE outputs' \in BOOLEAN /\ dirty' \in {d \in SUBSET Lines : dirty \subseteq d}
             /\ Judge(RefreshVerdict(exit, outputs', dirty' \ dirty))
      BY <2>8 DEF Refresh
    <3>2. outputs' \in BOOLEAN /\ dirty' \subseteq Lines
      BY <2>0, <3>1 DEF TypeOK
    <3>3. RefreshVerdict(exit, outputs', dirty' \ dirty) \in Verdicts
      BY <3>2, VerdictTypes
    <3>4. At(12) /\ 12 \in Stages /\ UNCHANGED <<code, docs, verified>>
      BY <2>8 DEF Refresh, Stages
    <3>5. /\ code' \in 0..MaxRev /\ docs' \in 0..MaxRev /\ verified' \subseteq 0..MaxRev
          /\ outputs' \in BOOLEAN /\ dirty' \subseteq Lines
      BY <2>0, <3>2, <3>4 DEF TypeOK
    <3> QED BY <2>0, <3>1, <3>3, <3>4, <3>5, JudgePreserves
  <2>9. CASE VerifyGraph
    <3>1. /\ At(13) /\ Judge(GraphVerdict) /\ 13 \in Stages
          /\ UNCHANGED <<code, docs, outputs, dirty, verified>>
      BY <2>9 DEF VerifyGraph, tree, Stages
    <3>2. /\ code' \in 0..MaxRev /\ docs' \in 0..MaxRev /\ verified' \subseteq 0..MaxRev
          /\ outputs' \in BOOLEAN /\ dirty' \subseteq Lines
      BY <2>0, <3>1 DEF TypeOK
    <3> QED BY <2>0, <3>1, <3>2, VerdictTypes, GraphVerdictFounded, JudgePreserves
  <2>10. CASE FinalVerification
    <3>1. PICK v : v \in Verdicts /\ Judge(v) /\ verified' = IF v = "PASS" THEN {code} ELSE verified
      BY <2>10, VerdictTypes DEF FinalVerification, Verdicts
    <3>2. At(14) /\ 14 \in Stages /\ UNCHANGED <<code, docs, outputs, dirty>>
      BY <2>10 DEF FinalVerification, Stages, tree
    <3>3. /\ code' \in 0..MaxRev /\ docs' \in 0..MaxRev /\ verified' \subseteq 0..MaxRev
          /\ outputs' \in BOOLEAN /\ dirty' \subseteq Lines
      BY <2>0, <3>1, <3>2 DEF TypeOK
    <3> QED BY <2>0, <3>1, <3>2, <3>3, JudgePreserves
  <2>11. CASE FinalDiff
    <3> DEFINE v == IF req.approved THEN "PASS" ELSE "BLOCKED"
    <3>1. /\ At(15) /\ Judge(v) /\ 15 \in Stages
          /\ UNCHANGED <<code, docs, outputs, dirty, verified>>
      BY <2>11 DEF FinalDiff, tree, Stages
    <3>2. /\ code' \in 0..MaxRev /\ docs' \in 0..MaxRev /\ verified' \subseteq 0..MaxRev
          /\ outputs' \in BOOLEAN /\ dirty' \subseteq Lines
      BY <2>0, <3>1 DEF TypeOK
    <3>3. v \in Verdicts /\ (v = "PASS" => req.approved)
      BY DEF Verdicts
    <3> HIDE DEF v
    <3> QED BY <2>0, <3>1, <3>2, <3>3, JudgePreserves
  <2>12. CASE PlanRelease
    <3>1. /\ At(16) /\ Judge("PASS") /\ "PASS" \in Verdicts /\ 16 \in Stages
          /\ UNCHANGED <<code, docs, outputs, dirty, verified>>
      BY <2>12 DEF PlanRelease, tree, Verdicts, Stages
    <3>2. /\ code' \in 0..MaxRev /\ docs' \in 0..MaxRev /\ verified' \subseteq 0..MaxRev
          /\ outputs' \in BOOLEAN /\ dirty' \subseteq Lines
      BY <2>0, <3>1 DEF TypeOK
    <3> QED BY <2>0, <3>1, <3>2, JudgePreserves
  <2>13. CASE Record
    BY <2>13, RecordPreserves
  <2>14. CASE Crash
    <3> USE <2>14 DEF IInv, TailIsSound, Crash, run, tree, history
    <3>1. TypeOK'
      BY DEF TypeOK
    <3>2. StagesReachedInOrder' /\ CompleteHasOutputs' /\ ApprovalNotInherited'
      BY DEF StagesReachedInOrder, CompleteHasOutputs, ApprovalNotInherited
    <3>3. PendingIsFounded' /\ CallIsFounded'
      BY DEF PendingIsFounded, CallIsFounded, Idle
    <3> QED BY <3>1, <3>2, <3>3
  <2>15. ASSUME NEW t \in Task, Reopen(t) \/ Redo(t) PROVE IInv'
    <3> USE <2>15, PostTaskAssumption DEF IInv, TailIsSound, Reopen, Redo, tree, history
    <3>1. TypeOK'
      <4>1. done' \subseteq Task /\ code' \in 0..MaxRev
        BY DEF TypeOK
      <4>2. outcome'.status = "none" /\ outcome'.would_commit = FALSE
        BY NoOutcomeFields
      <4> QED BY <4>1, <4>2 DEF TypeOK
    <3>2. StagesReachedInOrder' /\ CompleteHasOutputs' /\ ApprovalNotInherited'
      BY DEF StagesReachedInOrder, CompleteHasOutputs, ApprovalNotInherited, NoOutcome
    <3>3. PendingIsFounded' /\ CallIsFounded'
      BY DEF PendingIsFounded, CallIsFounded, Idle, TypeOK
    <3> QED BY <3>1, <3>2, <3>3
  <2>16. CASE Housekeep
    <3> USE <2>16 DEF IInv, TailIsSound, Housekeep, run, history
    <3>1. TypeOK'
      BY NoOutcomeFields DEF TypeOK
    <3>2. StagesReachedInOrder' /\ CompleteHasOutputs' /\ ApprovalNotInherited'
      BY DEF StagesReachedInOrder, CompleteHasOutputs, ApprovalNotInherited, NoOutcome
    <3>3. PendingIsFounded' /\ CallIsFounded'
      BY DEF PendingIsFounded, CallIsFounded, Idle, TypeOK
    <3> QED BY <3>1, <3>2, <3>3
  <2>17. CASE UNCHANGED vars
    BY <2>17 DEF IInv, TailIsSound, vars, TypeOK, StagesReachedInOrder, CompleteHasOutputs,
                 ApprovalNotInherited, PendingIsFounded, CallIsFounded, GraphInPlace
  <2> QED
    BY <2>1, <2>2, <2>3, <2>4, <2>5, <2>6, <2>7, <2>8, <2>9, <2>10, <2>11,
       <2>12, <2>13, <2>14, <2>15, <2>16, <2>17 DEF Next
<1> QED BY <1>1, <1>2, PTL DEF Spec

(* A caller is at a stage only while the selected tasks are done and the   *)
(* stages before it passed, and a lifecycle that reports complete leaves   *)
(* the Graphify outputs in place (run_post_task_lifecycle).                *)
THEOREM TailSound == Spec => []TailIsSound
<1>1. IInv => TailIsSound
  BY DEF IInv
<1> QED BY <1>1, Inductive, PTL

(* A commit is authorised only by the call that returns it, by its own     *)
(* approval, control and look at the outputs (_RERUN_STAGES of stages.py). *)
THEOREM ApprovalIsOwn == Spec => []ApprovalNotInherited
<1>1. IInv => ApprovalNotInherited
  BY DEF IInv
<1> QED BY <1>1, Inductive, PTL

(* No call, refusal or crash takes a recorded PASS of the audit, the       *)
(* refresh or the final verification back.                                 *)
THEOREM PassesAreKept == Spec => PassedStagesStay
<1> DEFINE kept == \A s \in {11, 12, 14} : stages[s] = "PASS" => stages'[s] = "PASS"
<1>1. IInv /\ [Next]_vars => [kept]_vars
  <2> SUFFICES ASSUME IInv, Next, NEW s \in {11, 12, 14}, stages[s] = "PASS"
               PROVE  stages'[s] = "PASS"
    OBVIOUS
  <2>0. s \in Stages /\ s # 10 /\ s \in Reusable /\ stages \in [Stages -> Verdicts \cup {NoVerdict}]
    BY DEF Stages, Reusable, IInv, TailIsSound, TypeOK
  <2>1. ASSUME NEW r \in Callers, Call(r) \/ ConfigError(r) PROVE stages'[s] = "PASS"
    BY <2>0, <2>1 DEF Call, ConfigError, Raise, run
  <2>2. CASE Record
    <3>1. pc # s
      BY <2>0, <2>2 DEF Record, IInv, PendingIsFounded
    <3> QED BY <2>0, <2>2, <3>1 DEF Record
  <2>3. CASE \/ Reuse \/ Document \/ AuditNotIndependent \/ Audit
             \/ RefuseRefresh \/ Refresh \/ VerifyGraph
             \/ FinalVerification \/ FinalDiff \/ PlanRelease
             \/ Crash \/ Housekeep
             \/ \E t \in Task : Reopen(t) \/ Redo(t)
    <3>1. UNCHANGED stages
      BY <2>3 DEF Reuse, Document, AuditNotIndependent, Audit, RefuseRefresh, Refresh,
                  VerifyGraph, FinalVerification, FinalDiff, PlanRelease, Crash,
                  Housekeep, Reopen, Redo, Judge, Raise, run
    <3> QED BY <3>1
  <2> QED BY <2>1, <2>2, <2>3 DEF Next
<1>2. IInv /\ [Next]_vars => [\A s \in {11, 12, 14} : stages[s] = "PASS" => stages'[s] = "PASS"]_vars
  BY <1>1
<1> QED BY <1>2, Inductive, PTL DEF Spec, PassedStagesStay

-----------------------------------------------------------------------------
(*                            Checks and promotion                         *)

-----------------------------------------------------------------------------
(* The inductive invariant                                                 *)

(* What a check run may be called.                                         *)
RunNames ==
    {LintTypes, Coverage, PromotionCheck}
    \cup ((GateIds \cup SupportedOS) \X (SupportedOS \cup PythonVersions))

(* Check runs.                                                             *)
RunRecords ==
    [name : RunNames, gates : Seq(GateIds), role : Roles, head : Shas \cup Umbrellas,
     core : Shas, conclusion : {None, "success", "failure"}, at : Nat, fin : Nat,
     built : Shas \cup {None}, ran : SUBSET Texts]

(* The values the variables have.                                          *)
Types ==
    /\ content \in Histories
    /\ runs \in Seq(RunRecords) /\ Len(runs) <= MaxRuns
    /\ clock \in 0..MaxClock

(* The ends are numbered as they come, and time stamps never go back.      *)
EndsAreOrdered ==
    /\ \A i \in DOMAIN runs :
          /\ runs[i].at <= clock
          /\ Completed(i) => runs[i].fin \in 1..Finished
          /\ ~Completed(i) => runs[i].fin = 0
    /\ \A i, j \in DOMAIN runs : Completed(i) /\ Completed(j) /\ i # j =>
          /\ runs[i].fin # runs[j].fin
          /\ runs[i].fin < runs[j].fin => runs[i].at <= runs[j].at

(* A job of the core repository is of a clean commit; a job with steps     *)
(* succeeds only on the checkout of its commit.                            *)
IsJob(r) ==
    /\ r.role = "producer" => r.head = r.core /\ content[r.core] \in CleanTrees
    /\ r.role # "promotion" => r.gates # << >>
    /\ r.role # "promotion" /\ r.conclusion = "success" => r.built = r.core
RunsAreJobs == \A i \in DOMAIN runs : IsJob(runs[i])

(* Check runs as pages show them.                                          *)
Views == [i : Nat, conclusion : {None, "success", "failure"}, at : Nat]

(* A view of a run that had ended shows how it ended.                      *)
IsView(g, since) ==
    /\ g.i \in Saved
    /\ g.conclusion # None =>
          Completed(g.i) /\ g.conclusion = runs[g.i].conclusion /\ g.at = runs[g.i].at
    /\ runs[g.i].fin \in 1..since => g.conclusion # None

Seen(i) == \E g \in fetch.got : g.i = i

(* Nothing has been added to the list since its first page.                *)
Unmoved == fetch.total = Cardinality(ListingOf(fetch.sha))

(* While pages are read: what they held are the first places of the list,  *)
(* unless it has grown.  When all are: if nothing is missing, all that had *)
(* ended before was seen.                                                  *)
PagesAreSeen ==
    LET all == ListingOf(fetch.sha)
    IN  /\ fetch.total = None => fetch.next = 1 /\ fetch.read = 0
        /\ fetch.total # None /\ fetch.next # None =>
              /\ fetch.read = fetch.next - 1 /\ fetch.read <= Cardinality(all)
              /\ fetch.total <= Cardinality(all)
              /\ Unmoved => \A i \in all : Place(all, i) < fetch.next => Seen(i)
        /\ fetch.next = None /\ PayloadComplete =>
              \A i \in all : runs[i].fin \in 1..fetch.since => Seen(i)

FetchTypes ==
    /\ fetch \in [job : Nat, sha : Shas, required : {fetch.required}, since : Nat,
                  total : Nat \cup {None}, got : SUBSET Views, read : Nat,
                  next : (Nat \ {0}) \cup {None}]
    /\ fetch.since <= Finished
    /\ fetch.job # 0 =>
          /\ fetch.job \in DOMAIN runs /\ ~Completed(fetch.job)
          /\ runs[fetch.job].role = "promotion"

FetchIsSound ==
    fetch # None => FetchTypes /\ PagesAreSeen /\ \A g \in fetch.got : IsView(g, fetch.since)

Inv == Types /\ EndsAreOrdered /\ RunsAreJobs /\ FetchIsSound

(* Listings                                                                *)

(* Some of the first n numbers are a finite set.                           *)
LEMMA FiniteListing ==
    ASSUME NEW n \in Nat, NEW P \in SUBSET (1..n)
    PROVE  IsFiniteSet(P) /\ Cardinality(P) \in Nat
<1>1. IsFiniteSet(1..n)
  BY FS_Interval
<1> QED BY <1>1, FS_Subset, FS_CardinalityType

(* Each item of a list has a place of its own, and each place its item.    *)
LEMMA Places ==
    ASSUME NEW n \in Nat, NEW P \in SUBSET (1..n)
    PROVE  /\ \A i \in P : Place(P, i) \in 1..Cardinality(P)
           /\ \A i, j \in P : Place(P, i) = Place(P, j) => i = j
           /\ \A k \in 1..Cardinality(P) : \E i \in P : Place(P, i) = k
<1> DEFINE m == Cardinality(P)
           place == [i \in P |-> Place(P, i)]
<1>1. IsFiniteSet(P) /\ m \in Nat
  BY FiniteListing
<1>2. ASSUME NEW i \in P
      PROVE  Place(P, i) \in 1..m
  <2> DEFINE newer == {j \in P : j >= i}
  <2>1. newer \in SUBSET P /\ i \in newer
    <3>1. i \in Nat
      OBVIOUS
    <3> QED BY <3>1
  <2>2. IsFiniteSet(newer) /\ Cardinality(newer) <= m /\ Cardinality(newer) \in Nat
    BY <1>1, <2>1, FS_Subset, FS_CardinalityType
  <2>3. Cardinality(newer) # 0
    BY <2>1, <2>2, FS_EmptySet
  <2>4. Place(P, i) = Cardinality(newer)
    BY DEF Place
  <2> HIDE DEF newer, m
  <2> QED BY <1>1, <2>2, <2>3, <2>4
<1>3. ASSUME NEW i \in P, NEW j \in P, i < j
      PROVE  Place(P, i) # Place(P, j)
  <2> DEFINE high == {k \in P : k >= j}
             low == {k \in P : k >= i}
  <2>1. high \in SUBSET low /\ i \in low \ high
    <3>1. i \in Nat /\ j \in Nat /\ \A k \in P : k \in Nat
      OBVIOUS
    <3>2. \A k \in high : k \in low
      BY <1>3, <3>1
    <3>3. i \in low /\ i \notin high
      BY <1>3, <3>1
    <3> QED BY <3>2, <3>3
  <2>2. IsFiniteSet(low)
    <3>1. low \in SUBSET P
      OBVIOUS
    <3> QED BY <1>1, <3>1, FS_Subset
  <2>3. Cardinality(low) # Cardinality(high)
    <3> HIDE DEF low, high
    <3> QED BY <2>1, <2>2, FS_Subset
  <2> QED BY <2>3 DEF Place
<1>4. \A i, j \in P : Place(P, i) = Place(P, j) => i = j
  <2> SUFFICES ASSUME NEW i \in P, NEW j \in P, Place(P, i) = Place(P, j), i # j
               PROVE  FALSE
    OBVIOUS
  <2>1. i < j \/ j < i
    OBVIOUS
  <2> QED BY <2>1, <1>3
<1>5. place \in Surjection(P, 1..m)
  <2>1. place \in Injection(P, 1..m)
    BY <1>2, <1>4 DEF Injection, IsInjective
  <2>2. IsFiniteSet(1..m) /\ Cardinality(1..m) = m
    <3>1. /\ IsFiniteSet(1..m)
          /\ Cardinality(1..m) = IF 1 > m THEN 0 ELSE m - 1 + 1
      <4> HIDE DEF m
      <4> QED BY <1>1, FS_Interval
    <3> HIDE DEF m
    <3> QED BY <1>1, <3>1
  <2> HIDE DEF place
  <2> QED BY <2>1, <2>2, FS_Injection
<1>6. ASSUME NEW k \in 1..m
      PROVE  \E i \in P : Place(P, i) = k
  BY <1>5, <1>6 DEF Surjection
<1> QED BY <1>2, <1>4, <1>6

(* A page is full, or goes to the end of the list.                         *)
LEMMA PageSizes ==
    ASSUME NEW n \in Nat, NEW P \in SUBSET (1..n), NEW a \in Nat \ {0}, NEW b \in Nat,
           a <= Cardinality(P) + 1, a <= b + 1
    PROVE  LET size == Cardinality({i \in P : Place(P, i) \in a..b})
           IN  /\ Cardinality(P) > b => size = b - a + 1
               /\ Cardinality(P) <= b => size = Cardinality(P) - a + 1
<1> DEFINE m == Cardinality(P)
           page == {i \in P : Place(P, i) \in a..b}
           z == IF m > b THEN b ELSE m
           place == [i \in page |-> Place(P, i)]
<1>1. m \in Nat
  BY FiniteListing
<1>2. z \in Nat /\ a <= z + 1 /\ z <= m /\ z <= b
  BY <1>1
<1>3. IsFiniteSet(a..z) /\ Cardinality(a..z) = z - a + 1
  <2>1. /\ IsFiniteSet(a..z)
        /\ Cardinality(a..z) = IF a > z THEN 0 ELSE z - a + 1
    <3> HIDE DEF z
    <3> QED BY <1>2, FS_Interval
  <2> HIDE DEF z
  <2> QED BY <1>2, <2>1
<1>4. \A i \in page : Place(P, i) \in a..z
  <2>1. \A i \in P : Place(P, i) \in 1..m
    BY Places
  <2> HIDE DEF m
  <2> QED BY <1>1, <2>1
<1>5. place \in Injection(page, a..z)
  <2>1. place \in [page -> a..z]
    <3> HIDE DEF page, z
    <3> QED BY <1>4
  <2>2. \A i, j \in P : Place(P, i) = Place(P, j) => i = j
    BY Places
  <2>3. \A i, j \in page : place[i] = place[j] => i = j
    BY <2>2
  <2> HIDE DEF page, place, z
  <2> QED BY <2>1, <2>3 DEF Injection, IsInjective
<1>6. place \in Surjection(page, a..z)
  <2>1. ASSUME NEW k \in a..z
        PROVE  \E i \in page : place[i] = k
    <3>1. k \in 1..m /\ k \in a..b
      <4> HIDE DEF m, z
      <4> QED BY <1>1, <1>2, <2>1
    <3>2. \A q \in 1..m : \E i \in P : Place(P, i) = q
      BY Places
    <3>3. PICK i \in P : Place(P, i) = k
      BY <3>1, <3>2
    <3> QED BY <3>1, <3>3
  <2>2. place \in [page -> a..z]
    BY <1>5 DEF Injection
  <2> HIDE DEF page, place, z
  <2> QED BY <2>1, <2>2 DEF Surjection
<1>7. Cardinality(page) = z - a + 1
  <2> HIDE DEF page, place, z
  <2> QED BY <1>3, <1>5, <1>6, FS_Injection
<1> HIDE DEF m, page
<1> QED BY <1>1, <1>7 DEF page, m

-----------------------------------------------------------------------------
(* Check runs                                                              *)

(* The numbers of runs, and how many have ended.                           *)
LEMMA RunNumbers ==
    ASSUME runs \in Seq(RunRecords)
    PROVE  /\ DOMAIN runs = 1..Len(runs) /\ Len(runs) \in Nat
           /\ \A i \in DOMAIN runs : runs[i] \in RunRecords
           /\ IsFiniteSet({i \in DOMAIN runs : Completed(i)}) /\ Finished \in Nat
<1>1. DOMAIN runs = 1..Len(runs) /\ Len(runs) \in Nat
  OBVIOUS
<1>2. \A i \in DOMAIN runs : runs[i] \in RunRecords
  OBVIOUS
<1>3. {i \in DOMAIN runs : Completed(i)} \in SUBSET (1..Len(runs))
  BY <1>1
<1> HIDE DEF RunRecords
<1> QED BY <1>1, <1>2, <1>3, FiniteListing DEF Finished

(* What steps do to the check runs: a run that has ended stays as it is,   *)
(* the others keep their job, and what ends does so after all before.      *)
Older ==
    /\ DOMAIN runs \subseteq DOMAIN runs'
    /\ Finished <= Finished'
    /\ \A i \in DOMAIN runs :
          /\ runs'[i].role = runs[i].role /\ runs'[i].head = runs[i].head
          /\ runs'[i].name = runs[i].name
          /\ Completed(i) => runs'[i] = runs[i]
    /\ \A i \in DOMAIN runs' : runs'[i].fin \in 1..Finished => i \in DOMAIN runs /\ Completed(i)

(* A job that starts adds a run that has not ended.                        *)
LEMMA RunAdded ==
    ASSUME Types, EndsAreOrdered, RunsAreJobs, HasRoom,
           NEW r \in RunRecords, IsJob(r), r.conclusion = None, r.fin = 0, r.at = 0,
           AddRun(r), UNCHANGED <<content, clock>>
    PROVE  /\ Types' /\ EndsAreOrdered' /\ RunsAreJobs' /\ Older
           /\ Finished' = Finished
           /\ DOMAIN runs' = DOMAIN runs \cup {Len(runs) + 1}
           /\ runs'[Len(runs) + 1] = r
           /\ \A i \in DOMAIN runs : runs'[i] = runs[i]
<1>0. PICK n \in Nat : n = Len(runs)
  BY RunNumbers DEF Types
<1>1. /\ runs \in Seq(RunRecords) /\ DOMAIN runs = 1..n /\ Finished \in Nat
      /\ \A i \in 1..n : runs[i] \in RunRecords
  BY <1>0, RunNumbers DEF Types
<1>2. /\ runs' \in Seq(RunRecords) /\ Len(runs') = n + 1
      /\ DOMAIN runs' = 1..(n + 1)
      /\ runs'[n + 1] = r /\ \A i \in 1..n : runs'[i] = runs[i]
  <2> HIDE DEF RunRecords
  <2> QED BY <1>0, <1>1 DEF AddRun
<1>a. /\ 1..(n + 1) = 1..n \cup {n + 1} /\ n + 1 \notin 1..n
      /\ content' = content /\ clock' = clock
  OBVIOUS
<1>3. \A i \in 1..n : Completed(i)' <=> Completed(i)
  BY <1>2 DEF Completed
<1>4. ~Completed(n + 1)'
  BY <1>2 DEF Completed
<1>5. Finished' = Finished
  <2>1. {i \in DOMAIN runs : Completed(i)} = {i \in DOMAIN runs' : Completed(i)'}
    BY <1>1, <1>2, <1>3, <1>4, <1>a
  <2> QED BY <2>1 DEF Finished
<1>6. Types'
  <2>1. n + 1 <= MaxRuns
    BY <1>0, BoundAssumption DEF HasRoom
  <2> HIDE DEF RunRecords
  <2> QED BY <1>2, <1>a, <2>1 DEF Types
<1>7. EndsAreOrdered'
  <2>0. clock \in Nat
    BY BoundAssumption DEF Types
  <2>1. ASSUME NEW i \in DOMAIN runs'
        PROVE  /\ runs'[i].at <= clock'
               /\ Completed(i)' => runs'[i].fin \in 1..Finished'
               /\ ~Completed(i)' => runs'[i].fin = 0
    <3>1. CASE i = n + 1
      BY <1>2, <1>4, <1>a, <2>0, <3>1
    <3>2. CASE i \in 1..n
      BY <1>1, <1>2, <1>3, <1>5, <1>a, <3>2 DEF EndsAreOrdered
    <3> QED BY <1>2, <1>a, <2>1, <3>1, <3>2
  <2>2. ASSUME NEW i \in DOMAIN runs', NEW j \in DOMAIN runs',
               Completed(i)', Completed(j)', i # j
        PROVE  /\ runs'[i].fin # runs'[j].fin
               /\ runs'[i].fin < runs'[j].fin => runs'[i].at <= runs'[j].at
    <3>1. i \in 1..n /\ j \in 1..n
      BY <1>2, <1>4, <1>a, <2>2
    <3> QED BY <1>1, <1>2, <1>3, <2>2, <3>1 DEF EndsAreOrdered
  <2> QED BY <2>1, <2>2 DEF EndsAreOrdered
<1>8. RunsAreJobs'
  <2>1. ASSUME NEW i \in DOMAIN runs'
        PROVE  runs'[i] = r \/ (i \in DOMAIN runs /\ runs'[i] = runs[i])
    BY <1>1, <1>2, <1>a
  <2> QED BY <1>a, <2>1 DEF RunsAreJobs, IsJob
<1>9. Older
  <2>1. ASSUME NEW i \in DOMAIN runs', runs'[i].fin \in 1..Finished
        PROVE  i \in DOMAIN runs /\ Completed(i)
    <3>1. i # n + 1
      BY <1>1, <1>2, <2>1
    <3> QED BY <1>1, <1>2, <1>a, <2>1, <3>1 DEF EndsAreOrdered
  <2> QED BY <1>1, <1>2, <1>5, <1>a, <2>1 DEF Older
<1>10. DOMAIN runs' = DOMAIN runs \cup {Len(runs) + 1}
  BY <1>0, <1>1, <1>2, <1>a
<1> QED BY <1>0, <1>1, <1>2, <1>5, <1>6, <1>7, <1>8, <1>9, <1>10

(* A job that ends, after all that ended before it.                        *)
LEMMA RunEnded ==
    ASSUME Types, EndsAreOrdered, RunsAreJobs,
           NEW k \in DOMAIN runs, ~Completed(k),
           NEW conclusion \in {"success", "failure"}, NEW built \in Shas \cup {None},
           NEW ran \in SUBSET Texts,
           runs[k].role # "promotion" /\ conclusion = "success" => built = runs[k].core,
           Ends(k, conclusion, built, ran), UNCHANGED <<content, clock>>
    PROVE  /\ Types' /\ EndsAreOrdered' /\ RunsAreJobs' /\ Older
           /\ Finished' = Finished + 1 /\ DOMAIN runs' = DOMAIN runs
           /\ \A i \in DOMAIN runs \ {k} : runs'[i] = runs[i]
           /\ Completed(k)' /\ runs'[k].fin = Finished + 1
<1> DEFINE old == runs[k]
           end == [old EXCEPT !.conclusion = conclusion, !.at = clock,
                      !.fin = Finished + 1, !.built = built, !.ran = ran]
<1>0. PICK n \in Nat : n = Len(runs)
  BY RunNumbers DEF Types
<1>a. PICK f \in Nat : f = Finished
  BY RunNumbers DEF Types
<1>b. clock \in Nat /\ clock' = clock /\ content' = content
  BY BoundAssumption DEF Types
<1>1. /\ runs \in Seq(RunRecords) /\ DOMAIN runs = 1..n
      /\ \A i \in 1..n : runs[i] \in RunRecords
  BY <1>0, RunNumbers DEF Types
<1>2. PICK e \in RunRecords :
         /\ runs' = [runs EXCEPT ![k] = e]
         /\ e.conclusion = conclusion /\ e.at = clock /\ e.fin = f + 1 /\ e.built = built
         /\ e.role = old.role /\ e.head = old.head /\ e.core = old.core
         /\ e.name = old.name /\ e.gates = old.gates
  <2>1. old \in RunRecords
    BY <1>1
  <2>2. /\ end \in RunRecords
        /\ end.conclusion = conclusion /\ end.at = clock /\ end.fin = f + 1 /\ end.built = built
        /\ end.role = old.role /\ end.head = old.head /\ end.core = old.core
        /\ end.name = old.name /\ end.gates = old.gates
    <3>1. Finished + 1 \in Nat /\ f + 1 = Finished + 1 /\ clock \in Nat
      BY <1>a, <1>b
    <3>2. PICK x : x = Finished + 1
      OBVIOUS
    <3>3. PICK o \in RunRecords : o = old
      BY <2>1
    <3>4. end = [o EXCEPT !.conclusion = conclusion, !.at = clock, !.fin = x,
                          !.built = built, !.ran = ran]
      BY <3>2, <3>3
    <3>5. [o EXCEPT !.conclusion = conclusion, !.at = clock, !.fin = x,
                    !.built = built, !.ran = ran] \in RunRecords
      BY <3>1, <3>2 DEF RunRecords
    <3> HIDE DEF old, end
    <3> QED BY <3>1, <3>2, <3>3, <3>4, <3>5 DEF RunRecords
  <2>3. runs' = [runs EXCEPT ![k] = end]
    BY DEF Ends
  <2> HIDE DEF end, RunRecords
  <2> QED BY <2>2, <2>3
<1>3. /\ runs' \in Seq(RunRecords) /\ Len(runs') = n /\ DOMAIN runs' = 1..n
      /\ runs'[k] = e /\ \A i \in 1..n : i # k => runs'[i] = runs[i]
  <2> HIDE DEF RunRecords
  <2> QED BY <1>0, <1>1, <1>2
<1>4. conclusion # None
  BY NothingAssumption
<1>5. \A i \in 1..n : Completed(i)' <=> Completed(i) \/ i = k
  BY <1>2, <1>3, <1>4 DEF Completed
<1>6. Finished' = f + 1
  <2> DEFINE E == {i \in DOMAIN runs : Completed(i)}
  <2>1. IsFiniteSet(E) /\ k \notin E /\ Cardinality(E) = f
    BY <1>a, RunNumbers DEF Types, Finished
  <2>2. {i \in DOMAIN runs' : Completed(i)'} = E \cup {k}
    BY <1>1, <1>3, <1>5
  <2>3. Cardinality(E \cup {k}) = f + 1
    <3> HIDE DEF E
    <3> QED BY <2>1, FS_AddElement
  <2> HIDE DEF E
  <2> QED BY <2>2, <2>3 DEF Finished
<1>7. Types'
  <2> HIDE DEF RunRecords
  <2> QED BY <1>0, <1>3, <1>b DEF Types
<1>8. EndsAreOrdered'
  <2>0. \A i \in 1..n : runs[i].at \in Nat /\ runs[i].fin \in Nat
    BY <1>1 DEF RunRecords
  <2>1. ASSUME NEW i \in DOMAIN runs'
        PROVE  /\ runs'[i].at <= clock'
               /\ Completed(i)' => runs'[i].fin \in 1..Finished'
               /\ ~Completed(i)' => runs'[i].fin = 0
    <3>1. CASE i = k
      BY <1>2, <1>3, <1>5, <1>6, <1>b, <2>1, <3>1
    <3>2. CASE i # k
      BY <1>1, <1>3, <1>5, <1>6, <1>a, <1>b, <2>0, <2>1, <3>2 DEF EndsAreOrdered
    <3> QED BY <3>1, <3>2
  <2>2. ASSUME NEW i \in DOMAIN runs', NEW j \in DOMAIN runs',
               Completed(i)', Completed(j)', i # j
        PROVE  /\ runs'[i].fin # runs'[j].fin
               /\ runs'[i].fin < runs'[j].fin => runs'[i].at <= runs'[j].at
    <3>0. \A l \in 1..n : l # k /\ Completed(l)' =>
             Completed(l) /\ runs'[l] = runs[l] /\ runs[l].fin <= f /\ runs[l].at <= clock
      BY <1>1, <1>3, <1>5, <1>a, <2>0 DEF EndsAreOrdered
    <3>1. CASE i = k
      BY <1>2, <1>3, <2>0, <2>2, <3>0, <3>1
    <3>2. CASE j = k
      BY <1>2, <1>3, <2>0, <2>2, <3>0, <3>2
    <3>3. CASE i # k /\ j # k
      BY <1>1, <1>3, <2>2, <3>0, <3>3 DEF EndsAreOrdered
    <3> QED BY <3>1, <3>2, <3>3
  <2> QED BY <2>1, <2>2 DEF EndsAreOrdered
<1>9. RunsAreJobs'
  <2>1. ASSUME NEW i \in DOMAIN runs', i # k
        PROVE  i \in DOMAIN runs /\ runs'[i] = runs[i]
    BY <1>1, <1>3, <2>1
  <2>2. IsJob(old)
    BY DEF RunsAreJobs
  <2>3. IsJob(e)
    BY <1>2, <2>2 DEF IsJob
  <2> QED BY <1>3, <1>b, <2>1, <2>3 DEF RunsAreJobs, IsJob
<1>10. Older
  <2>1. ASSUME NEW i \in DOMAIN runs', runs'[i].fin \in 1..f
        PROVE  i \in DOMAIN runs /\ Completed(i)
    <3>1. i # k
      BY <1>2, <1>3, <2>1
    <3> QED BY <1>1, <1>3, <2>1, <3>1 DEF EndsAreOrdered
  <2> QED BY <1>1, <1>2, <1>3, <1>6, <1>a, <2>1 DEF Older
<1> QED BY <1>1, <1>2, <1>3, <1>5, <1>6, <1>7, <1>8, <1>9, <1>10, <1>a

-----------------------------------------------------------------------------
(* What was read stays true while runs come and end                        *)

(* A list may grow, at its front; one that has not grown is the same.      *)
LEMMA ListingGrows ==
    ASSUME Types, Types', Older, NEW s
    PROVE  LET all == ListingOf(s)
               later == {i \in Saved' : runs'[i].head = s}
           IN  /\ all \in SUBSET (1..Len(runs)) /\ later \in SUBSET (1..Len(runs'))
               /\ \A i \in later : i \in DOMAIN runs => i \in all
               /\ all \subseteq later
               /\ IsFiniteSet(all) /\ IsFiniteSet(later)
               /\ Cardinality(all) \in Nat /\ Cardinality(later) \in Nat
               /\ Cardinality(all) <= Cardinality(later)
               /\ Cardinality(all) = Cardinality(later) => all = later
<1> DEFINE all == ListingOf(s)
           later == {i \in Saved' : runs'[i].head = s}
<1>1. /\ DOMAIN runs = 1..Len(runs) /\ DOMAIN runs' = 1..Len(runs')
      /\ Len(runs) \in Nat /\ Len(runs') \in Nat
  BY DEF Types
<1>2. all \in SUBSET (1..Len(runs)) /\ later \in SUBSET (1..Len(runs'))
  BY <1>1 DEF ListingOf, Saved
<1>3. \A i \in DOMAIN runs : i \in all <=> i \in later
  BY DEF Older, ListingOf, Saved
<1>4. all \subseteq later
  BY <1>1, <1>2, <1>3
<1>5. IsFiniteSet(later) /\ Cardinality(later) \in Nat
  <2> HIDE DEF later
  <2> QED BY <1>1, <1>2, FiniteListing
<1>6. IsFiniteSet(all) /\ Cardinality(all) \in Nat
  <2> HIDE DEF all
  <2> QED BY <1>1, <1>2, FiniteListing
<1>7. /\ Cardinality(all) <= Cardinality(later)
      /\ Cardinality(all) = Cardinality(later) => all = later
  <2> HIDE DEF all, later
  <2> QED BY <1>4, <1>5, <1>6, FS_Subset
<1> HIDE DEF all, later
<1>8. \A i \in later : i \in DOMAIN runs => i \in all
  BY <1>3
<1> QED BY <1>2, <1>4, <1>5, <1>6, <1>7, <1>8 DEF all, later

(* What a process has read stays sound, as long as its own check run has   *)
(* not ended.                                                              *)
LEMMA FetchKept ==
    ASSUME Types, Types', Older, FetchIsSound, fetch' = fetch,
           fetch # None /\ fetch.job # 0 => ~Completed(fetch.job)'
    PROVE  FetchIsSound'
<1> SUFFICES ASSUME fetch # None
             PROVE  FetchTypes' /\ PagesAreSeen' /\ \A g \in fetch.got : IsView(g, fetch.since)'
  BY DEF FetchIsSound
<1> DEFINE all == ListingOf(fetch.sha)
           later == {i \in Saved' : runs'[i].head = fetch.sha}
<1>0. FetchTypes /\ PagesAreSeen /\ \A g \in fetch.got : IsView(g, fetch.since)
  BY DEF FetchIsSound
<1>1. Finished \in Nat /\ Finished' \in Nat /\ Finished <= Finished' /\ fetch.since \in Nat
      /\ fetch.since <= Finished
  <2>1. Finished \in Nat
    BY RunNumbers DEF Types
  <2>2. Finished' \in Nat
    <3> DEFINE ended == {i \in DOMAIN runs' : Completed(i)'}
    <3>1. ended \in SUBSET (1..Len(runs')) /\ Len(runs') \in Nat
      BY DEF Types
    <3>2. Cardinality(ended) \in Nat
      <4> HIDE DEF ended
      <4> QED BY <3>1, FiniteListing
    <3> QED BY <3>2 DEF Finished
  <2> QED BY <1>0, <2>1, <2>2 DEF Older, FetchTypes
<1>2. \A i \in DOMAIN runs' : runs'[i].fin \in 1..fetch.since =>
         i \in DOMAIN runs /\ Completed(i) /\ runs'[i] = runs[i]
  BY <1>1 DEF Older
<1>3. FetchTypes'
  BY <1>0, <1>1 DEF FetchTypes, Older
<1>4. /\ all \subseteq later /\ \A i \in later : i \in DOMAIN runs => i \in all
      /\ Cardinality(all) \in Nat /\ Cardinality(later) \in Nat
      /\ Cardinality(all) <= Cardinality(later)
      /\ Cardinality(all) = Cardinality(later) => all = later
      /\ \A i \in later : i \in DOMAIN runs'
  <2>1. \A i \in later : i \in DOMAIN runs'
    BY DEF Saved
  <2> QED BY <2>1, ListingGrows
<1>5. ASSUME NEW g \in fetch.got
      PROVE  IsView(g, fetch.since)'
  <2>1. IsView(g, fetch.since)
    BY <1>0
  <2>2. g.i \in DOMAIN runs /\ g.i \in DOMAIN runs'
    BY <2>1 DEF IsView, Saved, Older
  <2>3. g.i \in Saved'
    BY <2>1, <2>2 DEF IsView, Saved, Older
  <2>4. Completed(g.i) => runs'[g.i] = runs[g.i]
    BY <2>2 DEF Older
  <2> QED BY <1>2, <2>1, <2>2, <2>3, <2>4 DEF IsView, Completed
<1>6. PagesAreSeen'
  <2>1. CASE fetch.next = None
    <3>1. ASSUME PayloadComplete, NEW i \in later, runs'[i].fin \in 1..fetch.since
          PROVE  Seen(i)
      <4>1. i \in all /\ runs[i].fin \in 1..fetch.since
        BY <1>2, <1>4, <3>1
      <4> HIDE DEF all, later
      <4> QED BY <1>0, <2>1, <3>1, <4>1 DEF PagesAreSeen, all
    <3> QED BY <1>0, <2>1, <3>1 DEF PagesAreSeen, PayloadComplete, ListingOf, Seen
  <2>2. CASE fetch.next # None
    <3>1. CASE fetch.total = None
      BY <1>0, <2>2, <3>1 DEF PagesAreSeen
    <3>2. CASE fetch.total # None
      <4>1. fetch.total \in Nat /\ fetch.read \in Nat
        BY <1>0, <3>2 DEF FetchTypes
      <4>2. fetch.read <= Cardinality(all) /\ fetch.total <= Cardinality(all)
        BY <1>0, <2>2, <3>2 DEF PagesAreSeen
      <4>3. ASSUME fetch.total = Cardinality(later), NEW i \in later,
                   Place(later, i) < fetch.next
            PROVE  Seen(i)
        <5>1. all = later /\ Unmoved
          <6> HIDE DEF all, later
          <6>1. all = later
            BY <1>4, <4>1, <4>2, <4>3
          <6> QED BY <4>3, <6>1 DEF Unmoved, all
        <5> QED BY <1>0, <2>2, <3>2, <4>3, <5>1 DEF PagesAreSeen
      <4>4. fetch.read <= Cardinality(later) /\ fetch.total <= Cardinality(later)
        <5> HIDE DEF all, later
        <5> QED BY <1>4, <4>1, <4>2
      <4>5. ListingOf(fetch.sha)' = later
        BY DEF ListingOf
      <4> HIDE DEF all, later
      <4> QED BY <1>0, <2>2, <3>2, <4>3, <4>4, <4>5 DEF PagesAreSeen, Unmoved, Seen
    <3> QED BY <3>1, <3>2
  <2> QED BY <2>1, <2>2
<1> QED BY <1>3, <1>5, <1>6

-----------------------------------------------------------------------------
(* The steps                                                               *)

(* What a process that begins has read: nothing.                           *)
LEMMA FetchBegins ==
    ASSUME Types', NEW job \in Nat, NEW s \in Shas, NEW required,
           Finished \in Nat, Finished' = Finished,
           fetch' = Request(job, s, required),
           job # 0 => /\ job \in DOMAIN runs' /\ ~Completed(job)'
                      /\ runs'[job].role = "promotion"
    PROVE  FetchIsSound'
<1>1. /\ fetch'.job = job /\ fetch'.sha = s /\ fetch'.required = required
      /\ fetch'.since = Finished /\ fetch'.total = None /\ fetch'.got = {}
      /\ fetch'.read = 0 /\ fetch'.next = 1
      /\ fetch' = [job |-> job, sha |-> s, required |-> required, since |-> Finished,
                   total |-> None, got |-> {}, read |-> 0, next |-> 1]
  BY DEF Request
<1>2. FetchTypes'
  BY <1>1 DEF FetchTypes
<1>3. 1 # None
  BY NothingAssumption
<1>4. PagesAreSeen'
  BY <1>1, <1>3 DEF PagesAreSeen
<1> QED BY <1>1, <1>2, <1>4 DEF FetchIsSound

(* A page shows the next places of the list.                               *)
LEMMA PageRead ==
    ASSUME Types, EndsAreOrdered, FetchIsSound, FetchPage
    PROVE  FetchIsSound'
<1> DEFINE all == ListingOf(fetch.sha)
           size == Cardinality(all)
           last == fetch.next + PageSize - 1
           page == {i \in all : Place(all, i) \in fetch.next..last}
           shown == {Shown(i) : i \in page}
<1>0. /\ fetch # None /\ fetch.next # None
      /\ FetchTypes /\ PagesAreSeen /\ \A g \in fetch.got : IsView(g, fetch.since)
      /\ UNCHANGED <<content, runs, clock>>
  BY DEF FetchPage, FetchIsSound
<1>1. /\ fetch' = [fetch EXCEPT
             !.got = @ \cup shown,
             !.read = @ + Cardinality(page),
             !.total = IF @ = None THEN size ELSE @,
             !.next = IF size > last THEN last + 1 ELSE None]
  BY DEF FetchPage
<1>2. /\ fetch.job \in Nat /\ fetch.sha \in Shas /\ fetch.since \in Nat
      /\ fetch.total \in Nat \cup {None} /\ fetch.got \in SUBSET Views /\ fetch.read \in Nat
      /\ fetch.next \in Nat \ {0}
  BY <1>0 DEF FetchTypes
<1>3. /\ all \in SUBSET (1..Len(runs)) /\ Len(runs) \in Nat /\ DOMAIN runs = 1..Len(runs)
      /\ size \in Nat /\ \A i \in all : i \in Saved /\ i \in DOMAIN runs
  <2>1. DOMAIN runs = 1..Len(runs) /\ Len(runs) \in Nat
    BY RunNumbers DEF Types
  <2>2. all \in SUBSET (1..Len(runs)) /\ \A i \in all : i \in Saved /\ i \in DOMAIN runs
    BY <2>1 DEF ListingOf, Saved
  <2> HIDE DEF all
  <2> QED BY <2>1, <2>2, FiniteListing
<1>4. /\ PageSize \in Nat \ {0} /\ last \in Nat /\ fetch.next <= last + 1
  BY <1>2, BoundAssumption
<1>5. /\ fetch'.got = fetch.got \cup shown /\ fetch'.read = fetch.read + Cardinality(page)
      /\ fetch'.total = IF fetch.total = None THEN size ELSE fetch.total
      /\ fetch'.next = IF size > last THEN last + 1 ELSE None
      /\ fetch'.job = fetch.job /\ fetch'.sha = fetch.sha /\ fetch'.since = fetch.since
      /\ fetch'.required = fetch.required
  <2> HIDE DEF all, page, last, size, shown
  <2> QED BY <1>0, <1>1 DEF FetchTypes
<1>6. /\ fetch.read = fetch.next - 1 /\ fetch.read <= size
      /\ fetch.total # None => fetch.total <= size
      /\ fetch.total # None /\ fetch.total = size =>
            \A i \in all : Place(all, i) < fetch.next => Seen(i)
  <2>1. CASE fetch.total = None
    <3>1. fetch.next = 1 /\ fetch.read = 0
      BY <1>0, <2>1 DEF PagesAreSeen
    <3> QED BY <1>3, <2>1, <3>1
  <2>2. CASE fetch.total # None
    BY <1>0, <2>2 DEF PagesAreSeen, Unmoved
  <2> QED BY <2>1, <2>2
<1>7. /\ size > last => Cardinality(page) = PageSize
      /\ size <= last => Cardinality(page) = size - fetch.next + 1
  <2>1. fetch.next <= size + 1
    <3> HIDE DEF size
    <3> QED BY <1>2, <1>3, <1>6
  <2>2. /\ size > last => Cardinality(page) = last - fetch.next + 1
        /\ size <= last => Cardinality(page) = size - fetch.next + 1
    <3>0. PICK n \in Nat : n = Len(runs)
      BY <1>3
    <3>1. PICK P \in SUBSET (1..n), a \in Nat \ {0}, b \in Nat :
             P = all /\ a = fetch.next /\ b = last
      <4> HIDE DEF all, last
      <4> QED BY <1>2, <1>3, <1>4, <3>0
    <3>2. a <= Cardinality(P) + 1 /\ a <= b + 1
      BY <1>4, <2>1, <3>1
    <3>3. /\ Cardinality(P) > b => Cardinality({i \in P : Place(P, i) \in a..b}) = b - a + 1
          /\ Cardinality(P) <= b =>
                Cardinality({i \in P : Place(P, i) \in a..b}) = Cardinality(P) - a + 1
      BY <3>2, PageSizes
    <3>4. page = {i \in P : Place(P, i) \in a..b}
      BY <3>1
    <3> HIDE DEF page, last, all
    <3> QED BY <3>1, <3>3, <3>4
  <2> HIDE DEF size, page
  <2> QED BY <1>2, <1>4, <2>2
<1>8. /\ fetch'.read \in Nat
      /\ size > last => fetch'.read = last /\ fetch'.next = last + 1
      /\ size <= last => fetch'.read = size /\ fetch'.next = None
  <2>1. last = fetch.next + PageSize - 1
    OBVIOUS
  <2> HIDE DEF size, page, last, all
  <2>2. CASE size > last
    BY <1>2, <1>3, <1>4, <1>5, <1>6, <1>7, <2>1, <2>2
  <2>3. CASE size <= last
    <3>1. fetch'.read = fetch.read + (size - fetch.next + 1) /\ fetch.read = fetch.next - 1
      BY <1>5, <1>6, <1>7, <2>3
    <3>2. fetch'.read = size
      BY <1>2, <1>3, <3>1
    <3>3. fetch'.next = None /\ ~(size > last)
      BY <1>3, <1>4, <1>5, <2>3
    <3> QED BY <1>3, <3>2, <3>3
  <2> QED BY <1>3, <1>4, <2>2, <2>3
<1>9. \A g \in shown : g \in Views /\ IsView(g, fetch.since)'
  <2> SUFFICES ASSUME NEW g \in shown
               PROVE  g \in Views /\ IsView(g, fetch.since)'
    OBVIOUS
  <2>0. PICK i \in all : g = Shown(i)
    OBVIOUS
  <2>1. /\ i \in Nat /\ i \in Saved /\ runs[i] \in RunRecords
    BY <1>3, RunNumbers DEF Types
  <2>2. g \in Views
    BY <2>0, <2>1 DEF Shown, Views, RunRecords
  <2>3. g.i = i /\ g.conclusion = runs[i].conclusion /\ g.at = runs[i].at
    BY <2>0 DEF Shown
  <2>4. runs[i].fin \in 1..fetch.since => Completed(i)
    BY <1>2, <1>3 DEF EndsAreOrdered
  <2> QED BY <1>0, <1>5, <2>1, <2>2, <2>3, <2>4 DEF IsView, Completed, Saved
<1>10. FetchTypes'
  <2>1. fetch'.got \in SUBSET Views
    BY <1>2, <1>5, <1>9
  <2>2. fetch'.total \in Nat \cup {None} /\ fetch'.next \in (Nat \ {0}) \cup {None}
    <3> HIDE DEF size
    <3> QED BY <1>2, <1>3, <1>4, <1>5
  <2>3. fetch' = [job |-> fetch.job, sha |-> fetch.sha, required |-> fetch.required,
                  since |-> fetch.since, total |-> fetch'.total, got |-> fetch'.got,
                  read |-> fetch'.read, next |-> fetch'.next]
    <3> HIDE DEF all, page, last, size, shown
    <3> QED BY <1>0, <1>1 DEF FetchTypes
  <2>4. fetch'.since <= Finished' /\ fetch.since <= Finished
    BY <1>0, <1>5 DEF FetchTypes, Finished, Completed
  <2>5. fetch' \in [job : Nat, sha : Shas, required : {fetch'.required}, since : Nat,
                    total : Nat \cup {None}, got : SUBSET Views, read : Nat,
                    next : (Nat \ {0}) \cup {None}]
    BY <1>2, <1>5, <1>8, <2>1, <2>2, <2>3
  <2> QED BY <1>0, <1>5, <2>4, <2>5 DEF FetchTypes, Completed
<1>11. ListingOf(fetch.sha)' = all
  BY <1>0, <1>5 DEF ListingOf, Saved
<1>12. ASSUME fetch'.total = size, NEW i \in all, Place(all, i) <= last
       PROVE  Seen(i)'
  <2>1. Place(all, i) \in Nat
    <3>1. Place(all, i) \in 1..size
      <4> HIDE DEF all
      <4> QED BY <1>3, Places
    <3> HIDE DEF size
    <3> QED BY <1>3, <3>1
  <2>2. CASE Place(all, i) >= fetch.next
    <3>1. Shown(i) \in fetch'.got
      BY <1>2, <1>5, <1>12, <2>1, <2>2
    <3> QED BY <3>1 DEF Seen, Shown
  <2>3. CASE Place(all, i) < fetch.next
    <3>1. CASE fetch.total = None
      <4>1. fetch.next = 1
        BY <1>0, <3>1 DEF PagesAreSeen
      <4>2. Place(all, i) \in 1..size
        <5> HIDE DEF all
        <5> QED BY <1>3, Places
      <4> HIDE DEF size
      <4> QED BY <1>3, <2>1, <2>3, <4>1, <4>2
    <3>2. CASE fetch.total # None
      <4>1. Seen(i)
        BY <1>5, <1>6, <1>12, <2>3, <3>2
      <4> QED BY <1>5, <4>1 DEF Seen
    <3> QED BY <3>1, <3>2
  <2> QED BY <1>2, <2>1, <2>2, <2>3
<1>13. PagesAreSeen'
  <2>0. size # None /\ fetch'.total # None
    BY <1>2, <1>3, <1>5, NothingAssumption
  <2>1. CASE size > last
    <3>1. fetch'.next = last + 1 /\ fetch'.read = last /\ fetch'.next # None
      BY <1>4, <1>8, <2>1, NothingAssumption
    <3>2. fetch'.total <= size
      BY <1>3, <1>5, <1>6
    <3>3. ASSUME fetch'.total = size, NEW i \in all, Place(all, i) < last + 1
          PROVE  Seen(i)'
      <4>1. Place(all, i) \in 1..size
        <5> HIDE DEF all
        <5> QED BY <1>3, Places
      <4>2. Place(all, i) <= last
        <5> HIDE DEF size
        <5> QED BY <1>3, <1>4, <3>3, <4>1
      <4> QED BY <1>12, <3>3, <4>2
    <3>4. Unmoved' <=> fetch'.total = size
      BY <1>11 DEF Unmoved
    <3>5. fetch'.read = fetch'.next - 1 /\ fetch'.read <= size
      <4> HIDE DEF size, last
      <4> QED BY <1>3, <1>4, <2>1, <3>1
    <3>6. Unmoved' => \A i \in all : Place(all, i) < fetch'.next => Seen(i)'
      BY <3>1, <3>3, <3>4
    <3>7. size = Cardinality(all) /\ fetch'.next # None /\ fetch'.total # None
      BY <2>0, <3>1
    <3> HIDE DEF all, size, last
    <3> QED BY <1>11, <3>2, <3>5, <3>6, <3>7 DEF PagesAreSeen
  <2>2. CASE size <= last
    <3>1. fetch'.next = None /\ fetch'.read = size
      BY <1>8, <2>2
    <3>2. ASSUME PayloadComplete', NEW i \in all
          PROVE  Seen(i)'
      <4>1. fetch'.total = size
        BY <3>1, <3>2 DEF PayloadComplete
      <4>2. Place(all, i) \in 1..size
        <5> HIDE DEF all
        <5> QED BY <1>3, Places
      <4>3. Place(all, i) <= last
        <5> HIDE DEF size
        <5> QED BY <1>3, <1>4, <2>2, <4>2
      <4> QED BY <1>12, <4>1, <4>3
    <3> HIDE DEF all, size, last
    <3> QED BY <1>11, <2>0, <3>1, <3>2 DEF PagesAreSeen
  <2> HIDE DEF size
  <2> QED BY <1>3, <1>4, <2>1, <2>2
<1>14. \A g \in fetch'.got : IsView(g, fetch.since)'
  <2>1. \A g \in fetch.got : IsView(g, fetch.since)'
    BY <1>0, <1>5 DEF IsView, Completed, Saved
  <2> QED BY <1>5, <1>9, <2>1
<1> QED BY <1>10, <1>13, <1>14 DEF FetchIsSound

(* A saved body shows the newest runs of the repository.                   *)
LEMMA FixtureLoaded ==
    ASSUME Types, EndsAreOrdered, NEW s \in Shas, NEW required, NEW n \in 0..MaxRuns,
           LoadFixture(s, required, n)
    PROVE  FetchIsSound'
<1> DEFINE shown == {Shown(i) : i \in {j \in Saved : Place(Saved, j) <= n}}
<1>1. /\ fetch' = [job |-> 0, sha |-> s, required |-> required, since |-> Finished,
                   total |-> Cardinality(Saved), got |-> shown, read |-> n, next |-> None]
      /\ n <= Cardinality(Saved) /\ UNCHANGED <<content, runs, clock>>
  BY DEF LoadFixture, Request
<1>2. PICK k \in Nat : k = Len(runs) /\ DOMAIN runs = 1..k
  BY RunNumbers DEF Types
<1>3. Saved \in SUBSET (1..k)
  BY <1>2 DEF Saved
<1>4. Cardinality(Saved) \in Nat /\ n \in Nat /\ Finished \in Nat
  <2>1. Cardinality(Saved) \in Nat
    BY <1>3, FiniteListing
  <2>2. n \in Nat
    BY BoundAssumption
  <2> QED BY <2>1, <2>2, RunNumbers DEF Types
<1>5. ASSUME NEW g \in shown
      PROVE  g \in Views /\ IsView(g, Finished)'
  <2>1. PICK i \in Saved : g = Shown(i)
    OBVIOUS
  <2>2. i \in Nat /\ i \in DOMAIN runs /\ runs[i] \in RunRecords
    BY <1>2, <1>3, RunNumbers DEF Types
  <2>3. g.i = i /\ g.conclusion = runs[i].conclusion /\ g.at = runs[i].at
    BY <2>1 DEF Shown
  <2>4. g \in Views
    BY <2>1, <2>2 DEF Shown, Views, RunRecords
  <2>5. runs[i].fin \in 1..Finished => Completed(i)
    BY <1>4, <2>2 DEF EndsAreOrdered
  <2>6. Finished' = Finished
    BY <1>1 DEF Finished, Completed
  <2> QED BY <1>1, <2>1, <2>3, <2>4, <2>5, <2>6 DEF IsView, Completed, Saved
<1>6. FetchTypes'
  <2>1. shown \in SUBSET Views
    BY <1>5
  <2>2. Finished' = Finished
    BY <1>1 DEF Finished, Completed
  <2>3. fetch'.since <= Finished' /\ fetch'.job = 0
    BY <1>1, <1>4, <2>2
  <2> HIDE DEF shown
  <2>4. fetch' \in [job : Nat, sha : Shas, required : {fetch'.required}, since : Nat,
                    total : Nat \cup {None}, got : SUBSET Views, read : Nat,
                    next : (Nat \ {0}) \cup {None}]
    BY <1>1, <1>4, <2>1
  <2> QED BY <2>3, <2>4 DEF FetchTypes
<1>7. ASSUME PayloadComplete', NEW i \in ListingOf(s)
      PROVE  Seen(i)'
  <2>1. n = Cardinality(Saved) /\ i \in Saved
    BY <1>1, <1>7 DEF PayloadComplete, ListingOf
  <2>2. Place(Saved, i) \in 1..n
    BY <1>3, <2>1, Places
  <2>3. Place(Saved, i) <= n
    BY <1>4, <2>2
  <2>4. Shown(i) \in fetch'.got
    BY <1>1, <2>1, <2>3
  <2> QED BY <2>4 DEF Seen, Shown
<1>8. PagesAreSeen'
  <2>1. ListingOf(fetch.sha)' = ListingOf(s)
    BY <1>1 DEF ListingOf, Saved
  <2>2. Cardinality(Saved) # None
    BY <1>4, NothingAssumption
  <2> HIDE DEF shown
  <2> QED BY <1>1, <1>7, <2>1, <2>2 DEF PagesAreSeen
<1> HIDE DEF shown
<1>9. \A g \in fetch'.got : IsView(g, fetch.since)'
  <2>1. fetch'.got = shown /\ fetch'.since = Finished
    BY <1>1
  <2>2. Finished' = Finished
    BY <1>1 DEF Finished, Completed
  <2> QED BY <1>5, <2>1, <2>2 DEF IsView
<1> QED BY <1>6, <1>8, <1>9 DEF FetchIsSound

(* The gates of a manifest that loads.                                     *)
LEMMA GatesAreThere ==
    ASSUME NEW m, ManifestValid(m), NEW id \in GateIds
    PROVE  Gate(m, id) \in Elements(m.entries) /\ Gate(m, id).id = id
<1>1. id \in {e.id : e \in Elements(m.entries)}
  BY DEF ManifestValid
<1>2. \E e \in Elements(m.entries) : e.id = id
  BY <1>1
<1> QED BY <1>2 DEF Gate

(* The jobs of a tree whose manifest loads.                                *)
LEMMA JobsAreTyped ==
    ASSUME NEW t \in ValidTrees, NEW job \in JobsIn[t]
    PROVE  job.name \in RunNames /\ job.gates \in Seq(GateIds) /\ job.gates # << >>
<1> DEFINE m == Trees[t].manifest
           single == {[name |-> CheckName(c), gates |-> <<c[1]>>] : c \in MatrixCells(m)}
           both == [name |-> LintTypes, gates |-> GatesOf(LintTypes)]
<1>1. ManifestValid(m)
  BY DEF ValidTrees
<1>2. \A e \in Elements(m.entries) : e.id \in GateIds /\ Elements(e.os) \subseteq SupportedOS
  BY <1>1 DEF ManifestValid, GateValid, OsValid
<1>3. \A c \in MatrixCells(m) : c \in GateIds \X SupportedOS
  BY <1>2 DEF MatrixCells, Group
<1>4. ASSUME NEW j \in single
      PROVE  j.name \in RunNames /\ j.gates \in Seq(GateIds) /\ j.gates # << >>
  <2>1. PICK c \in MatrixCells(m) : j = [name |-> CheckName(c), gates |-> <<c[1]>>]
    OBVIOUS
  <2>2. c \in GateIds \X SupportedOS /\ c[1] \in GateIds
    BY <1>3
  <2>3. CheckName(c) \in {LintTypes, Coverage, c}
    BY DEF CheckName
  <2>4. CheckName(c) \in RunNames
    BY <2>2, <2>3 DEF RunNames
  <2>5. <<c[1]>> \in Seq(GateIds) /\ <<c[1]>> # << >>
    BY <2>2
  <2> QED BY <2>1, <2>4, <2>5
<1>5. both.name \in RunNames /\ both.gates \in Seq(GateIds) /\ both.gates # << >>
  <2>1. GatesOf(LintTypes) = <<"lint", "types">>
    BY DEF GatesOf, LintTypes, Coverage, PromotionCheck, GateIds
  <2> QED BY <2>1 DEF RunNames, GateIds
<1>6. job \in single \/ job = both
  <2>1. JobsIn[t] = IF Trees[t].joined
                    THEN {j \in single : j.name # LintTypes} \cup {both} ELSE single
    BY DEF JobsIn
  <2> HIDE DEF single, both
  <2> QED BY <2>1
<1> QED BY <1>4, <1>5, <1>6

(* The driver runs nothing but the commands of the gate, and nothing on a  *)
(* checkout of another commit than the expected one.                       *)
LEMMA DriverIsPinned ==
    ASSUME NEW t \in DOMAIN Trees, NEW id \in GateIds, NEW expected \in Shas,
           NEW found \in Shas, NEW missing, NEW fails,
           RunGate(Trees[t].manifest, t \in ValidTrees, id, expected, found, missing, fails).exit = 0
    PROVE  /\ expected = found
           /\ RunGate(Trees[t].manifest, t \in ValidTrees, id, expected, found,
                      missing, fails).ran \subseteq Texts
<1> DEFINE m == Trees[t].manifest
           cs == Gate(m, id).commands
           out == RunGate(m, t \in ValidTrees, id, expected, found, missing, fails)
<1>1. out # Refused
  BY DEF Refused
<1>2. t \in ValidTrees /\ expected \in {None, found} /\ out = Driven(cs, fails)
  BY <1>1 DEF RunGate
<1>3. expected = found
  BY <1>2, NothingAssumption
<1>4. Gate(m, id) \in Elements(m.entries)
  BY <1>2, GatesAreThere DEF ValidTrees
<1>5. \A k \in DOMAIN cs : cs[k].text \in Texts
  BY <1>4, TextAssumption DEF Elements
<1>6. Driven(cs, fails).ran \subseteq Texts
  <2> HIDE DEF cs
  <2> QED BY <1>5 DEF Driven
<1> QED BY <1>2, <1>3, <1>6

(* The first state has no runs.                                            *)
LEMMA Start == CIInit => Inv
<1> SUFFICES ASSUME CIInit
             PROVE  Inv
  OBVIOUS
<1>1. runs = << >> /\ clock = 0 /\ fetch = None /\ content \in Histories
  BY DEF CIInit
<1>2. << >> \in Seq(RunRecords) /\ Len(<< >>) = 0 /\ DOMAIN << >> = {}
  <2> HIDE DEF RunRecords
  <2> QED OBVIOUS
<1>3. Types
  BY <1>1, <1>2, BoundAssumption DEF Types
<1>4. EndsAreOrdered /\ RunsAreJobs
  BY <1>1, <1>2 DEF EndsAreOrdered, RunsAreJobs
<1> QED BY <1>1, <1>3, <1>4 DEF Inv, FetchIsSound

(* Steps that leave the check runs alone.                                  *)
LEMMA RunsKept ==
    ASSUME Types, EndsAreOrdered, RunsAreJobs, UNCHANGED <<content, runs>>,
           clock' \in 0..MaxClock, clock <= clock'
    PROVE  Types' /\ EndsAreOrdered' /\ RunsAreJobs' /\ Older /\ Finished' = Finished
<1>1. Types'
  <2> HIDE DEF RunRecords
  <2> QED BY DEF Types
<1>2. Finished' = Finished /\ \A i : Completed(i)' <=> Completed(i)
  BY DEF Finished, Completed
<1>3. clock \in Nat /\ clock' \in Nat /\ Finished \in Nat
  BY BoundAssumption, RunNumbers DEF Types
<1>4. \A i \in DOMAIN runs : runs[i].at \in Nat /\ runs[i].fin \in Nat
  BY RunNumbers DEF Types, RunRecords
<1>5. EndsAreOrdered'
  BY <1>2, <1>3, <1>4 DEF EndsAreOrdered
<1>6. RunsAreJobs'
  BY DEF RunsAreJobs, IsJob
<1>7. Older
  BY <1>2, <1>3, <1>4 DEF Older, EndsAreOrdered
<1> QED BY <1>1, <1>2, <1>5, <1>6, <1>7

LEMMA TickKeeps ==
    ASSUME Inv, Tick
    PROVE  Inv'
<1>1. clock' \in 0..MaxClock /\ clock <= clock' /\ UNCHANGED <<content, runs, fetch>>
  BY BoundAssumption DEF Tick, Inv, Types
<1>2. Types' /\ EndsAreOrdered' /\ RunsAreJobs' /\ Older
  BY <1>1, RunsKept DEF Inv
<1>3. fetch # None /\ fetch.job # 0 => ~Completed(fetch.job)'
  BY <1>1 DEF Inv, FetchIsSound, FetchTypes, Completed
<1>4. FetchIsSound'
  BY <1>1, <1>2, <1>3, FetchKept DEF Inv
<1> QED BY <1>2, <1>4 DEF Inv

(* A process reads on while jobs start and end.                            *)
LEMMA NewRunIsTyped ==
    ASSUME NEW name \in RunNames, NEW gates \in Seq(GateIds), NEW role \in Roles,
           NEW head \in Shas \cup Umbrellas, NEW core \in Shas
    PROVE  LET r == NewRun(name, gates, role, head, core)
           IN  /\ r \in RunRecords /\ r.conclusion = None /\ r.fin = 0 /\ r.at = 0
               /\ r.name = name /\ r.gates = gates /\ r.role = role
               /\ r.head = head /\ r.core = core
  BY DEF NewRun, RunRecords

LEMMA JobStartKeeps ==
    ASSUME Inv, HasRoom, UNCHANGED <<content, clock, fetch>>,
           NEW r \in RunRecords, IsJob(r), r.conclusion = None, r.fin = 0, r.at = 0, AddRun(r)
    PROVE  Inv'
<1>1. /\ Types' /\ EndsAreOrdered' /\ RunsAreJobs' /\ Older
      /\ \A i \in DOMAIN runs : runs'[i] = runs[i]
  BY RunAdded DEF Inv
<1>2. fetch # None /\ fetch.job # 0 => ~Completed(fetch.job)'
  BY <1>1 DEF Inv, FetchIsSound, FetchTypes, Completed
<1>3. FetchIsSound'
  BY <1>1, <1>2, FetchKept DEF Inv
<1> QED BY <1>1, <1>3 DEF Inv

LEMMA StartJobKeeps ==
    ASSUME Inv, NEW s \in Shas, NEW job, StartJob(s, job)
    PROVE  Inv'
<1> DEFINE r == NewRun(job.name, job.gates, "producer", s, s)
<1>1. /\ HasRoom /\ content[s] \in CleanTrees /\ job \in JobsIn[content[s]] /\ AddRun(r)
      /\ UNCHANGED <<content, clock, fetch>>
  BY DEF StartJob
<1>2. content[s] \in ValidTrees
  BY <1>1 DEF CleanTrees, ValidTrees, Validates
<1>3. job.name \in RunNames /\ job.gates \in Seq(GateIds) /\ job.gates # << >>
  BY <1>1, <1>2, JobsAreTyped
<1>4. "producer" \in Roles
  BY DEF Roles
<1>5. /\ r \in RunRecords /\ r.conclusion = None /\ r.fin = 0 /\ r.at = 0
      /\ r.gates = job.gates /\ r.role = "producer" /\ r.head = s /\ r.core = s
  BY <1>3, <1>4, NewRunIsTyped
<1>6. IsJob(r)
  BY <1>1, <1>3, <1>5, NothingAssumption DEF IsJob
<1> HIDE DEF r
<1> QED BY <1>1, <1>5, <1>6, JobStartKeeps

LEMMA StartConsumerKeeps ==
    ASSUME Inv, NEW u \in Umbrellas, NEW image \in SupportedOS, NEW version \in PythonVersions,
           StartConsumer(u, <<image, version>>)
    PROVE  Inv'
<1> DEFINE gates == <<"installed-package">>
           r == NewRun(<<image, version>>, gates, "consumer", u, Gitlink[u])
<1>1. HasRoom /\ AddRun(r) /\ UNCHANGED <<content, clock, fetch>>
  BY DEF StartConsumer
<1>2. /\ <<image, version>> \in RunNames /\ gates \in Seq(GateIds) /\ gates # << >>
      /\ "consumer" \in Roles /\ Gitlink[u] \in Shas
  BY GitlinkAssumption DEF RunNames, GateIds, Roles
<1>3. /\ r \in RunRecords /\ r.conclusion = None /\ r.fin = 0 /\ r.at = 0
      /\ r.gates = gates /\ r.role = "consumer"
  <2> HIDE DEF gates
  <2> QED BY <1>2, NewRunIsTyped
<1>4. IsJob(r)
  BY <1>2, <1>3, NothingAssumption DEF IsJob
<1> HIDE DEF r, gates
<1> QED BY <1>1, <1>3, <1>4, JobStartKeeps

(* A job whose steps all exit 0 ran on the commit it is of.                *)
LEMMA SuccessIsPinned ==
    ASSUME Inv, NEW i \in DOMAIN runs, runs[i].role # "promotion", NEW built \in Shas, NEW fails,
           \A g \in DOMAIN GateSteps(i, built, fails) : GateSteps(i, built, fails)[g].exit = 0
    PROVE  LET steps == GateSteps(i, built, fails)
           IN  /\ built = runs[i].core
               /\ UNION {steps[g].ran : g \in DOMAIN steps} \in SUBSET Texts
<1> DEFINE gates == runs[i].gates
           steps == GateSteps(i, built, fails)
           t == content[built]
           Run(id) == RunGate(Trees[t].manifest, t \in ValidTrees, id, runs[i].core, built,
                              TreeOf(built).missing, fails)
<1>1. /\ gates \in Seq(GateIds) /\ runs[i].core \in Shas /\ gates # << >>
  BY RunNumbers DEF Inv, Types, RunRecords, RunsAreJobs, IsJob
<1>2. t \in DOMAIN Trees
  BY HistoryAssumption DEF Inv, Types
<1>3. DOMAIN steps = DOMAIN gates /\ \A g \in DOMAIN gates : steps[g] = Run(gates[g])
  BY DEF GateSteps, Manifest, TreeOf, ManifestLoads
<1>4. ASSUME NEW g \in DOMAIN gates
      PROVE  built = runs[i].core /\ steps[g].ran \subseteq Texts
  <2>1. Run(gates[g]).exit = 0
    BY <1>3, <1>4
  <2>2. gates[g] \in GateIds
    BY <1>1
  <2>3. built = runs[i].core /\ Run(gates[g]).ran \subseteq Texts
    <3>0. PICK missing : missing = TreeOf(built).missing
      OBVIOUS
    <3>1. PICK tr \in DOMAIN Trees, id \in GateIds, core \in Shas :
             tr = t /\ id = gates[g] /\ core = runs[i].core
      BY <1>1, <1>2, <2>2
    <3> DEFINE out == RunGate(Trees[tr].manifest, tr \in ValidTrees, id, core, built,
                              missing, fails)
    <3>2. Run(gates[g]) = out
      BY <3>0, <3>1
    <3>3. out.exit = 0
      BY <2>1, <3>2
    <3>4. core = built /\ out.ran \subseteq Texts
      BY <3>3, DriverIsPinned
    <3> HIDE DEF Run, out
    <3> QED BY <3>1, <3>2, <3>4
  <2> QED BY <1>3, <2>3
<1>5. 1 \in DOMAIN gates
  BY <1>1
<1> HIDE DEF steps, gates
<1> QED BY <1>3, <1>4, <1>5 DEF steps

LEMMA FinishJobKeeps ==
    ASSUME Inv, NEW i \in DOMAIN runs, NEW built \in Shas, NEW fails, FinishJob(i, built, fails)
    PROVE  Inv'
<1> DEFINE steps == GateSteps(i, built, fails)
           all == \A g \in DOMAIN steps : steps[g].exit = 0
<1>1. /\ ~Completed(i) /\ runs[i].role # "promotion"
      /\ IF all THEN Ends(i, "success", built, UNION {steps[g].ran : g \in DOMAIN steps})
                ELSE Ends(i, "failure", None, {})
      /\ UNCHANGED <<content, clock, fetch>>
  BY DEF FinishJob
<1>2. Types' /\ EndsAreOrdered' /\ RunsAreJobs' /\ Older
      /\ \A k \in DOMAIN runs \ {i} : runs'[k] = runs[k]
  <2>1. CASE all
    <3>1. built = runs[i].core /\ UNION {steps[g].ran : g \in DOMAIN steps} \in SUBSET Texts
      BY <1>1, <2>1, SuccessIsPinned
    <3>2. PICK ran \in SUBSET Texts : Ends(i, "success", built, ran)
      BY <1>1, <2>1, <3>1
    <3>3. "success" \in {"success", "failure"} /\ built \in Shas \cup {None}
      OBVIOUS
    <3> HIDE DEF all
    <3> QED BY <1>1, <3>1, <3>2, <3>3, RunEnded DEF Inv
  <2>2. CASE ~all
    <3>1. /\ "failure" \in {"success", "failure"} /\ None \in Shas \cup {None}
          /\ {} \in SUBSET Texts /\ "failure" # "success"
      OBVIOUS
    <3>2. Ends(i, "failure", None, {})
      BY <1>1, <2>2
    <3> HIDE DEF all
    <3> QED BY <1>1, <3>1, <3>2, RunEnded DEF Inv
  <2> QED BY <2>1, <2>2
<1>3. fetch # None /\ fetch.job # 0 => ~Completed(fetch.job)'
  BY <1>1, <1>2 DEF Inv, FetchIsSound, FetchTypes, Completed
<1>4. FetchIsSound'
  BY <1>1, <1>2, <1>3, FetchKept DEF Inv
<1> QED BY <1>2, <1>4 DEF Inv

(* The umbrella's job and its process begin together.                      *)
LEMMA BeginFetchKeeps ==
    ASSUME Inv, NEW u \in Umbrellas, NEW required, BeginFetch(u, required)
    PROVE  Inv'
<1> DEFINE none == << >>
           r == NewRun(PromotionCheck, none, "promotion", u, Gitlink[u])
<1>1. /\ HasRoom /\ AddRun(r) /\ UNCHANGED <<content, clock>>
      /\ fetch' = Request(Len(runs) + 1, Gitlink[u], required)
  BY DEF BeginFetch
<1>2. /\ PromotionCheck \in RunNames /\ none \in Seq(GateIds)
      /\ "promotion" \in Roles /\ Gitlink[u] \in Shas
  BY GitlinkAssumption DEF RunNames, Roles
<1>3. /\ r \in RunRecords /\ r.conclusion = None /\ r.fin = 0 /\ r.at = 0
      /\ r.role = "promotion"
  <2> HIDE DEF none
  <2> QED BY <1>2, NewRunIsTyped
<1>4. IsJob(r)
  BY <1>3 DEF IsJob
<1> HIDE DEF r
<1>5. PICK job \in Nat : job = Len(runs) + 1
  BY RunNumbers DEF Inv, Types
<1>6. /\ Types' /\ EndsAreOrdered' /\ RunsAreJobs' /\ Finished' = Finished
      /\ job \in DOMAIN runs' /\ runs'[job] = r
  BY <1>1, <1>3, <1>4, <1>5, RunAdded DEF Inv
<1>7. ~Completed(job)' /\ runs'[job].role = "promotion"
  BY <1>3, <1>6 DEF Completed
<1>8. Finished \in Nat
  BY RunNumbers DEF Inv, Types
<1>9. FetchIsSound'
  BY <1>1, <1>2, <1>5, <1>6, <1>7, <1>8, FetchBegins
<1> QED BY <1>6, <1>9 DEF Inv

LEMMA ReadingKeeps ==
    ASSUME Inv, UNCHANGED <<content, runs, clock>>, FetchIsSound'
    PROVE  Inv'
<1>1. clock' \in 0..MaxClock /\ clock <= clock'
  BY BoundAssumption DEF Inv, Types
<1> QED BY <1>1, RunsKept DEF Inv

LEMMA BeginLiveKeeps ==
    ASSUME Inv, NEW s \in Shas, NEW required, BeginLive(s, required)
    PROVE  Inv'
<1>1. UNCHANGED <<content, runs, clock>> /\ fetch' = Request(0, s, required) /\ 0 \in Nat
  BY DEF BeginLive
<1>2. Types' /\ Finished' = Finished /\ Finished \in Nat
  <2>1. Finished' = Finished
    BY <1>1 DEF Finished, Completed
  <2>2. Types'
    <3> HIDE DEF RunRecords
    <3> QED BY <1>1 DEF Inv, Types
  <2> QED BY <2>1, <2>2, RunNumbers DEF Inv, Types
<1>3. FetchIsSound'
  BY <1>1, <1>2, FetchBegins
<1> QED BY <1>1, <1>3, ReadingKeeps

(* The verdict ends the process, and the check run of its job.             *)
LEMMA ReportKeeps ==
    ASSUME Inv, fetch # None, NEW ok \in BOOLEAN, Report(ok), fetch' = None,
           UNCHANGED <<content, clock>>
    PROVE  /\ Inv' /\ DOMAIN runs' = DOMAIN runs /\ Finished <= Finished'
           /\ \A i \in DOMAIN runs : \/ runs'[i] = runs[i]
                                     \/ /\ runs[i].role = "promotion"
                                        /\ runs'[i].role = "promotion"
<1>1. Finished \in Nat
  BY RunNumbers DEF Inv, Types
<1>2. FetchIsSound'
  BY DEF FetchIsSound
<1>3. CASE fetch.job = 0
  <2>1. UNCHANGED <<content, runs, clock>>
    BY <1>3 DEF Report
  <2>2. Finished' = Finished
    BY <2>1 DEF Finished, Completed
  <2>3. Inv'
    BY <1>2, <2>1, ReadingKeeps
  <2> QED BY <1>1, <2>1, <2>2, <2>3
<1>4. CASE fetch.job # 0
  <2>1. PICK k \in DOMAIN runs : k = fetch.job /\ ~Completed(k) /\ runs[k].role = "promotion"
    BY <1>4 DEF Inv, FetchIsSound, FetchTypes
  <2>2. PICK conclusion \in {"success", "failure"} : Ends(k, conclusion, None, {})
    BY <1>4, <2>1 DEF Report
  <2>3. None \in Shas \cup {None} /\ {} \in SUBSET Texts
    OBVIOUS
  <2>4. /\ Types' /\ EndsAreOrdered' /\ RunsAreJobs' /\ Older
        /\ Finished' = Finished + 1 /\ DOMAIN runs' = DOMAIN runs
        /\ \A i \in DOMAIN runs \ {k} : runs'[i] = runs[i]
    BY <2>1, <2>2, <2>3, RunEnded DEF Inv
  <2>5. runs'[k].role = "promotion"
    BY <2>1, <2>4 DEF Older
  <2> QED BY <1>1, <1>2, <2>1, <2>4, <2>5 DEF Inv
<1> QED BY <1>3, <1>4

(* The invariant is inductive.                                             *)
LEMMA StepKeeps == Inv /\ [CINext]_civars => Inv'
<1> SUFFICES ASSUME Inv, [CINext]_civars
             PROVE  Inv'
  OBVIOUS
<1>1. CASE Tick
  BY <1>1, TickKeeps
<1>2. CASE Works
  <2>1. CASE \E s \in Shas : ManifestLoads(s) /\ \E job \in JobsIn[content[s]] : StartJob(s, job)
    BY <2>1, StartJobKeeps
  <2>2. CASE \E u \in Umbrellas, image \in SupportedOS, version \in PythonVersions :
                StartConsumer(u, <<image, version>>)
    BY <2>2, StartConsumerKeeps
  <2>3. CASE \E i \in DOMAIN runs : ~Completed(i) /\
                \E built \in Shas :
                   \E fails \in CommandsOf(Manifest(built), runs[i].gates) \cup {None} :
                      FinishJob(i, built, fails)
    BY <2>3, FinishJobKeeps
  <2> QED BY <1>2, <2>1, <2>2, <2>3 DEF Works
<1>3. CASE Judges
  <2>1. CASE \E u \in Umbrellas : \E required \in RequiredSets(Gitlink[u]) : BeginFetch(u, required)
    BY <2>1, BeginFetchKeeps
  <2>2. CASE \E u \in Umbrellas : \E required \in RequiredSets(Gitlink[u]) :
                \/ BeginLive(Gitlink[u], required)
                \/ \E n \in 0 .. MaxRuns : LoadFixture(Gitlink[u], required, n)
    <3>1. PICK u \in Umbrellas : \E required :
             \/ BeginLive(Gitlink[u], required)
             \/ \E n \in 0 .. MaxRuns : LoadFixture(Gitlink[u], required, n)
      BY <2>2
    <3>2. PICK s \in Shas : s = Gitlink[u]
      BY GitlinkAssumption
    <3>0. PICK required :
             \/ BeginLive(s, required)
             \/ \E n \in 0 .. MaxRuns : LoadFixture(s, required, n)
      BY <3>1, <3>2
    <3>3. CASE BeginLive(s, required)
      BY <3>3, BeginLiveKeeps
    <3>4. CASE \E n \in 0 .. MaxRuns : LoadFixture(s, required, n)
      <4>1. PICK n \in 0 .. MaxRuns : LoadFixture(s, required, n)
        BY <3>4
      <4>2. UNCHANGED <<content, runs, clock>>
        BY <4>1 DEF LoadFixture
      <4>3. FetchIsSound'
        BY <4>1, FixtureLoaded DEF Inv
      <4> QED BY <4>2, <4>3, ReadingKeeps
    <3> QED BY <3>0, <3>3, <3>4
  <2>3. CASE FetchPage
    <3>1. UNCHANGED <<content, runs, clock>>
      BY <2>3 DEF FetchPage
    <3> QED BY <2>3, <3>1, PageRead, ReadingKeeps DEF Inv
  <2>4. CASE VerifyPromotion
    <3>1. /\ fetch # None /\ Report(Allowed) /\ fetch' = None
          /\ UNCHANGED <<content, clock>>
      BY <2>4 DEF VerifyPromotion
    <3>2. Allowed \in BOOLEAN
      BY DEF Allowed
    <3> QED BY <3>1, <3>2, ReportKeeps
  <2>5. CASE FetchFails
    BY <2>5, ReportKeeps DEF FetchFails
  <2>6. CASE \E s, core \in Shas, u \in Umbrellas, picked \in SUBSET (DOMAIN runs) :
                Accept(s, core, u, picked)
    <3>1. UNCHANGED <<content, runs, clock, fetch>>
      BY <2>6 DEF Accept
    <3>2. FetchIsSound'
      BY <3>1 DEF Inv, FetchIsSound, FetchTypes, PagesAreSeen, IsView, Completed, Finished,
                  Unmoved, ListingOf, Saved, Seen, PayloadComplete
    <3> QED BY <3>1, <3>2, ReadingKeeps
  <2> QED BY <1>3, <2>1, <2>2, <2>3, <2>4, <2>5, <2>6 DEF Judges
<1>4. CASE UNCHANGED civars
  <2>1. UNCHANGED <<content, runs, clock, fetch>>
    BY <1>4 DEF civars
  <2>2. FetchIsSound'
    BY <2>1 DEF Inv, FetchIsSound, FetchTypes, PagesAreSeen, IsView, Completed, Finished,
                Unmoved, ListingOf, Saved, Seen, PayloadComplete
  <2> QED BY <2>1, <2>2, ReadingKeeps
<1> QED BY <1>1, <1>2, <1>3, <1>4 DEF CINext

-----------------------------------------------------------------------------
(* What a promotion rests on                                               *)

(* Some numbers up to n have a greatest.                                   *)
LEMMA Greatest ==
    ASSUME NEW n \in Nat, NEW P \in SUBSET (1..n), P # {}
    PROVE  \E x \in P : \A y \in P : y <= x
<1>1. IsFiniteSet(P) /\ Cardinality(P) \in Nat
  BY FiniteListing
<1>2. Cardinality(P) # 0
  BY <1>1, FS_EmptySet
<1>3. /\ \A i \in P : Place(P, i) \in 1..Cardinality(P)
      /\ \A k \in 1..Cardinality(P) : \E i \in P : Place(P, i) = k
  BY Places
<1>4. PICK x \in P : Place(P, x) = 1
  BY <1>1, <1>2, <1>3
<1>5. ASSUME NEW y \in P, y > x
      PROVE  FALSE
  <2> DEFINE low == {j \in P : j >= x}
             high == {j \in P : j >= y}
  <2>1. high \in SUBSET low /\ x \in low \ high
    <3>1. x \in Nat /\ y \in Nat /\ \A j \in P : j \in Nat
      OBVIOUS
    <3>2. \A j \in high : j \in low
      BY <1>5, <3>1
    <3>3. x \in low /\ x \notin high
      BY <1>5, <3>1
    <3> QED BY <3>2, <3>3
  <2>2. IsFiniteSet(low) /\ low \in SUBSET P
    BY <1>1, FS_Subset
  <2>3. Cardinality(high) < Cardinality(low)
    <3> HIDE DEF low, high
    <3>1. Cardinality(high) <= Cardinality(low) /\ Cardinality(high) # Cardinality(low)
      BY <2>1, <2>2, FS_Subset
    <3>2. Cardinality(high) \in Nat /\ Cardinality(low) \in Nat
      BY <2>1, <2>2, FS_Subset, FS_CardinalityType
    <3> QED BY <3>1, <3>2
  <2>4. Cardinality(low) = 1 /\ Cardinality(high) \in 1..Cardinality(P)
    BY <1>3, <1>4 DEF Place
  <2> HIDE DEF low, high
  <2> QED BY <1>1, <2>3, <2>4
<1> QED BY <1>4, <1>5

(* One check of a complete answer that passes was green for the commit at  *)
(* some moment between the request and the last end.                       *)
LEMMA PassedWasGreen ==
    ASSUME Inv, fetch # None, fetch.next = None, PayloadComplete,
           NEW name, CheckPasses(name)
    PROVE  \E m \in fetch.since..Finished :
              GreenAfter({i \in ListingOf(fetch.sha) : runs[i].name = name}, m)
<1> DEFINE S == {i \in ListingOf(fetch.sha) : runs[i].name = name}
           C == CompletedFor(name)
           sel == SelectedFor(name)
<1>0. /\ FetchTypes /\ PagesAreSeen /\ \A g \in fetch.got : IsView(g, fetch.since)
      /\ Types /\ EndsAreOrdered
  BY DEF Inv, FetchIsSound
<1>1. PICK n \in Nat, f \in Nat : n = Len(runs) /\ f = Finished
  BY <1>0, RunNumbers DEF Types
<1>2. DOMAIN runs = 1..n /\ \A i \in 1..n : runs[i].at \in Nat /\ runs[i].fin \in Nat
  BY <1>0, <1>1, RunNumbers DEF Types, RunRecords
<1>3. \A g \in C : /\ g.i \in 1..n /\ Completed(g.i) /\ g.i \in S /\ g.at = runs[g.i].at
                   /\ g.conclusion = runs[g.i].conclusion /\ runs[g.i].fin \in 1..f
  BY <1>0, <1>1, <1>2 DEF CompletedFor, IsView, Saved, ListingOf, EndsAreOrdered
<1>4. \A i \in S : runs[i].fin \in 1..fetch.since => \E g \in C : g.i = i
  <2> SUFFICES ASSUME NEW i \in S, runs[i].fin \in 1..fetch.since
               PROVE  \E g \in C : g.i = i
    OBVIOUS
  <2>1. i \in ListingOf(fetch.sha) /\ runs[i].name = name /\ runs[i].head = fetch.sha
    BY DEF ListingOf
  <2>2. PICK g \in fetch.got : g.i = i
    BY <1>0, <2>1 DEF PagesAreSeen, Seen
  <2>3. g.conclusion # None
    BY <1>0, <2>2 DEF IsView
  <2> QED BY <2>1, <2>2, <2>3 DEF CompletedFor
<1>5. C # {} /\ ~Ambiguous(name) /\ sel.conclusion = "success"
  BY DEF CheckPasses
<1>6. sel \in C /\ \A h \in C : h.at < sel.at \/ h.at = sel.at
  <2> DEFINE Later(h, g) == h.at < g.at \/ (h.at = g.at /\ h.i <= g.i)
  <2>1. PICK x \in Nat : (\E g \in C : g.at = x) /\ \A h \in C : h.at <= x
    <3> DEFINE ats == {g.at + 1 : g \in C}
    <3>1. clock + 1 \in Nat /\ clock \in Nat
      BY <1>0, BoundAssumption DEF Types
    <3>2. \A g \in C : g.at \in Nat /\ g.at <= clock
      BY <1>0, <1>2, <1>3 DEF EndsAreOrdered
    <3>3. ats \in SUBSET (1..(clock + 1)) /\ ats # {}
      BY <1>5, <3>1, <3>2
    <3>4. PICK a \in ats : \A b \in ats : b <= a
      <4> HIDE DEF ats
      <4> QED BY <3>1, <3>3, Greatest
    <3>5. PICK g \in C : a = g.at + 1
      OBVIOUS
    <3>6. \A h \in C : h.at <= g.at
      <4>1. \A h \in C : h.at + 1 <= g.at + 1
        BY <3>4, <3>5
      <4> QED BY <3>2, <4>1
    <3> QED BY <3>2, <3>5, <3>6
  <2>2. PICK g \in C : g.at = x /\ \A h \in C : h.at = x => h.i <= g.i
    <3> DEFINE ids == {h.i : h \in {c \in C : c.at = x}}
    <3>1. ids \in SUBSET (1..n) /\ ids # {}
      BY <1>3, <2>1
    <3>2. PICK a \in ids : \A b \in ids : b <= a
      <4> HIDE DEF ids
      <4> QED BY <3>1, Greatest
    <3>3. PICK g \in C : g.at = x /\ g.i = a
      OBVIOUS
    <3> QED BY <3>2, <3>3
  <2>3. \A h \in C : h.at \in Nat
    BY <1>2, <1>3
  <2>4. \A h \in C : Later(h, g)
    BY <2>1, <2>2, <2>3
  <2>5. sel = CHOOSE c \in C : \A h \in C : Later(h, c)
    BY DEF SelectedFor
  <2>6. sel \in C /\ \A h \in C : Later(h, sel)
    <3> HIDE DEF C, sel, Later
    <3> QED BY <2>4, <2>5
  <2> QED BY <2>6
<1>7. PICK last \in C : \A h \in C : runs[h.i].fin <= runs[last.i].fin
  <2> DEFINE fins == {runs[h.i].fin : h \in C}
  <2>1. fins \in SUBSET (1..f) /\ fins # {}
    BY <1>3, <1>5
  <2>2. PICK a \in fins : \A b \in fins : b <= a
    <3> HIDE DEF fins
    <3> QED BY <2>1, Greatest
  <2>3. PICK last \in C : runs[last.i].fin = a
    OBVIOUS
  <2> QED BY <2>2, <2>3
<1> HIDE DEF C, S, sel
<1>8. runs[last.i].conclusion = "success"
  <2>1. \A h \in C : runs[h.i].at <= runs[last.i].at
    <3> SUFFICES ASSUME NEW h \in C
                 PROVE  runs[h.i].at <= runs[last.i].at
      OBVIOUS
    <3>0. /\ h.i \in 1..n /\ last.i \in 1..n /\ Completed(h.i) /\ Completed(last.i)
          /\ runs[h.i].fin <= runs[last.i].fin
      BY <1>3, <1>7
    <3>1. CASE h.i = last.i
      BY <1>2, <3>0, <3>1
    <3>2. CASE h.i # last.i
      <4>1. runs[h.i].fin # runs[last.i].fin
        BY <1>0, <1>2, <3>0, <3>2 DEF EndsAreOrdered
      <4>2. runs[h.i].fin < runs[last.i].fin
        BY <1>2, <3>0, <4>1
      <4> QED BY <1>0, <1>2, <3>0, <3>2, <4>2 DEF EndsAreOrdered
    <3> QED BY <3>1, <3>2
  <2>2. last.at = sel.at
    <3>1. last.at \in Nat /\ sel.at \in Nat /\ sel.at <= last.at
      BY <1>2, <1>3, <1>6, <2>1
    <3> QED BY <1>6, <3>1
  <2>3. last.conclusion = sel.conclusion
    BY <1>5, <2>2 DEF Ambiguous, C, sel
  <2> QED BY <1>3, <1>5, <2>3
<1>9. fetch.since \in Nat /\ fetch.since <= f
  BY <1>0, <1>1 DEF FetchTypes
<1>10. PICK L \in 1..n : /\ L = last.i /\ L \in S /\ runs[L].fin \in 1..f
                         /\ runs[L].conclusion = "success"
  BY <1>3, <1>8
<1>11. CASE runs[L].fin >= fetch.since
  <2>1. runs[L].fin \in fetch.since..Finished
    BY <1>1, <1>9, <1>10, <1>11
  <2>2. GreenAfter(S, runs[L].fin)
    <3>1. L \in {i \in S : runs[i].fin \in 1..runs[L].fin}
      BY <1>2, <1>10
    <3>2. \A j \in {i \in S : runs[i].fin \in 1..runs[L].fin} : runs[j].fin <= runs[L].fin
      BY <1>2, <1>10
    <3> QED BY <1>10, <3>1, <3>2 DEF GreenAfter
  <2> QED BY <2>1, <2>2 DEF S
<1>12. CASE runs[L].fin < fetch.since
  <2>1. fetch.since \in fetch.since..Finished
    BY <1>1, <1>9
  <2>2. GreenAfter(S, fetch.since)
    <3>1. L \in {i \in S : runs[i].fin \in 1..fetch.since}
      BY <1>2, <1>9, <1>10, <1>12
    <3>2. \A j \in {i \in S : runs[i].fin \in 1..fetch.since} : runs[j].fin <= runs[L].fin
      BY <1>4, <1>7, <1>10
    <3> QED BY <1>10, <3>1, <3>2 DEF GreenAfter
  <2> QED BY <2>1, <2>2 DEF S
<1>13. runs[L].fin >= fetch.since \/ runs[L].fin < fetch.since
  BY <1>2, <1>9
<1> QED BY <1>11, <1>12, <1>13

(* A check that was green was run on a commit that validates.              *)
LEMMA GreenIsClean ==
    ASSUME Inv, NEW s, NEW P \in SUBSET ListingOf(s), NEW m, GreenAfter(P, m)
    PROVE  content[s] \in CleanTrees
<1>1. PICK i \in P : runs[i].conclusion = "success"
  BY DEF GreenAfter
<1>2. i \in DOMAIN runs /\ runs[i].role = "producer" /\ runs[i].head = s
  BY DEF ListingOf, Saved
<1> QED BY <1>1, <1>2 DEF Inv, RunsAreJobs, IsJob

(* The values the judgements have.                                         *)
JudgementTypes ==
    /\ promoted # None => promoted.sha \in Shas /\ promoted.since <= promoted.until
    /\ accepted # None => accepted.picked \subseteq DOMAIN runs

LEMMA TypesAreRight ==
    ASSUME Inv, JudgementTypes
    PROVE  CITypeOK
<1>0. /\ Types /\ EndsAreOrdered /\ FetchIsSound
      /\ Finished \in Nat /\ DOMAIN runs = 1..Len(runs) /\ Len(runs) \in Nat
  BY RunNumbers DEF Inv, Types
<1>1. clock \in Nat
  BY <1>0, BoundAssumption DEF Types
<1>2. ASSUME NEW r \in Elements(runs)
      PROVE  /\ r.role \in Roles /\ r.head \in Shas \cup Umbrellas /\ r.core \in Shas
             /\ r.conclusion \in {None, "success", "failure"}
             /\ r.at \in 0 .. clock /\ r.fin \in 0 .. Finished
             /\ r.built \in Shas \cup {None} /\ r.ran \subseteq Texts
  <2>1. PICK i \in DOMAIN runs : r = runs[i]
    BY DEF Elements
  <2>2. r \in RunRecords
    BY <1>0, <2>1 DEF Types
  <2>3. r.at <= clock /\ (r.fin \in 1..Finished \/ r.fin = 0)
    BY <1>0, <2>1 DEF EndsAreOrdered
  <2>4. r.at \in Nat
    BY <2>2 DEF RunRecords
  <2>5. r.at \in 0..clock /\ r.fin \in 0..Finished
    BY <1>0, <1>1, <2>3, <2>4
  <2> QED BY <2>2, <2>5 DEF RunRecords
<1>3. ASSUME fetch # None
      PROVE  /\ fetch.job \in 0 .. Len(runs) /\ fetch.sha \in Shas
             /\ fetch.since \in 0 .. Finished
             /\ \A g \in fetch.got : g.i \in DOMAIN runs
  <2>1. FetchTypes /\ \A g \in fetch.got : IsView(g, fetch.since)
    BY <1>0, <1>3 DEF FetchIsSound
  <2>2. fetch.job \in Nat /\ fetch.sha \in Shas /\ fetch.since \in Nat
    BY <2>1 DEF FetchTypes
  <2>3. fetch.job \in 0..Len(runs) /\ fetch.since \in 0..Finished
    BY <1>0, <2>1, <2>2 DEF FetchTypes
  <2> QED BY <2>1, <2>2, <2>3 DEF IsView, Saved
<1> QED BY <1>0, <1>2, <1>3 DEF CITypeOK, Types, EndsAreOrdered, JudgementTypes

(* The step that promotes: each check of the promotion was green.          *)
LEMMA PromotionStep ==
    ASSUME Inv, VerifyPromotion
    PROVE  PromotedWasGreen' /\ PromotedWasValidated'
<1>1. /\ fetch # None /\ fetch.next = None /\ Report(Allowed) /\ fetch' = None
      /\ promoted' = (IF Allowed
                      THEN [sha |-> fetch.sha, required |-> fetch.required,
                            since |-> fetch.since, until |-> Finished]
                      ELSE None)
      /\ UNCHANGED <<content, clock>>
  BY DEF VerifyPromotion
<1>2. Allowed \in BOOLEAN
  BY DEF Allowed
<1>3. CASE ~Allowed
  BY <1>1, <1>3 DEF PromotedWasGreen, PromotedWasValidated
<1>4. CASE Allowed
  <2> DEFINE s == fetch.sha
             S(name) == {i \in ListingOf(s) : runs[i].name = name}
             Later(name) == {i \in {i \in Saved' : runs'[i].head = s} : runs'[i].name = name}
  <2>1. /\ promoted'.sha = s /\ promoted'.required = fetch.required
        /\ promoted'.since = fetch.since /\ promoted'.until = Finished
    BY <1>1, <1>4
  <2>2. /\ DOMAIN runs' = DOMAIN runs
        /\ \A i \in DOMAIN runs : \/ runs'[i] = runs[i]
                                  \/ /\ runs[i].role = "promotion"
                                     /\ runs'[i].role = "promotion"
    BY <1>1, <1>2, ReportKeeps
  <2>3. /\ Saved' = Saved /\ \A i \in Saved : runs'[i] = runs[i]
    BY <2>2 DEF Saved
  <2>4. \A name : Later(name) = S(name)
    BY <2>3 DEF ListingOf
  <2>5. ASSUME NEW name \in fetch.required
        PROVE  \E m \in fetch.since..Finished : GreenAfter(S(name), m)
    BY <1>1, <1>4, PassedWasGreen DEF Allowed
  <2>6. ASSUME NEW name, NEW m, GreenAfter(S(name), m)
        PROVE  LET ended == {i \in Later(name) : runs'[i].fin \in 1 .. m}
               IN  \E i \in ended : /\ runs'[i].conclusion = "success"
                                    /\ \A j \in ended : runs'[j].fin <= runs'[i].fin
    <3> DEFINE now == {i \in S(name) : runs[i].fin \in 1 .. m}
               ended == {i \in Later(name) : runs'[i].fin \in 1 .. m}
    <3>1. \A i \in S(name) : runs'[i] = runs[i]
      BY <2>3 DEF ListingOf
    <3>2. now = ended /\ \A i \in now : runs'[i] = runs[i]
      BY <2>4, <3>1
    <3>3. PICK i \in now : runs[i].conclusion = "success" /\ \A j \in now : runs[j].fin <= runs[i].fin
      BY <2>6 DEF GreenAfter
    <3> HIDE DEF now, ended
    <3> QED BY <3>2, <3>3 DEF ended
  <2>7. PromotedWasGreen'
    <3>1. \A name \in fetch.required : \E m \in fetch.since..Finished :
             LET ended == {i \in Later(name) : runs'[i].fin \in 1 .. m}
             IN  \E i \in ended : /\ runs'[i].conclusion = "success"
                                  /\ \A j \in ended : runs'[j].fin <= runs'[i].fin
      BY <2>5, <2>6
    <3>2. promoted'.since .. promoted'.until = fetch.since..Finished
      BY <2>1
    <3> QED BY <2>1, <3>1, <3>2 DEF PromotedWasGreen, Moments, GreenAfter, ListingOf
  <2>8. PromotedWasValidated'
    <3>1. PICK name \in fetch.required : TRUE
      BY <1>4 DEF Allowed
    <3>2. PICK m : GreenAfter(S(name), m)
      BY <2>5
    <3>3. S(name) \in SUBSET ListingOf(s)
      OBVIOUS
    <3>4. content[s] \in CleanTrees
      BY <3>2, <3>3, GreenIsClean
    <3> QED BY <1>1, <2>1, <3>4 DEF PromotedWasValidated
  <2> QED BY <2>7, <2>8
<1> QED BY <1>3, <1>4

(* The step that accepts: one run of each identity passed on the commit.   *)
LEMMA AcceptStep ==
    ASSUME Inv, NEW s \in Shas, NEW core \in Shas, NEW u \in Umbrellas,
           NEW picked \in SUBSET (DOMAIN runs), Accept(s, core, u, picked)
    PROVE  AcceptedWasGated'
<1> DEFINE rcc == ContractOf(s)
           m == Manifest(s)
<1>1. /\ \A row \in Rows(rcc, core, u) : RowPasses(m, picked, row, core)
      /\ accepted' = [manifest |-> s, core |-> core, picked |-> picked]
      /\ UNCHANGED <<content, runs>>
  BY DEF Accept
<1>2. ASSUME NEW x \in rcc.producer \cup rcc.consumer
      PROVE  \E i \in picked :
               /\ runs[i].name = x /\ runs[i].conclusion = "success"
               /\ runs[i].built = core
               /\ ExpectedCommands(m, x) \subseteq runs[i].ran
  <2>1. PICK role \in {"producer", "consumer"} : \E head :
           /\ <<x, role, head>> \in Rows(rcc, core, u)
           /\ role = "producer" => head = core
    BY <1>2 DEF Rows
  <2>0. PICK head : /\ <<x, role, head>> \in Rows(rcc, core, u)
                    /\ role = "producer" => head = core
    BY <2>1
  <2> DEFINE row == <<x, role, head>>
             matches == {i \in picked : runs[i].name = row[1] /\ runs[i].role = row[2]}
  <2>2. Cardinality(matches) = 1 /\ \A i \in matches : RunPasses(m, i, row, core)
    <3>1. RowPasses(m, picked, row, core)
      BY <1>1, <2>0
    <3> QED BY <3>1 DEF RowPasses
  <2>3. matches # {}
    <3>1. Cardinality({}) = 0
      BY FS_EmptySet
    <3> HIDE DEF matches
    <3> QED BY <2>2, <3>1
  <2>4. PICK i \in picked : runs[i].name = x /\ runs[i].role = role /\ RunPasses(m, i, row, core)
    BY <2>2, <2>3
  <2>5. /\ runs[i].conclusion = "success" /\ ExpectedCommands(m, x) \subseteq runs[i].ran
        /\ runs[i].head = head /\ (role # "producer" => runs[i].core = core)
    BY <2>4 DEF RunPasses
  <2>6. runs[i].built = runs[i].core /\ (role = "producer" => runs[i].head = runs[i].core)
    BY <2>0, <2>1, <2>4, <2>5 DEF Inv, RunsAreJobs, IsJob
  <2> QED BY <2>0, <2>1, <2>4, <2>5, <2>6
<1>3. Manifest(s)' = m /\ ContractOf(s)' = rcc
  BY <1>1 DEF Manifest, TreeOf, ContractOf
<1>4. accepted'.manifest = s /\ accepted'.core = core /\ accepted'.picked = picked
  BY <1>1
<1> HIDE DEF rcc, m
<1>5. Manifest(accepted.manifest)' = m /\ ContractOf(accepted.manifest)' = rcc
  BY <1>3, <1>4 DEF Manifest, TreeOf, ContractOf
<1> QED BY <1>1, <1>2, <1>4, <1>5 DEF AcceptedWasGated

(* The invariant with the judgements.                                      *)
Judged ==
    Inv /\ JudgementTypes /\ PromotedWasGreen /\ PromotedWasValidated /\ AcceptedWasGated

(* A step without a verdict has nothing to justify.                        *)
LEMMA NoJudgementKeeps ==
    ASSUME Inv', NoJudgement
    PROVE  Judged'
BY DEF NoJudgement, Judged, JudgementTypes, PromotedWasGreen, PromotedWasValidated,
       AcceptedWasGated

LEMMA JudgedStart == CIInit => Judged
BY Start DEF CIInit, Judged, JudgementTypes, PromotedWasGreen, PromotedWasValidated,
             AcceptedWasGated

LEMMA JudgedStep == Judged /\ [CINext]_civars => Judged'
<1> SUFFICES ASSUME Judged, [CINext]_civars
             PROVE  Judged'
  OBVIOUS
<1>0. Inv /\ Inv'
  BY StepKeeps DEF Judged
<1>1. CASE Tick
  BY <1>0, <1>1, NoJudgementKeeps DEF Tick
<1>2. CASE Works
  BY <1>0, <1>2, NoJudgementKeeps DEF Works, StartJob, StartConsumer, FinishJob
<1>3. CASE Judges
  <2>1. CASE VerifyPromotion
    <3>1. PromotedWasGreen' /\ PromotedWasValidated' /\ accepted' = None
      BY <1>0, <2>1, PromotionStep DEF VerifyPromotion
    <3>2. JudgementTypes'
      <4>1. fetch.sha \in Shas /\ fetch.since <= Finished
        BY <1>0, <2>1 DEF VerifyPromotion, Inv, FetchIsSound, FetchTypes
      <4> QED BY <2>1, <3>1, <4>1 DEF VerifyPromotion, JudgementTypes
    <3> QED BY <1>0, <3>1, <3>2 DEF Judged, AcceptedWasGated
  <2>2. ASSUME NEW s \in Shas, NEW core \in Shas, NEW u \in Umbrellas,
               NEW picked \in SUBSET (DOMAIN runs), Accept(s, core, u, picked)
        PROVE  Judged'
    <3>1. AcceptedWasGated'
      BY <1>0, <2>2, AcceptStep
    <3>2. promoted' = None /\ runs' = runs /\ accepted'.picked = picked
      BY <2>2 DEF Accept
    <3> QED BY <1>0, <3>1, <3>2 DEF Judged, JudgementTypes, PromotedWasGreen,
                                    PromotedWasValidated
  <2>3. \/ VerifyPromotion
        \/ \E s, core \in Shas, u \in Umbrellas, picked \in SUBSET (DOMAIN runs) :
              Accept(s, core, u, picked)
        \/ NoJudgement
    BY <1>3 DEF Judges, BeginFetch, BeginLive, LoadFixture, FetchPage, FetchFails
  <2> QED BY <1>0, <2>1, <2>2, <2>3, NoJudgementKeeps
<1>4. CASE UNCHANGED civars
  BY <1>0, <1>4 DEF civars, Judged, JudgementTypes, PromotedWasGreen, PromotedWasValidated,
        AcceptedWasGated, Moments, GreenAfter, ListingOf, Saved, Manifest, TreeOf, ContractOf
<1> QED BY <1>1, <1>2, <1>3, <1>4 DEF CINext

THEOREM JudgedAlways == CISpec => []Judged
BY JudgedStart, JudgedStep, PTL DEF CISpec

(* Whatever is rerun, added to the list, cut off by a page or ended in the *)
(* same second while promotion.py reads: a commit is promoted only if each *)
(* required check was green for it at some moment of the reading, and only *)
(* if its manifest and workflows validate.                                 *)
THEOREM PromotionFounded == CISpec => []PromotionIsFounded
<1>1. Judged => PromotionIsFounded
  BY TypesAreRight DEF Judged, PromotionIsFounded
<1> QED BY <1>1, JudgedAlways, PTL

(* Evidence that required_checks.py accepts has, for each required check   *)
(* of the manifest, a run whose job checked out the reviewed commit and    *)
(* ran every command of the check's gates to success.                      *)
THEOREM AcceptedGated == CISpec => []AcceptedWasGated
<1>1. Judged => AcceptedWasGated
  BY DEF Judged
<1> QED BY <1>1, JudgedAlways, PTL

=============================================================================
