----------------------------- MODULE StateSchema -----------------------------
(***************************************************************************)
(* The schema-v3 run state (schema_v3.py), the values a file may hold and  *)
(* a reader may build from it (migration.py), and the snapshots made from  *)
(* it.  A run has one task here: no rule of the schema relates two tasks.  *)
(*                                                                         *)
(* A file is described by what its readers tell apart: its version, whether *)
(* a required field is missing or has the wrong type, whether it has fields *)
(* the schema does not know, and the product facts.                        *)
(***************************************************************************)
EXTENDS Integers, Sequences

CONSTANTS
    Names,     \* paths under reports/ and logs/ of a run directory
    Logs,      \* those that are the log of a command
    Keys,      \* the keys reports are registered under
    OpIds,     \* operation ids
    None

ASSUME NoneAssumption == None \notin Names /\ None \notin OpIds
ASSUME LogsAssumption == Logs \subseteq Names

Product == {"to_do", "in_progress", "done"}

(* Labels schema-v2 writers left, one per image.                           *)
Legacy == {"running", "verified"}

Resolutions == {"completed", "cancelled"}

Policies == {"reject", "ignore", "preserve"}

(* What is wrong with a file: nothing, or a required field is absent, has  *)
(* the wrong type, or a value outside its enumeration, in the run or task  *)
(* itself or in a record inside them.                                      *)
Defects == {"none", "field", "nested"}

(* An operation's evidence: the file it names, or facts of its own.        *)
Evidence == Names \cup {"bare"}

(* The keys of the registry: of reports, and "command:<id>" of each command, *)
(* which is named by its log here, logs/<id>.log.                          *)
Entries == Keys \cup Logs

States ==
    [version : {2, 3}, defect : Defects, foreign : BOOLEAN, revision : Nat,
     status : Product \cup Legacy, resolution : Resolutions \cup {None},
     ops : [OpIds -> Evidence \cup {None}],
     commands : Seq(Logs), artifacts : [Entries -> Names \cup {None}]]

(* The state of a run nothing has happened in.                             *)
FreshState ==
    [version |-> 3, defect |-> "none", foreign |-> FALSE, revision |-> 0,
     status |-> "to_do", resolution |-> None,
     ops |-> [o \in OpIds |-> None], commands |-> << >>,
     artifacts |-> [k \in Entries |-> None]]
-----------------------------------------------------------------------------
(* Reading                                                                 *)

(* A done task has a resolution and no other has one.                      *)
ResolutionFits(status, resolution) == status = "done" <=> resolution # None

(* Verification, implementation, evidence, history and command records.    *)
NestedParse(s) == s.defect # "nested"

(* TaskEntryV3.from_mapping: every required field is there with its type,  *)
(* the status is a product status.                                         *)
TaskParses(s) ==
    /\ NestedParse(s)
    /\ s.defect # "field"
    /\ s.status \in Product
    /\ ResolutionFits(s.status, s.resolution)

UnknownAccepted(s, policy) == s.foreign => policy # "reject"

ReadsAsV3(s, policy) == s.version = 3 /\ TaskParses(s) /\ UnknownAccepted(s, policy)

(* What the reader keeps of unknown fields.                                *)
FromMapping(s, policy) == [s EXCEPT !.foreign = s.foreign /\ policy = "preserve"]

(* _LEGACY_TASK_STATUS_COMPATIBILITY.                                      *)
ProductOf(label) ==
    CASE label = "running"  -> "in_progress"
      [] label = "verified" -> "done"

MigrateStatus(s) ==
    IF s.status \notin Legacy THEN s
    ELSE [s EXCEPT !.status = ProductOf(s.status),
                   !.resolution = IF s.status = "verified" THEN "completed"
                                                           ELSE s.resolution]

V2ToV3(s) == MigrateStatus([s EXCEPT !.version = 3])

Upgraded(s) == IF s.version = 2 THEN V2ToV3(s) ELSE MigrateStatus(s)

(* load_state refuses what the upgraded document does not satisfy.         *)
Loads(s, policy) == ReadsAsV3(Upgraded(s), policy)

Load(s, policy) == FromMapping(Upgraded(s), policy)
-----------------------------------------------------------------------------
(* Snapshots                                                               *)

Registry(s) == {s.artifacts[k] : k \in Entries} \ {None}

(* The evidence files a state names: its registry, and its operations.     *)
Referenced(s) == Registry(s) \cup ({s.ops[o] : o \in OpIds} \ {None, "bare"})

WithCommand(s, log) == [s EXCEPT !.commands = Append(@, log)]

(* The entry under a key is replaced: its former file may be named no more. *)
WithArtifact(s, k, n) == [s EXCEPT !.artifacts[k] = n]

(* What a caller of commit may make of a state that no other operation     *)
(* does: it is the same, or has an entry of the registry less.             *)
Rebuilt(s) == {s} \cup {[s EXCEPT !.artifacts[k] = None] : k \in Entries}

(* with_appended_operation: an exact replay is the same state, an id with  *)
(* other evidence is refused.                                              *)
OperationReplayed(s, o, e) == s.ops[o] = e

OperationRefused(s, o, e) == s.ops[o] \notin {None, e}

WithOperation(s, o, e) == [s EXCEPT !.ops[o] = e]

(* with_status moves between any two product statuses.                     *)
StatusRefused(status, resolution, reason) ==
    \/ status \notin Product
    \/ ~ResolutionFits(status, resolution)
    \/ resolution = "cancelled" /\ ~reason

WithStatus(s, status, resolution) ==
    [s EXCEPT !.status = status, !.resolution = resolution]

(* The document a commit writes.                                           *)
Committed(s) == [s EXCEPT !.revision = @ + 1]
=============================================================================
