----------------------------- MODULE Promotion -----------------------------
(***************************************************************************)
(* How a core commit is promoted: the jobs of quality-gates.yml run gates  *)
(* through the driver and leave check runs, promotion.py reads the check   *)
(* runs of the commit page by page and judges them, the umbrella's         *)
(* promotion job reports the verdict as a check run of its own, and        *)
(* required_checks.py judges the captured evidence of them all.            *)
(*                                                                         *)
(* Check runs come and finish while the pages are read.  A timestamp has   *)
(* the resolution of a second; fin is the real order of the ends.          *)
(***************************************************************************)
EXTENDS CIContract

CONSTANTS
    Shas,        \* core commits
    Umbrellas,   \* umbrella commits
    Gitlink,     \* core commit an umbrella commit pins
    Trees,       \* what a core commit may hold, by name:
                 \*   [manifest, workflows, root, documented, missing, joined]
    Histories,   \* which tree each core commit holds
    PageSize,    \* check runs per page; 100 in the code
    MaxRuns,     \* bound: check runs
    MaxClock     \* bound: seconds

ASSUME GitlinkAssumption == Gitlink \in [Umbrellas -> Shas]
ASSUME HistoryAssumption == Histories \subseteq [Shas -> DOMAIN Trees]
ASSUME TextAssumption ==
    \A t \in DOMAIN Trees : \A e \in Elements(Trees[t].manifest.entries) :
        {c.text : c \in Elements(e.commands)} \subseteq Texts
ASSUME NothingAssumption == None \notin Nat \cup Shas \cup {"success", "failure"}
ASSUME BoundAssumption == PageSize \in Nat \ {0} /\ MaxRuns \in Nat /\ MaxClock \in Nat

VARIABLES
    content,   \* the tree of each core commit
    runs,      \* the check runs of both repositories, oldest first
    clock,     \* seconds
    fetch,     \* the promotion.py process: what it asked for and has read
    promoted,  \* the promotion the process that just ended allowed, or None
    accepted   \* the evidence the process that just ended accepted, or None

civars == <<content, runs, clock, fetch, promoted, accepted>>

TreeOf(s) == Trees[content[s]]

Manifest(s) == TreeOf(s).manifest

Targets ==
    {[role |-> r, name |-> "managed", branch |-> "main", enforcement |-> "active",
      app |-> "actions"] : r \in {"producer", "consumer"}}

(* What a commit's manifest comes to, computed once for each tree.         *)
ValidTrees == {t \in DOMAIN Trees : ManifestValid(Trees[t].manifest)}
CleanTrees == {t \in DOMAIN Trees : Validates(Trees[t])}
Contracts == [t \in ValidTrees |-> RequiredCheckContract(Trees[t].manifest)]
Rulesets ==
    [t \in ValidTrees |-> {DesiredRuleset(Trees[t].manifest, g) : g \in Targets}]

ManifestLoads(s) == content[s] \in ValidTrees
ContractOf(s) == Contracts[content[s]]

Roles == {"producer", "consumer", "promotion"}

(* A job and its check run: ran holds the gate commands its steps ran to   *)
(* success, built the commit that was checked out.                         *)
NewRun(name, gates, role, head, core) ==
    [name |-> name, gates |-> gates, role |-> role, head |-> head, core |-> core,
     conclusion |-> None, at |-> 0, fin |-> 0, built |-> None, ran |-> {}]

Completed(i) == runs[i].conclusion # None

Finished == Cardinality({i \in DOMAIN runs : Completed(i)})

CITypeOK ==
    /\ content \in Histories
    /\ Len(runs) <= MaxRuns
    /\ \A r \in Elements(runs) :
          /\ r.role \in Roles /\ r.head \in Shas \cup Umbrellas /\ r.core \in Shas
          /\ r.conclusion \in {None, "success", "failure"}
          /\ r.at \in 0 .. clock /\ r.fin \in 0 .. Finished
          /\ r.built \in Shas \cup {None} /\ r.ran \subseteq Texts
    /\ \A i, j \in DOMAIN runs :
          Completed(i) /\ Completed(j) /\ i # j => runs[i].fin # runs[j].fin
    /\ clock \in 0 .. MaxClock
    /\ fetch # None =>
          /\ fetch.job \in 0 .. Len(runs) /\ fetch.sha \in Shas
          /\ fetch.since \in 0 .. Finished
          /\ \A g \in fetch.got : g.i \in DOMAIN runs
    /\ promoted # None => promoted.sha \in Shas /\ promoted.since <= promoted.until
    /\ accepted # None => accepted.picked \subseteq DOMAIN runs

CIInit ==
    /\ content \in Histories
    /\ runs = << >> /\ clock = 0
    /\ fetch = None /\ promoted = None /\ accepted = None

NoJudgement == promoted' = None /\ accepted' = None

Tick ==
    /\ clock < MaxClock
    /\ clock' = clock + 1
    /\ NoJudgement
    /\ UNCHANGED <<content, runs, fetch>>
-----------------------------------------------------------------------------
(* Jobs                                                                    *)

(* quality-gates.yml makes one job per gate and image, and several of them *)
(* report under one check name.  A tree whose lint and types are joined is *)
(* not of that file: it has one job for the two, which is what the check-  *)
(* name policy expects and the captured record has that the tests accept   *)
(* (tests/fixtures/ci/required_checks/acceptance-pass.json).               *)
MatrixCells(m) == UNION {{e.id} \X Elements(e.os) : e \in Group(m, "core")}

CheckName(cell) ==
    CASE cell[1] \in {"lint", "types"} -> LintTypes
      [] cell[1] = "coverage"          -> Coverage
      [] OTHER                         -> cell

JobsIn ==
    [t \in ValidTrees |->
       LET single == {[name |-> CheckName(c), gates |-> <<c[1]>>] :
                         c \in MatrixCells(Trees[t].manifest)} IN
         IF Trees[t].joined
         THEN {j \in single : j.name # LintTypes}
              \cup {[name |-> LintTypes, gates |-> GatesOf(LintTypes)]}
         ELSE single]

AddRun(run) == runs' = Append(runs, run)

HasRoom == Len(runs) < MaxRuns

(* The matrix is expanded only when validation passed.                     *)
StartJob(s, job) ==
    /\ HasRoom
    /\ content[s] \in CleanTrees
    /\ job \in JobsIn[content[s]]
    /\ AddRun(NewRun(job.name, job.gates, "producer", s, s))
    /\ NoJudgement
    /\ UNCHANGED <<content, clock, fetch>>

StartConsumer(u, cell) ==
    /\ HasRoom
    /\ ManifestLoads(Gitlink[u])
    /\ cell \in ContractOf(Gitlink[u]).consumer
    /\ AddRun(NewRun(cell, <<"installed-package">>, "consumer", u, Gitlink[u]))
    /\ NoJudgement
    /\ UNCHANGED <<content, clock, fetch>>

Ends(i, conclusion, built, ran) ==
    runs' = [runs EXCEPT ![i] = [@ EXCEPT !.conclusion = conclusion, !.at = clock,
                !.fin = Finished + 1, !.built = built, !.ran = ran]]

(* The steps of a job run one gate each.                                   *)
GateSteps(i, built, fails) ==
    [g \in DOMAIN runs[i].gates |->
        RunGate(Manifest(built), ManifestLoads(built), runs[i].gates[g], runs[i].core, built,
                TreeOf(built).missing, fails)]

(* The checkout may hold another commit.  A job that is cancelled or times *)
(* out is one that failed; what a failed one ran is nobody's evidence.     *)
FinishJob(i, built, fails) ==
    LET steps == GateSteps(i, built, fails) IN
    /\ ~Completed(i) /\ runs[i].role # "promotion"
    /\ IF \A g \in DOMAIN steps : steps[g].exit = 0
       THEN Ends(i, "success", built, UNION {steps[g].ran : g \in DOMAIN steps})
       ELSE Ends(i, "failure", None, {})
    /\ NoJudgement
    /\ UNCHANGED <<content, clock, fetch>>
-----------------------------------------------------------------------------
(* promotion.py                                                            *)

(* One check run as a page shows it.                                       *)
Shown(i) == [i |-> i, conclusion |-> runs[i].conclusion, at |-> runs[i].at]

(* The check runs of the core repository, those of one commit.             *)
Saved == {i \in DOMAIN runs : runs[i].role = "producer"}

ListingOf(s) == {i \in Saved : runs[i].head = s}

(* Lists are newest first.                                                 *)
Place(all, i) == Cardinality({j \in all : j >= i})

(* --required-check names, or the manifest's.                              *)
RequiredSets(s) ==
    IF ~ManifestLoads(s) THEN {}
    ELSE {ContractOf(s).producer} \cup {{x} : x \in ContractOf(s).producer}

Request(job, s, required) ==
    [job |-> job, sha |-> s, required |-> required, since |-> Finished,
     total |-> None, got |-> {}, read |-> 0, next |-> 1]

(* The tool at a terminal, and the umbrella's promotion job for a gitlink. *)
BeginLive(s, required) ==
    /\ fetch = None
    /\ required \in RequiredSets(s)
    /\ fetch' = Request(0, s, required)
    /\ NoJudgement
    /\ UNCHANGED <<content, runs, clock>>

BeginFetch(u, required) ==
    /\ fetch = None /\ HasRoom
    /\ required \in RequiredSets(Gitlink[u])
    /\ AddRun(NewRun(PromotionCheck, << >>, "promotion", u, Gitlink[u]))
    /\ fetch' = Request(Len(runs) + 1, Gitlink[u], required)
    /\ NoJudgement
    /\ UNCHANGED <<content, clock>>

(* total_count is the first page's; the last page has no link to a next.   *)
(* got is what the pages showed, read how many items they had.             *)
FetchPage ==
    /\ fetch # None /\ fetch.next # None
    /\ LET all == ListingOf(fetch.sha)
           last == fetch.next + PageSize - 1
           page == {i \in all : Place(all, i) \in fetch.next .. last} IN
         fetch' = [fetch EXCEPT
             !.got = @ \cup {Shown(i) : i \in page},
             !.read = @ + Cardinality(page),
             !.total = IF @ = None THEN Cardinality(all) ELSE @,
             !.next = IF Cardinality(all) > last THEN last + 1 ELSE None]
    /\ NoJudgement
    /\ UNCHANGED <<content, runs, clock>>

(* --mode fixture: a saved body with the runs of every commit, of which    *)
(* only the first n may have been saved.                                   *)
LoadFixture(s, required, n) ==
    /\ fetch = None
    /\ required \in RequiredSets(s)
    /\ n <= Cardinality(Saved)
    /\ fetch' = [Request(0, s, required) EXCEPT
                    !.got = {Shown(i) : i \in {j \in Saved : Place(Saved, j) <= n}},
                    !.read = n, !.total = Cardinality(Saved), !.next = None]
    /\ NoJudgement
    /\ UNCHANGED <<content, runs, clock>>

PayloadComplete == fetch.total = fetch.read

(* The completed runs of one name for the commit asked about.              *)
CompletedFor(name) ==
    {g \in fetch.got : /\ runs[g.i].name = name /\ runs[g.i].head = fetch.sha
                       /\ g.conclusion # None}

(* Latest by completed_at, then by id.                                     *)
SelectedFor(name) ==
    CHOOSE g \in CompletedFor(name) :
        \A h \in CompletedFor(name) : h.at < g.at \/ (h.at = g.at /\ h.i <= g.i)

(* Mutant: the order of the ids decides between equal timestamps.          *)
AmbiguousNever(name) == CompletedFor(name) = {}

(* Two that ended in one second and disagree.                              *)
Ambiguous(name) ==
    \E g \in CompletedFor(name) :
       /\ g.at = SelectedFor(name).at
       /\ g.conclusion # SelectedFor(name).conclusion

CheckPasses(name) ==
    /\ CompletedFor(name) # {}
    /\ ~Ambiguous(name)
    /\ SelectedFor(name).conclusion = "success"

Allowed ==
    /\ fetch.required # {}
    /\ PayloadComplete
    /\ \A name \in fetch.required : CheckPasses(name)

Report(ok) ==
    IF fetch.job = 0 THEN UNCHANGED runs
    ELSE Ends(fetch.job, IF ok THEN "success" ELSE "failure", None, {})

VerifyPromotion ==
    /\ fetch # None /\ fetch.next = None
    /\ Report(Allowed)
    /\ promoted' = IF Allowed
                   THEN [sha |-> fetch.sha, required |-> fetch.required,
                         since |-> fetch.since, until |-> Finished]
                   ELSE None
    /\ accepted' = None
    /\ fetch' = None
    /\ UNCHANGED <<content, clock>>

(* A transport error, a page that is no page, or a missing credential.     *)
FetchFails ==
    /\ fetch # None
    /\ Report(FALSE)
    /\ fetch' = None
    /\ NoJudgement
    /\ UNCHANGED <<content, clock>>
-----------------------------------------------------------------------------
(* required_checks.py                                                      *)

(* The rulesets read back are those rendered from commit a.                *)
RulesetsMatch(s, a) == ManifestLoads(a) /\ Rulesets[content[a]] = Rulesets[content[s]]

(* Identity, role and the head its run must have.                          *)
Rows(rcc, core, u) ==
      {<<x, "producer", core>> : x \in rcc.producer}
      \cup {<<x, "consumer", u>> : x \in rcc.consumer}
      \cup {<<rcc.promotion, "promotion", u>>}

RunPasses(m, i, row, core) ==
    /\ runs[i].head = row[3]
    /\ row[2] # "producer" => runs[i].core = core
    /\ runs[i].conclusion = "success"
    /\ ExpectedCommands(m, row[1]) \subseteq runs[i].ran

(* Exactly one run for each row, and it passes.                            *)
RowPasses(m, picked, row, core) ==
    LET matches == {i \in picked : runs[i].name = row[1] /\ runs[i].role = row[2]} IN
      Cardinality(matches) = 1 /\ \A i \in matches : RunPasses(m, i, row, core)

(* picked is the evidence that was captured, s the checkout whose manifest *)
(* the judge loads.                                                        *)
Accept(s, core, u, picked) ==
    /\ ManifestLoads(s)
    /\ \A row \in Rows(ContractOf(s), core, u) : RowPasses(Manifest(s), picked, row, core)
    /\ \E a \in Shas : RulesetsMatch(s, a)
    /\ accepted' = [manifest |-> s, core |-> core, picked |-> picked]
    /\ promoted' = None
    /\ UNCHANGED <<content, runs, clock, fetch>>

Works ==
    \/ \E s \in Shas : ManifestLoads(s) /\ \E job \in JobsIn[content[s]] : StartJob(s, job)
    \/ \E u \in Umbrellas, image \in SupportedOS, version \in PythonVersions :
          StartConsumer(u, <<image, version>>)
    \/ \E i \in DOMAIN runs : ~Completed(i) /\
          \E built \in Shas :
             \E fails \in CommandsOf(Manifest(built), runs[i].gates) \cup {None} :
                FinishJob(i, built, fails)

Judges ==
    \/ \E u \in Umbrellas : \E required \in RequiredSets(Gitlink[u]) : BeginFetch(u, required)
    \/ \E u \in Umbrellas : \E required \in RequiredSets(Gitlink[u]) :
          \/ BeginLive(Gitlink[u], required)
          \/ \E n \in 0 .. MaxRuns : LoadFixture(Gitlink[u], required, n)
    \/ FetchPage \/ VerifyPromotion \/ FetchFails
    \/ \E s, core \in Shas, u \in Umbrellas, picked \in SUBSET (DOMAIN runs) :
          Accept(s, core, u, picked)

CINext == Tick \/ Works \/ Judges

CISpec == CIInit /\ [][CINext]_civars
-----------------------------------------------------------------------------
(* Properties                                                              *)

(* After the first m ends, the latest of the runs in S is a success.       *)
GreenAfter(S, m) ==
    LET ended == {i \in S : runs[i].fin \in 1 .. m} IN
      \E i \in ended :
         /\ runs[i].conclusion = "success"
         /\ \A j \in ended : runs[j].fin <= runs[i].fin

Moments == promoted.since .. promoted.until

(* A promotion is allowed only if each required check was, at some moment  *)
(* while the evidence was read, green for exactly that commit: whatever    *)
(* reruns, other commits' runs, page boundaries, truncated bodies and      *)
(* equal timestamps made of the list.                                      *)
PromotedWasGreen ==
    promoted # None =>
       \A name \in promoted.required : \E m \in Moments :
          GreenAfter({i \in ListingOf(promoted.sha) : runs[i].name = name}, m)

FailedAfter(S, m) ==
    LET ended == {i \in S : runs[i].fin \in 1 .. m} IN
      \E i \in ended :
         /\ runs[i].conclusion = "failure"
         /\ \A j \in ended : runs[j].fin <= runs[i].fin

(* NOT an invariant (run it with promotion_shared.cfg).                    *)
(* promotion.py refuses when "a required check is missing / pending /      *)
(* failing": no gate that a required check stands for was red all the time *)
(* the evidence was read.                                                  *)
NoRedGatePromoted ==
    promoted # None =>
       \A name \in promoted.required : \A g \in Elements(GatesOf(name)) :
          \E m \in Moments : ~FailedAfter(
             {i \in ListingOf(promoted.sha) : g \in Elements(runs[i].gates)}, m)

(* A commit whose manifest or workflows drifted is never promoted, though  *)
(* promotion.py looks at neither: no required check of it can be green.    *)
PromotedWasValidated == promoted # None => content[promoted.sha] \in CleanTrees

(* A promotion rests on evidence: types, the checks and the validation     *)
(* together.                                                               *)
PromotionIsFounded == CITypeOK /\ PromotedWasGreen /\ PromotedWasValidated

(* Accepted evidence means that every command of every gate behind a       *)
(* required identity succeeded in a job whose checkout was the reviewed    *)
(* commit.  (A run of one gate does not succeed for all commands of a name *)
(* two gates share: of the jobs quality-gates.yml makes, such a name is    *)
(* never accepted, so joined trees are what this is about.)                *)
AcceptedWasGated ==
    accepted # None =>
       LET m == Manifest(accepted.manifest)
           rcc == ContractOf(accepted.manifest) IN
         \A x \in rcc.producer \cup rcc.consumer :
            \E i \in accepted.picked :
               /\ runs[i].name = x /\ runs[i].conclusion = "success"
               /\ runs[i].built = accepted.core
               /\ ExpectedCommands(m, x) \subseteq runs[i].ran
=============================================================================
