---------------------------- MODULE MCPromotion ----------------------------
(* Instances of Promotion for TLC.  Only lint and types are core gates     *)
(* with a runner, so that two check runs and the promotion's own are a     *)
(* whole acceptance.                                                       *)
EXTENDS Promotion, TLC

CONSTANTS s1, s2, u1, f1

Command(text) == [text |-> text, tokens |-> {"plain"}]

Entry(id, group, texts, images, versions) ==
    [id |-> id, group |-> group, extra |-> FALSE,
     commands |-> [k \in DOMAIN texts |-> Command(texts[k])],
     paths |-> {f1}, os |-> images, python |-> versions]

Linux == <<"ubuntu-latest">>

SmallManifest ==
    [version |-> 1, extra |-> FALSE, entries |->
       <<Entry("lint", "core", <<"ruff">>, Linux, << >>),
         Entry("types", "core", <<"mypy">>, Linux, << >>),
         Entry("coverage", "consumer", <<"measure", "report">>, Linux, << >>),
         Entry("platform", "core", <<"suite">>, << >>, << >>),
         Entry("fault-injection", "core", <<"suite">>, << >>, << >>),
         Entry("performance", "core", <<"suite">>, << >>, << >>),
         Entry("documentation", "core", <<"suite">>, << >>, << >>),
         Entry("installed-package", "consumer", <<"wheel", "report">>, Linux, <<"3.11">>)>>]

Step(run, gate) == [workdir |-> "", run |-> run, gate |-> gate, pinned |-> TRUE]

Workflow(steps) ==
    [parses |-> TRUE,
     jobs |-> {[workdir |-> "", suites |-> {}, steps |-> steps]}]

Tree(joined, missing, steps) ==
    [manifest |-> SmallManifest, workflows |-> {Workflow(steps)}, root |-> {""},
     documented |-> {}, missing |-> missing, joined |-> joined]

MCTrees ==
    [joined  |-> Tree(TRUE, {}, {Step("driver", "lint"), Step("driver", "types")}),
     matrix  |-> Tree(FALSE, {}, {Step("other", "")}),
     bare    |-> Tree(TRUE, {f1}, {Step("driver", "lint")}),
     drifted |-> Tree(TRUE, {}, {Step("direct", "lint")})]

MCTexts == {"ruff", "mypy", "measure", "report", "suite", "wheel"}

MCGitlink == [u \in {u1} |-> s1]

History(a, b) == [s \in {s1, s2} |-> IF s = s1 THEN a ELSE b]

AllHistories == {History("joined", "joined"), History("matrix", "bare"),
                 History("drifted", "joined")}

MatrixHistories == {History("matrix", "matrix")}
=============================================================================
