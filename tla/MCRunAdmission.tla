--------------------------- MODULE MCRunAdmission ---------------------------
(* Task files, command lines and amendments of admission.cfg, and checks   *)
(* of the plan rules against their definitions on every small plan.        *)
EXTENDS RunAdmission, TLC

Draft(t, deps) ==
    [id |-> t, deps |-> deps, root |-> "runs", needs |-> FALSE, scope |-> {"own"},
     bound |-> 1, body |-> "first"]

MCOrder == <<"t1", "t2">>

MCDrafts ==
    [t \in {"t1", "t2"} |->
        IF t = "t1"
        THEN LET d == Draft("t1", {}) IN <<d, [d EXCEPT !.body = "second"], [d EXCEPT !.bound = 2]>>
        ELSE LET d == [Draft("t2", {"t1"}) EXCEPT !.needs = TRUE] IN <<d, [d EXCEPT !.deps = {}]>>]

Ask(sel, adapter) ==
    [feature |-> "f", resume |-> FALSE, opened |-> TRUE, sel |-> sel, adapter |-> adapter,
     model |-> NoModel, chain |-> FALSE, repair |-> NoBound, runtime |-> "unset", recover |-> {}]

All == [mode |-> "all", id |-> "t1"]
Only1 == [mode |-> "task", id |-> "t1"]
Resumed(q) == [q EXCEPT !.resume = TRUE]

MCRequests ==
    LET fresh == {Ask(All, AutoAdapter),
                  [Ask(Only1, "claude") EXCEPT !.model = "sonnet", !.repair = 2],
                  [Ask(Only1, AutoAdapter) EXCEPT !.chain = TRUE, !.runtime = "docker"]}
        again == {Ask(All, AutoAdapter), Ask(All, "codex"), Ask(Only1, AutoAdapter),
                  [Ask(Only1, AutoAdapter) EXCEPT !.repair = 2],
                  [Ask(Only1, AutoAdapter) EXCEPT !.chain = TRUE, !.runtime = "host"],
                  [Ask(Only1, AutoAdapter) EXCEPT !.recover = {"t1"}]}
    IN  fresh \cup {Resumed(q) : q \in fresh \cup again}
          \cup {[Ask(Only1, "codex") EXCEPT !.feature = "f-recovery-codex", !.recover = {"t1"}]}

MCAmendments ==
    LET Amended1(new) == [words |-> TRUE, added |-> {}, new |-> new,
                          prior |-> [scope |-> {"own"}, bound |-> 1]]
        wider == Amended1([scope |-> {"own", "other"}, bound |-> 3])
    IN  {wider, [wider EXCEPT !.words = FALSE], [wider EXCEPT !.added = {"outside"}],
         Amended1([scope |-> {"own", "outside"}, bound |-> 1]),
         Amended1([scope |-> {"own"}, bound |-> 1]), Amended1([body |-> "second"])}

(* The commits are told apart only by being the recorded one or not.       *)
HeadSymmetry == Permutations(Heads)
---------------------------------------------------------------------------
(* Every plan of three tasks, its dependencies in any direction, or one    *)
(* that is missing from the plan.                                          *)
SmallPlans ==
    {[i \in 1..3 |-> [id |-> <<"a", "b", "c">>[i], deps |-> d[i]]] :
        d \in [1..3 -> SUBSET {"a", "b", "c"} \cup {{"x"}}]}

(* t is reached from S over one dependency or more.                        *)
Reached(plan, S, t) ==
    \E n \in 1..3 : \E path \in [0..n -> {"a", "b", "c"}] :
        /\ path[0] \in S /\ path[n] = t
        /\ \A i \in 1..n : path[i] \in TaskOf(plan, path[i - 1]).deps

Orders == {s \in [1..3 -> {"a", "b", "c"}] : \A i, j \in 1..3 : s[i] = s[j] => i = j}
Topological(plan, s) ==
    \A i \in 1..3 : TaskOf(plan, s[i]).deps \subseteq {s[j] : j \in 1..(i - 1)}

(* A graph loads exactly when every dependency is listed and no task       *)
(* reaches itself.                                                         *)
ASSUME GraphIsAcyclic ==
    \A p \in SmallPlans :
        ValidGraph(p) <=> /\ \A i \in 1..3 : p[i].deps \subseteq {"a", "b", "c"}
                          /\ \A t \in {"a", "b", "c"} : ~Reached(p, {t}, t)

(* The order is topological, and of those the first by plan position.      *)
ASSUME OrderIsLeast ==
    \A p \in SmallPlans : ValidGraph(p) =>
        LET place(t) == CHOOSE i \in 1..3 : p[i].id = t
            Before(s, u) == \E k \in 1..3 : /\ \A j \in 1..(k - 1) : s[j] = u[j]
                                          /\ place(s[k]) < place(u[k])
        IN  /\ Topological(p, Drained(p))
            /\ \A s \in Orders : Topological(p, s) /\ s # Drained(p) => Before(Drained(p), s)

(* The closure is what is reached, and what --through selects is closed.   *)
ASSUME ClosureIsReached ==
    \A p \in SmallPlans : ValidGraph(p) =>
        /\ \A S \in SUBSET {"a", "b", "c"} :
              Closure(p, S) = S \cup {t \in {"a", "b", "c"} : Reached(p, S, t)}
        /\ \A t \in {"a", "b", "c"} :
              LET sel == [mode |-> "through", id |-> t]
                  S == Listed(Selected(p, sel))
              IN  SelectionLoads(p, sel) <=> \A u \in {"a", "b", "c"} : Reached(p, S, u) => u \in S
=============================================================================
