------------------------- MODULE MCBoardProjection -------------------------
(* A run that did not finish h, a run whose task n replaces h and, by the  *)
(* registry, g, a card that no run has.                                    *)
EXTENDS BoardProjection

MCScopeOf == [r \in {"old", "new"} |-> IF r = "old" THEN <<"h">> ELSE <<"n">>]
Edge(old, new, run, completes) == [old |-> old, new |-> new, run |-> run, completes |-> completes]
MCDeclared == <<Edge("h", "n", AnyRun, FALSE)>>
MCRegistry == <<Edge("g", "n", "new", TRUE)>>
MCListing == <<"g", "h", "n">>

(* A declaration loads exactly when following the replacements of any task *)
(* comes to an end, on every list of up to three edges.                    *)
SmallGraphs ==
    UNION {[1..n -> {Edge(o, w, AnyRun, FALSE) : o, w \in {"g", "h", "n", "?"}}] : n \in 0..3}
Follow(edges, t) ==
    IF \E e \in Listed(edges) : e.old = t
    THEN (CHOOSE e \in Listed(edges) : e.old = t).new ELSE "end"
ASSUME ChainsEnd ==
    \A edges \in SmallGraphs :
        (\A i, j \in DOMAIN edges : edges[i].old = edges[j].old => i = j) =>
            (GraphLoads(edges) <=>
                /\ \A e \in Listed(edges) : "?" \notin {e.old, e.new}
                /\ \A t \in {"g", "h", "n"} :
                      Follow(edges, Follow(edges, Follow(edges, t))) = "end")
=============================================================================
