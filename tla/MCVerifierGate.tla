--------------------------- MODULE MCVerifierGate ---------------------------
(* Instances of VerifierGate for TLC.                                        *)
EXTENDS VerifierGate

Says(label, token) == [label |-> label, token |-> token]
Report(lines, finding, names) ==
    [lines |-> lines, finding |-> finding, names |-> names, of |-> 0]

(* Clear answers with and without an amendment's identity (0 is none), a     *)
(* report with no verdict line, and one whose lines disagree.                *)
AnyReport ==
    {Report(<<Says("plain", "PASS")>>, n = 1, n) : n \in 0..1}
      \cup {Report(<< >>, TRUE, 0),
            Report(<<Says("emphasis", "PASS"), Says("translated", "FAIL")>>, TRUE, 1)}
=============================================================================
