----------------------------- MODULE MCReadout -----------------------------
(* Instances of Readout for TLC.                                           *)
EXTENDS Readout, TLC

(* Two of a class that share its lists, and pairs that share a crate.      *)
Pairings(k) == {f \in [Instances -> k] : Range(f) = k}
Couples == UNION {Pairings(k) : k \in {{"TDC_C0309"}, {"QDC_C0312"},
                                      {"Counter_S0301", "TDC_C0301"},
                                      {"Counter_S0301", "LeCroy2249"}}}
Symmetry == Permutations(Instances)
=============================================================================
