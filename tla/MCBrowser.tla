------------------------------ MODULE MCBrowser ------------------------------
(* Two findings in review; the findings are alike, so they may be permuted. *)
EXTENDS Browser, TLC

CONSTANTS f1, f2

MCSymmetry == Permutations(Findings)
=============================================================================
