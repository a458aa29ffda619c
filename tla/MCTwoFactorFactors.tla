------------------------- MODULE MCTwoFactorFactors -------------------------
(* Small instances of TwoFactorFactors.                                     *)
EXTENDS TwoFactorFactors, TLC

Symmetry == Permutations(Requests) \cup Permutations(Browsers)
=============================================================================
