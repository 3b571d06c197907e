-------------------------- MODULE MCMoneyTakenBack --------------------------
(* Small instances of MoneyTakenBack for TLC.                              *)
EXTENDS MoneyTakenBack, TLC

\* Handlers are alike (for safety runs only).
Symmetry == Permutations(Handlers)
=============================================================================
