---------------------------- MODULE MCBondPages ----------------------------
(* Small instances of BondPages for TLC.                                   *)
EXTENDS BondPages, TLC

\* Requests of one kind, and pages, may change places (for safety runs only).
Symmetry == Permutations(Presses) \cup Permutations(Clerks)
            \cup Permutations(Handlers) \cup Permutations(Pages)
=============================================================================
