------------------------------ MODULE MCFleet ------------------------------
(* Small instances of Fleet for TLC.                                       *)
EXTENDS Fleet, TLC

\* A booking that begins later; its end may be changed or taken away.
MCPlans == {[start |-> 1, end |-> 2]}

\* Cars, rentals and phones are alike.
Symmetry == Permutations(Cars) \cup Permutations(Rentals) \cup Permutations(Desks)
=============================================================================
