------------------------------ MODULE MCFleet ------------------------------
(* Instances of Fleet: cars and slots are interchangeable.                  *)
EXTENDS Fleet, TLC

Symmetry == Permutations(Cars) \cup Permutations(Slots)
=============================================================================
