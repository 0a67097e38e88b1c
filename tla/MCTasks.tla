------------------------------ MODULE MCTasks -------------------------------
(* Instances of Tasks for TLC: ids and slots are interchangeable.            *)
EXTENDS Tasks, TLC

MCSymmetry == Permutations(Work) \cup Permutations(Upload) \cup Permutations(Handler)
=============================================================================
