----------------------------- MODULE MCTodoSystem -----------------------------
(* TodoSystem on a small instance.                                           *)
EXTENDS TodoSystem, TLC

Symmetry == Permutations(Todo) \cup Permutations(Title) \cup Permutations(Worker)

===============================================================================
