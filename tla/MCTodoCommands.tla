---------------------------- MODULE MCTodoCommands ----------------------------
(* TodoCommands on a small instance.                                        *)
EXTENDS TodoContext, TLC

Symmetry == Permutations(User) \cup Permutations(Title)
            \cup Permutations(Request) \cup Permutations(Todo)

===============================================================================
