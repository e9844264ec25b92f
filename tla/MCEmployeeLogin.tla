-------------------------- MODULE MCEmployeeLogin --------------------------
(* A small tenant and a few concurrent calls for TLC. *)
EXTENDS EmployeeLogin, TLC

Symmetry == Permutations(Call) \cup Permutations(User) \cup Permutations(Employee)
              \cup Permutations(Email)
=============================================================================
