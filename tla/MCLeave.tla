------------------------------ MODULE MCLeave ------------------------------
(* Small tenants and short years for TLC. *)
EXTENDS Leave, TLC

Symmetry == Permutations(Call) \cup Permutations(LeaveId) \cup Permutations(User)
=============================================================================
