---------------------------- MODULE MCDirectory ----------------------------
(* A tenant with a few rows: a location, a tour, and no more than RowBound   *)
(* of the others at one time.  int32 has four bits here, so that 20 stands   *)
(* for 2^32 + 4.                                                             *)
EXTENDS Directory, FiniteSets, TLC

CONSTANT RowBound

MCFolded == [n \in Name |-> IF n = "GUIDE" THEN "guide" ELSE n]
MCAmount == {-1, 20}

FewRows ==
  Cardinality(UNION {{u} \X Rows(u) : u \in {"department", "role", "employee", "shift"}})
    <= RowBound

Symmetry == Permutations(Department) \cup Permutations(Role) \cup Permutations(Employee)
=============================================================================
