----------------------------- MODULE MCReports -----------------------------
(* A small tenant, one call of attendance at a time and one report.        *)
EXTENDS Reports, TLC

Symmetry == Permutations(Employee) \cup Permutations(ClientId) \cup Permutations(Request)
              \cup Permutations(User)

(* What happens after the report is answered is Attendance's own matter. *)
Unanswered == \E p \in Report : reports[p].pc # "done"
=============================================================================
