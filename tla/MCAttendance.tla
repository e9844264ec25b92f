---------------------------- MODULE MCAttendance ----------------------------
(* Small tenants for TLC. *)
EXTENDS Attendance, TLC

(* Requests, employees and logins are interchangeable. *)
Symmetry == Permutations(Request) \cup Permutations(Employee) \cup Permutations(User)
=============================================================================
