------------------------- MODULE MCMobileAttendance -------------------------
(* A phone, a few taps and the server, for TLC. *)
EXTENDS MobileAttendance, TLC

Symmetry == Permutations(Tap) \cup Permutations(User) \cup Permutations(ClientId)
              \cup Permutations(Request)
=============================================================================
