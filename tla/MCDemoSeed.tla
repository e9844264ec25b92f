----------------------------- MODULE MCDemoSeed -----------------------------
(* A demo tenant with one employee, a phone and two calls of the seeder.    *)
EXTENDS DemoSeed, TLC

Symmetry == Permutations(Shift) \cup Permutations(Seed)

(* What happens after both calls have ended is Attendance's own matter.    *)
Unended == \E g \in Seed : seeds[g].pc # "done"

(* For n employees a started shift is left without a record, a no-show,     *)
(* only if there are seven of them.                                         *)
ASSUME NoShowAssumption ==
  \A n \in 1 .. 20 :
    (\E i \in 0 .. n - 1 : Started(i, n) /\ ~Attended(i, n)) <=> n >= 7
=============================================================================
