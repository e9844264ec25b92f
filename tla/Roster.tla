------------------------------- MODULE Roster -------------------------------
(***************************************************************************)
(* The shifts table of one tenant database and the statements of the       *)
(* roster service.  The window, the location, the tour and the notes of a  *)
(* shift are abstracted: a request the window validation or a CHECK        *)
(* constraint rejects changes nothing.                                     *)
(*                                                                         *)
(* publishedTo is a history variable: the employees who have had a shift   *)
(* while it was published.  The program does not keep it.                  *)
(***************************************************************************)
EXTENDS Identity

CONSTANTS Shift,        \* ids gen_random_uuid() hands out to shift rows
          NoShift       \* NULL, in a request or in attendance_records.shift_id

ASSUME RosterAssumption == NoShift \notin Shift

VARIABLES shifts, publishedTo

rosterVars == <<shifts, publishedTo>>

ShiftRow == [status : {"draft", "published"}, owner : Employee]
              \cup [status : {"none", "deleted"}, owner : {NoEmployee}]

RosterTypeOK ==
  /\ shifts \in [Shift -> ShiftRow]
  /\ publishedTo \in [Shift -> SUBSET Employee]

RosterInit ==
  /\ shifts = [s \in Shift |-> [status |-> "none", owner |-> NoEmployee]]
  /\ publishedTo = [s \in Shift |-> {}]

Exists(s) == shifts[s].status \in {"draft", "published"}

(* The employees shifts.employee_id keeps from being deleted. *)
ShiftOwners == {e \in Employee : \E s \in Shift : Exists(s) /\ shifts[s].owner = e}

CreateShift(s, e) ==
  /\ shifts[s].status = "none"
  /\ Live(e)
  /\ shifts' = [shifts EXCEPT ![s] = [status |-> "draft", owner |-> e]]
  /\ UNCHANGED publishedTo

(* A partial update may hand the shift to another employee, whatever its  *)
(* status and whatever attendance refers to it.                           *)
UpdateShift(s, e) ==
  /\ Exists(s)
  /\ Live(e)
  /\ shifts' = [shifts EXCEPT ![s].owner = e]
  /\ publishedTo' = IF shifts[s].status = "published"
                    THEN [publishedTo EXCEPT ![s] = @ \cup {e}] ELSE publishedTo

(* There is no way back to draft. *)
PublishShift(s) ==
  /\ Exists(s)
  /\ shifts' = [shifts EXCEPT ![s].status = "published"]
  /\ publishedTo' = [publishedTo EXCEPT ![s] = @ \cup {shifts[s].owner}]

RemoveShift(s) ==
  /\ Exists(s)
  /\ shifts' = [shifts EXCEPT ![s] = [status |-> "deleted", owner |-> NoEmployee]]
  /\ UNCHANGED publishedTo

(* A bug AttendanceOnOwnShift must catch: the owner is not compared. *)
AnyPublishedShift(s, e) == shifts[s].status = "published"

(* What ShiftOwnerByID lets attendance decide: s exists, is published and  *)
(* belongs to e.                                                           *)
OwnPublishedShift(s, e) == shifts[s].status = "published" /\ shifts[s].owner = e
=============================================================================
