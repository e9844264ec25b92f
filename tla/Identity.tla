------------------------------ MODULE Identity ------------------------------
(***************************************************************************)
(* The employees table of one tenant database, as far as the other modules *)
(* of the backend depend on it: which rows exist, and which control-plane  *)
(* login each row carries in user_id.  Departments, HR roles and the       *)
(* descriptive columns of an employee are not read by any other service    *)
(* and are left out.                                                       *)
(*                                                                         *)
(* Every operator below is one SQL statement.  A statement is atomic: the  *)
(* services run them one by one on a connection pool, without a            *)
(* transaction around several of them.                                     *)
(***************************************************************************)
EXTENDS Naturals

CONSTANTS Employee,     \* ids gen_random_uuid() hands out to employee rows
          User,         \* ids of control-plane logins
          NoEmployee,   \* "no row": the outcome of a failed resolution
          NoUser        \* NULL in employees.user_id

ASSUME IdentityAssumption == NoEmployee \notin Employee /\ NoUser \notin User

VARIABLE employees

(* An id is used for one row only, so "deleted" is final. *)
EmployeeRow == [row : {"none", "live", "deleted"}, user : User \cup {NoUser}]

IdentityTypeOK == employees \in [Employee -> EmployeeRow]

IdentityInit == employees = [e \in Employee |-> [row |-> "none", user |-> NoUser]]

(* e is the id of a row. *)
Live(e) == e \in Employee /\ employees[e].row = "live"

(* SELECT ... WHERE user_id = u *)
EmployeesOfUser(u) == {e \in Employee : Live(e) /\ employees[e].user = u}

(* employees_user_id_unique: the partial unique index on user_id. *)
UserIdFree(e, u) == u = NoUser \/ EmployeesOfUser(u) \subseteq {e}

CreateEmployee(e, u) ==
  /\ employees[e].row = "none"
  /\ UserIdFree(e, u)
  /\ employees' = [employees EXCEPT ![e] = [row |-> "live", user |-> u]]

(* UPDATE employees SET user_id = u WHERE id = e: it overwrites a link that *)
(* is already there.                                                        *)
SetEmployeeUserID(e, u) ==
  /\ Live(e)
  /\ UserIdFree(e, u)
  /\ employees' = [employees EXCEPT ![e].user = u]

(* A bug HistoryKeepsEmployee must catch: no foreign key restricts.        *)
DeleteEmployeeUnrestricted(e, referenced) ==
  /\ Live(e)
  /\ employees' = [employees EXCEPT ![e] = [row |-> "deleted", user |-> NoUser]]

(* DELETE FROM employees; the statement fails while a row of another table *)
(* in "referenced" points to e with ON DELETE RESTRICT.                    *)
DeleteEmployee(e, referenced) ==
  /\ Live(e)
  /\ e \notin referenced
  /\ employees' = [employees EXCEPT ![e] = [row |-> "deleted", user |-> NoUser]]
=============================================================================
