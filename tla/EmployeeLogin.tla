--------------------------- MODULE EmployeeLogin ---------------------------
(***************************************************************************)
(* CreateEmployeeLogin of the identity service.  It gives an employee a    *)
(* login, and writes two databases to do so: a row of the control plane's  *)
(* users, then employees.user_id of the tenant.  No transaction spans the  *)
(* two; when the link fails the new row is deleted again.                  *)
(*                                                                         *)
(* A call runs one statement at a time.  Each statement fails without an   *)
(* effect, or succeeds, or takes effect while its answer is lost: pgx      *)
(* reports the first and the third alike.  A process that dies between two *)
(* statements is a call that takes no further step.                        *)
(***************************************************************************)
EXTENDS Identity

CONSTANTS Email,        \* addresses of logins, compared as the index does: lower(email)
          Call          \* the calls of CreateEmployeeLogin in one behaviour

VARIABLES users,        \* the users of this tenant in the control plane
          calls

vars == <<employees, users, calls>>

(* The columns password_hash, role and status decide nothing here.         *)
UserRow == [row : {"none", "live", "deleted"}, email : SUBSET Email]

NoRow == [row |-> "none", email |-> {}]

Code == {0, 201, 404, 409, 500}

(* "user" is the id CreateUser returned to the call.  Two fields are        *)
(* history: the employee had a login when the call arrived ("late"), and    *)
(* the compensation failed ("stuck").                                       *)
CallState == [pc       : {"start", "get", "create", "link", "undo", "done"},
              employee : Employee \cup {NoEmployee},
              email    : SUBSET Email,
              user     : User \cup {NoUser},
              code     : Code,
              late     : BOOLEAN,
              stuck    : BOOLEAN]

NewCall == [pc |-> "start", employee |-> NoEmployee, email |-> {}, user |-> NoUser,
            code |-> 0, late |-> FALSE, stuck |-> FALSE]

TypeOK ==
  /\ IdentityTypeOK
  /\ users \in [User -> UserRow]
  /\ calls \in [Call -> CallState]

Init ==
  /\ IdentityInit
  /\ users = [u \in User |-> NoRow]
  /\ calls = [k \in Call |-> NewCall]

-----------------------------------------------------------------------------
LiveLogin(u) == u \in User /\ users[u].row = "live"

(* users_tenant_email_unique *)
EmailTaken(m) == \E u \in User : LiveLogin(u) /\ users[u].email = m

Step(k, from, to) ==
  /\ calls[k].pc = from
  /\ calls' = [calls EXCEPT ![k] = to]

(* A bug TypeOK must catch: an answer the API does not know.               *)
ReplyUnmapped(q, code) == [q EXCEPT !.pc = "done", !.code = IF code = 500 THEN 0 - 1 ELSE code]

Reply(q, code) == [q EXCEPT !.pc = "done", !.code = code]

(* The call goes on to delete the login it made, and then answers "code".  *)
Undo(q, code) == [q EXCEPT !.pc = "undo", !.code = code]

Request(k) ==
  /\ \E e \in Employee, m \in Email :
       Step(k, "start", [calls[k] EXCEPT !.pc = "get", !.employee = e, !.email = {m},
                                         !.late = Live(e) /\ employees[e].user # NoUser])
  /\ UNCHANGED <<employees, users>>

(* A bug LateCallRefused must catch: the check for a login is gone.        *)
GetEmployeeUnchecked(k) ==
  LET q == calls[k] IN
  /\ \/ ~Live(q.employee) /\ Step(k, "get", Reply(q, 404))
     \/ Live(q.employee) /\ Step(k, "get", [q EXCEPT !.pc = "create"])
     \/ Step(k, "get", Reply(q, 500))
  /\ UNCHANGED <<employees, users>>

GetEmployee(k) ==
  LET q == calls[k] IN
  /\ \/ ~Live(q.employee) /\ Step(k, "get", Reply(q, 404))
     \/ /\ Live(q.employee) /\ employees[q.employee].user # NoUser
        /\ Step(k, "get", Reply(q, 409))
     \/ /\ Live(q.employee) /\ employees[q.employee].user = NoUser
        /\ Step(k, "get", [q EXCEPT !.pc = "create"])
     \/ Step(k, "get", Reply(q, 500))
  /\ UNCHANGED <<employees, users>>

(* A bug AnsweredLoginLives must catch: an email that is taken is answered *)
(* with the login that has it.                                             *)
CreateOrFindUser(k) ==
  LET q == calls[k] IN
  /\ \/ \E u \in User :
          /\ users[u].row = "none" /\ ~EmailTaken(q.email)
          /\ users' = [users EXCEPT ![u] = [row |-> "live", email |-> q.email]]
          /\ Step(k, "create", [q EXCEPT !.pc = "link", !.user = u])
     \/ \E u \in User :
          /\ LiveLogin(u) /\ users[u].email = q.email
          /\ Step(k, "create", [q EXCEPT !.pc = "link", !.user = u])
          /\ UNCHANGED users
  /\ UNCHANGED employees

(* The errors of the control plane are not the identity service's: its     *)
(* handler answers 500 for an email that is taken, as for an email, a       *)
(* password or a role the control plane refuses and for a failed statement. *)
(* A lost answer leaves the row, whose id the call never learns.            *)
CreateUser(k) ==
  LET q == calls[k] IN
  /\ \/ Step(k, "create", Reply(q, 500)) /\ UNCHANGED users
     \/ \E u \in User :
          /\ users[u].row = "none" /\ ~EmailTaken(q.email)
          /\ users' = [users EXCEPT ![u] = [row |-> "live", email |-> q.email]]
          /\ \/ Step(k, "create", [q EXCEPT !.pc = "link", !.user = u])
             \/ Step(k, "create", Reply(q, 500))
  /\ UNCHANGED employees

(* A bug FailureLeavesNoLogin must catch: an employee who is gone needs no *)
(* compensation.                                                           *)
LinkWithoutUndo(k) ==
  LET q == calls[k] IN
  /\ \/ SetEmployeeUserID(q.employee, q.user) /\ Step(k, "link", Reply(q, 201))
     \/ ~Live(q.employee) /\ Step(k, "link", Reply(q, 404)) /\ UNCHANGED employees
     \/ Step(k, "link", Undo(q, 500)) /\ UNCHANGED employees
  /\ UNCHANGED users

Link(k) ==
  LET q == calls[k] IN
  /\ \/ /\ SetEmployeeUserID(q.employee, q.user)
        /\ \/ Step(k, "link", Reply(q, 201))
           \/ Step(k, "link", Undo(q, 500))
     \/ ~Live(q.employee) /\ Step(k, "link", Undo(q, 404)) /\ UNCHANGED employees
     \/ /\ Live(q.employee) /\ ~UserIdFree(q.employee, q.user)
        /\ Step(k, "link", Undo(q, 409))
        /\ UNCHANGED employees
     \/ Step(k, "link", Undo(q, 500)) /\ UNCHANGED employees
  /\ UNCHANGED users

(* A failed deletion is logged; the caller sees the same answer.           *)
Compensate(k) ==
  LET q == calls[k] IN
  /\ \/ /\ users' = [users EXCEPT ![q.user].row = "deleted"]
        /\ Step(k, "undo", Reply(q, q.code))
     \/ Step(k, "undo", Reply([q EXCEPT !.stuck = TRUE], q.code)) /\ UNCHANGED users
  /\ UNCHANGED employees

(* Administrators add and delete employees meanwhile; a new one may be     *)
(* given an existing login.                                                *)
AddEmployee(e) ==
  /\ \E u \in {NoUser} \cup {v \in User : LiveLogin(v)} : CreateEmployee(e, u)
  /\ UNCHANGED <<users, calls>>

RemoveEmployee(e) == DeleteEmployee(e, {}) /\ UNCHANGED <<users, calls>>

Next ==
  \/ \E k \in Call : \/ Request(k) \/ GetEmployee(k) \/ CreateUser(k)
                     \/ Link(k) \/ Compensate(k)
  \/ \E e \in Employee : AddEmployee(e) \/ RemoveEmployee(e)

Spec == Init /\ [][Next]_vars

-----------------------------------------------------------------------------
(* A login that was reported as created exists: no other call's            *)
(* compensation deletes it (identity/service.go 225-238).                  *)
AnsweredLoginLives ==
  \A k \in Call : calls[k].code = 201 => LiveLogin(calls[k].user)

(* After an error the login the call had made is gone, unless deleting it  *)
(* failed too, whatever happened to the employee meanwhile                 *)
(* (identity/service.go 229-236).                                          *)
FailureLeavesNoLogin ==
  \A k \in Call :
    calls[k].pc = "done" /\ calls[k].code # 201 /\ calls[k].user # NoUser /\ ~calls[k].stuck
      => ~LiveLogin(calls[k].user)

(* A call that arrives when the employee already has a login makes none    *)
(* and is refused, whatever else runs (identity/service.go 218-220).       *)
LateCallRefused ==
  \A k \in Call : calls[k].late => calls[k].user = NoUser /\ calls[k].code # 201

(* An employee is given one login at most.  00006_employee_user_unique.sql *)
(* (1-5) says that its index closes the race between two calls: "One       *)
(* employee per login, and one login per employee."                        *)
OneLoginPerEmployee ==
  \A j, k \in Call :
    calls[j].code = 201 /\ calls[k].code = 201 /\ calls[j].employee = calls[k].employee
      => j = k
=============================================================================
