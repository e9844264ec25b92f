------------------------ MODULE EmployeeLoginProofs ------------------------
(***************************************************************************)
(* Theorems about CreateEmployeeLogin, for any number of employees, logins *)
(* and concurrent calls.                                                   *)
(***************************************************************************)
EXTENDS EmployeeLogin, TLAPS

-----------------------------------------------------------------------------
(* The inductive invariant.                                                 *)

(* The answers that are errors, and no answer yet. *)
Error == Code \ {0, 201}

(* An employee who has a login keeps one for good: the id of a row that is  *)
(* deleted is not used again.                                               *)
Settled(e) ==
  /\ e \in Employee
  /\ \/ employees[e].row = "live" /\ employees[e].user # NoUser
     \/ employees[e].row = "deleted"

(* What a call has established when it gets to a statement.  A call that    *)
(* arrived late gets no further than its read.                              *)
OnCourse(q) ==
  /\ q.pc \in {"start", "get", "create"} => q.user = NoUser
  /\ q.pc \notin {"undo", "done"} => q.code = 0
  /\ q.pc \in {"link", "undo"} => q.user \in User
  /\ q.pc = "undo" => q.code \in Error
  /\ q.late => /\ q.pc \in {"get", "done"} /\ q.user = NoUser /\ q.code # 201
               /\ q.pc = "get" => Settled(q.employee)

(* What became of the login a call has made. *)
LoginKept(q) ==
  /\ q.user # NoUser => users[q.user].row # "none"
  /\ q.pc \in {"link", "undo"} \/ q.code = 201 => q.user \in User /\ users[q.user].row = "live"
  /\ q.pc = "done" /\ q.code # 201 /\ q.user # NoUser /\ ~q.stuck => users[q.user].row # "live"

IInv ==
  /\ TypeOK
  /\ \A k \in Call : OnCourse(calls[k]) /\ LoginKept(calls[k])
  /\ \A j, k \in Call : calls[j].user = calls[k].user /\ calls[j].user # NoUser => j = k

-----------------------------------------------------------------------------
LEMMA Codes ==
  /\ Error \subseteq Code /\ {0, 201} \subseteq Code
  /\ 404 \in Error /\ 409 \in Error /\ 500 \in Error
  /\ \A code \in Error : code # 0 /\ code # 201
BY DEF Error, Code

LEMMA InitInv == Init => IInv
<1> SUFFICES ASSUME Init PROVE IInv
  OBVIOUS
<1>1. NewCall \in CallState
  BY Codes DEF NewCall, CallState
<1>2. TypeOK
  BY <1>1 DEF Init, TypeOK, IdentityInit, IdentityTypeOK, EmployeeRow, UserRow, NoRow
<1>3. /\ NewCall.pc = "start" /\ NewCall.user = NoUser /\ NewCall.code = 0
      /\ ~NewCall.late
  BY DEF NewCall
<1>4. \A k \in Call : calls[k] = NewCall
  BY DEF Init
<1> QED
  BY <1>2, <1>3, <1>4 DEF IInv, OnCourse, LoginKept

LEMMA Current ==
  ASSUME IInv, NEW k \in Call
  PROVE  /\ calls[k] \in CallState /\ OnCourse(calls[k]) /\ LoginKept(calls[k])
         /\ TypeOK
BY DEF IInv, TypeOK

LEMMA StepChanges ==
  ASSUME TypeOK, NEW k \in Call, NEW from, NEW to \in CallState, Step(k, from, to)
  PROVE  /\ calls[k].pc = from
         /\ calls' \in [Call -> CallState] /\ calls'[k] = to
         /\ \A j \in Call \ {k} : calls'[j] = calls[j]
BY DEF TypeOK, Step

(* What the answers of a call keep of it. *)
LEMMA AnswerFields ==
  ASSUME NEW q \in CallState, NEW code \in Code
  PROVE  /\ LET to == Reply(q, code) IN
            /\ to \in CallState /\ to.pc = "done" /\ to.code = code
            /\ to.user = q.user /\ to.late = q.late /\ to.stuck = q.stuck
            /\ to.employee = q.employee
         /\ LET to == Undo(q, code) IN
            /\ to \in CallState /\ to.pc = "undo" /\ to.code = code
            /\ to.user = q.user /\ to.late = q.late /\ to.stuck = q.stuck
            /\ to.employee = q.employee
<1>1. Reply(q, code) \in CallState /\ Undo(q, code) \in CallState
  BY DEF Reply, Undo, CallState
<1> QED
  BY <1>1 DEF Reply, Undo, CallState

(* A step of a call that makes no login and unlinks no employee.            *)
LEMMA CallStep ==
  ASSUME IInv, NEW k \in Call, NEW from, NEW to \in CallState, Step(k, from, to),
         employees' \in [Employee -> EmployeeRow], UNCHANGED users,
         \A e \in Employee : Settled(e) => Settled(e)',
         to.user = calls[k].user, OnCourse(to)', LoginKept(to)
  PROVE  IInv'
<1>1. /\ calls[k].pc = from
      /\ calls' \in [Call -> CallState] /\ calls'[k] = to
      /\ \A j \in Call \ {k} : calls'[j] = calls[j]
  BY StepChanges DEF IInv
<1>2. TypeOK'
  BY <1>1 DEF IInv, TypeOK, IdentityTypeOK
<1>3. ASSUME NEW j \in Call PROVE OnCourse(calls[j])' /\ LoginKept(calls[j])'
  <2>1. CASE j = k
    BY <1>1, <2>1 DEF OnCourse, LoginKept
  <2>2. CASE j # k
    <3>1. OnCourse(calls[j]) /\ LoginKept(calls[j]) /\ calls'[j] = calls[j]
      BY <1>1, <2>2 DEF IInv
    <3>2. LoginKept(calls[j])'
      BY <3>1 DEF LoginKept
    <3>3. OnCourse(calls[j])'
      BY <3>1 DEF OnCourse, Settled
    <3> QED
      BY <3>2, <3>3
  <2> QED
    BY <2>1, <2>2
<1>4. \A i, j \in Call : calls'[i].user = calls'[j].user /\ calls'[i].user # NoUser => i = j
  BY <1>1 DEF IInv
<1> QED
  BY <1>2, <1>3, <1>4 DEF IInv

(* Most steps leave the employees alone. *)
LEMMA QuietStep ==
  ASSUME IInv, NEW k \in Call, NEW from, NEW to \in CallState, Step(k, from, to),
         UNCHANGED <<employees, users>>,
         to.user = calls[k].user, OnCourse(to), LoginKept(to)
  PROVE  IInv'
<1>1. employees' \in [Employee -> EmployeeRow]
  BY DEF IInv, TypeOK, IdentityTypeOK
<1>2. OnCourse(to)' /\ \A e \in Employee : Settled(e) => Settled(e)'
  BY DEF OnCourse, Settled
<1> QED
  BY <1>1, <1>2, CallStep

-----------------------------------------------------------------------------
(* The steps.                                                               *)

LEMMA RequestKeeps == ASSUME IInv, NEW k \in Call, Request(k) PROVE IInv'
<1> DEFINE q == calls[k]
<1>1. PICK e \in Employee, m \in Email :
        Step(k, "start", [q EXCEPT !.pc = "get", !.employee = e, !.email = {m},
                                   !.late = Live(e) /\ employees[e].user # NoUser])
  BY DEF Request
<1>2. q.pc = "start" /\ q \in CallState /\ q.user = NoUser /\ q.code = 0
  BY <1>1, Current DEF Step, OnCourse
<1>3. PICK to \in CallState :
        /\ Step(k, "start", to) /\ to.pc = "get" /\ to.employee = e
        /\ to.late = (Live(e) /\ employees[e].user # NoUser)
        /\ to.user = q.user /\ to.code = q.code
  <2> DEFINE late == Live(e) /\ employees[e].user # NoUser
             to == [q EXCEPT !.pc = "get", !.employee = e, !.email = {m}, !.late = late]
  <2>1. late \in BOOLEAN
    BY DEF Live
  <2> HIDE DEF late
  <2>2. to \in CallState
    BY <1>2, <2>1 DEF CallState
  <2>3. to.pc = "get" /\ to.employee = e /\ to.late = late /\ to.user = q.user /\ to.code = q.code
    BY <1>2 DEF CallState
  <2> QED
    BY <1>1, <2>2, <2>3 DEF late
<1>4. to.late => Settled(e)
  BY <1>3 DEF Live, Settled
<1> HIDE DEF q
<1>5. OnCourse(to)
  BY <1>2, <1>3, <1>4 DEF OnCourse
<1>6. LoginKept(to)
  BY <1>2, <1>3 DEF LoginKept
<1> QED
  BY <1>3, <1>5, <1>6, QuietStep DEF Request, q

(* An error that is answered before the call has made a login.              *)
LEMMA RefusalKeeps ==
  ASSUME IInv, NEW k \in Call, NEW from \in {"get", "create"}, NEW code \in Error,
         Step(k, from, Reply(calls[k], code)), UNCHANGED <<employees, users>>
  PROVE  IInv'
<1> DEFINE to == Reply(calls[k], code)
<1>1. /\ calls[k].pc = from /\ calls[k] \in CallState /\ calls[k].user = NoUser
  BY Current DEF Step, OnCourse
<1>0. code \in Code /\ code # 201
  BY Codes
<1>2. to \in CallState /\ to.pc = "done" /\ to.user = NoUser /\ to.code = code
  BY <1>1, <1>0, AnswerFields
<1> HIDE DEF to
<1>3. NoUser \notin User
  BY IdentityAssumption
<1>4. OnCourse(to) /\ LoginKept(to)
  BY <1>0, <1>2, <1>3 DEF OnCourse, LoginKept
<1> QED
  BY <1>1, <1>2, <1>4, QuietStep DEF to

LEMMA GetEmployeeKeeps == ASSUME IInv, NEW k \in Call, GetEmployee(k) PROVE IInv'
<1> DEFINE q == calls[k]
           to == [q EXCEPT !.pc = "create"]
<1>1. /\ UNCHANGED <<employees, users>>
      /\ \/ \E code \in Error : Step(k, "get", Reply(q, code))
         \/ /\ Live(q.employee) /\ employees[q.employee].user = NoUser
            /\ Step(k, "get", to)
  BY Codes DEF GetEmployee
<1>2. CASE \E code \in Error : Step(k, "get", Reply(q, code))
  BY <1>1, <1>2, RefusalKeeps
<1>3. CASE Live(q.employee) /\ employees[q.employee].user = NoUser /\ Step(k, "get", to)
  <2>1. /\ q.pc = "get" /\ q \in CallState /\ q.user = NoUser /\ q.code = 0 /\ ~q.late
    BY <1>3, Current DEF Step, OnCourse, Live, Settled
  <2>2. /\ to \in CallState /\ to.pc = "create" /\ to.user = q.user /\ to.code = q.code
        /\ to.late = q.late
    BY <2>1 DEF CallState
  <2> HIDE DEF to, q
  <2>3. OnCourse(to) /\ LoginKept(to)
    BY <2>1, <2>2 DEF OnCourse, LoginKept
  <2> QED
    BY <1>1, <1>3, <2>2, <2>3, QuietStep DEF q
<1> QED
  BY <1>1, <1>2, <1>3

LEMMA CreateUserKeeps == ASSUME IInv, NEW k \in Call, CreateUser(k) PROVE IInv'
<1> DEFINE q == calls[k]
<1>1. /\ UNCHANGED employees
      /\ \/ Step(k, "create", Reply(q, 500)) /\ UNCHANGED users
         \/ \E u \in User :
              /\ users[u].row = "none"
              /\ users' = [users EXCEPT ![u] = [row |-> "live", email |-> q.email]]
              /\ \/ Step(k, "create", [q EXCEPT !.pc = "link", !.user = u])
                 \/ Step(k, "create", Reply(q, 500))
  BY DEF CreateUser
<1>2. CASE Step(k, "create", Reply(q, 500)) /\ UNCHANGED users
  <2>1. PICK code \in Error : code = 500
    BY Codes
  <2>2. Step(k, "create", Reply(q, code))
    BY <1>2, <2>1, Zenon
  <2>3. UNCHANGED <<employees, users>> /\ \E c \in Error : Step(k, "create", Reply(q, c))
    BY <1>1, <1>2, <2>2, Zenon
  <2> QED
    BY <2>3, RefusalKeeps
<1>3. ASSUME NEW u \in User, users[u].row = "none",
             users' = [users EXCEPT ![u] = [row |-> "live", email |-> q.email]],
             \/ Step(k, "create", [q EXCEPT !.pc = "link", !.user = u])
             \/ Step(k, "create", Reply(q, 500))
      PROVE  IInv'
  <2>1. /\ q.pc = "create" /\ q \in CallState /\ q.user = NoUser /\ q.code = 0 /\ ~q.late
        /\ TypeOK /\ u # NoUser
    BY <1>3, Current, IdentityAssumption DEF Step, OnCourse
  <2>2. [row |-> "live", email |-> q.email] \in UserRow
    BY <2>1 DEF CallState, UserRow
  <2>3. /\ users' \in [User -> UserRow] /\ users'[u].row = "live"
        /\ \A v \in User \ {u} : users'[v] = users[v]
    BY <1>3, <2>1, <2>2 DEF TypeOK
  <2>4. PICK to \in CallState :
          /\ Step(k, "create", to)
          /\ \/ to.pc = "link" /\ to.user = u /\ to.code = 0 /\ ~to.late
             \/ to.pc = "done" /\ to.user = NoUser /\ to.code \in Error /\ ~to.late
    <3> DEFINE next == [q EXCEPT !.pc = "link", !.user = u]
    <3>1. /\ next \in CallState /\ next.pc = "link" /\ next.user = u /\ next.code = q.code
          /\ next.late = q.late
      BY <2>1 DEF CallState
    <3>2. ASSUME NEW code \in Error
          PROVE  /\ Reply(q, code) \in CallState /\ Reply(q, code).pc = "done"
                 /\ Reply(q, code).user = q.user /\ Reply(q, code).code = code
                 /\ Reply(q, code).late = q.late
      <4>1. code \in Code
        BY Codes
      <4> QED
        BY <2>1, <4>1, AnswerFields
    <3>3. CASE Step(k, "create", next)
      BY <2>1, <3>1, <3>3
    <3>4. CASE Step(k, "create", Reply(q, 500))
      <4>1. \E code \in Error : Step(k, "create", Reply(q, code))
        BY <3>4, Codes
      <4> QED
        BY <2>1, <3>2, <4>1
    <3> QED
      BY <1>3, <3>3, <3>4
  <2>5. /\ calls' \in [Call -> CallState] /\ calls'[k] = to
        /\ \A j \in Call \ {k} : calls'[j] = calls[j]
    BY <2>1, <2>4, StepChanges
  <2>6. TypeOK'
    BY <1>1, <2>1, <2>3, <2>5 DEF TypeOK, IdentityTypeOK
  <2>7. ASSUME NEW j \in Call \ {k} PROVE calls[j].user # u
    BY <1>3, <2>1, Current DEF LoginKept
  <2>8. ASSUME NEW j \in Call PROVE OnCourse(calls[j])' /\ LoginKept(calls[j])'
    <3>1. CASE j = k
      <4>1. OnCourse(calls[k])'
        BY <2>4, <2>5, Codes DEF OnCourse
      <4>2. LoginKept(calls[k])'
        BY <2>3, <2>4, <2>5, Codes, IdentityAssumption DEF LoginKept
      <4> QED
        BY <3>1, <4>1, <4>2
    <3>2. CASE j # k
      <4>1. /\ OnCourse(calls[j]) /\ LoginKept(calls[j]) /\ calls'[j] = calls[j]
            /\ calls[j].user \in User \cup {NoUser} /\ calls[j].user # u
        BY <2>5, <2>7, <3>2, Current DEF CallState
      <4>2. OnCourse(calls[j])'
        <5>1. UNCHANGED employees
          BY <1>1
        <5> QED
          BY <4>1, <5>1 DEF OnCourse, Settled
      <4>3. LoginKept(calls[j])'
        BY <2>3, <4>1, IdentityAssumption DEF LoginKept
      <4> QED
        BY <4>2, <4>3
    <3> QED
      BY <3>1, <3>2
  <2>9. \A i, j \in Call : calls'[i].user = calls'[j].user /\ calls'[i].user # NoUser => i = j
    BY <2>4, <2>5, <2>7 DEF IInv
  <2> QED
    BY <2>6, <2>8, <2>9 DEF IInv
<1> HIDE DEF q
<1> QED
  BY <1>1, <1>2, <1>3

LEMMA LinkKeeps == ASSUME IInv, NEW k \in Call, Link(k) PROVE IInv'
<1> DEFINE q == calls[k]
<1>1. /\ UNCHANGED users
      /\ SetEmployeeUserID(q.employee, q.user) \/ UNCHANGED employees
      /\ \/ Step(k, "link", Reply(q, 201))
         \/ \E code \in Error : Step(k, "link", Undo(q, code))
  BY Codes DEF Link
<1>2. /\ q.pc = "link" /\ q \in CallState /\ q.user \in User /\ q.user # NoUser /\ TypeOK
      /\ users[q.user].row = "live" /\ ~q.late
  BY <1>1, Current, IdentityAssumption DEF Step, OnCourse, LoginKept
<1>3. /\ employees' \in [Employee -> EmployeeRow]
      /\ \A e \in Employee : Settled(e) => Settled(e)'
  <2>1. CASE UNCHANGED employees
    BY <1>2, <2>1 DEF TypeOK, IdentityTypeOK, Settled
  <2>2. CASE SetEmployeeUserID(q.employee, q.user)
    BY <1>2, <2>2 DEF TypeOK, IdentityTypeOK, Live, Settled, SetEmployeeUserID, EmployeeRow
  <2> QED
    BY <1>1, <2>1, <2>2
<1>4. PICK to \in CallState :
        /\ Step(k, "link", to) /\ to.user = q.user /\ to.late = q.late
        /\ \/ to.pc = "done" /\ to.code = 201
           \/ to.pc = "undo" /\ to.code \in Error
  <2>1. ASSUME NEW code \in Code
        PROVE  /\ Reply(q, code) \in CallState /\ Reply(q, code).pc = "done"
               /\ Reply(q, code).user = q.user /\ Reply(q, code).code = code
               /\ Reply(q, code).late = q.late
               /\ Undo(q, code) \in CallState /\ Undo(q, code).pc = "undo"
               /\ Undo(q, code).user = q.user /\ Undo(q, code).code = code
               /\ Undo(q, code).late = q.late
    BY <1>2, AnswerFields
  <2> HIDE DEF q
  <2>2. CASE Step(k, "link", Reply(q, 201))
    <3>1. PICK code \in Code : code = 201
      BY Codes
    <3> QED
      BY <2>1, <2>2, <3>1
  <2>3. CASE \E code \in Error : Step(k, "link", Undo(q, code))
    BY <2>1, <2>3, Codes
  <2> QED
    BY <1>1, <2>2, <2>3
<1> HIDE DEF q
<1>5. OnCourse(to)'
  BY <1>2, <1>4, Codes DEF OnCourse
<1>6. LoginKept(to)
  BY <1>2, <1>4, Codes DEF LoginKept
<1> QED
  BY <1>1, <1>3, <1>4, <1>5, <1>6, CallStep DEF q

LEMMA CompensateKeeps == ASSUME IInv, NEW k \in Call, Compensate(k) PROVE IInv'
<1> DEFINE q == calls[k]
<1>1. /\ UNCHANGED employees
      /\ \/ /\ users' = [users EXCEPT ![q.user].row = "deleted"]
            /\ Step(k, "undo", Reply(q, q.code))
         \/ Step(k, "undo", Reply([q EXCEPT !.stuck = TRUE], q.code)) /\ UNCHANGED users
  BY DEF Compensate
<1>2. /\ q.pc = "undo" /\ q \in CallState /\ q.user \in User /\ q.user # NoUser /\ TypeOK
      /\ ~q.late /\ q.code \in Error /\ q.code \in Code
      /\ users[q.user].row = "live"
  BY <1>1, Current, IdentityAssumption, Codes DEF Step, OnCourse, LoginKept
<1>3. CASE Step(k, "undo", Reply([q EXCEPT !.stuck = TRUE], q.code)) /\ UNCHANGED users
  <2> DEFINE stuck == [q EXCEPT !.stuck = TRUE]
             to == Reply(stuck, q.code)
  <2>1. stuck \in CallState /\ stuck.stuck /\ stuck.user = q.user /\ stuck.late = q.late
    BY <1>2 DEF CallState
  <2> HIDE DEF stuck
  <2>2. /\ to \in CallState /\ to.pc = "done" /\ to.stuck /\ to.user = q.user
        /\ to.late = q.late /\ to.code = q.code
    BY <1>2, <2>1, AnswerFields
  <2> HIDE DEF to, q
  <2>3. OnCourse(to) /\ LoginKept(to)
    BY <1>2, <2>2, Codes DEF OnCourse, LoginKept
  <2> QED
    BY <1>1, <1>3, <2>2, <2>3, QuietStep DEF to, stuck, q
<1>4. CASE /\ users' = [users EXCEPT ![q.user].row = "deleted"]
           /\ Step(k, "undo", Reply(q, q.code))
  <2>1. PICK to \in CallState :
          /\ Step(k, "undo", to) /\ to.pc = "done" /\ to.user = q.user /\ to.late = q.late
          /\ to.code = q.code
    BY <1>2, <1>4, AnswerFields
  <2>2. /\ calls' \in [Call -> CallState] /\ calls'[k] = to
        /\ \A j \in Call \ {k} : calls'[j] = calls[j]
    BY <1>2, <2>1, StepChanges
  <2>3. /\ users' \in [User -> UserRow] /\ users'[q.user].row = "deleted"
        /\ \A v \in User \ {q.user} : users'[v] = users[v]
    BY <1>2, <1>4 DEF TypeOK, UserRow
  <2>4. TypeOK'
    BY <1>1, <1>2, <2>2, <2>3 DEF TypeOK, IdentityTypeOK
  <2>5. ASSUME NEW j \in Call PROVE OnCourse(calls[j])' /\ LoginKept(calls[j])'
    <3>1. CASE j = k
      <4>1. OnCourse(calls[k])'
        BY <1>2, <2>1, <2>2 DEF OnCourse
      <4>2. LoginKept(calls[k])'
        BY <1>2, <2>1, <2>2, <2>3, Codes DEF LoginKept
      <4> QED
        BY <3>1, <4>1, <4>2
    <3>2. CASE j # k
      <4>1. /\ OnCourse(calls[j]) /\ LoginKept(calls[j]) /\ calls'[j] = calls[j]
            /\ calls[j].user \in User \cup {NoUser}
        BY <2>2, <3>2, Current DEF CallState
      <4>2. calls[j].user # q.user
        BY <1>2, <3>2 DEF IInv
      <4>3. OnCourse(calls[j])'
        <5>1. UNCHANGED employees
          BY <1>1
        <5> QED
          BY <4>1, <5>1 DEF OnCourse, Settled
      <4>4. LoginKept(calls[j])'
        BY <2>3, <4>1, <4>2, IdentityAssumption DEF LoginKept
      <4> QED
        BY <4>3, <4>4
    <3> QED
      BY <3>1, <3>2
  <2>6. \A i, j \in Call : calls'[i].user = calls'[j].user /\ calls'[i].user # NoUser => i = j
    BY <2>1, <2>2 DEF IInv
  <2> QED
    BY <2>4, <2>5, <2>6 DEF IInv
<1> QED
  BY <1>1, <1>3, <1>4

(* Administrators' statements change employees only.                        *)
LEMMA StaffKeeps ==
  ASSUME IInv, NEW e \in Employee, AddEmployee(e) \/ RemoveEmployee(e)
  PROVE  IInv'
<1>1. /\ UNCHANGED <<users, calls>> /\ TypeOK
      /\ employees' \in [Employee -> EmployeeRow]
      /\ \A f \in Employee : Settled(f) => Settled(f)'
  <2>1. CASE RemoveEmployee(e)
    BY <2>1 DEF IInv, TypeOK, IdentityTypeOK, EmployeeRow, RemoveEmployee, DeleteEmployee,
                Live, Settled
  <2>2. CASE AddEmployee(e)
    <3>1. PICK u \in {NoUser} \cup User : CreateEmployee(e, u)
      BY <2>2 DEF AddEmployee
    <3> QED
      BY <2>2, <3>1 DEF IInv, TypeOK, IdentityTypeOK, EmployeeRow, AddEmployee,
                        CreateEmployee, Settled
  <2> QED
    BY <2>1, <2>2
<1>2. TypeOK'
  BY <1>1 DEF TypeOK, IdentityTypeOK
<1>3. ASSUME NEW k \in Call PROVE OnCourse(calls[k])' /\ LoginKept(calls[k])'
  <2>1. OnCourse(calls[k]) /\ LoginKept(calls[k]) /\ calls'[k] = calls[k]
    BY <1>1, Current
  <2>2. OnCourse(calls[k])'
    BY <1>1, <2>1 DEF OnCourse, Settled
  <2>3. LoginKept(calls[k])'
    BY <1>1, <2>1 DEF LoginKept
  <2> QED
    BY <2>2, <2>3
<1> QED
  BY <1>1, <1>2, <1>3 DEF IInv

LEMMA NextInv == IInv /\ [Next]_vars => IInv'
<1> SUFFICES ASSUME IInv, [Next]_vars PROVE IInv'
  OBVIOUS
<1>1. ASSUME NEW k \in Call, Request(k) PROVE IInv'
  BY <1>1, RequestKeeps
<1>2. ASSUME NEW k \in Call, GetEmployee(k) PROVE IInv'
  BY <1>2, GetEmployeeKeeps
<1>3. ASSUME NEW k \in Call, CreateUser(k) PROVE IInv'
  BY <1>3, CreateUserKeeps
<1>4. ASSUME NEW k \in Call, Link(k) PROVE IInv'
  BY <1>4, LinkKeeps
<1>5. ASSUME NEW k \in Call, Compensate(k) PROVE IInv'
  BY <1>5, CompensateKeeps
<1>6. ASSUME NEW e \in Employee, AddEmployee(e) \/ RemoveEmployee(e) PROVE IInv'
  BY <1>6, StaffKeeps
<1>7. CASE UNCHANGED vars
  BY <1>7 DEF vars, IInv, TypeOK, IdentityTypeOK, OnCourse, LoginKept, Settled
<1> QED
  BY <1>1, <1>2, <1>3, <1>4, <1>5, <1>6, <1>7 DEF Next

-----------------------------------------------------------------------------
(* The results.                                                             *)

(* The invariant holds throughout.                                          *)
THEOREM Invariance == Spec => []IInv
BY InitInv, NextInv, PTL DEF Spec

(* Every row and every call keeps to its type, and every answer is one of   *)
(* the codes that identity/handler.go 427-443 writes.                       *)
THEOREM TypeCorrect == Spec => []TypeOK
<1>1. IInv => TypeOK
  BY DEF IInv
<1> QED
  BY <1>1, Invariance, PTL

(* A login that was answered with 201 is never deleted by the compensation  *)
(* of another call (identity/service.go 225-238): no two calls hold the     *)
(* same login.                                                              *)
THEOREM LoginsLive == Spec => []AnsweredLoginLives
<1>1. IInv => AnsweredLoginLives
  BY DEF IInv, AnsweredLoginLives, LoginKept, LiveLogin
<1> QED
  BY <1>1, Invariance, PTL

(* After an error the login the call had made is gone, unless its deletion  *)
(* failed too (identity/service.go 229-236).                                *)
THEOREM FailuresClean == Spec => []FailureLeavesNoLogin
<1>1. IInv => FailureLeavesNoLogin
  BY DEF IInv, FailureLeavesNoLogin, LoginKept, LiveLogin
<1> QED
  BY <1>1, Invariance, PTL

(* A call that arrives when the employee has a login makes none, whatever   *)
(* other calls and administrators do between its statements                 *)
(* (identity/service.go 218-220).                                           *)
THEOREM LateCalls == Spec => []LateCallRefused
<1>1. IInv => LateCallRefused
  BY DEF IInv, LateCallRefused, OnCourse
<1> QED
  BY <1>1, Invariance, PTL
=============================================================================
