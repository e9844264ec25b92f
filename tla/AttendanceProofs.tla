-------------------------- MODULE AttendanceProofs --------------------------
(* Theorems about the attendance service, for tenants of any size. *)
EXTENDS Attendance, TLAPS

(* The rows the writing statements produce are rows. *)
LEMMA RowTypes ==
  ASSUME TypeOK
  PROVE  /\ NoRow \in Row
         /\ \A e \in Employee, s \in Shift \cup {NoShift} : CheckedIn(e, s) \in Row
         /\ \A row \in Row : CheckedOut(row) \in Row
         /\ \A row \in Row, op \in Op : BreakSet(row, op) \in Row
         /\ \A s \in Shift : Detached(s) \in [ClientId -> Row]
<1>0. now + 1 \in Nat /\ 0 \in Nat
  BY DEF TypeOK
<1>1. NoRow \in Row
  BY DEF NoRow, Row
<1>2. \A e \in Employee, s \in Shift \cup {NoShift} : CheckedIn(e, s) \in Row
  BY <1>0 DEF CheckedIn, Row
<1>3. \A row \in Row : CheckedOut(row) \in Row
  BY <1>0 DEF CheckedOut, Row
<1>4. \A row \in Row, op \in Op : BreakSet(row, op) \in Row
  BY <1>0 DEF BreakSet, Row
<1>5. ASSUME NEW s \in Shift, NEW c \in ClientId
      PROVE  [records[c] EXCEPT !.shift = NoShift] \in Row
  BY DEF TypeOK, Row
<1>6. \A s \in Shift : Detached(s) \in [ClientId -> Row]
  BY <1>5 DEF Detached, TypeOK
<1> QED
  BY <1>1, <1>2, <1>3, <1>4, <1>6

LEMMA InitType == Init => TypeOK
BY RowTypes DEF Init, TypeOK, IdentityInit, RosterInit, IdentityTypeOK, RosterTypeOK,
   EmployeeRow, ShiftRow, Row, NoRow, RequestState, NewRequest, Op, Code

(* What each step of a request does to its record. *)
LEMMA RequestTypes ==
  ASSUME NEW q \in RequestState
  PROVE  /\ \A label \in {"lookup", "validate", "insert", "reread", "update"} :
              Moved(q, label) \in RequestState
         /\ \A code \in Code, row \in Row : Answered(q, code, row) \in RequestState
         /\ \A op \in Op, c \in ClientId \cup {NoClient}, s \in Shift \cup {NoShift} :
              /\ \A e \in Employee : Called(q, op, c, s, e) \in RequestState
              /\ \A code \in Code : Refused(q, op, c, s, code) \in RequestState
<1>1. \A label \in {"lookup", "validate", "insert", "reread", "update"} :
        Moved(q, label) \in RequestState
  BY DEF RequestState, Moved
<1>2. \A code \in Code, row \in Row : Answered(q, code, row) \in RequestState
  BY DEF RequestState, Answered
<1>3. ASSUME NEW op \in Op, NEW c \in ClientId \cup {NoClient},
             NEW s \in Shift \cup {NoShift}, NEW e \in Employee
      PROVE  Called(q, op, c, s, e) \in RequestState
  BY DEF RequestState, Called
<1>4. ASSUME NEW op \in Op, NEW c \in ClientId \cup {NoClient},
             NEW s \in Shift \cup {NoShift}, NEW code \in Code
      PROVE  Refused(q, op, c, s, code) \in RequestState
  BY DEF RequestState, Refused
<1> QED
  BY <1>1, <1>2, <1>3, <1>4

(* Answers, jumps and writes keep the types. *)
LEMMA ControlTypes ==
  ASSUME TypeOK, NEW r \in Request
  PROVE  /\ \A label \in {"lookup", "validate", "insert", "reread", "update"} :
              Goto(r, label) => requests' \in [Request -> RequestState]
         /\ \A code \in Code, row \in Row :
              Answer(r, code, row) => requests' \in [Request -> RequestState]
<1>1. requests \in [Request -> RequestState] /\ requests[r] \in RequestState
  BY DEF TypeOK
<1> QED
  BY <1>1, RequestTypes DEF Goto, Answer

LEMMA WriteTypes ==
  ASSUME TypeOK, NEW r \in Request, NEW code \in Code, NEW row \in Row,
         requests[r].client \in ClientId, Write(r, code, row), now' = now + 1
  PROVE  TypeOK'
<1>1. NoRow \in Row /\ 500 \in Code
  BY RowTypes DEF Code
<1>2. requests' \in [Request -> RequestState]
  BY <1>1, ControlTypes DEF Write
<1>3. records' \in [ClientId -> Row]
  BY DEF Write, TypeOK
<1> QED
  BY <1>2, <1>3 DEF Write, tenantVars, TypeOK, IdentityTypeOK, RosterTypeOK

-----------------------------------------------------------------------------
(* The fields of a request record after a step. *)
LEMMA RequestFields ==
  ASSUME NEW q \in RequestState
  PROVE  /\ \A label : LET m == Moved(q, label) IN
              /\ m.pc = label /\ m.op = q.op /\ m.client = q.client
              /\ m.shift = q.shift /\ m.employee = q.employee
              /\ m.code = q.code /\ m.reply = q.reply
         /\ \A code, row : LET a == Answered(q, code, row) IN
              /\ a.pc = "done" /\ a.op = q.op /\ a.client = q.client
              /\ a.shift = q.shift /\ a.employee = q.employee
              /\ a.code = code /\ a.reply = row
         /\ \A op, c, s, e : LET b == Called(q, op, c, s, e) IN
              /\ b.pc = "lookup" /\ b.op = op /\ b.client = c
              /\ b.shift = s /\ b.employee = e
              /\ b.code = q.code /\ b.reply = q.reply
         /\ \A op, c, s, code : LET d == Refused(q, op, c, s, code) IN
              /\ d.pc = "done" /\ d.op = op /\ d.client = c /\ d.shift = s
              /\ d.employee = q.employee /\ d.code = code /\ d.reply = q.reply
BY DEF RequestState, Moved, Answered, Called, Refused

(* What no step takes back: a row, its employee and its check-in time; the *)
(* publication of a shift; the employees it has had.                       *)
Advances ==
  /\ \A c \in ClientId : Recorded(c) =>
       /\ records'[c].status # "none"
       /\ records'[c].employee = records[c].employee
       /\ records'[c].checkInAt = records[c].checkInAt
  /\ \A s \in Shift : shifts[s].status \in {"published", "deleted"} =>
       shifts'[s].status \in {"published", "deleted"}
  /\ \A s \in Shift : publishedTo[s] \subseteq publishedTo'[s]

(* A request that does not move keeps what it has established, whatever    *)
(* the others write meanwhile.                                             *)
LEMMA RequestKeeps ==
  ASSUME TypeOK, Advances, NEW x \in Request, requests'[x] = requests[x],
         RequestInv(requests[x])
  PROVE  RequestInv(requests[x])'
<1> DEFINE q == requests[x]
<1>1. q \in RequestState
  BY DEF TypeOK
<1>2. OnCourse(q)'
  BY <1>1 DEF OnCourse, RequestInv, Advances, Recorded, RequestState
<1>3. Validated(q)'
  BY <1>1 DEF Validated, RequestInv, Advances, RequestState, TypeOK, RosterTypeOK
<1>4. DescribesRow(q)'
  BY <1>1 DEF DescribesRow, OnCourse, RequestInv, Advances, Recorded
<1>5. ConflictIsReal(q)'
  BY <1>1 DEF ConflictIsReal, OnCourse, RequestInv, Advances, Recorded
<1> QED
  BY <1>2, <1>3, <1>4, <1>5 DEF RequestInv

(* The part of the inductive invariant that speaks of the requests is kept *)
(* by a step of r that establishes it for r alone, and reports a creation  *)
(* only of a row that was not there.                                       *)
LEMMA OneRequestMoves ==
  ASSUME IInv, Advances, NEW r \in Request,
         \A x \in Request : x # r => requests'[x] = requests[x],
         RequestInv(requests[r])',
         requests'[r].code = 201 => ~ Recorded(requests'[r].client)
  PROVE  /\ \A x \in Request : RequestInv(requests[x])'
         /\ CreatedOnce'
<1>1. ASSUME NEW x \in Request PROVE RequestInv(requests[x])'
  <2>1. CASE x = r
    BY <2>1
  <2>2. CASE x # r
    BY <2>2, RequestKeeps DEF IInv
  <2> QED
    BY <2>1, <2>2
<1>2. ASSUME NEW r1 \in Request, NEW r2 \in Request,
             requests'[r1].code = 201, requests'[r2].code = 201,
             requests'[r1].client = requests'[r2].client
      PROVE  r1 = r2
  <2>1. ASSUME NEW x \in Request, x # r, requests'[x].code = 201
        PROVE  Recorded(requests'[x].client)
    BY <2>1 DEF IInv, RequestInv, DescribesRow, Success
  <2> QED
    BY <1>2, <2>1 DEF IInv, CreatedOnce
<1> QED
  BY <1>1, <1>2 DEF CreatedOnce

LEMMA ReadOnlyAdvances == TypeOK /\ ReadOnly => Advances
BY DEF TypeOK, RosterTypeOK, ReadOnly, Advances, Recorded

(* The invariants that speak of the tables. *)
Tables ==
  /\ PublicationsRemembered
  /\ RowsInPast
  /\ StampsMatchStatus
  /\ AttendanceOnOwnShift
  /\ HistoryKeepsEmployee

LEMMA ReadOnlyTables == Tables /\ ReadOnly => Tables'
BY DEF Tables, ReadOnly, PublicationsRemembered, RowsInPast, StampsMatchStatus,
   AttendanceOnOwnShift, HistoryKeepsEmployee, Exists, Recorded, Live

(* A step that moves or answers r without writing keeps the inductive      *)
(* invariant once r's own record does.                                     *)
LEMMA ReadOnlyStep ==
  ASSUME IInv, ReadOnly, NEW r \in Request, NEW q \in RequestState,
         requests' = [requests EXCEPT ![r] = q],
         RequestInv(q), q.code # 201
  PROVE  IInv'
<1>1. requests \in [Request -> RequestState]
  BY DEF IInv, TypeOK
<1>2. TypeOK'
  BY <1>1 DEF IInv, TypeOK, IdentityTypeOK, RosterTypeOK, ReadOnly
<1>3. /\ requests'[r] = q
      /\ \A x \in Request : x # r => requests'[x] = requests[x]
  BY <1>1
<1>4. Advances
  BY ReadOnlyAdvances DEF IInv
<1>5. RequestInv(requests[r])'
  BY <1>3 DEF RequestInv, OnCourse, Validated, DescribesRow, ConflictIsReal, Recorded, ReadOnly
<1>6. (\A x \in Request : RequestInv(requests[x]))' /\ CreatedOnce'
  BY <1>3, <1>4, <1>5, OneRequestMoves
<1>7. Tables'
  BY ReadOnlyTables DEF IInv, Tables
<1> QED
  BY <1>2, <1>6, <1>7 DEF IInv, Tables

(* The two ways a read-only step ends: the request goes on to a statement, *)
(* or it is answered without creating anything.                            *)
LEMMA Going ==
  ASSUME IInv, ReadOnly, NEW r \in Request,
         NEW label \in {"lookup", "validate", "insert", "reread", "update"},
         Goto(r, label), RequestInv(Moved(requests[r], label)), requests[r].code = 0
  PROVE  IInv'
<1>1. requests[r] \in RequestState
  BY DEF IInv, TypeOK
<1>2. Moved(requests[r], label) \in RequestState
  BY <1>1, RequestTypes
<1>3. Moved(requests[r], label).code # 201
  BY <1>1, RequestFields
<1> QED
  BY <1>2, <1>3, ReadOnlyStep DEF Goto

LEMMA Answering ==
  ASSUME IInv, ReadOnly, NEW r \in Request, NEW code \in Code \ {201}, NEW row \in Row,
         Answer(r, code, row), RequestInv(Answered(requests[r], code, row))
  PROVE  IInv'
<1>1. requests[r] \in RequestState
  BY DEF IInv, TypeOK
<1>2. Answered(requests[r], code, row) \in RequestState
  BY <1>1, RequestTypes
<1>3. Answered(requests[r], code, row).code # 201
  BY <1>1, RequestFields
<1> QED
  BY <1>2, <1>3, ReadOnlyStep DEF Answer

(* A refusal other than a conflict establishes nothing. *)
LEMMA Refusing ==
  ASSUME IInv, ReadOnly, NEW r \in Request, requests[r].op # "none",
         NEW code \in {400, 404, 500}, Answer(r, code, NoRow)
  PROVE  IInv'
<1>1. requests[r] \in RequestState /\ NoRow \in Row
  BY RowTypes DEF IInv, TypeOK
<1>2. code \in Code \ {201} /\ code \notin Success \cup {409} /\ code # 0
  BY DEF Code, Success
<1>3. RequestInv(Answered(requests[r], code, NoRow))
  BY <1>1, <1>2, RequestFields
     DEF RequestInv, OnCourse, Validated, DescribesRow, ConflictIsReal
<1> QED
  BY <1>1, <1>2, <1>3, Answering

(* A caller shown the row of its own client_id. *)
LEMMA Showing ==
  ASSUME IInv, ReadOnly, NEW r \in Request,
         requests[r].pc \in {"lookup", "reread"},
         Recorded(requests[r].client), Own(r),
         Answer(r, 200, records[requests[r].client])
  PROVE  IInv'
<1> DEFINE row == records[requests[r].client]
<1>1. requests[r] \in RequestState /\ requests[r].client \in ClientId
  BY DEF IInv, TypeOK, RequestInv, OnCourse
<1>2. row \in Row /\ 200 \in Code \ {201} /\ requests[r].op # "none"
  BY <1>1 DEF IInv, TypeOK, Code, RequestInv, OnCourse
<1>3. requests[r].op \notin {"none"} /\ requests[r].employee = row.employee
  BY <1>2 DEF Own
<1>4. PICK code \in Code \ {201} : code = 200
  BY <1>2
<1> HIDE DEF row
<1> DEFINE q == Answered(requests[r], code, row)
<1>5. /\ q.pc = "done" /\ q.op = requests[r].op /\ q.client = requests[r].client
      /\ q.employee = requests[r].employee /\ q.code = code /\ q.reply = row
  BY <1>1, RequestFields
<1> HIDE DEF q
<1>6. OnCourse(q) /\ Validated(q)
  BY <1>1, <1>3, <1>4, <1>5 DEF OnCourse, Validated
<1>7. DescribesRow(q) /\ ConflictIsReal(q)
  BY <1>3, <1>4, <1>5 DEF DescribesRow, ConflictIsReal, row
<1>8. RequestInv(q)
  BY <1>6, <1>7 DEF RequestInv
<1>9. Answer(r, code, row)
  BY <1>4 DEF row
<1> QED
  BY <1>2, <1>8, <1>9, Answering DEF q

(* A check-in told that its client_id is taken. *)
LEMMA Conflicting ==
  ASSUME IInv, ReadOnly, NEW r \in Request,
         requests[r].pc \in {"lookup", "reread"}, requests[r].op = "checkIn",
         Recorded(requests[r].client), Answer(r, 409, NoRow)
  PROVE  IInv'
<1>1. requests[r] \in RequestState /\ requests[r].client \in ClientId
  BY DEF IInv, TypeOK, RequestInv, OnCourse
<1>2. NoRow \in Row /\ 409 \in Code \ {201}
  BY RowTypes DEF IInv, Code
<1>3. RequestInv(Answered(requests[r], 409, NoRow))
  BY <1>1, <1>2, RequestFields
     DEF RequestInv, OnCourse, Validated, DescribesRow, ConflictIsReal, Success
<1> QED
  BY <1>2, <1>3, Answering

-----------------------------------------------------------------------------
(* The read-only steps, action by action. *)

LEMMA ResolveKeeps == ASSUME IInv, NEW r \in Request, Resolve(r) PROVE IInv'
<1>1. requests[r] \in RequestState /\ requests[r].code = 0
  BY DEF IInv, TypeOK, RequestInv, OnCourse, Resolve, At
<1>2. {400, 500} \subseteq Code
  BY DEF Code
<1>3. PICK op \in Op, c \in ClientId \cup {NoClient}, u \in User, s \in Shift \cup {NoShift} :
        \/ \E e \in EmployeesOfUser(u) :
             c # NoClient /\ requests' = [requests EXCEPT ![r] = Called(@, op, c, s, e)]
        \/ \E code \in {400, 500} :
             requests' = [requests EXCEPT ![r] = Refused(@, op, c, s, code)]
  BY DEF Resolve
<1>4. op # "none"
  BY DEF Op
<1>5. ASSUME NEW e \in EmployeesOfUser(u), c # NoClient,
             requests' = [requests EXCEPT ![r] = Called(@, op, c, s, e)]
      PROVE  IInv'
  <2> DEFINE q == Called(requests[r], op, c, s, e)
  <2>1. e \in Employee
    BY DEF EmployeesOfUser
  <2>2. q \in RequestState
    BY <1>1, <2>1, RequestTypes
  <2>3. RequestInv(q) /\ q.code # 201
    BY <1>1, <1>4, <1>5, <2>1, RequestFields
       DEF RequestInv, OnCourse, Validated, DescribesRow, ConflictIsReal, Success
  <2> QED
    BY <1>5, <2>2, <2>3, ReadOnlyStep DEF Resolve
<1>6. \A code \in Code : Refused(requests[r], op, c, s, code) \in RequestState
  BY <1>1, RequestTypes
<1>7. ASSUME NEW q \in RequestState, q.pc = "done", q.op = op, q.code \in {400, 500},
             requests' = [requests EXCEPT ![r] = q]
      PROVE  IInv'
  <2>1. RequestInv(q) /\ q.code # 201
    BY <1>4, <1>7 DEF RequestInv, OnCourse, Validated, DescribesRow, ConflictIsReal, Success
  <2>2. ReadOnly
    BY DEF Resolve
  <2>3. requests' = [requests EXCEPT ![r] = q]
    BY <1>7
  <2> QED
    BY ONLY IInv, <2>1, <2>2, <2>3, ReadOnlyStep, r \in Request, q \in RequestState
<1>8. ASSUME NEW answer \in {400, 500},
             requests' = [requests EXCEPT ![r] = Refused(@, op, c, s, answer)]
      PROVE  IInv'
  <2>1. Refused(requests[r], op, c, s, answer) \in RequestState
    BY <1>2, <1>6
  <2>2. LET q == Refused(requests[r], op, c, s, answer) IN
          q.pc = "done" /\ q.op = op /\ q.code \in {400, 500}
    BY <1>1, RequestFields
  <2> QED
    BY <1>7, <1>8, <2>1, <2>2
<1> QED
  BY <1>3, <1>5, <1>8

LEMMA LookupForCheckInKeeps ==
  ASSUME IInv, NEW r \in Request, LookupForCheckIn(r) PROVE IInv'
<1> DEFINE q == requests[r]
<1>1. /\ q \in RequestState /\ q.pc = "lookup" /\ q.op = "checkIn" /\ q.code = 0
      /\ ReadOnly /\ RequestInv(q)
  BY DEF IInv, TypeOK, RequestInv, OnCourse, LookupForCheckIn, At
<1>2. ASSUME ~ Recorded(q.client),
             Goto(r, IF q.shift = NoShift THEN "insert" ELSE "validate")
      PROVE  IInv'
  <2> DEFINE label == IF q.shift = NoShift THEN "insert" ELSE "validate"
  <2>1. RequestInv(Moved(q, label))
    BY <1>1, RequestFields
       DEF RequestInv, OnCourse, Validated, DescribesRow, ConflictIsReal, Success
  <2> QED
    BY <1>1, <1>2, <2>1, Going
<1> QED
  BY <1>1, <1>2, Showing, Conflicting DEF LookupForCheckIn

LEMMA ValidateOwnShiftKeeps ==
  ASSUME IInv, NEW r \in Request, ValidateOwnShift(r) PROVE IInv'
<1> DEFINE q == requests[r]
<1>1. /\ q \in RequestState /\ q.pc = "validate" /\ q.op = "checkIn" /\ q.code = 0
      /\ ReadOnly /\ RequestInv(q) /\ q.shift \in Shift
  BY DEF IInv, TypeOK, RequestInv, OnCourse, ValidateOwnShift, At, RequestState
<1>2. ASSUME OwnPublishedShift(q.shift, q.employee), Goto(r, "insert")
      PROVE  IInv'
  <2>1. q.employee \in publishedTo[q.shift] /\ shifts[q.shift].status = "published"
    BY <1>1, <1>2 DEF IInv, PublicationsRemembered, Exists, OwnPublishedShift
  <2>2. RequestInv(Moved(q, "insert"))
    BY <1>1, <2>1, RequestFields
       DEF RequestInv, OnCourse, Validated, DescribesRow, ConflictIsReal, Success
  <2> QED
    BY <1>1, <1>2, <2>2, Going
<1> QED
  BY <1>1, <1>2, Refusing DEF ValidateOwnShift

LEMMA RereadKeeps ==
  ASSUME IInv, NEW r \in Request, RereadAfterConflict(r) PROVE IInv'
BY Showing, Conflicting
   DEF RereadAfterConflict, At, IInv, RequestInv, OnCourse

LEMMA LookupForCheckOutKeeps ==
  ASSUME IInv, NEW r \in Request, LookupForCheckOut(r) PROVE IInv'
<1> DEFINE q == requests[r]
<1>1. /\ q \in RequestState /\ q.pc = "lookup" /\ q.op = "checkOut" /\ q.code = 0
      /\ ReadOnly /\ RequestInv(q)
  BY DEF IInv, TypeOK, RequestInv, OnCourse, LookupForCheckOut, At
<1>2. ASSUME Recorded(q.client), Own(r), Goto(r, "update") PROVE IInv'
  <2>1. RequestInv(Moved(q, "update"))
    BY <1>1, <1>2, RequestFields
       DEF RequestInv, OnCourse, Validated, DescribesRow, ConflictIsReal, Success, Own
  <2> QED
    BY <1>1, <1>2, <2>1, Going
<1> QED
  BY <1>1, <1>2, Showing, Refusing DEF LookupForCheckOut

LEMMA LookupForBreakKeeps ==
  ASSUME IInv, NEW r \in Request, LookupForBreak(r) PROVE IInv'
<1> DEFINE q == requests[r]
<1>1. /\ q \in RequestState /\ q.pc = "lookup" /\ q.op \in {"breakOn", "breakOff"}
      /\ q.code = 0 /\ ReadOnly /\ RequestInv(q)
  BY DEF IInv, TypeOK, RequestInv, OnCourse, LookupForBreak, At
<1>2. ASSUME Recorded(q.client), Own(r), Goto(r, "update") PROVE IInv'
  <2>1. RequestInv(Moved(q, "update"))
    BY <1>1, <1>2, RequestFields
       DEF RequestInv, OnCourse, Validated, DescribesRow, ConflictIsReal, Success, Own
  <2> QED
    BY <1>1, <1>2, <2>1, Going
<1> QED
  BY <1>1, <1>2, Showing, Refusing DEF LookupForBreak

LEMMA FailKeeps == ASSUME IInv, NEW r \in Request, Fail(r) PROVE IInv'
BY Refusing DEF Fail, IInv, RequestInv, OnCourse

-----------------------------------------------------------------------------
(* The steps that write a row. *)

(* What a write has to respect for the inductive invariant to survive it:  *)
(* the row is new or keeps its identity, its stamps fit its status, and it *)
(* refers to a live employee and to one of the employee's own shifts.      *)
LEMMA WriteStep ==
  ASSUME IInv, NEW r \in Request, NEW code \in {200, 201}, NEW row \in Row,
         requests[r].client \in ClientId, requests[r].op # "none",
         Write(r, code, row), now' = now + 1,
         row.status # "none",
         row.employee = requests[r].employee,
         Recorded(requests[r].client) =>
           /\ code # 201
           /\ records[requests[r].client].employee = row.employee
           /\ records[requests[r].client].checkInAt = row.checkInAt,
         row.checkInAt <= now + 1, row.checkInAt # 0,
         (row.status = "on_break") <=> (row.breakStartedAt > row.checkInAt),
         (row.status # "on_break") <=> (row.breakStartedAt = 0),
         (row.status = "checked_out") <=> (row.checkOutAt > row.checkInAt),
         (row.status # "checked_out") <=> (row.checkOutAt = 0),
         Live(row.employee),
         row.shift # NoShift => /\ shifts[row.shift].status = "published"
                                /\ row.employee \in publishedTo[row.shift]
  PROVE  IInv'
<1> DEFINE q == requests[r]
<1>1. /\ requests \in [Request -> RequestState] /\ q \in RequestState
      /\ records \in [ClientId -> Row] /\ now \in Nat
  BY DEF IInv, TypeOK
<1>2. code \in Code
  BY DEF Code
<1>3. TypeOK'
  BY <1>2, WriteTypes DEF IInv
<1>4. /\ records'[q.client] = row
      /\ \A c \in ClientId : c # q.client => records'[c] = records[c]
      /\ UNCHANGED <<employees, shifts, publishedTo>>
  BY <1>1 DEF Write, tenantVars
<1>5. Advances
  BY <1>4 DEF Advances, Recorded
<1>6. \A x \in Request : x # r => requests'[x] = requests[x]
  BY <1>1 DEF Write, Answer
<1>7. \/ requests'[r] = Answered(q, code, row)
      \/ requests'[r] = Answered(q, 500, NoRow)
  BY <1>1 DEF Write, Answer
<1>8. /\ requests'[r].pc = "done" /\ requests'[r].op = q.op
      /\ requests'[r].client = q.client /\ requests'[r].employee = q.employee
      /\ \/ requests'[r].code = code /\ requests'[r].reply = row
         \/ requests'[r].code = 500
  BY <1>1, <1>7, RequestFields
<1>9. RequestInv(requests[r])'
  BY <1>4, <1>8
     DEF RequestInv, OnCourse, Validated, DescribesRow, ConflictIsReal, Success, Recorded
<1>10. requests'[r].code = 201 => ~ Recorded(requests'[r].client)
  BY <1>8
<1>11. (\A x \in Request : RequestInv(requests[x]))' /\ CreatedOnce'
  BY <1>5, <1>6, <1>9, <1>10, OneRequestMoves
<1>12. PublicationsRemembered' /\ AttendanceOnOwnShift' /\ HistoryKeepsEmployee'
  BY <1>4 DEF IInv, PublicationsRemembered, AttendanceOnOwnShift, HistoryKeepsEmployee,
     Exists, Recorded, Live
<1>13. RowsInPast'
  <2>1. \A c \in ClientId : records[c].checkInAt \in Nat /\ records[c].checkInAt <= now
    BY <1>1 DEF IInv, RowsInPast, Row
  <2> QED
    BY <1>1, <1>4, <2>1 DEF RowsInPast
<1>14. StampsMatchStatus'
  <2>1. row.checkInAt \in Nat
    BY DEF Row
  <2> QED
    BY <1>4, <2>1 DEF IInv, StampsMatchStatus
<1> QED
  BY <1>3, <1>11, <1>12, <1>13, <1>14 DEF IInv

LEMMA InsertCheckInKeeps ==
  ASSUME IInv, NEW r \in Request, InsertCheckIn(r) PROVE IInv'
<1> DEFINE q == requests[r]
<1>1. /\ q \in RequestState /\ q.pc = "insert" /\ q.op = "checkIn" /\ q.code = 0
      /\ RequestInv(q) /\ q.client \in ClientId /\ q.employee \in Employee
      /\ q.shift \in Shift \cup {NoShift} /\ now \in Nat
  BY DEF IInv, TypeOK, RequestInv, OnCourse, InsertCheckIn, At, RequestState
<1>2. ASSUME Recorded(q.client), Goto(r, "reread"), ReadOnly PROVE IInv'
  <2>1. RequestInv(Moved(q, "reread"))
    BY <1>1, <1>2, RequestFields
       DEF RequestInv, OnCourse, Validated, DescribesRow, ConflictIsReal, Success
  <2> QED
    BY <1>1, <1>2, <2>1, Going
<1>3. ASSUME Answer(r, 400, NoRow), ReadOnly PROVE IInv'
  BY <1>1, <1>3, Refusing
<1>4. ASSUME ~ Recorded(q.client), ReferencesHold(q.employee, q.shift),
             Write(r, 201, CheckedIn(q.employee, q.shift)), now' = now + 1
      PROVE  IInv'
  <2> DEFINE row == CheckedIn(q.employee, q.shift)
  <2>1. /\ row.status = "checked_in" /\ row.employee = q.employee /\ row.shift = q.shift
        /\ row.checkInAt = now + 1 /\ row.checkOutAt = 0 /\ row.breakStartedAt = 0
    BY DEF CheckedIn
  <2>2. row \in Row
    BY <1>1, RowTypes DEF IInv
  <2>3. Live(row.employee)
    BY <1>4, <2>1 DEF ReferencesHold
  <2>4. q.shift # NoShift => /\ shifts[q.shift].status = "published"
                             /\ q.employee \in publishedTo[q.shift]
    BY <1>1, <1>4 DEF ReferencesHold, Exists, RequestInv, Validated
  <2> HIDE DEF row
  <2> QED
    BY <1>1, <1>4, <2>1, <2>2, <2>3, <2>4, WriteStep DEF row
<1> QED
  BY <1>2, <1>3, <1>4 DEF InsertCheckIn

(* A row the caller updates, and what its old stamps say. *)
LEMMA OwnRow ==
  ASSUME IInv, NEW r \in Request, requests[r].pc = "update"
  PROVE  /\ requests[r].client \in ClientId /\ requests[r].op # "none"
         /\ requests[r].op # "checkIn"
         /\ Recorded(requests[r].client)
         /\ records[requests[r].client] \in Row
         /\ records[requests[r].client].employee = requests[r].employee
         /\ Live(requests[r].employee)
         /\ records[requests[r].client].checkInAt \in 1..now
         /\ records[requests[r].client].shift # NoShift =>
              LET s == records[requests[r].client].shift IN
              shifts[s].status = "published" /\ requests[r].employee \in publishedTo[s]
<1>1. /\ requests[r].client \in ClientId /\ requests[r].op # "none"
      /\ requests[r].op # "checkIn"
      /\ Recorded(requests[r].client)
      /\ records[requests[r].client] \in Row
      /\ records[requests[r].client].employee = requests[r].employee
  BY DEF IInv, TypeOK, RequestInv, OnCourse
<1>2. Live(requests[r].employee)
  BY <1>1 DEF IInv, HistoryKeepsEmployee
<1>3. records[requests[r].client].checkInAt \in 1..now
  BY <1>1 DEF IInv, RowsInPast, StampsMatchStatus, Recorded, Row, TypeOK
<1> QED
  BY <1>1, <1>2, <1>3 DEF IInv, AttendanceOnOwnShift

(* An update that leaves the old row its employee, shift and check-in time, *)
(* and whose stamps agree with its status, keeps the invariant.             *)
LEMMA OldRowKept ==
  ASSUME IInv, NEW r \in Request, requests[r].pc = "update",
         NEW row \in Row, Write(r, 200, row), now' = now + 1,
         row.employee = records[requests[r].client].employee,
         row.shift = records[requests[r].client].shift,
         row.checkInAt = records[requests[r].client].checkInAt,
         row.checkInAt <= now + 1, row.checkInAt # 0, row.status # "none",
         (row.status = "on_break") <=> (row.breakStartedAt > row.checkInAt),
         (row.status # "on_break") <=> (row.breakStartedAt = 0),
         (row.status = "checked_out") <=> (row.checkOutAt > row.checkInAt),
         (row.status # "checked_out") <=> (row.checkOutAt = 0)
  PROVE  IInv'
<1>1. /\ requests[r].client \in ClientId /\ requests[r].op # "none"
      /\ row.employee = requests[r].employee /\ Live(row.employee)
  BY OwnRow
<1>2. row.shift # NoShift => /\ shifts[row.shift].status = "published"
                             /\ row.employee \in publishedTo[row.shift]
  BY OwnRow
<1>3. PICK code \in {200, 201} : code = 200
  OBVIOUS
<1>4. Write(r, code, row) /\ code # 201
  BY <1>3
<1> QED
  BY <1>1, <1>2, <1>4, WriteStep

LEMMA UpdateCheckOutKeeps ==
  ASSUME IInv, NEW r \in Request, UpdateCheckOut(r) PROVE IInv'
<1> DEFINE old == records[requests[r].client]
           row == CheckedOut(old)
<1>1. requests[r].pc = "update" /\ now \in Nat
  BY DEF UpdateCheckOut, At, IInv, TypeOK
<1>2. CASE Write(r, 200, row) /\ now' = now + 1
  <2>1. row \in Row
    BY <1>1, OwnRow, RowTypes DEF IInv
  <2>2. /\ row.status = "checked_out" /\ row.checkOutAt = now + 1
        /\ row.breakStartedAt = 0 /\ row.employee = old.employee
        /\ row.shift = old.shift /\ row.checkInAt = old.checkInAt
    BY <1>1, OwnRow DEF CheckedOut, Row
  <2> HIDE DEF row
  <2>3. old.checkInAt \in 1..now
    BY <1>1, OwnRow
  <2>4. now + 1 > old.checkInAt /\ old.checkInAt # 0 /\ old.checkInAt <= now + 1
        /\ now + 1 # 0 /\ ~ (0 > old.checkInAt)
    BY <1>1, <2>3
  <2>5. /\ row.checkInAt <= now + 1 /\ row.checkInAt # 0
        /\ (row.status = "on_break") <=> (row.breakStartedAt > row.checkInAt)
        /\ (row.status # "on_break") <=> (row.breakStartedAt = 0)
        /\ (row.status = "checked_out") <=> (row.checkOutAt > row.checkInAt)
        /\ (row.status # "checked_out") <=> (row.checkOutAt = 0)
        /\ row.status # "none"
    BY <2>2, <2>4
  <2> QED
    BY <1>1, <1>2, <2>1, <2>2, <2>5, OldRowKept
<1>3. CASE ~ Recorded(requests[r].client)
  BY <1>1, <1>3, OwnRow
<1> QED
  BY <1>2, <1>3 DEF UpdateCheckOut

LEMMA UpdateBreakKeeps ==
  ASSUME IInv, NEW r \in Request, UpdateBreak(r) PROVE IInv'
<1> DEFINE old == records[requests[r].client]
           row == BreakSet(old, requests[r].op)
<1>1. requests[r].pc = "update" /\ now \in Nat
  BY DEF UpdateBreak, At, IInv, TypeOK
<1>2. requests[r].op \in Op
  BY OwnRow, <1>1 DEF IInv, TypeOK, RequestState
<1>3. CASE Open(old) /\ Write(r, 200, row) /\ now' = now + 1
  <2>1. row \in Row
    BY <1>1, <1>2, OwnRow, RowTypes DEF IInv
  <2>2. /\ row.employee = old.employee /\ row.shift = old.shift
        /\ row.checkInAt = old.checkInAt /\ row.checkOutAt = old.checkOutAt
        /\ \/ row.status = "on_break" /\ row.breakStartedAt = now + 1
           \/ row.status = "checked_in" /\ row.breakStartedAt = 0
    BY <1>1, OwnRow DEF BreakSet, Row
  <2> HIDE DEF row
  <2>3. old.checkOutAt = 0
    BY <1>1, <1>3, OwnRow DEF IInv, StampsMatchStatus, Open
  <2>4. old.checkInAt \in 1..now
    BY <1>1, OwnRow
  <2>5. now + 1 > old.checkInAt /\ old.checkInAt # 0 /\ old.checkInAt <= now + 1
        /\ now + 1 # 0 /\ ~ (0 > old.checkInAt)
    BY <1>1, <2>4
  <2>6. /\ row.checkInAt <= now + 1 /\ row.checkInAt # 0 /\ row.status # "none"
        /\ (row.status = "on_break") <=> (row.breakStartedAt > row.checkInAt)
        /\ (row.status # "on_break") <=> (row.breakStartedAt = 0)
        /\ (row.status = "checked_out") <=> (row.checkOutAt > row.checkInAt)
        /\ (row.status # "checked_out") <=> (row.checkOutAt = 0)
    BY <2>2, <2>3, <2>5
  <2> QED
    BY <1>1, <1>3, <2>1, <2>2, <2>6, OldRowKept
<1>4. CASE Answer(r, 404, NoRow) /\ ReadOnly
  BY <1>1, <1>4, OwnRow, Refusing
<1> QED
  BY <1>3, <1>4 DEF UpdateBreak

-----------------------------------------------------------------------------
(* The steps of managers leave the requests alone. *)
LEMMA RequestsUntouched ==
  ASSUME IInv, Advances, UNCHANGED requests
  PROVE  (\A x \in Request : RequestInv(requests[x]))' /\ CreatedOnce'
BY RequestKeeps DEF IInv, CreatedOnce

LEMMA ManageShiftKeeps == ASSUME IInv, ManageShift PROVE IInv'
<1>1. PICK s \in Shift :
        \/ PublishShift(s)
        \/ \E e \in Employee : CreateShift(s, e) \/ UpdateShift(s, e)
  BY DEF ManageShift
<1>2. UNCHANGED <<employees, records, requests, now>>
  BY DEF ManageShift
<1>3. shifts \in [Shift -> ShiftRow] /\ publishedTo \in [Shift -> SUBSET Employee]
  BY DEF IInv, TypeOK, RosterTypeOK
<1> DEFINE Change(new, e) ==
      /\ shifts' = [shifts EXCEPT ![s] = new]
      /\ new.owner = e /\ Live(e)
      /\ \/ publishedTo' = publishedTo /\ new.status = "draft"
         \/ publishedTo' = [publishedTo EXCEPT ![s] = @ \cup {e}]
      /\ shifts[s].status = "published" => new.status = "published"
      /\ shifts[s].status # "deleted"
      /\ new.status \in {"draft", "published"}
<1>4. \E new \in ShiftRow, e \in Employee : Change(new, e)
  <2>1. CASE PublishShift(s)
    <3> DEFINE new == [shifts[s] EXCEPT !.status = "published"]
    <3>1. new \in ShiftRow /\ new.status = "published" /\ new.owner = shifts[s].owner
      BY <1>3, <2>1 DEF ShiftRow, PublishShift, Exists
    <3>2. shifts[s].owner \in Employee /\ Live(shifts[s].owner)
      BY <1>3, <2>1 DEF IInv, HistoryKeepsEmployee, PublishShift, ShiftRow, Exists
    <3>3. /\ shifts' = [shifts EXCEPT ![s] = new] /\ Exists(s)
          /\ publishedTo' = [publishedTo EXCEPT ![s] = @ \cup {shifts[s].owner}]
      BY <2>1 DEF PublishShift
    <3> HIDE DEF new
    <3>4. Change(new, shifts[s].owner)
      BY <3>1, <3>2, <3>3 DEF Exists
    <3> QED
      BY <3>1, <3>2, <3>4
  <2>2. ASSUME NEW e \in Employee, CreateShift(s, e) PROVE Change([status |-> "draft", owner |-> e], e)
    BY <2>2 DEF CreateShift
  <2>3. ASSUME NEW e \in Employee PROVE [status |-> "draft", owner |-> e] \in ShiftRow
    BY DEF ShiftRow
  <2>4. ASSUME NEW e \in Employee, UpdateShift(s, e)
        PROVE  \E new \in ShiftRow : Change(new, e)
    <3> DEFINE new == [shifts[s] EXCEPT !.owner = e]
    <3>1. new \in ShiftRow /\ new.status = shifts[s].status /\ new.owner = e
      BY <1>3, <2>4 DEF ShiftRow, UpdateShift, Exists
    <3>2. /\ shifts' = [shifts EXCEPT ![s] = new]
          /\ Live(e) /\ shifts[s].status \in {"draft", "published"}
          /\ \/ shifts[s].status = "draft" /\ publishedTo' = publishedTo
             \/ publishedTo' = [publishedTo EXCEPT ![s] = @ \cup {e}]
      BY <2>4 DEF UpdateShift, Exists
    <3> HIDE DEF new
    <3>3. Change(new, e)
      BY <3>1, <3>2
    <3> QED
      BY <3>1, <3>3
  <2> HIDE DEF Change
  <2> QED
    BY <1>1, <2>1, <2>2, <2>3, <2>4
<1>5. PICK new \in ShiftRow, e \in Employee : Change(new, e)
  BY <1>4
<1>6. TypeOK'
  BY <1>2, <1>3, <1>5 DEF IInv, TypeOK, IdentityTypeOK, RosterTypeOK
<1>7. Advances
  BY <1>2, <1>3, <1>5 DEF Advances, Recorded
<1>8. PublicationsRemembered'
  BY <1>3, <1>5 DEF IInv, PublicationsRemembered, Exists
<1>9. AttendanceOnOwnShift'
  BY <1>2, <1>3, <1>5 DEF IInv, AttendanceOnOwnShift, TypeOK, Row
<1>10. HistoryKeepsEmployee'
  BY <1>2, <1>3, <1>5 DEF IInv, HistoryKeepsEmployee, Exists, Recorded, Live
<1>11. RowsInPast' /\ StampsMatchStatus'
  BY <1>2 DEF IInv, RowsInPast, StampsMatchStatus
<1> QED
  BY <1>2, <1>6, <1>7, <1>8, <1>9, <1>10, <1>11, RequestsUntouched DEF IInv

LEMMA DeleteShiftKeeps == ASSUME IInv, NEW s \in Shift, DeleteShift(s) PROVE IInv'
<1>1. /\ UNCHANGED <<employees, publishedTo, requests, now>>
      /\ shifts' = [shifts EXCEPT ![s] = [status |-> "deleted", owner |-> NoEmployee]]
      /\ records' = Detached(s)
  BY DEF DeleteShift, RemoveShift
<1>2. /\ shifts \in [Shift -> ShiftRow]
      /\ records \in [ClientId -> Row] /\ records' \in [ClientId -> Row]
  BY <1>1, RowTypes DEF IInv, TypeOK, RosterTypeOK
<1>3. \A c \in ClientId :
        /\ records'[c].status = records[c].status
        /\ records'[c].employee = records[c].employee
        /\ records'[c].checkInAt = records[c].checkInAt
        /\ records'[c].checkOutAt = records[c].checkOutAt
        /\ records'[c].breakStartedAt = records[c].breakStartedAt
        /\ records'[c].shift # NoShift =>
             records'[c].shift = records[c].shift /\ records[c].shift # s
  BY <1>1, <1>2 DEF Detached, Row
<1>4. [status |-> "deleted", owner |-> NoEmployee] \in ShiftRow
  BY DEF ShiftRow
<1>5. TypeOK'
  BY <1>1, <1>2, <1>4 DEF IInv, TypeOK, IdentityTypeOK, RosterTypeOK
<1>6. Advances
  BY <1>1, <1>2, <1>3 DEF Advances, Recorded
<1>7. PublicationsRemembered' /\ RowsInPast' /\ StampsMatchStatus'
  BY <1>1, <1>2, <1>3
     DEF IInv, PublicationsRemembered, RowsInPast, StampsMatchStatus, Exists
<1>8. AttendanceOnOwnShift'
  BY <1>1, <1>2, <1>3 DEF IInv, AttendanceOnOwnShift, Row
<1>9. HistoryKeepsEmployee'
  BY <1>1, <1>2, <1>3 DEF IInv, HistoryKeepsEmployee, Exists, Recorded, Live
<1> QED
  BY <1>1, <1>5, <1>6, <1>7, <1>8, <1>9, RequestsUntouched DEF IInv

LEMMA ManageEmployeeKeeps == ASSUME IInv, ManageEmployee PROVE IInv'
<1>1. UNCHANGED <<shifts, publishedTo, records, requests, now>>
  BY DEF ManageEmployee
<1>2. employees \in [Employee -> EmployeeRow]
  BY DEF IInv, TypeOK, IdentityTypeOK
<1>3. PICK e \in Employee :
        \/ \E u \in User \cup {NoUser} : CreateEmployee(e, u)
        \/ \E u \in User : SetEmployeeUserID(e, u)
        \/ DeleteEmployee(e, ShiftOwners \cup Attending)
  BY DEF ManageEmployee
<1>4. employees' \in [Employee -> EmployeeRow]
  <2>1. ASSUME NEW u \in User \cup {NoUser}, CreateEmployee(e, u) PROVE <1>4
    BY <1>2, <2>1 DEF CreateEmployee, EmployeeRow
  <2>2. ASSUME NEW u \in User, SetEmployeeUserID(e, u) PROVE <1>4
    BY <1>2, <2>2 DEF SetEmployeeUserID, EmployeeRow
  <2>3. ASSUME DeleteEmployee(e, ShiftOwners \cup Attending) PROVE <1>4
    BY <1>2, <2>3 DEF DeleteEmployee, EmployeeRow
  <2> QED
    BY <1>3, <2>1, <2>2, <2>3
(* Only an employee nothing refers to goes away. *)
<1>5. \A x \in Employee : Live(x) /\ x \in ShiftOwners \cup Attending =>
                            employees'[x].row = "live"
  BY <1>2, <1>3 DEF CreateEmployee, SetEmployeeUserID, DeleteEmployee, Live, EmployeeRow
<1>6. TypeOK'
  BY <1>1, <1>4 DEF IInv, TypeOK, IdentityTypeOK, RosterTypeOK
<1>7. Advances
  BY <1>1 DEF Advances, Recorded
<1>8. PublicationsRemembered' /\ RowsInPast' /\ StampsMatchStatus' /\ AttendanceOnOwnShift'
  BY <1>1 DEF IInv, PublicationsRemembered, RowsInPast, StampsMatchStatus, AttendanceOnOwnShift,
     Exists
<1>9. HistoryKeepsEmployee'
  <2>1. ASSUME NEW c \in ClientId, Recorded(c) PROVE Live(records[c].employee)'
    <3>1. records[c].employee \in Employee
      BY <2>1 DEF IInv, HistoryKeepsEmployee, Live
    <3> QED
      BY <1>1, <1>5, <2>1, <3>1 DEF IInv, HistoryKeepsEmployee, Attending, Live
  <2>2. ASSUME NEW s \in Shift, Exists(s) PROVE Live(shifts[s].owner)'
    <3>1. shifts[s].owner \in Employee
      BY <2>2 DEF IInv, TypeOK, RosterTypeOK, ShiftRow, Exists
    <3> QED
      BY <1>1, <1>5, <2>2, <3>1 DEF IInv, HistoryKeepsEmployee, ShiftOwners, Live
  <2> QED
    BY <1>1, <2>1, <2>2 DEF HistoryKeepsEmployee, Recorded, Exists
<1> QED
  BY <1>1, <1>6, <1>7, <1>8, <1>9, RequestsUntouched DEF IInv

-----------------------------------------------------------------------------
LEMMA InitInv == Init => IInv
<1> SUFFICES ASSUME Init PROVE IInv
  OBVIOUS
<1>1. TypeOK
  BY InitType
<1>2. \A r \in Request : RequestInv(requests[r])
  BY DEF Init, NewRequest, RequestInv, OnCourse, Validated, DescribesRow, ConflictIsReal,
     Success
<1>3. CreatedOnce
  BY DEF Init, NewRequest, CreatedOnce
<1>4. PublicationsRemembered /\ RowsInPast /\ StampsMatchStatus
  BY DEF Init, RosterInit, PublicationsRemembered, RowsInPast, StampsMatchStatus, Exists, NoRow
<1>5. AttendanceOnOwnShift /\ HistoryKeepsEmployee
  BY DEF Init, RosterInit, AttendanceOnOwnShift, HistoryKeepsEmployee, Exists, Recorded, NoRow
<1> QED
  BY <1>1, <1>2, <1>3, <1>4, <1>5 DEF IInv

LEMMA ServeKeeps == ASSUME IInv, NEW r \in Request, Serve(r) PROVE IInv'
BY ResolveKeeps, LookupForCheckInKeeps, ValidateOwnShiftKeeps, InsertCheckInKeeps,
   RereadKeeps, LookupForCheckOutKeeps, UpdateCheckOutKeeps, LookupForBreakKeeps,
   UpdateBreakKeeps, FailKeeps DEF Serve

LEMMA NextInv == IInv /\ [Next]_vars => IInv'
<1> SUFFICES ASSUME IInv, [Next]_vars PROVE IInv'
  OBVIOUS
<1>1. CASE Next
  BY <1>1, ServeKeeps, DeleteShiftKeeps, ManageShiftKeeps, ManageEmployeeKeeps DEF Next
<1>2. CASE UNCHANGED vars
  <2>1. ReadOnly /\ requests' = requests
    BY <1>2 DEF vars, ReadOnly
  <2>2. TypeOK'
    BY <2>1 DEF IInv, TypeOK, IdentityTypeOK, RosterTypeOK, ReadOnly
  <2>3. Advances
    BY <2>1, ReadOnlyAdvances DEF IInv
  <2> QED
    BY <2>1, <2>2, <2>3, RequestsUntouched, ReadOnlyTables DEF IInv, Tables
<1> QED
  BY <1>1, <1>2

(* The inductive invariant: every other safety theorem is one of its parts. *)
THEOREM Invariance == Spec => []IInv
BY InitInv, NextInv, PTL DEF Spec

(* The tables, the requests and the clock have their types. *)
THEOREM TypeCorrect == Spec => []TypeOK
<1>1. IInv => TypeOK
  BY DEF IInv
<1> QED
  BY <1>1, Invariance, PTL

(* Time stamps agree with the status under any interleaving of check-outs  *)
(* and break toggles.                                                      *)
THEOREM StampsAgree == Spec => []StampsMatchStatus
<1>1. IInv => StampsMatchStatus
  BY DEF IInv
<1> QED
  BY <1>1, Invariance, PTL

(* Attendance refers only to published shifts the employee has owned. *)
THEOREM OwnShifts == Spec => []AttendanceOnOwnShift
<1>1. IInv => AttendanceOnOwnShift
  BY DEF IInv
<1> QED
  BY <1>1, Invariance, PTL

(* Shifts and attendance never outlive their employee. *)
THEOREM SubjectsKept == Spec => []HistoryKeepsEmployee
<1>1. IInv => HistoryKeepsEmployee
  BY DEF IInv
<1> QED
  BY <1>1, Invariance, PTL

(* Idempotent replay: all successful answers for a client_id agree. *)
THEOREM RepliesAgree == Spec => []RepliesDescribeOneRow
<1>1. IInv => RepliesDescribeOneRow
  BY DEF IInv, RequestInv, RepliesDescribeOneRow
<1> QED
  BY <1>1, Invariance, PTL

(* A conflict is reported only for a client_id that is recorded. *)
THEOREM ConflictsReal == Spec => []ConflictMeansRecorded
<1>1. IInv => ConflictMeansRecorded
  BY DEF IInv, RequestInv, ConflictMeansRecorded
<1> QED
  BY <1>1, Invariance, PTL

-----------------------------------------------------------------------------
(* Action properties. *)

(* The only changes a stored row undergoes. *)
RowChange(c) ==
  \/ records'[c] = records[c]
  \/ records'[c] = CheckedOut(records[c])
  \/ Open(records[c]) /\ \E op \in Op : records'[c] = BreakSet(records[c], op)
  \/ /\ records[c].shift \in Shift
     /\ shifts'[records[c].shift].status = "deleted"
     /\ records'[c] = [records[c] EXCEPT !.shift = NoShift]

LEMMA RowChanges ==
  ASSUME IInv, [Next]_vars, NEW c \in ClientId, Recorded(c)
  PROVE  RowChange(c)
<1>1. records \in [ClientId -> Row] /\ shifts \in [Shift -> ShiftRow]
  BY DEF IInv, TypeOK, RosterTypeOK
<1>2. ASSUME NEW r \in Request, Serve(r) PROVE RowChange(c)
  <2>1. CASE ReadOnly
    BY <2>1 DEF ReadOnly, RowChange
  <2>2. CASE InsertCheckIn(r)
    <3>1. requests[r].client \in ClientId
      BY <2>2 DEF IInv, RequestInv, OnCourse, InsertCheckIn, At
    <3> QED
      BY <1>1, <2>2, <3>1 DEF InsertCheckIn, Write, RowChange, ReadOnly
  <2>3. CASE UpdateCheckOut(r)
    BY <1>1, <2>3 DEF UpdateCheckOut, Write, RowChange, ReadOnly
  <2>4. CASE UpdateBreak(r)
    <3>1. requests[r].op \in Op
      BY <2>4 DEF UpdateBreak, Op
    <3> QED
      BY <1>1, <2>4, <3>1 DEF UpdateBreak, Write, RowChange, ReadOnly
  <2> QED
    BY <1>2, <2>1, <2>2, <2>3, <2>4
       DEF Serve, Resolve, LookupForCheckIn, ValidateOwnShift, RereadAfterConflict,
           LookupForCheckOut, LookupForBreak, Fail
<1>3. ASSUME NEW s \in Shift, DeleteShift(s) PROVE RowChange(c)
  BY <1>1, <1>3 DEF DeleteShift, RemoveShift, Detached, RowChange
<1>4. CASE ManageShift \/ ManageEmployee \/ UNCHANGED vars
  BY <1>4 DEF ManageShift, ManageEmployee, vars, RowChange
<1> QED
  BY <1>2, <1>3, <1>4 DEF Next

(* A check-out is final, for any number of concurrent break toggles. *)
THEOREM CheckOutFinal == Spec => CheckedOutForGood
<1>1. IInv /\ [Next]_vars =>
        [\A c \in ClientId : records[c].status = "checked_out" =>
                              records'[c].status = "checked_out"]_records
  <2> SUFFICES ASSUME IInv, [Next]_vars, NEW c \in ClientId,
                      records[c].status = "checked_out"
               PROVE  records'[c].status = "checked_out"
    OBVIOUS
  <2>1. records[c] \in Row /\ Recorded(c)
    BY DEF IInv, TypeOK, Recorded
  <2> QED
    BY <2>1, RowChanges DEF RowChange, Row, CheckedOut, Open
<1> QED
  BY <1>1, Invariance, PTL DEF Spec, CheckedOutForGood

(* A row is never handed to another employee, re-dated, or moved to another *)
(* shift.                                                                   *)
THEOREM AttributionStays == Spec => AttributionFixed
<1>1. IInv /\ [Next]_vars =>
        [\A c \in ClientId : Recorded(c) =>
           /\ records'[c].employee = records[c].employee
           /\ records'[c].checkInAt = records[c].checkInAt
           /\ \/ records'[c].shift = records[c].shift
              \/ /\ records'[c].shift = NoShift
                 /\ shifts'[records[c].shift].status = "deleted"]_records
  <2> SUFFICES ASSUME IInv, [Next]_vars, NEW c \in ClientId, Recorded(c)
               PROVE  /\ records'[c].employee = records[c].employee
                      /\ records'[c].checkInAt = records[c].checkInAt
                      /\ \/ records'[c].shift = records[c].shift
                         \/ /\ records'[c].shift = NoShift
                            /\ shifts'[records[c].shift].status = "deleted"
    OBVIOUS
  <2>1. records[c] \in Row
    BY DEF IInv, TypeOK
  <2> QED
    BY <2>1, RowChanges DEF RowChange, Row, CheckedOut, BreakSet
<1> QED
  BY <1>1, Invariance, PTL DEF Spec, AttributionFixed

-----------------------------------------------------------------------------
(* The attendance service implements AttendanceLedger: every call takes     *)
(* effect in one step.                                                      *)

(* How the steps of a request look through the refinement mapping. *)
LEMMA GotoHidden ==
  ASSUME TypeOK, NEW r \in Request, NEW label, Goto(r, label)
  PROVE  CallsOf' = CallsOf
<1>1. requests \in [Request -> RequestState]
  BY DEF TypeOK
<1>2. requests' = [requests EXCEPT ![r] = Moved(requests[r], label)]
  BY DEF Goto
<1>3. \A x \in Request : CallOf(requests'[x]) = CallOf(requests[x])
  BY <1>1, <1>2, RequestFields DEF CallOf
<1> QED
  BY <1>3 DEF CallsOf

LEMMA AnswerReturns ==
  ASSUME TypeOK, NEW r \in Request, NEW code, NEW row, Answer(r, code, row)
  PROVE  Ledger!Return(r, code)
<1>1. requests \in [Request -> RequestState]
  BY DEF TypeOK
<1>2. requests' = [requests EXCEPT ![r] = Answered(requests[r], code, row)]
  BY DEF Answer
<1>3. /\ \A x \in Request \ {r} : CallOf(requests'[x]) = CallOf(requests[x])
      /\ CallOf(requests'[r]) = [CallOf(requests[r]) EXCEPT !.code = code]
  BY <1>1, <1>2, RequestFields DEF CallOf
<1>4. CallsOf' = [CallsOf EXCEPT ![r] = [CallOf(requests[r]) EXCEPT !.code = code]]
  BY <1>3 DEF CallsOf
<1>5. CallsOf[r] = CallOf(requests[r])
  BY DEF CallsOf
<1> QED
  BY <1>4, <1>5 DEF Ledger!Return

LEMMA WriteEnters ==
  ASSUME TypeOK, NEW r \in Request, requests[r].client \in ClientId,
         NEW code, NEW row, Write(r, code, row)
  PROVE  /\ Ledger!Enter(r, EntryOf(row))
         /\ Ledger!Return(r, code) \/ Ledger!Return(r, 500)
<1>1. records' = [records EXCEPT ![requests[r].client] = row] /\ records \in [ClientId -> Row]
  BY DEF Write, TypeOK
<1>2. LedgerOf' = [LedgerOf EXCEPT ![requests[r].client] = EntryOf(row)]
  BY <1>1 DEF LedgerOf
<1>3. CallsOf[r].client = requests[r].client
  BY DEF CallsOf, CallOf
<1> QED
  BY <1>2, <1>3, AnswerReturns DEF Write, Ledger!Enter

LEMMA ReadOnlyLedger == ReadOnly => LedgerOf' = LedgerOf
BY DEF ReadOnly, LedgerOf

(* What the ledger sees of a request and of its row. *)
LEMMA Mapping ==
  ASSUME IInv, NEW r \in Request
  PROVE  /\ CallsOf[r].op = requests[r].op /\ CallsOf[r].client = requests[r].client
         /\ CallsOf[r].employee = requests[r].employee /\ CallsOf[r].code = requests[r].code
         /\ requests[r].pc \notin {"resolve", "done"} => Ledger!Pending(r)
         /\ requests[r].client \in ClientId =>
              /\ Ledger!Entry(r) = EntryOf(records[requests[r].client])
              /\ (Ledger!Entry(r).phase = "absent") <=> ~ Recorded(requests[r].client)
              /\ Ledger!Mine(r) <=> Recorded(requests[r].client) /\ Own(r)
<1>1. /\ CallsOf[r].op = requests[r].op /\ CallsOf[r].client = requests[r].client
      /\ CallsOf[r].employee = requests[r].employee /\ CallsOf[r].code = requests[r].code
  BY DEF CallsOf, CallOf
<1>2. requests[r].pc \notin {"resolve", "done"} => Ledger!Pending(r)
  BY <1>1 DEF IInv, RequestInv, OnCourse, Ledger!Pending
<1>3. ASSUME requests[r].client \in ClientId
      PROVE  Ledger!Entry(r) = EntryOf(records[requests[r].client])
  BY <1>1, <1>3 DEF Ledger!Entry, LedgerOf
<1>4. ASSUME requests[r].client \in ClientId
      PROVE  (Ledger!Entry(r).phase = "absent") <=> ~ Recorded(requests[r].client)
  BY <1>3, <1>4 DEF EntryOf, PhaseOf, Recorded, IInv, TypeOK, Row
<1> QED
  BY <1>1, <1>2, <1>3, <1>4 DEF Ledger!Mine, EntryOf, Own

-----------------------------------------------------------------------------
LEMMA InitRefines == Init => Ledger!Init
<1> SUFFICES ASSUME Init PROVE Ledger!Init
  OBVIOUS
<1>1. LedgerOf = [c \in ClientId |-> Ledger!Absent]
  BY DEF Init, LedgerOf, EntryOf, PhaseOf, NoRow, Ledger!Absent
<1>2. CallsOf = [r \in Request |-> [op |-> "none", client |-> NoClient,
                                    employee |-> NoEmployee, code |-> 0]]
  BY DEF Init, CallsOf, CallOf, NewRequest
<1> QED
  BY <1>1, <1>2 DEF Ledger!Init

(* A refusal is one step of the ledger. *)
LEMMA RefusalRefines ==
  ASSUME IInv, ReadOnly, NEW r \in Request, requests[r].pc \notin {"resolve", "done"},
         NEW code \in {400, 404, 409, 500}, Answer(r, code, NoRow),
         code = 409 => requests[r].op = "checkIn" /\ Recorded(requests[r].client),
         code = 404 => /\ requests[r].op # "checkIn"
                       /\ Recorded(requests[r].client) /\ Own(r) =>
                            /\ PhaseOf(records[requests[r].client].status) = "left"
                            /\ requests[r].op # "checkOut",
         code = 400 => \/ requests[r].op = "checkIn"
                       \/ /\ requests[r].op # "checkOut"
                          /\ Recorded(requests[r].client) /\ Own(r)
                          /\ PhaseOf(records[requests[r].client].status) = "left"
  PROVE  Ledger!Refuse(r, code)
<1>1. requests[r].client \in ClientId
  BY DEF IInv, RequestInv, OnCourse, TypeOK, RequestState
<1>2. Ledger!Return(r, code)
  BY AnswerReturns DEF IInv
<1>3. Ledger!Entry(r).phase = PhaseOf(records[requests[r].client].status)
  BY <1>1, Mapping DEF EntryOf
<1> QED
  BY <1>1, <1>2, <1>3, Mapping, ReadOnlyLedger DEF Ledger!Refuse

(* So is showing a caller its own row. *)
LEMMA ShowingRefines ==
  ASSUME IInv, ReadOnly, NEW r \in Request, requests[r].pc \in {"lookup", "reread"},
         requests[r].op = "checkIn", Recorded(requests[r].client), Own(r),
         NEW row, Answer(r, 200, row)
  PROVE  Ledger!Replay(r)
<1>1. requests[r].client \in ClientId
  BY DEF IInv, RequestInv, OnCourse
<1> QED
  BY <1>1, Mapping, AnswerReturns, ReadOnlyLedger DEF Ledger!Replay, IInv

(* Writing the phase an entry already has is a change of nothing. *)
LEMMA EnterSame ==
  ASSUME IInv, ReadOnly, NEW r \in Request, requests[r].client \in ClientId,
         NEW phase, Ledger!Entry(r).phase = phase
  PROVE  Ledger!Enter(r, [Ledger!Entry(r) EXCEPT !.phase = phase])
<1>1. Ledger!Entry(r) = EntryOf(records[requests[r].client])
  BY Mapping
<1>2. [Ledger!Entry(r) EXCEPT !.phase = phase] = Ledger!Entry(r)
  BY <1>1 DEF EntryOf
<1>3. LedgerOf' = LedgerOf /\ CallsOf[r].client = requests[r].client
  BY ReadOnlyLedger, Mapping
<1>4. [LedgerOf EXCEPT ![requests[r].client] = LedgerOf[requests[r].client]] = LedgerOf
  BY DEF LedgerOf
<1> QED
  BY <1>2, <1>3, <1>4 DEF Ledger!Enter, Ledger!Entry

LEMMA ResolveRefines == ASSUME IInv, NEW r \in Request, Resolve(r) PROVE Ledger!Call(r)
<1>1. /\ requests \in [Request -> RequestState] /\ requests[r].op = "none"
      /\ requests[r].code = 0 /\ requests[r].employee \in Employee \cup {NoEmployee}
      /\ LedgerOf' = LedgerOf
  BY ReadOnlyLedger
     DEF IInv, TypeOK, RequestInv, OnCourse, Resolve, At, RequestState
<1>2. NoEmployee \notin Employee
  BY IdentityAssumption
<1>3. ASSUME NEW q, requests' = [requests EXCEPT ![r] = q], CallOf(q) \in Ledger!Arriving
      PROVE  Ledger!Call(r)
  <2>1. CallsOf' = [CallsOf EXCEPT ![r] = CallOf(q)]
    BY <1>1, <1>3 DEF CallsOf
  <2>2. CallsOf[r].op = "none"
    BY <1>1, Mapping
  <2>3. CallsOf'[r] = CallOf(q)
    BY <2>1 DEF CallsOf
  <2> QED
    BY <1>1, <1>3, <2>1, <2>2, <2>3 DEF Ledger!Call
<1>4. PICK op \in Op, c \in ClientId \cup {NoClient}, u \in User, s \in Shift \cup {NoShift} :
        \/ \E e \in EmployeesOfUser(u) :
             c # NoClient /\ requests' = [requests EXCEPT ![r] = Called(@, op, c, s, e)]
        \/ \E code \in {400, 500} :
             requests' = [requests EXCEPT ![r] = Refused(@, op, c, s, code)]
  BY DEF Resolve
<1>5. ASSUME NEW e \in EmployeesOfUser(u), c # NoClient
      PROVE  CallOf(Called(requests[r], op, c, s, e)) \in Ledger!Arriving
  <2>1. CallOf(Called(requests[r], op, c, s, e)) =
          [op |-> op, client |-> c, employee |-> e, code |-> 0]
    BY <1>1, RequestFields DEF CallOf
  <2> QED
    BY <1>2, <1>5, <2>1 DEF Ledger!Arriving, Op, EmployeesOfUser
<1>6. ASSUME NEW code \in {400, 500}
      PROVE  CallOf(Refused(requests[r], op, c, s, code)) \in Ledger!Arriving
  <2>1. CallOf(Refused(requests[r], op, c, s, code)) =
          [op |-> op, client |-> c, employee |-> requests[r].employee, code |-> code]
    BY <1>1, RequestFields DEF CallOf
  <2> QED
    BY <1>1, <2>1 DEF Ledger!Arriving, Op
<1> QED
  BY <1>3, <1>4, <1>5, <1>6

-----------------------------------------------------------------------------
(* One lemma per statement: the step is a step of the ledger, or hidden.   *)
Hidden == UNCHANGED Ledger!ledgerVars

LEMMA GotoIsHidden ==
  ASSUME IInv, ReadOnly, NEW r \in Request, NEW label, Goto(r, label)
  PROVE  Hidden
BY GotoHidden, ReadOnlyLedger DEF IInv, Hidden, Ledger!ledgerVars

LEMMA LookupForCheckInRefines ==
  ASSUME IInv, NEW r \in Request, LookupForCheckIn(r)
  PROVE  Hidden \/ Ledger!Replay(r) \/ Ledger!Refuse(r, 409)
<1>1. ReadOnly /\ requests[r].pc = "lookup" /\ requests[r].op = "checkIn"
  BY DEF LookupForCheckIn, At
<1>2. CASE \E label : Goto(r, label)
  BY <1>1, <1>2, GotoIsHidden
<1>3. CASE /\ Recorded(requests[r].client) /\ Own(r)
           /\ Answer(r, 200, records[requests[r].client])
  BY <1>1, <1>3, ShowingRefines
<1>4. CASE Recorded(requests[r].client) /\ Answer(r, 409, NoRow)
  BY <1>1, <1>4, RefusalRefines
<1> QED
  BY <1>2, <1>3, <1>4 DEF LookupForCheckIn

LEMMA ValidateOwnShiftRefines ==
  ASSUME IInv, NEW r \in Request, ValidateOwnShift(r)
  PROVE  Hidden \/ Ledger!Refuse(r, 400)
<1>1. ReadOnly /\ requests[r].pc = "validate" /\ requests[r].op = "checkIn"
  BY DEF ValidateOwnShift, At, IInv, RequestInv, OnCourse
<1>2. CASE Goto(r, "insert")
  BY <1>1, <1>2, GotoIsHidden
<1>3. CASE Answer(r, 400, NoRow)
  BY <1>1, <1>3, RefusalRefines
<1> QED
  BY <1>2, <1>3 DEF ValidateOwnShift

LEMMA InsertCheckInRefines ==
  ASSUME IInv, NEW r \in Request, InsertCheckIn(r)
  PROVE  Hidden \/ Ledger!Open(r) \/ Ledger!Refuse(r, 400)
<1>1. /\ requests[r].pc = "insert" /\ requests[r].op = "checkIn"
      /\ requests[r].client \in ClientId
  BY DEF InsertCheckIn, At, IInv, RequestInv, OnCourse
<1>2. CASE Goto(r, "reread") /\ ReadOnly
  BY <1>2, GotoIsHidden
<1>3. CASE Answer(r, 400, NoRow) /\ ReadOnly
  BY <1>1, <1>3, RefusalRefines
<1>4. CASE /\ ~ Recorded(requests[r].client)
           /\ Write(r, 201, CheckedIn(requests[r].employee, requests[r].shift))
  <2>1. EntryOf(CheckedIn(requests[r].employee, requests[r].shift)) =
          [phase |-> "working", employee |-> CallsOf[r].employee]
    BY Mapping DEF EntryOf, PhaseOf, CheckedIn
  <2>2. /\ Ledger!Enter(r, [phase |-> "working", employee |-> CallsOf[r].employee])
        /\ Ledger!Return(r, 201) \/ Ledger!Return(r, 500)
    BY <1>1, <1>4, <2>1, WriteEnters DEF IInv
  <2> QED
    BY <1>1, <1>4, <2>2, Mapping DEF Ledger!Open
<1> QED
  BY <1>2, <1>3, <1>4 DEF InsertCheckIn

LEMMA RereadAfterConflictRefines ==
  ASSUME IInv, NEW r \in Request, RereadAfterConflict(r)
  PROVE  Ledger!Replay(r) \/ Ledger!Refuse(r, 409)
<1>1. /\ ReadOnly /\ requests[r].pc = "reread" /\ requests[r].op = "checkIn"
      /\ Recorded(requests[r].client)
  BY DEF RereadAfterConflict, At, IInv, RequestInv, OnCourse
<1>2. CASE Own(r) /\ Answer(r, 200, records[requests[r].client])
  BY <1>1, <1>2, ShowingRefines
<1>3. CASE Answer(r, 409, NoRow)
  BY <1>1, <1>3, RefusalRefines
<1> QED
  BY <1>2, <1>3 DEF RereadAfterConflict

LEMMA LookupForCheckOutRefines ==
  ASSUME IInv, NEW r \in Request, LookupForCheckOut(r)
  PROVE  Hidden \/ Ledger!Close(r) \/ Ledger!Refuse(r, 404)
<1>1. /\ ReadOnly /\ requests[r].pc = "lookup" /\ requests[r].op = "checkOut"
      /\ requests[r].client \in ClientId
  BY DEF LookupForCheckOut, At, IInv, RequestInv, OnCourse
<1>2. CASE Goto(r, "update")
  BY <1>1, <1>2, GotoIsHidden
<1>3. CASE /\ ~ Recorded(requests[r].client) \/ ~ Own(r)
           /\ Answer(r, 404, NoRow)
  BY <1>1, <1>3, RefusalRefines
<1>4. CASE /\ Recorded(requests[r].client) /\ Own(r)
           /\ records[requests[r].client].status = "checked_out"
           /\ Answer(r, 200, records[requests[r].client])
  <2>1. Ledger!Entry(r).phase = "left"
    BY <1>1, <1>4, Mapping DEF EntryOf, PhaseOf
  <2>2. Ledger!Enter(r, [Ledger!Entry(r) EXCEPT !.phase = "left"])
    BY <1>1, <2>1, EnterSame
  <2>3. Ledger!Return(r, 200)
    BY <1>4, AnswerReturns DEF IInv
  <2> QED
    BY <1>1, <1>4, <2>2, <2>3, Mapping DEF Ledger!Close
<1> QED
  BY <1>2, <1>3, <1>4 DEF LookupForCheckOut

LEMMA UpdateCheckOutRefines ==
  ASSUME IInv, NEW r \in Request, UpdateCheckOut(r)
  PROVE  Ledger!Close(r)
<1> DEFINE row == records[requests[r].client]
<1>1. /\ requests[r].pc = "update" /\ requests[r].op = "checkOut"
      /\ requests[r].client \in ClientId /\ Recorded(requests[r].client) /\ Own(r)
      /\ row \in Row
  BY DEF UpdateCheckOut, At, IInv, RequestInv, OnCourse, Own, TypeOK
<1>2. Write(r, 200, CheckedOut(row))
  BY <1>1 DEF UpdateCheckOut
<1>3. CheckedOut(row).status = "checked_out" /\ CheckedOut(row).employee = row.employee
  BY <1>1 DEF CheckedOut, Row
<1>4. EntryOf(CheckedOut(row)) = [Ledger!Entry(r) EXCEPT !.phase = "left"]
  <2>1. PhaseOf("checked_out") = "left"
    BY DEF PhaseOf
  <2>2. Ledger!Entry(r) = EntryOf(row)
    BY <1>1, Mapping
  <2> QED
    BY <1>3, <2>1, <2>2 DEF EntryOf
<1>5. /\ Ledger!Enter(r, [Ledger!Entry(r) EXCEPT !.phase = "left"])
      /\ Ledger!Return(r, 200) \/ Ledger!Return(r, 500)
  BY <1>1, <1>2, <1>4, WriteEnters DEF IInv
<1> QED
  BY <1>1, <1>5, Mapping DEF Ledger!Close

LEMMA LookupForBreakRefines ==
  ASSUME IInv, NEW r \in Request, LookupForBreak(r)
  PROVE  Hidden \/ Ledger!Toggle(r) \/ Ledger!Refuse(r, 404) \/ Ledger!Refuse(r, 400)
<1> DEFINE row == records[requests[r].client]
           phase == IF requests[r].op = "breakOn" THEN "resting" ELSE "working"
<1>1. /\ ReadOnly /\ requests[r].pc = "lookup" /\ requests[r].op \in {"breakOn", "breakOff"}
      /\ requests[r].client \in ClientId /\ row \in Row
  BY DEF LookupForBreak, At, IInv, RequestInv, OnCourse, TypeOK
<1>2. CASE Goto(r, "update")
  BY <1>1, <1>2, GotoIsHidden
<1>3. CASE /\ ~ Recorded(requests[r].client) \/ ~ Own(r)
           /\ Answer(r, 404, NoRow)
  BY <1>1, <1>3, RefusalRefines
<1>4. CASE /\ Recorded(requests[r].client) /\ Own(r)
           /\ ~ Open(row)
           /\ Answer(r, 400, NoRow)
  <2>1. PhaseOf(row.status) = "left"
    BY <1>1, <1>4 DEF PhaseOf, Open, Recorded
  <2> QED
    BY <1>1, <1>4, <2>1, RefusalRefines
<1>5. CASE /\ Recorded(requests[r].client) /\ Own(r)
           /\ row.status = Target(requests[r].op)
           /\ Answer(r, 200, row)
  <2>1. Ledger!Entry(r).phase = phase
    <3>1. PhaseOf(row.status) = phase
      BY <1>1, <1>5 DEF PhaseOf, Target
    <3> QED
      BY <1>1, <3>1, Mapping DEF EntryOf
  <2>2. Ledger!Enter(r, [Ledger!Entry(r) EXCEPT !.phase = phase])
    BY <1>1, <2>1, EnterSame
  <2>3. Ledger!Return(r, 200)
    BY <1>5, AnswerReturns DEF IInv
  <2> QED
    BY <1>1, <1>5, <2>1, <2>2, <2>3, Mapping DEF Ledger!Toggle
<1> QED
  BY <1>2, <1>3, <1>4, <1>5 DEF LookupForBreak

LEMMA UpdateBreakRefines ==
  ASSUME IInv, NEW r \in Request, UpdateBreak(r)
  PROVE  Ledger!Toggle(r) \/ Ledger!Refuse(r, 404)
<1> DEFINE row == records[requests[r].client]
           after == BreakSet(row, requests[r].op)
           phase == IF requests[r].op = "breakOn" THEN "resting" ELSE "working"
<1>1. /\ requests[r].pc = "update" /\ requests[r].op \in {"breakOn", "breakOff"}
      /\ requests[r].client \in ClientId /\ Recorded(requests[r].client) /\ Own(r)
      /\ row \in Row
  BY DEF UpdateBreak, At, IInv, RequestInv, OnCourse, Own, TypeOK
<1>2. CASE Open(row) /\ Write(r, 200, after)
  <2>1. after.employee = row.employee /\ PhaseOf(after.status) = phase
    BY <1>1 DEF BreakSet, Row, PhaseOf
  <2>2. Ledger!Entry(r) = EntryOf(row)
    BY <1>1, Mapping
  <2>3. EntryOf(after) = [Ledger!Entry(r) EXCEPT !.phase = phase]
    BY <2>1, <2>2 DEF EntryOf
  <2>4. Ledger!Entry(r).phase \in {"working", "resting"}
    BY <1>2, <2>2 DEF EntryOf, PhaseOf, Open
  <2> HIDE DEF after
  <2>5. /\ Ledger!Enter(r, [Ledger!Entry(r) EXCEPT !.phase = phase])
        /\ Ledger!Return(r, 200) \/ Ledger!Return(r, 500)
    BY <1>1, <1>2, <2>3, WriteEnters DEF IInv
  <2> QED
    BY <1>1, <2>4, <2>5, Mapping DEF Ledger!Toggle
<1>3. CASE ~ Open(row) /\ Answer(r, 404, NoRow) /\ ReadOnly
  <2>1. PhaseOf(row.status) = "left"
    BY <1>1, <1>3 DEF PhaseOf, Open, Recorded
  <2> QED
    BY <1>1, <1>3, <2>1, RefusalRefines
<1> QED
  BY <1>2, <1>3 DEF UpdateBreak

LEMMA FailRefines == ASSUME IInv, NEW r \in Request, Fail(r) PROVE Ledger!Refuse(r, 500)
<1>1. ReadOnly /\ requests[r].pc \notin {"resolve", "done"} /\ Answer(r, 500, NoRow)
  BY DEF Fail
<1> QED
  BY <1>1, RefusalRefines

LEMMA ManagementHidden ==
  ASSUME IInv, ManageShift \/ ManageEmployee \/ \E s \in Shift : DeleteShift(s)
  PROVE  Hidden
<1>1. requests' = requests
  BY DEF ManageShift, ManageEmployee, DeleteShift
<1>2. \A c \in ClientId : EntryOf(records'[c]) = EntryOf(records[c])
  <2>1. CASE records' = records
    BY <2>1
  <2>2. CASE \E s \in Shift : records' = Detached(s)
    BY <2>2 DEF Detached, EntryOf, IInv, TypeOK, Row
  <2> QED
    BY <2>1, <2>2 DEF ManageShift, ManageEmployee, DeleteShift
<1> QED
  BY <1>1, <1>2 DEF Hidden, Ledger!ledgerVars, LedgerOf, CallsOf

-----------------------------------------------------------------------------
LEMMA NextRefines == IInv /\ [Next]_vars => [Ledger!Next]_(Ledger!ledgerVars)
<1> SUFFICES ASSUME IInv, [Next]_vars PROVE Hidden \/ Ledger!Next
  BY DEF Hidden
<1>1. CASE UNCHANGED vars
  BY <1>1 DEF vars, Hidden, Ledger!ledgerVars, LedgerOf, CallsOf
<1>2. ASSUME NEW r \in Request, Serve(r)
      PROVE  Hidden \/ Ledger!Next
  BY <1>2, ResolveRefines, LookupForCheckInRefines, ValidateOwnShiftRefines,
     InsertCheckInRefines, RereadAfterConflictRefines, LookupForCheckOutRefines,
     UpdateCheckOutRefines, LookupForBreakRefines, UpdateBreakRefines, FailRefines
     DEF Serve, Ledger!Next
<1>3. CASE ManageShift \/ ManageEmployee \/ \E s \in Shift : DeleteShift(s)
  BY <1>3, ManagementHidden
<1> QED
  BY <1>1, <1>2, <1>3 DEF Next

(* Every call of the attendance service, although it runs several SQL      *)
(* statements between which all other requests may run, has its effect or   *)
(* is refused in one step: callers see the atomic service of the ledger.   *)
THEOREM ServiceImplementsLedger == Spec => ImplementsLedger
<1>1. Init => Ledger!Init
  BY InitRefines
<1>2. IInv /\ [Next]_vars => [Ledger!Next]_(Ledger!ledgerVars)
  BY NextRefines
<1> QED
  BY <1>1, <1>2, Invariance, PTL DEF Spec, ImplementsLedger, Ledger!Spec
=============================================================================
