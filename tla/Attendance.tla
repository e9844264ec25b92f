----------------------------- MODULE Attendance -----------------------------
(***************************************************************************)
(* The attendance service of the backend on one tenant database.           *)
(*                                                                         *)
(* A request is a goroutine of the HTTP server.  It runs a few SQL         *)
(* statements one after the other, outside any transaction, so between two *)
(* of them every other request may run: other check-ins, check-outs and    *)
(* break toggles, the managers' roster and employee requests, and retries  *)
(* of the same call by a phone that never saw the first answer (two        *)
(* elements of Request with the same arguments).  Each step of a request   *)
(* is one statement and the branch the handler takes on its result.        *)
(*                                                                         *)
(* The time stamps of PostgreSQL's now() are readings of "now", which each *)
(* stamping statement advances; 0 stands for NULL.                         *)
(***************************************************************************)
EXTENDS Roster

CONSTANTS ClientId,     \* the idempotency keys phones generate
          NoClient,     \* uuid.Nil
          Request       \* the calls made to the service in one behaviour

ASSUME AttendanceAssumption == NoClient \notin ClientId

VARIABLES records,      \* attendance_records, by its unique client_id
          requests,
          now

attendanceVars == <<records, requests, now>>
tenantVars == <<employees, shifts, publishedTo>>
vars == <<employees, shifts, publishedTo, records, requests, now>>

(* status "none" is a client_id without a row. *)
Row == [status         : {"none", "checked_in", "on_break", "checked_out", "missed"},
        employee       : Employee \cup {NoEmployee},
        shift          : Shift \cup {NoShift},
        checkInAt      : Nat,
        checkOutAt     : Nat,
        breakStartedAt : Nat]

NoRow == [status |-> "none", employee |-> NoEmployee, shift |-> NoShift,
          checkInAt |-> 0, checkOutAt |-> 0, breakStartedAt |-> 0]

Op == {"checkIn", "checkOut", "breakOn", "breakOff"}

(* 0 is "not answered"; the others are HTTP status codes. *)
Code == {0, 200, 201, 400, 404, 409, 500}
Success == {200, 201}

(* pc names the statement a request runs next. *)
RequestState ==
  [pc       : {"resolve", "lookup", "validate", "insert", "reread", "update", "done"},
   op       : Op \cup {"none"},
   client   : ClientId \cup {NoClient},
   shift    : Shift \cup {NoShift},
   employee : Employee \cup {NoEmployee},
   code     : Code,
   reply    : Row]

NewRequest == [pc |-> "resolve", op |-> "none", client |-> NoClient, shift |-> NoShift,
               employee |-> NoEmployee, code |-> 0, reply |-> NoRow]

TypeOK ==
  /\ IdentityTypeOK
  /\ RosterTypeOK
  /\ records \in [ClientId -> Row]
  /\ requests \in [Request -> RequestState]
  /\ now \in Nat

Init ==
  /\ IdentityInit
  /\ RosterInit
  /\ records = [c \in ClientId |-> NoRow]
  /\ requests = [r \in Request |-> NewRequest]
  /\ now = 0

-----------------------------------------------------------------------------
(* SQL statements on attendance_records. *)

Recorded(c) == records[c].status # "none"

(* A bug ImplementsLedger must catch: anybody's row will do. *)
OwnOrNot(r) == TRUE

(* The row of r's client_id belongs to the caller's employee. *)
Own(r) == records[requests[r].client].employee = requests[r].employee

(* The foreign keys an INSERT checks. *)
ReferencesHold(e, s) == Live(e) /\ (s # NoShift => Exists(s))

CheckedIn(e, s) ==
  [status |-> "checked_in", employee |-> e, shift |-> s,
   checkInAt |-> now + 1, checkOutAt |-> 0, breakStartedAt |-> 0]

(* A bug StampsMatchStatus must catch: a check-out leaves the break running. *)
CheckedOutOnBreak(row) == [row EXCEPT !.status = "checked_out", !.checkOutAt = now + 1]

(* UPDATE ... WHERE client_id = $1: no condition on the status. *)
CheckedOut(row) ==
  [row EXCEPT !.status = "checked_out", !.checkOutAt = now + 1, !.breakStartedAt = 0]

(* A bug CheckedOutForGood must catch: breaks are set whatever the status. *)
OpenOrClosed(row) == row.status # "none"

(* The rows SetAttendanceStatus finds. *)
Open(row) == row.status \in {"checked_in", "on_break"}

(* A bug TypeOK must catch: the call's name is stored for a status. *)
BreakSetToOp(row, op) == [row EXCEPT !.status = op, !.breakStartedAt = now + 1]

BreakSet(row, op) ==
  IF op = "breakOn"
  THEN [row EXCEPT !.status = "on_break", !.breakStartedAt = now + 1]
  ELSE [row EXCEPT !.status = "checked_in", !.breakStartedAt = 0]

(* A bug AttributionFixed must catch: ON DELETE CASCADE. *)
Cascaded(s) ==
  [c \in ClientId |-> IF records[c].shift = s THEN NoRow ELSE records[c]]

(* ON DELETE SET NULL of attendance_records.shift_id. *)
Detached(s) ==
  [c \in ClientId |-> IF records[c].shift = s THEN [records[c] EXCEPT !.shift = NoShift]
                                              ELSE records[c]]

(* The employees attendance_records.employee_id keeps from being deleted. *)
Attending == {e \in Employee : \E c \in ClientId : Recorded(c) /\ records[c].employee = e}

-----------------------------------------------------------------------------
(* Control flow of a request. *)

At(r, label) == requests[r].pc = label

(* The next state of a request: called, refused, moved on or answered. *)
Called(q, op, c, s, e) ==
  [q EXCEPT !.pc = "lookup", !.op = op, !.client = c, !.shift = s, !.employee = e]
Refused(q, op, c, s, code) ==
  [q EXCEPT !.pc = "done", !.op = op, !.client = c, !.shift = s, !.code = code]

Moved(q, label) == [q EXCEPT !.pc = label]
Answered(q, code, row) == [q EXCEPT !.pc = "done", !.code = code, !.reply = row]

Goto(r, label) == requests' = [requests EXCEPT ![r] = Moved(@, label)]

Answer(r, code, row) == requests' = [requests EXCEPT ![r] = Answered(@, code, row)]

(* The statement of r took effect and left "row".  When the connection or *)
(* the caller's context dies before the result arrives, the handler       *)
(* answers 500 for a statement that has committed.                        *)
Write(r, code, row) ==
  /\ records' = [records EXCEPT ![requests[r].client] = row]
  /\ \/ Answer(r, code, row)
     \/ Answer(r, 500, NoRow)
  /\ UNCHANGED tenantVars

ReadOnly == UNCHANGED <<employees, shifts, publishedTo, records, now>>

(* A call arrives with the login u of its token: uuid.Nil is refused, then *)
(* u is resolved to the employee linked to it, unless that query fails.    *)
Resolve(r) ==
  /\ At(r, "resolve")
  /\ \E op \in Op, c \in ClientId \cup {NoClient}, u \in User,
       s \in Shift \cup {NoShift} :
       /\ op # "checkIn" => s = NoShift
       /\ \/ \E e \in EmployeesOfUser(u) :
               /\ c # NoClient
               /\ requests' = [requests EXCEPT ![r] = Called(@, op, c, s, e)]
          \/ /\ c = NoClient \/ EmployeesOfUser(u) = {}
             /\ requests' = [requests EXCEPT ![r] = Refused(@, op, c, s, 400)]
          \/ /\ c # NoClient
             /\ requests' = [requests EXCEPT ![r] = Refused(@, op, c, s, 500)]
  /\ ReadOnly

LookupForCheckIn(r) ==
  /\ At(r, "lookup") /\ requests[r].op = "checkIn"
  /\ \/ /\ ~ Recorded(requests[r].client)
        /\ Goto(r, IF requests[r].shift = NoShift THEN "insert" ELSE "validate")
     \/ /\ Recorded(requests[r].client) /\ Own(r)
        /\ Answer(r, 200, records[requests[r].client])
     \/ /\ Recorded(requests[r].client) /\ ~ Own(r)
        /\ Answer(r, 409, NoRow)
  /\ ReadOnly

(* A bug ConflictMeansRecorded must catch: a bad shift is a conflict. *)
ValidateOwnShiftAsConflict(r) ==
  /\ At(r, "validate")
  /\ IF OwnPublishedShift(requests[r].shift, requests[r].employee)
     THEN Goto(r, "insert") ELSE Answer(r, 409, NoRow)
  /\ ReadOnly

ValidateOwnShift(r) ==
  /\ At(r, "validate")
  /\ \/ /\ OwnPublishedShift(requests[r].shift, requests[r].employee)
        /\ Goto(r, "insert")
     \/ /\ ~ OwnPublishedShift(requests[r].shift, requests[r].employee)
        /\ Answer(r, 400, NoRow)
  /\ ReadOnly

(* The unique index answers before the foreign keys do. *)
InsertCheckIn(r) ==
  LET q == requests[r] IN
  /\ At(r, "insert")
  /\ \/ /\ Recorded(q.client)
        /\ Goto(r, "reread")
        /\ ReadOnly
     \/ /\ ~ Recorded(q.client)
        /\ ~ ReferencesHold(q.employee, q.shift)
        /\ Answer(r, 400, NoRow)
        /\ ReadOnly
     \/ /\ ~ Recorded(q.client)
        /\ ReferencesHold(q.employee, q.shift)
        /\ Write(r, 201, CheckedIn(q.employee, q.shift))
        /\ now' = now + 1

(* A bug RepliesDescribeOneRow must catch: the row is not compared with the *)
(* caller again.                                                            *)
RereadAnyRow(r) ==
  /\ At(r, "reread")
  /\ Answer(r, 200, records[requests[r].client])
  /\ ReadOnly

(* A failed read here is answered with the conflict that led to it. *)
RereadAfterConflict(r) ==
  /\ At(r, "reread")
  /\ \/ /\ Recorded(requests[r].client) /\ Own(r)
        /\ Answer(r, 200, records[requests[r].client])
     \/ Answer(r, 409, NoRow)
  /\ ReadOnly

LookupForCheckOut(r) ==
  LET row == records[requests[r].client] IN
  /\ At(r, "lookup") /\ requests[r].op = "checkOut"
  /\ \/ /\ ~ Recorded(requests[r].client) \/ ~ Own(r)
        /\ Answer(r, 404, NoRow)
     \/ /\ Recorded(requests[r].client) /\ Own(r)
        /\ IF row.status = "checked_out" THEN Answer(r, 200, row) ELSE Goto(r, "update")
  /\ ReadOnly

UpdateCheckOut(r) ==
  LET c == requests[r].client IN
  /\ At(r, "update") /\ requests[r].op = "checkOut"
  /\ \/ /\ Recorded(c)
        /\ Write(r, 200, CheckedOut(records[c]))
        /\ now' = now + 1
     \/ /\ ~ Recorded(c)
        /\ Answer(r, 404, NoRow)
        /\ ReadOnly

Target(op) == IF op = "breakOn" THEN "on_break" ELSE "checked_in"

LookupForBreak(r) ==
  LET row == records[requests[r].client] IN
  /\ At(r, "lookup") /\ requests[r].op \in {"breakOn", "breakOff"}
  /\ \/ /\ ~ Recorded(requests[r].client) \/ ~ Own(r)
        /\ Answer(r, 404, NoRow)
     \/ /\ Recorded(requests[r].client) /\ Own(r)
        /\ \/ row.status = Target(requests[r].op) /\ Answer(r, 200, row)
           \/ /\ row.status # Target(requests[r].op)
              /\ IF Open(row) THEN Goto(r, "update") ELSE Answer(r, 400, NoRow)
  /\ ReadOnly

UpdateBreak(r) ==
  LET c == requests[r].client IN
  /\ At(r, "update") /\ requests[r].op \in {"breakOn", "breakOff"}
  /\ \/ /\ Open(records[c])
        /\ Write(r, 200, BreakSet(records[c], requests[r].op))
        /\ now' = now + 1
     \/ /\ ~ Open(records[c])
        /\ Answer(r, 404, NoRow)
        /\ ReadOnly

(* The statement fails, or the caller hangs up and its context is        *)
(* cancelled: the request ends where it stands.                           *)
Fail(r) ==
  /\ requests[r].pc \in {"lookup", "validate", "insert", "update"}
  /\ Answer(r, 500, NoRow)
  /\ ReadOnly

-----------------------------------------------------------------------------
(* The requests of managers and administrators that meet attendance.       *)

ManageShift ==
  /\ \E s \in Shift :
       \/ PublishShift(s)
       \/ \E e \in Employee : CreateShift(s, e) \/ UpdateShift(s, e)
  /\ UNCHANGED <<employees, records, requests, now>>

DeleteShift(s) ==
  /\ RemoveShift(s)
  /\ records' = Detached(s)
  /\ UNCHANGED <<employees, requests, now>>

ManageEmployee ==
  /\ \E e \in Employee :
       \/ \E u \in User \cup {NoUser} : CreateEmployee(e, u)
       \/ \E u \in User : SetEmployeeUserID(e, u)
       \/ DeleteEmployee(e, ShiftOwners \cup Attending)
  /\ UNCHANGED <<shifts, publishedTo, records, requests, now>>

Serve(r) ==
  \/ Resolve(r)
  \/ LookupForCheckIn(r)
  \/ ValidateOwnShift(r)
  \/ InsertCheckIn(r)
  \/ RereadAfterConflict(r)
  \/ LookupForCheckOut(r)
  \/ UpdateCheckOut(r)
  \/ LookupForBreak(r)
  \/ UpdateBreak(r)
  \/ Fail(r)

Next ==
  \/ \E r \in Request : Serve(r)
  \/ \E s \in Shift : DeleteShift(s)
  \/ ManageShift
  \/ ManageEmployee

Spec == Init /\ [][Next]_vars

-----------------------------------------------------------------------------
(* Safety. *)

(* Whatever order check-outs and break toggles interleave in, a row's time *)
(* stamps tell the same story as its status: a break start exactly while   *)
(* on break, a check-out exactly once checked out, none before check-in.   *)
StampsMatchStatus ==
  \A c \in ClientId : LET row == records[c] IN
    /\ (row.status = "none") <=> (row.checkInAt = 0)
    /\ (row.status = "on_break") <=> (row.breakStartedAt > row.checkInAt)
    /\ (row.status # "on_break") <=> (row.breakStartedAt = 0)
    /\ (row.status = "checked_out") <=> (row.checkOutAt > row.checkInAt)
    /\ (row.status # "checked_out") <=> (row.checkOutAt = 0)

(* Attendance is never attached to a shift that was not published to that  *)
(* employee, although shifts are reassigned and deleted between the        *)
(* handler's check of the shift and its INSERT.                             *)
AttendanceOnOwnShift ==
  \A c \in ClientId : LET row == records[c] IN
    row.shift # NoShift => /\ shifts[row.shift].status = "published"
                           /\ row.employee \in publishedTo[row.shift]

(* An employee with shifts or attendance survives every race between their *)
(* deletion and a check-in: history never loses its subject.                *)
HistoryKeepsEmployee ==
  /\ \A c \in ClientId : Recorded(c) => Live(records[c].employee)
  /\ \A s \in Shift : Exists(s) => Live(shifts[s].owner)

(* A successful answer describes the row that is stored. *)
DescribesRow(q) ==
  q.code \in Success =>
    LET row == records[q.client] IN
    /\ Recorded(q.client)
    /\ q.employee = row.employee
    /\ q.reply.employee = row.employee
    /\ q.reply.checkInAt = row.checkInAt

CreatedOnce ==
  \A r1, r2 \in Request :
    requests[r1].code = 201 /\ requests[r2].code = 201
      /\ requests[r1].client = requests[r2].client => r1 = r2

(* All successful answers about one client_id, creations and replays alike, *)
(* describe the one row that is stored: same employee, same check-in time;  *)
(* at most one of them says the row was created.                            *)
RepliesDescribeOneRow ==
  /\ \A r \in Request : DescribesRow(requests[r])
  /\ CreatedOnce

ConflictIsReal(q) == q.code = 409 => q.op = "checkIn" /\ Recorded(q.client)

(* A check-in is told "conflict" only when its client_id is recorded: the  *)
(* phone drops a queued check-in on 409, and drops nothing that is missing. *)
ConflictMeansRecorded == \A r \in Request : ConflictIsReal(requests[r])

(* A check-out is final: no break toggle that had already seen the row open *)
(* brings a checked-out row back.                                           *)
CheckedOutForGood ==
  [][\A c \in ClientId : records[c].status = "checked_out" =>
                            records'[c].status = "checked_out"]_records

(* A row keeps its employee and its check-in time for ever, and loses its  *)
(* shift only in the step that deletes that shift.                          *)
AttributionFixed ==
  [][\A c \in ClientId : Recorded(c) =>
       /\ records'[c].employee = records[c].employee
       /\ records'[c].checkInAt = records[c].checkInAt
       /\ \/ records'[c].shift = records[c].shift
          \/ /\ records'[c].shift = NoShift
             /\ shifts'[records[c].shift].status = "deleted"]_records

-----------------------------------------------------------------------------
(* The inductive invariant behind the safety properties. *)

(* What a request has established when it reaches a statement. *)
OnCourse(q) ==
  /\ (q.op = "none") <=> (q.pc = "resolve")
  /\ (q.code = 0) <=> (q.pc # "done")
  /\ q.pc \in {"lookup", "validate", "insert", "reread", "update"} =>
       q.client \in ClientId /\ q.employee \in Employee
  /\ q.code \in Success \cup {409} => q.client \in ClientId
  /\ q.pc \in {"validate", "insert", "reread"} => q.op = "checkIn"
  /\ q.pc = "validate" => q.shift # NoShift
  /\ q.pc = "reread" => Recorded(q.client)
  /\ q.pc = "update" => /\ q.op # "checkIn"
                        /\ Recorded(q.client)
                        /\ records[q.client].employee = q.employee

(* A validated shift stays published until it is deleted, and its owner at *)
(* the time of validation stays among those it was published to.           *)
Validated(q) ==
  q.pc = "insert" /\ q.shift # NoShift =>
    /\ shifts[q.shift].status \in {"published", "deleted"}
    /\ q.employee \in publishedTo[q.shift]

RequestInv(q) == OnCourse(q) /\ Validated(q) /\ DescribesRow(q) /\ ConflictIsReal(q)

PublicationsRemembered ==
  \A s \in Shift : shifts[s].status = "published" => shifts[s].owner \in publishedTo[s]

RowsInPast ==
  \A c \in ClientId : records[c].checkInAt <= now

IInv ==
  /\ TypeOK
  /\ \A r \in Request : RequestInv(requests[r])
  /\ CreatedOnce
  /\ PublicationsRemembered
  /\ RowsInPast
  /\ StampsMatchStatus
  /\ AttendanceOnOwnShift
  /\ HistoryKeepsEmployee

-----------------------------------------------------------------------------
(* The service implements the ledger. *)

PhaseOf(status) ==
  CASE status = "none" -> "absent"
    [] status = "checked_in" -> "working"
    [] status = "on_break" -> "resting"
    [] OTHER -> "left"

EntryOf(row) == [phase |-> PhaseOf(row.status), employee |-> row.employee]
CallOf(q) == [op |-> q.op, client |-> q.client, employee |-> q.employee, code |-> q.code]

LedgerOf == [c \in ClientId |-> EntryOf(records[c])]
CallsOf == [r \in Request |-> CallOf(requests[r])]

Ledger == INSTANCE AttendanceLedger WITH ledger <- LedgerOf, calls <- CallsOf

(* Every behaviour of the statement-by-statement service is one of the      *)
(* service whose calls are atomic.                                          *)
ImplementsLedger == Ledger!Spec
=============================================================================
