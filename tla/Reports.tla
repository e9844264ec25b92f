------------------------------ MODULE Reports ------------------------------
(***************************************************************************)
(* The two services that own no table: the live view of a manager and the  *)
(* statistics of an employee.  Each reads the tables of roster, attendance *)
(* and identity in several statements and joins the results in memory,     *)
(* while check-ins, reassignments and deletions go on between the          *)
(* statements.  Every step of a report is one statement.                   *)
(*                                                                         *)
(* The starts of shifts are abstracted: a report's window is any set of    *)
(* shifts, and the on-time percentage is represented by the shifts it is   *)
(* computed from.                                                          *)
(***************************************************************************)
EXTENDS Attendance

CONSTANT Report         \* the calls of GetLiveView and GetMyStats

VARIABLE reports

reportVars == <<employees, shifts, publishedTo, records, requests, now, reports>>

(* "owners" are the shifts read, with their employee; "rows" what was read  *)
(* of their attendance; "named" the employees whose name was read.  For the *)
(* statistics "employee" is the first resolution of the login and "own" the *)
(* one a list of shifts is about to use; "month" and "starts" are the       *)
(* shifts of the two windows, and "mine" the attendance.  Two fields are    *)
(* history: the shifts that changed since the call arrived, and whether its *)
(* login was linked to another employee meanwhile.                          *)
ReportState ==
  [pc       : {"start", "attendance", "names", "month", "listMonth", "mine", "starts",
               "listStarts", "hired", "done"},
   user     : User \cup {NoUser},
   window   : SUBSET Shift,
   owners   : [Shift -> Employee \cup {NoEmployee}],
   rows     : [Shift -> Row],
   named    : SUBSET Employee,
   employee : Employee \cup {NoEmployee},
   own      : Employee \cup {NoEmployee},
   month    : SUBSET Shift,
   starts   : SUBSET Shift,
   mine     : [ClientId -> Row],
   code     : {0, 200, 500},
   touched  : SUBSET Shift,
   relinked : BOOLEAN]

NewReport ==
  [pc |-> "start", user |-> NoUser, window |-> {}, owners |-> [s \in Shift |-> NoEmployee],
   rows |-> [s \in Shift |-> NoRow], named |-> {}, employee |-> NoEmployee, own |-> NoEmployee,
   month |-> {}, starts |-> {}, mine |-> [c \in ClientId |-> NoRow], code |-> 0, touched |-> {},
   relinked |-> FALSE]

ReportsTypeOK == TypeOK /\ reports \in [Report -> ReportState]

ReportsInit == Init /\ reports = [p \in Report |-> NewReport]

-----------------------------------------------------------------------------
Read(p, from, to) ==
  /\ reports[p].pc = from
  /\ reports' = [reports EXCEPT ![p] = to]
  /\ UNCHANGED vars

Reported(q, code) == [q EXCEPT !.pc = "done", !.code = code]

(* An error carries nothing of what was read.                               *)
Failed == Reported(NewReport, 500)

(* A statement fails, or the caller hangs up.                               *)
ReportFails(p) ==
  /\ reports[p].pc \notin {"start", "done"}
  /\ Read(p, reports[p].pc, Failed)

(* The client_ids recorded for s. *)
LinkedTo(s) == {c \in ClientId : Recorded(c) /\ records[c].shift = s}

-----------------------------------------------------------------------------
(* LiveView. *)

(* Published shifts whose start is in the caller's window.                  *)
ListPublished(p) ==
  \E w \in SUBSET Shift :
    \/ Read(p, "start", [reports[p] EXCEPT
         !.pc = "attendance", !.window = w,
         !.owners = [s \in Shift |-> IF s \in w /\ shifts[s].status = "published"
                                     THEN shifts[s].owner ELSE NoEmployee]])
    \/ Read(p, "start", Failed)

ListedShifts(q) == {s \in Shift : q.owners[s] # NoEmployee}

(* A bug ViewExact must catch: attendance is listed by the check-in's time  *)
(* and not by its shift, so that an early check-in is missing.              *)
RowsInWindow(q) ==
  {f \in [ListedShifts(q) -> ClientId \cup {NoClient}] :
     \A s \in ListedShifts(q) :
       LET c == {d \in LinkedTo(s) : records[d].checkInAt = now}
       IN IF c = {} THEN f[s] = NoClient ELSE f[s] \in c}

(* The rows linked to the listed shifts come in no order, and the last one  *)
(* of a shift is kept.                                                      *)
RowsByShift(q) ==
  {f \in [ListedShifts(q) -> ClientId \cup {NoClient}] :
     \A s \in ListedShifts(q) :
       IF LinkedTo(s) = {} THEN f[s] = NoClient ELSE f[s] \in LinkedTo(s)}

ListByShiftIDs(p) ==
  LET q == reports[p] IN
  \E f \in RowsByShift(q) :
    Read(p, "attendance", [q EXCEPT
      !.pc = "names",
      !.rows = [s \in Shift |-> IF s \in ListedShifts(q) /\ f[s] # NoClient
                                THEN records[f[s]] ELSE NoRow]])

(* All employees, whatever their status; an owner who is gone by now has no *)
(* name.                                                                    *)
ListEmployees(p) ==
  Read(p, "names", Reported([reports[p] EXCEPT !.named = {e \in Employee : Live(e)}], 200))

-----------------------------------------------------------------------------
(* MyStats. *)

Resolved(u) == IF EmployeesOfUser(u) = {} THEN NoEmployee
               ELSE CHOOSE e \in EmployeesOfUser(u) : TRUE

(* A caller without an employee is answered zeros at once.                  *)
ResolveCaller(p) ==
  \E u \in User :
    LET q == [reports[p] EXCEPT !.user = u, !.employee = Resolved(u)]
    IN \/ q.employee = NoEmployee /\ Read(p, "start", Reported(q, 200))
       \/ q.employee # NoEmployee /\ Read(p, "start", [q EXCEPT !.pc = "month"])
       \/ Read(p, "start", Failed)

(* ListMyShifts resolves the login again before it lists; the list of a     *)
(* login without an employee is empty.                                      *)
ResolveAgain(p, from, list, next) ==
  LET q == reports[p]
      own == Resolved(q.user)
  IN Read(p, from, [q EXCEPT !.own = own, !.pc = IF own = NoEmployee THEN next ELSE list])

(* Draft shifts are listed too. *)
ShiftsOf(e, w) == {s \in w : Exists(s) /\ shifts[s].owner = e}

ResolveForMonth(p) == ResolveAgain(p, "month", "listMonth", "mine")

ListMonth(p) ==
  LET q == reports[p] IN
  \E w \in SUBSET Shift :
    Read(p, "listMonth", [q EXCEPT
      !.pc = "mine", !.own = NoEmployee, !.month = ShiftsOf(q.own, w)])

(* A bug StatsOfOneEmployee must catch: the list is not filtered.           *)
EverybodysRow(q, c) == records[c]

(* A row of attendance.List, filtered by the employee resolved first.       *)
MyRow(q, c) == IF records[c].employee = q.employee THEN records[c] ELSE NoRow

CheckedInShifts(mine) == {mine[c].shift : c \in ClientId} \ {NoShift}

(* The second list of shifts is read only if some check-in has a shift.     *)
ListMine(p) ==
  LET q == reports[p]
      mine == [c \in ClientId |-> MyRow(q, c)]
  IN Read(p, "mine", [q EXCEPT
       !.mine = mine, !.pc = IF CheckedInShifts(mine) = {} THEN "hired" ELSE "starts"])

ResolveForStarts(p) == ResolveAgain(p, "starts", "listStarts", "hired")

ListStarts(p) ==
  LET q == reports[p] IN
  \E w \in SUBSET Shift :
    Read(p, "listStarts", [q EXCEPT
      !.pc = "hired", !.own = NoEmployee, !.starts = ShiftsOf(q.own, w)])

(* The shifts the on-time percentage is taken over, and the rows the hours  *)
(* of a week since "monday" are summed over.                                *)
Considered(q) == CheckedInShifts(q.mine) \cap q.starts
Worked(q, monday) == {c \in ClientId : q.mine[c].status # "none" /\ q.mine[c].checkOutAt > 0
                                       /\ q.mine[c].checkInAt >= monday}

(* An employee who is gone meanwhile is an error like any other.            *)
GetHired(p) ==
  LET q == reports[p] IN
  Read(p, "hired", IF Live(q.employee) THEN Reported(q, 200) ELSE Failed)

-----------------------------------------------------------------------------
(* The rest of the backend goes on; the history fields record what it does. *)
Changes(s) ==
  \/ shifts'[s] # shifts[s]
  \/ \E c \in ClientId : /\ records'[c] # records[c]
                         /\ s \in {records[c].shift, records'[c].shift}

Watched(q) ==
  IF q.pc = "start" \/ q.code = 500 THEN q
  ELSE IF q.user = NoUser THEN [q EXCEPT !.touched = @ \cup {s \in Shift : Changes(s)}]
  ELSE [q EXCEPT
         !.touched = @ \cup {s \in Shift : shifts'[s] # shifts[s]},
         !.relinked = @ \/ \E e \in Employee : employees[e].user # employees'[e].user]

Meanwhile == Next /\ reports' = [p \in Report |-> Watched(reports[p])]

ReportsNext ==
  \/ Meanwhile
  \/ \E p \in Report :
       \/ ListPublished(p) \/ ListByShiftIDs(p) \/ ListEmployees(p)
       \/ ResolveCaller(p) \/ ResolveForMonth(p) \/ ListMonth(p) \/ ListMine(p)
       \/ ResolveForStarts(p) \/ ListStarts(p) \/ GetHired(p)
       \/ ReportFails(p)

ReportsSpec == ReportsInit /\ [][ReportsNext]_reportVars

-----------------------------------------------------------------------------
(* The three reads of a live view are three moments; an entry is still     *)
(* exact for a shift that nobody touched since the call arrived: listed if  *)
(* published, with its owner, the owner's name, and an attendance row that  *)
(* is linked to the shift, however early the check-in was                   *)
(* (liveview/service.go 58-112).                                            *)
ViewExact ==
  \A p \in Report : LET q == reports[p] IN
    q.pc = "done" /\ q.user = NoUser /\ q.code = 200 =>
      \A s \in q.window \ q.touched :
        /\ (s \in ListedShifts(q)) <=> (shifts[s].status = "published")
        /\ s \in ListedShifts(q) =>
             /\ q.owners[s] = shifts[s].owner /\ q.owners[s] \in q.named
             /\ IF LinkedTo(s) = {} THEN q.rows[s] = NoRow
                ELSE q.rows[s] \in {records[c] : c \in LinkedTo(s)}

(* Statistics resolve the login three times, yet count for one employee:    *)
(* the hours are theirs and the on-time rate is over shifts that were       *)
(* published to them, whatever happens between the reads; and unless the    *)
(* login is linked to another employee meanwhile, a counted shift that      *)
(* nobody changed is still there and theirs                                 *)
(* (stats/service.go 53-138, roster/service.go 207-223).                    *)
StatsOfOneEmployee ==
  \A p \in Report : LET q == reports[p] IN
    q.pc = "done" /\ q.employee # NoEmployee =>
      /\ \A c \in Worked(q, 0) : records[c].employee = q.employee
      /\ \A s \in Considered(q) : q.employee \in publishedTo[s]
      /\ ~q.relinked => \A s \in (q.month \cup Considered(q)) \ q.touched :
                          Exists(s) /\ shifts[s].owner = q.employee
=============================================================================
