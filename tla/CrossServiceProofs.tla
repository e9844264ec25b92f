------------------------- MODULE CrossServiceProofs -------------------------
(***************************************************************************)
(* Theorems about the services that own no table and work over those of    *)
(* attendance and roster: the live view, the statistics and the seeder.    *)
(***************************************************************************)
EXTENDS Reports, DemoSeed, AttendanceProofs, FiniteSetTheorems

-----------------------------------------------------------------------------
(* Reports. *)

(* Only rows of employees who are there carry a login, so the login decides *)
(* who is resolved.                                                         *)
LinksLive == \A e \in Employee : employees[e].row # "live" => employees[e].user = NoUser

RowShown(q, s) ==
  IF LinkedTo(s) = {} THEN q.rows[s] = NoRow ELSE q.rows[s] \in {records[c] : c \in LinkedTo(s)}

(* What a live view has read is exact for the shifts nobody has touched.    *)
ViewSound(q) ==
  q.pc # "start" /\ q.user = NoUser /\ q.code # 500 =>
    /\ q.pc \in {"attendance", "names", "done"}
    /\ \A s \in q.window \ q.touched :
         /\ (s \in ListedShifts(q)) <=> (shifts[s].status = "published")
         /\ s \in ListedShifts(q) =>
              /\ q.owners[s] = shifts[s].owner
              /\ q.pc # "attendance" => RowShown(q, s)
              /\ q.pc = "done" => q.owners[s] \in q.named

Resolving(q) ==
  q.pc \in {"month", "listMonth", "mine", "starts", "listStarts", "hired"}
Listing(q) == q.pc \in {"listMonth", "listStarts"}

Listed(q) == q.month \cup q.starts

(* What the statistics have read belongs to the employee resolved first.    *)
StatsSound(q) ==
  /\ Resolving(q) => /\ q.user \in User /\ q.employee \in Employee
                     /\ ~q.relinked => q.employee = Resolved(q.user)
  /\ Listing(q) => /\ q.own \in Employee
                   /\ ~q.relinked => q.own = q.employee
  /\ \A c \in ClientId :
       /\ q.mine[c].status # "none" => Recorded(c) /\ records[c].employee = q.employee
       /\ q.mine[c].shift # NoShift => q.employee \in publishedTo[q.mine[c].shift]
  /\ ~q.relinked => \A s \in Listed(q) \ q.touched : Exists(s) /\ shifts[s].owner = q.employee

ReportInv(q) ==
  /\ q.pc = "start" => q = NewReport
  /\ (q.code = 0) <=> (q.pc # "done")
  /\ q.code = 500 => q = Failed
  /\ ViewSound(q) /\ StatsSound(q)

ReportsInv ==
  /\ IInv /\ LinksLive
  /\ reports \in [Report -> ReportState]
  /\ \A p \in Report : ReportInv(reports[p])

(* The types of the fields, by name: the provers need not look into them to *)
(* see that an updated report is one.                                       *)
Pcs == {"start", "attendance", "names", "month", "listMonth", "mine", "starts", "listStarts",
        "hired", "done"}
Users == User \cup {NoUser}
Employees == Employee \cup {NoEmployee}
OwnersOf == [Shift -> Employees]
RowsOf == [Shift -> Row]
MineOf == [ClientId -> Row]
ShiftSets == SUBSET Shift
EmployeeSets == SUBSET Employee
Codes == {0, 200, 500}

LEMMA Shape ==
  ReportState = [pc : Pcs, user : Users, window : ShiftSets, owners : OwnersOf, rows : RowsOf,
                 named : EmployeeSets, employee : Employees, own : Employees,
                 month : ShiftSets, starts : ShiftSets, mine : MineOf, code : Codes, touched : ShiftSets,
                 relinked : BOOLEAN]
BY DEF ReportState, Pcs, Users, Employees, OwnersOf, RowsOf, MineOf, ShiftSets, EmployeeSets, Codes

LEMMA Parts ==
  /\ {"start", "attendance", "names", "month", "listMonth"} \subseteq Pcs
  /\ {"mine", "starts", "listStarts", "hired", "done"} \subseteq Pcs
  /\ 0 \in Codes /\ 200 \in Codes /\ 500 \in Codes
BY DEF Pcs, Codes

LEMMA ReportedFields ==
  ASSUME NEW q \in ReportState, NEW code \in {0, 200, 500}
  PROVE  /\ Reported(q, code) \in ReportState
         /\ Reported(q, code).pc = "done" /\ Reported(q, code).code = code
         /\ Reported(q, code).user = q.user /\ Reported(q, code).employee = q.employee
         /\ Reported(q, code).mine = q.mine /\ Reported(q, code).relinked = q.relinked
         /\ Reported(q, code).month = q.month /\ Reported(q, code).starts = q.starts
         /\ Reported(q, code).own = q.own /\ Reported(q, code).touched = q.touched
<1> DEFINE to == Reported(q, code)
<1>1. /\ to.pc = "done" /\ to.code = code /\ to.user = q.user /\ to.employee = q.employee
      /\ to.mine = q.mine /\ to.relinked = q.relinked
      /\ to.month = q.month /\ to.starts = q.starts
      /\ to.own = q.own /\ to.touched = q.touched
  BY DEF Reported, ReportState
<1>2. to \in ReportState
  <2>1. code \in Codes /\ "done" \in Pcs
    BY DEF Codes, Pcs
  <2> QED
    BY <2>1, Shape DEF Reported
<1> QED
  BY <1>1, <1>2

LEMMA FreshReport ==
  /\ NewReport \in ReportState /\ Failed \in ReportState
  /\ NewReport.user = NoUser /\ NewReport.month = {} /\ NewReport.starts = {}
  /\ NewReport.code = 0 /\ ~NewReport.relinked
  /\ \A c \in ClientId : NewReport.mine[c] = NoRow
  /\ NoRow.status = "none" /\ NoRow.shift = NoShift
  /\ Failed.pc = "done" /\ Failed.user = NoUser /\ Failed.code = 500
  /\ Failed.month = {} /\ Failed.starts = {}
  /\ \A c \in ClientId : Failed.mine[c] = NoRow
<1>1. NoRow \in Row /\ NoRow.status = "none" /\ NoRow.shift = NoShift
  BY DEF NoRow, Row
<1>2. NewReport \in ReportState
  BY <1>1 DEF NewReport, ReportState
<1>3. Failed \in ReportState
  BY <1>2, ReportedFields DEF Failed
<1>4. /\ NewReport.user = NoUser /\ NewReport.month = {} /\ NewReport.starts = {}
      /\ NewReport.code = 0 /\ ~NewReport.relinked
      /\ \A c \in ClientId : NewReport.mine[c] = NoRow
  BY <1>1 DEF NewReport
<1> QED
  BY <1>1, <1>2, <1>3, <1>4, ReportedFields DEF Failed

LEMMA FailedSound == ReportInv(Failed)
BY FreshReport DEF ReportInv, ViewSound, StatsSound, Resolving, Listing, Listed

(* A step of a report keeps the invariant once the report's own state does. *)
LEMMA ReportMoves ==
  ASSUME ReportsInv, NEW p \in Report, NEW from, NEW to \in ReportState,
         Read(p, from, to), ReportInv(to)
  PROVE  ReportsInv'
<1>1. /\ reports' = [reports EXCEPT ![p] = to]
      /\ UNCHANGED <<employees, shifts, publishedTo, records, requests, now>>
  BY DEF Read, vars
<1>2. reports' \in [Report -> ReportState]
  BY <1>1 DEF ReportsInv
<1>3. IInv'
  <2>1. UNCHANGED vars
    BY <1>1 DEF vars
  <2> QED
    BY <2>1, NextInv DEF ReportsInv
<1>4. LinksLive'
  BY <1>1 DEF ReportsInv, LinksLive
<1>5. ASSUME NEW x \in Report PROVE ReportInv(reports[x])'
  <2>1. ReportInv(reports'[x])
    BY <1>1 DEF ReportsInv
  <2>2. ViewSound(reports[x])'
    BY <1>1, <2>1 DEF ReportInv, ViewSound, RowShown, LinkedTo, ListedShifts, Recorded
  <2>3. StatsSound(reports[x])'
    <3>1. /\ \A c \in ClientId : Recorded(c)' <=> Recorded(c)
          /\ \A u \in User : Resolved(u)' = Resolved(u)
      BY <1>1 DEF Recorded, Resolved, EmployeesOfUser, Live
    <3> QED
      BY <1>1, <2>1, <3>1 DEF ReportInv, StatsSound, Resolving, Listing, Listed, Exists
  <2> QED
    BY <2>1, <2>2, <2>3 DEF ReportInv
<1> QED
  BY <1>2, <1>3, <1>4, <1>5 DEF ReportsInv

LEMMA ReportCurrent ==
  ASSUME ReportsInv, NEW p \in Report
  PROVE  reports[p] \in ReportState /\ ReportInv(reports[p])
BY DEF ReportsInv

-----------------------------------------------------------------------------
(* The live view. *)

LEMMA ReportFailsKeeps ==
  ASSUME ReportsInv, NEW p \in Report, NEW from, Read(p, from, Failed)
  PROVE  ReportsInv'
BY ReportMoves, FreshReport, FailedSound

LEMMA ListPublishedKeeps ==
  ASSUME ReportsInv, NEW p \in Report, ListPublished(p) PROVE ReportsInv'
<1>1. PICK w \in SUBSET Shift :
        \/ Read(p, "start", [reports[p] EXCEPT
             !.pc = "attendance", !.window = w,
             !.owners = [s \in Shift |-> IF s \in w /\ shifts[s].status = "published"
                                         THEN shifts[s].owner ELSE NoEmployee]])
        \/ Read(p, "start", Failed)
  BY DEF ListPublished
<1> DEFINE owners == [s \in Shift |-> IF s \in w /\ shifts[s].status = "published"
                                      THEN shifts[s].owner ELSE NoEmployee]
           to == [NewReport EXCEPT !.pc = "attendance", !.window = w, !.owners = owners]
<1>2. CASE Read(p, "start", Failed)
  BY <1>2, ReportFailsKeeps
<1>3. ASSUME Read(p, "start", [reports[p] EXCEPT
                 !.pc = "attendance", !.window = w, !.owners = owners])
      PROVE  ReportsInv'
  <2>1. reports[p] = NewReport
    BY <1>3, ReportCurrent DEF Read, ReportInv
  <2>2. owners \in [Shift -> Employee \cup {NoEmployee}]
    <3>1. \A s \in Shift : shifts[s].owner \in Employee \cup {NoEmployee}
      BY DEF ReportsInv, IInv, TypeOK, RosterTypeOK, ShiftRow
    <3> QED
      BY <3>1
  <2>3. \A s \in w : /\ (owners[s] # NoEmployee) <=> (shifts[s].status = "published")
                     /\ owners[s] # NoEmployee => owners[s] = shifts[s].owner
    <3>1. \A s \in Shift : shifts[s].status = "published" => shifts[s].owner \in Employee
      BY DEF ReportsInv, IInv, HistoryKeepsEmployee, Exists, Live
    <3> QED
      BY <3>1, IdentityAssumption
  <2> HIDE DEF owners
  <2>4. /\ to.pc = "attendance" /\ to.window = w /\ to.owners = owners
        /\ to.month = {} /\ to.starts = {} /\ to.mine = NewReport.mine /\ to.code = 0
    BY FreshReport DEF ReportState
  <2>5. to \in ReportState
    <3>1. w \in ShiftSets /\ owners \in OwnersOf /\ "attendance" \in Pcs
      BY <2>2 DEF ShiftSets, OwnersOf, Employees, Pcs
    <3>2. NewReport \in ReportState
      BY FreshReport
    <3> QED
      BY <3>1, <3>2, Shape
  <2> HIDE DEF to
  <2>6. ViewSound(to)
    BY <2>3, <2>4 DEF ViewSound, ListedShifts
  <2>7. StatsSound(to)
    BY <2>4, FreshReport DEF StatsSound, Resolving, Listing, Listed
  <2>8. Read(p, "start", to)
    BY <1>3, <2>1 DEF to
  <2> QED
    BY <2>4, <2>5, <2>6, <2>7, <2>8, ReportMoves DEF ReportInv
<1> QED
  BY <1>1, <1>2, <1>3 DEF owners

LEMMA ListByShiftIDsKeeps ==
  ASSUME ReportsInv, NEW p \in Report, ListByShiftIDs(p) PROVE ReportsInv'
<1> DEFINE q == reports[p]
<1>1. PICK f \in RowsByShift(q) :
        Read(p, "attendance", [q EXCEPT
          !.pc = "names",
          !.rows = [s \in Shift |-> IF s \in ListedShifts(q) /\ f[s] # NoClient
                                    THEN records[f[s]] ELSE NoRow]])
  BY DEF ListByShiftIDs
<1> DEFINE rows == [s \in Shift |-> IF s \in ListedShifts(q) /\ f[s] # NoClient
                                    THEN records[f[s]] ELSE NoRow]
           to == [q EXCEPT !.pc = "names", !.rows = rows]
<1>2. /\ q \in ReportState /\ ViewSound(q) /\ StatsSound(q) /\ q.pc = "attendance"
      /\ q.code = 0
  BY <1>1, ReportCurrent DEF ReportInv, Read
<1>3. \A s \in ListedShifts(q) : s \in Shift
        /\ IF LinkedTo(s) = {} THEN f[s] = NoClient ELSE f[s] \in LinkedTo(s)
  BY DEF RowsByShift, ListedShifts
<1>4. \A s \in Shift : LinkedTo(s) \subseteq ClientId
  BY DEF LinkedTo
<1>5. rows \in [Shift -> Row]
  <2>1. records \in [ClientId -> Row] /\ NoRow \in Row
    BY RowTypes DEF ReportsInv, IInv, TypeOK
  <2>2. \A s \in ListedShifts(q) : f[s] # NoClient => f[s] \in ClientId
    BY <1>3, <1>4
  <2> QED
    BY <2>1, <2>2
<1>6. \A s \in ListedShifts(q) :
        IF LinkedTo(s) = {} THEN rows[s] = NoRow ELSE rows[s] \in {records[c] : c \in LinkedTo(s)}
  BY <1>3, <1>4, AttendanceAssumption
<1> HIDE DEF rows
<1>7. to \in ReportState
  <2>1. rows \in RowsOf
    BY <1>5 DEF RowsOf
  <2>2. "names" \in Pcs
    BY DEF Pcs
  <2> QED
    BY <1>2, <2>1, <2>2, Shape
<1>8. /\ to.pc = "names" /\ to.rows = rows /\ to.user = q.user /\ to.code = q.code
      /\ to.window = q.window /\ to.owners = q.owners /\ to.touched = q.touched
      /\ to.mine = q.mine /\ to.employee = q.employee /\ to.relinked = q.relinked
      /\ to.month = q.month /\ to.starts = q.starts /\ to.own = q.own
  BY <1>2 DEF ReportState
<1>9. Read(p, "attendance", to)
  BY <1>1 DEF rows
<1> HIDE DEF to
<1>10. ViewSound(to)
  BY <1>2, <1>6, <1>8 DEF ViewSound, ListedShifts, RowShown
<1>11. StatsSound(to)
  BY <1>2, <1>8 DEF StatsSound, Resolving, Listing, Listed
<1>12. ReportInv(to)
  BY <1>2, <1>8, <1>10, <1>11 DEF ReportInv
<1> QED
  BY <1>7, <1>9, <1>12, ReportMoves

LEMMA ListEmployeesKeeps ==
  ASSUME ReportsInv, NEW p \in Report, ListEmployees(p) PROVE ReportsInv'
<1> DEFINE q == reports[p]
           full == [q EXCEPT !.named = {e \in Employee : Live(e)}]
           to == Reported(full, 200)
<1>0. q.code = 0
  BY ReportCurrent DEF ReportInv, ListEmployees, Read
<1>1. q \in ReportState /\ ViewSound(q) /\ StatsSound(q) /\ q.pc = "names"
  BY ReportCurrent DEF ReportInv, ListEmployees, Read
<1>2. full \in ReportState
  BY <1>1, Parts, Shape DEF EmployeeSets
<1>3. /\ full.named = {e \in Employee : Live(e)} /\ full.user = q.user
      /\ full.window = q.window /\ full.owners = q.owners /\ full.touched = q.touched
      /\ full.mine = q.mine /\ full.employee = q.employee /\ full.relinked = q.relinked
      /\ full.month = q.month /\ full.starts = q.starts /\ full.rows = q.rows
      /\ full.code = q.code /\ full.own = q.own
  BY <1>1 DEF ReportState
<1>4. Read(p, "names", to)
  BY DEF ListEmployees
<1> HIDE DEF full
<1>5. to \in ReportState
  BY <1>2, ReportedFields
<1>6. /\ to.pc = "done" /\ to.code = 200 /\ to.user = full.user /\ to.named = full.named
      /\ to.window = full.window /\ to.owners = full.owners /\ to.touched = full.touched
      /\ to.mine = full.mine /\ to.employee = full.employee /\ to.relinked = full.relinked
      /\ to.month = full.month /\ to.starts = full.starts /\ to.rows = full.rows
      /\ to.own = full.own
  BY <1>2 DEF Reported, ReportState
<1> HIDE DEF to
<1>7. \A s \in Shift : shifts[s].status = "published" => shifts[s].owner \in full.named
  BY <1>3 DEF ReportsInv, IInv, HistoryKeepsEmployee, Exists, Live
<1>8. StatsSound(to)
  BY <1>1, <1>3, <1>6 DEF StatsSound, Resolving, Listing, Listed
<1>9. ViewSound(to)
  <2>1. SUFFICES ASSUME to.user = NoUser, NEW s \in to.window \ to.touched
                 PROVE  /\ (s \in ListedShifts(to)) <=> (shifts[s].status = "published")
                        /\ s \in ListedShifts(to) =>
                             /\ to.owners[s] = shifts[s].owner
                             /\ RowShown(to, s)
                             /\ to.owners[s] \in to.named
    BY <1>6 DEF ViewSound
  <2>2. q.user = NoUser /\ s \in q.window \ q.touched /\ s \in Shift
    BY <1>1, <1>3, <1>6, <2>1 DEF ReportState
  <2>3. q.code # 500
    BY <1>0, <1>1
  <2> QED
    BY <1>1, <1>3, <1>6, <1>7, <2>2, <2>3 DEF ViewSound, ListedShifts, RowShown
<1> QED
  BY <1>4, <1>5, <1>6, <1>8, <1>9, ReportMoves DEF ReportInv

-----------------------------------------------------------------------------
(* The statistics. *)

LEMMA ResolvedFound ==
  ASSUME NEW u
  PROVE  /\ Resolved(u) \in Employee \cup {NoEmployee}
         /\ Resolved(u) # NoEmployee => /\ Resolved(u) \in Employee
<1>1. EmployeesOfUser(u) \subseteq Employee
  BY DEF EmployeesOfUser
<1>2. CASE EmployeesOfUser(u) = {}
  BY <1>2 DEF Resolved
<1>3. CASE EmployeesOfUser(u) # {}
  <2>1. (CHOOSE e \in EmployeesOfUser(u) : TRUE) \in EmployeesOfUser(u)
    BY <1>3, Zenon
  <2>2. Resolved(u) = CHOOSE e \in EmployeesOfUser(u) : TRUE
    BY <1>3 DEF Resolved
  <2> QED
    BY <1>1, <2>1, <2>2
<1> QED
  BY <1>2, <1>3

LEMMA ResolveCallerKeeps ==
  ASSUME ReportsInv, NEW p \in Report, ResolveCaller(p) PROVE ReportsInv'
<1>1. PICK u \in User :
        LET q == [reports[p] EXCEPT !.user = u, !.employee = Resolved(u)]
        IN \/ q.employee = NoEmployee /\ Read(p, "start", Reported(q, 200))
           \/ q.employee # NoEmployee /\ Read(p, "start", [q EXCEPT !.pc = "month"])
           \/ Read(p, "start", Failed)
  BY DEF ResolveCaller
<1> DEFINE q == [NewReport EXCEPT !.user = u, !.employee = Resolved(u)]
<1>2. reports[p] = NewReport
  BY <1>1, ReportCurrent DEF ReportInv, Read
<1>3. \/ q.employee = NoEmployee /\ Read(p, "start", Reported(q, 200))
      \/ q.employee # NoEmployee /\ Read(p, "start", [q EXCEPT !.pc = "month"])
      \/ Read(p, "start", Failed)
  BY <1>1, <1>2, Zenon
<1>4. /\ q.user = u /\ q.employee = Resolved(u) /\ q.mine = NewReport.mine
      /\ q.month = {} /\ q.starts = {} /\ q.code = 0
  BY FreshReport DEF ReportState
<1>5. q \in ReportState
  <2>1. u \in Users /\ Resolved(u) \in Employees
    BY ResolvedFound DEF Users, Employees
  <2>2. NewReport \in ReportState
    BY FreshReport
  <2> QED
    BY <2>1, <2>2, Shape
<1> HIDE DEF q
<1>6. u # NoUser
  BY IdentityAssumption
<1>7. CASE Read(p, "start", Failed)
  BY <1>7, ReportFailsKeeps
<1>8. CASE q.employee # NoEmployee /\ Read(p, "start", [q EXCEPT !.pc = "month"])
  <2> DEFINE to == [q EXCEPT !.pc = "month"]
  <2>1. to \in ReportState
    <3>1. "month" \in Pcs
      BY DEF Pcs
    <3> QED
      BY <1>5, <3>1, Shape
  <2>2. /\ to.pc = "month" /\ to.user = u /\ to.employee = Resolved(u) /\ to.code = 0
        /\ to.mine = NewReport.mine /\ to.month = {} /\ to.starts = {}
    BY <1>4, <1>5 DEF ReportState
  <2>3. Read(p, "start", to)
    BY <1>8
  <2> HIDE DEF to
  <2>4. to.employee \in Employee
    BY <1>4, <1>8, <2>2, ResolvedFound
  <2>5. ReportInv(to)
    BY <1>6, <2>2, <2>4, FreshReport DEF ReportInv, ViewSound, StatsSound, Resolving, Listing,
       Listed
  <2> QED
    BY <2>1, <2>3, <2>5, ReportMoves
<1>9. CASE Read(p, "start", Reported(q, 200))
  <2> DEFINE to == Reported(q, 200)
  <2>1. /\ to \in ReportState /\ to.pc = "done" /\ to.code = 200 /\ to.user = u
        /\ to.mine = NewReport.mine /\ to.month = {} /\ to.starts = {}
    BY <1>4, <1>5, ReportedFields
  <2>2. Read(p, "start", to)
    BY <1>9
  <2> HIDE DEF to
  <2>3. ReportInv(to)
    BY <1>6, <2>1, FreshReport DEF ReportInv, ViewSound, StatsSound, Resolving, Listing, Listed
  <2> QED
    BY <2>1, <2>2, <2>3, ReportMoves
<1> QED
  BY <1>3, <1>7, <1>8, <1>9

(* What every step of the statistics after the first starts from.           *)
LEMMA StatsCurrent ==
  ASSUME ReportsInv, NEW p \in Report, Resolving(reports[p])
  PROVE  LET q == reports[p] IN
         /\ q \in ReportState /\ StatsSound(q) /\ q.code = 0
         /\ q.user \in User /\ q.user # NoUser /\ q.employee \in Employee
         /\ ~q.relinked => q.employee = Resolved(q.user)
<1> DEFINE q == reports[p]
<1>1. /\ q \in ReportState /\ StatsSound(q)
      /\ (q.code = 0) <=> (q.pc # "done")
  BY ReportCurrent DEF ReportInv
<1>2. q.code = 0
  BY <1>1 DEF Resolving
<1> QED
  BY <1>1, <1>2, IdentityAssumption DEF StatsSound

(* A list resolves the login once more, or is empty.                        *)
LEMMA ResolveAgainKeeps ==
  ASSUME ReportsInv, NEW p \in Report,
         NEW from \in {"month", "starts"}, NEW list \in {"listMonth", "listStarts"},
         NEW next \in {"mine", "hired"}, ResolveAgain(p, from, list, next)
  PROVE  ReportsInv'
<1> DEFINE q == reports[p]
           own == Resolved(q.user)
           pc == IF own = NoEmployee THEN next ELSE list
           to == [q EXCEPT !.own = own, !.pc = pc]
<1>1. Read(p, from, to)
  BY DEF ResolveAgain
<1>2. /\ q \in ReportState /\ StatsSound(q) /\ q.code = 0
      /\ q.user \in User /\ q.user # NoUser /\ q.employee \in Employee
      /\ ~q.relinked => q.employee = own
  BY <1>1, StatsCurrent DEF Resolving, Read
<1>3. own \in Employees /\ (own # NoEmployee => own \in Employee)
  BY ResolvedFound DEF Employees
<1>4. pc \in Pcs /\ pc \in {"mine", "hired", "listMonth", "listStarts"}
      /\ (pc \in {"listMonth", "listStarts"} => own # NoEmployee)
  BY DEF Pcs
<1> HIDE DEF own, pc
<1>5. /\ to.pc = pc /\ to.own = own /\ to.month = q.month /\ to.starts = q.starts
      /\ to.user = q.user /\ to.employee = q.employee /\ to.code = q.code
      /\ to.mine = q.mine /\ to.relinked = q.relinked /\ to.touched = q.touched
  BY <1>2 DEF ReportState
<1>6. to \in ReportState
  BY <1>2, <1>3, <1>4, Shape
<1> HIDE DEF to
<1>7. StatsSound(to)
  BY <1>2, <1>3, <1>4, <1>5 DEF StatsSound, Resolving, Listing, Listed, own
<1>8. ReportInv(to)
  BY <1>2, <1>4, <1>5, <1>7 DEF ReportInv, ViewSound
<1> QED
  BY <1>1, <1>6, <1>8, ReportMoves

LEMMA ListMonthKeeps ==
  ASSUME ReportsInv, NEW p \in Report, ListMonth(p) PROVE ReportsInv'
<1> DEFINE q == reports[p]
<1>1. PICK w \in SUBSET Shift :
        Read(p, "listMonth", [q EXCEPT
          !.pc = "mine", !.own = NoEmployee, !.month = ShiftsOf(q.own, w)])
  BY DEF ListMonth
<1> DEFINE listed == ShiftsOf(q.own, w)
           to == [q EXCEPT !.pc = "mine", !.own = NoEmployee, !.month = listed]
<1>2. /\ q \in ReportState /\ StatsSound(q) /\ q.code = 0
      /\ q.user \in User /\ q.user # NoUser /\ q.employee \in Employee
      /\ ~q.relinked => q.employee = Resolved(q.user) /\ q.own = q.employee
  BY <1>1, StatsCurrent DEF Resolving, Read, StatsSound, Listing
<1>3. /\ listed \in ShiftSets
      /\ ~q.relinked => \A s \in listed : Exists(s) /\ shifts[s].owner = q.employee
  BY <1>2 DEF ShiftsOf, ShiftSets
<1> HIDE DEF listed
<1>4. /\ to.pc = "mine" /\ to.month = listed /\ to.starts = q.starts /\ to.user = q.user
      /\ to.employee = q.employee /\ to.code = q.code /\ to.mine = q.mine
      /\ to.relinked = q.relinked /\ to.touched = q.touched
  BY <1>2 DEF ReportState
<1>5. to \in ReportState
  <2>1. "mine" \in Pcs /\ NoEmployee \in Employees
    BY DEF Pcs, Employees
  <2> QED
    BY <1>2, <1>3, <2>1, Shape
<1>6. Read(p, "listMonth", to)
  BY <1>1 DEF listed
<1> HIDE DEF to
<1>7. StatsSound(to)
  BY <1>2, <1>3, <1>4 DEF StatsSound, Resolving, Listing, Listed
<1>8. ReportInv(to)
  BY <1>2, <1>4, <1>7 DEF ReportInv, ViewSound
<1> QED
  BY <1>5, <1>6, <1>8, ReportMoves

LEMMA ListStartsKeeps ==
  ASSUME ReportsInv, NEW p \in Report, ListStarts(p) PROVE ReportsInv'
<1> DEFINE q == reports[p]
<1>1. PICK w \in SUBSET Shift :
        Read(p, "listStarts", [q EXCEPT
          !.pc = "hired", !.own = NoEmployee, !.starts = ShiftsOf(q.own, w)])
  BY DEF ListStarts
<1> DEFINE listed == ShiftsOf(q.own, w)
           to == [q EXCEPT !.pc = "hired", !.own = NoEmployee, !.starts = listed]
<1>2. /\ q \in ReportState /\ StatsSound(q) /\ q.code = 0
      /\ q.user \in User /\ q.user # NoUser /\ q.employee \in Employee
      /\ ~q.relinked => q.employee = Resolved(q.user) /\ q.own = q.employee
  BY <1>1, StatsCurrent DEF Resolving, Read, StatsSound, Listing
<1>3. /\ listed \in ShiftSets
      /\ ~q.relinked => \A s \in listed : Exists(s) /\ shifts[s].owner = q.employee
  BY <1>2 DEF ShiftsOf, ShiftSets
<1> HIDE DEF listed
<1>4. /\ to.pc = "hired" /\ to.starts = listed /\ to.month = q.month /\ to.user = q.user
      /\ to.employee = q.employee /\ to.code = q.code /\ to.mine = q.mine
      /\ to.relinked = q.relinked /\ to.touched = q.touched
  BY <1>2 DEF ReportState
<1>5. to \in ReportState
  <2>1. "hired" \in Pcs /\ NoEmployee \in Employees
    BY DEF Pcs, Employees
  <2> QED
    BY <1>2, <1>3, <2>1, Shape
<1>6. Read(p, "listStarts", to)
  BY <1>1 DEF listed
<1> HIDE DEF to
<1>7. StatsSound(to)
  BY <1>2, <1>3, <1>4 DEF StatsSound, Resolving, Listing, Listed
<1>8. ReportInv(to)
  BY <1>2, <1>4, <1>7 DEF ReportInv, ViewSound
<1> QED
  BY <1>5, <1>6, <1>8, ReportMoves

LEMMA ListMineKeeps ==
  ASSUME ReportsInv, NEW p \in Report, ListMine(p) PROVE ReportsInv'
<1> DEFINE q == reports[p]
           mine == [c \in ClientId |-> MyRow(q, c)]
           next == IF CheckedInShifts(mine) = {} THEN "hired" ELSE "starts"
           to == [q EXCEPT !.mine = mine, !.pc = next]
<1>1. Read(p, "mine", to)
  BY DEF ListMine
<1>2. /\ q \in ReportState /\ StatsSound(q) /\ q.code = 0
      /\ q.user \in User /\ q.user # NoUser /\ q.employee \in Employee
      /\ ~q.relinked => q.employee = Resolved(q.user)
  BY <1>1, StatsCurrent DEF Resolving, Read
<1>3. next \in {"hired", "starts"}
  OBVIOUS
<1>4. /\ mine \in MineOf
      /\ \A c \in ClientId :
           /\ mine[c].status # "none" => Recorded(c) /\ records[c].employee = q.employee
           /\ mine[c].shift # NoShift => q.employee \in publishedTo[mine[c].shift]
  <2>1. /\ records \in [ClientId -> Row] /\ NoRow \in Row
        /\ NoRow.status = "none" /\ NoRow.shift = NoShift
    BY RowTypes DEF ReportsInv, IInv, TypeOK, NoRow
  <2>2. \A c \in ClientId : mine[c] = MyRow(q, c)
    OBVIOUS
  <2>3. mine \in MineOf
    BY <2>1 DEF MyRow, MineOf
  <2> HIDE DEF mine
  <2>4. \A c \in ClientId : records[c].shift # NoShift =>
          records[c].employee \in publishedTo[records[c].shift]
    BY DEF ReportsInv, IInv, AttendanceOnOwnShift
  <2> QED
    BY <2>1, <2>2, <2>3, <2>4 DEF MyRow, Recorded
<1> HIDE DEF mine, next
<1>5. /\ to.pc = next /\ to.mine = mine /\ to.starts = q.starts /\ to.month = q.month
      /\ to.user = q.user /\ to.employee = q.employee /\ to.code = q.code
      /\ to.relinked = q.relinked /\ to.touched = q.touched
  BY <1>2 DEF ReportState
<1>6. to \in ReportState
  <2>1. next \in Pcs
    BY <1>3 DEF Pcs
  <2> QED
    BY <1>2, <1>4, <2>1, Shape
<1> HIDE DEF to
<1>7. StatsSound(to)
  BY <1>2, <1>3, <1>4, <1>5 DEF StatsSound, Resolving, Listing, Listed
<1>8. ReportInv(to)
  BY <1>2, <1>3, <1>5, <1>7 DEF ReportInv, ViewSound
<1> QED
  BY <1>1, <1>6, <1>8, ReportMoves

LEMMA GetHiredKeeps ==
  ASSUME ReportsInv, NEW p \in Report, GetHired(p) PROVE ReportsInv'
<1> DEFINE q == reports[p]
           to == Reported(q, 200)
<1>1. Read(p, "hired", to) \/ Read(p, "hired", Failed)
  BY DEF GetHired
<1>2. q.pc = "hired"
  BY <1>1 DEF Read
<1>3. q \in ReportState /\ StatsSound(q) /\ q.user # NoUser
  BY <1>2, StatsCurrent DEF Resolving
<1>4. /\ to \in ReportState /\ to.pc = "done" /\ to.code = 200 /\ to.user = q.user
      /\ to.employee = q.employee /\ to.mine = q.mine /\ to.relinked = q.relinked
      /\ to.month = q.month /\ to.starts = q.starts /\ to.touched = q.touched
  BY <1>3, ReportedFields
<1> HIDE DEF to
<1>5. StatsSound(to)
  BY <1>3, <1>4 DEF StatsSound, Resolving, Listing, Listed
<1>6. ReportInv(to)
  BY <1>3, <1>4, <1>5 DEF ReportInv, ViewSound
<1> QED
  BY <1>1, <1>4, <1>6, ReportMoves, ReportFailsKeeps

-----------------------------------------------------------------------------
(* What the rest of the backend does to the tables the services read.       *)

LEMMA ServeTables ==
  ASSUME NEW r \in Request, Serve(r)
  PROVE  UNCHANGED <<employees, shifts, publishedTo>>
<1>1. CASE ReadOnly
  BY <1>1 DEF ReadOnly
<1>2. ASSUME NEW code, NEW row, Write(r, code, row)
      PROVE  UNCHANGED <<employees, shifts, publishedTo>>
  BY <1>2 DEF Write, tenantVars
<1>3. CASE InsertCheckIn(r)
  BY <1>1, <1>2, <1>3 DEF InsertCheckIn
<1>4. CASE UpdateCheckOut(r)
  BY <1>1, <1>2, <1>4 DEF UpdateCheckOut
<1>5. CASE UpdateBreak(r)
  BY <1>1, <1>2, <1>5 DEF UpdateBreak
<1> QED
  BY <1>1, <1>3, <1>4, <1>5
     DEF Serve, Resolve, LookupForCheckIn, ValidateOwnShift, RereadAfterConflict,
         LookupForCheckOut, LookupForBreak, Fail

(* A shift keeps those it has had, and once deleted it does not come back.  *)
LEMMA ShiftSteps ==
  ASSUME RosterTypeOK, Next
  PROVE  /\ RosterTypeOK'
         /\ \A s \in Shift : publishedTo[s] \subseteq publishedTo'[s]
         /\ \A s \in Shift : shifts[s].status # "none" => shifts'[s].status # "none"
         /\ \A s \in Shift : Exists(s)' => Exists(s) \/ shifts[s].status = "none"
<1>1. shifts \in [Shift -> ShiftRow] /\ publishedTo \in [Shift -> SUBSET Employee]
  BY DEF RosterTypeOK
<1>2. CASE UNCHANGED <<shifts, publishedTo>>
  BY <1>1, <1>2 DEF RosterTypeOK, Exists
<1>3. ASSUME NEW s \in Shift, NEW row \in ShiftRow, NEW es \in SUBSET Employee,
             shifts' = [shifts EXCEPT ![s] = row],
             publishedTo' = [publishedTo EXCEPT ![s] = @ \cup es] \/ publishedTo' = publishedTo,
             row.status # "none",
             row.status = "deleted" \/ Exists(s) \/ shifts[s].status = "none"
      PROVE  /\ RosterTypeOK'
             /\ \A x \in Shift : publishedTo[x] \subseteq publishedTo'[x]
             /\ \A x \in Shift : shifts[x].status # "none" => shifts'[x].status # "none"
             /\ \A x \in Shift : Exists(x)' => Exists(x) \/ shifts[x].status = "none"
  <2>1. \A x \in Shift : publishedTo[x] \subseteq publishedTo'[x]
    BY <1>1, <1>3
  <2>2. \A x \in Shift : shifts'[x] = IF x = s THEN row ELSE shifts[x]
    BY <1>1, <1>3
  <2>3. RosterTypeOK'
    BY <1>1, <1>3 DEF RosterTypeOK
  <2>4. \A x \in Shift : Exists(x)' => Exists(x) \/ shifts[x].status = "none"
    BY <1>3, <2>2 DEF Exists
  <2> QED
    BY <1>3, <2>1, <2>2, <2>3, <2>4
<1>4. CASE ManageShift
  <2>1. PICK s \in Shift :
          \/ PublishShift(s)
          \/ \E e \in Employee : CreateShift(s, e) \/ UpdateShift(s, e)
    BY <1>4 DEF ManageShift
  <2>2. CASE PublishShift(s)
    <3> DEFINE row == [shifts[s] EXCEPT !.status = "published"]
    <3>1. row \in ShiftRow /\ row.status = "published"
      BY <1>1, <2>2 DEF ShiftRow, PublishShift, Exists
    <3>2. /\ shifts' = [shifts EXCEPT ![s] = row] /\ Exists(s)
          /\ publishedTo' = [publishedTo EXCEPT ![s] = @ \cup {shifts[s].owner}]
      BY <1>1, <2>2 DEF PublishShift
    <3>3. {shifts[s].owner} \in SUBSET Employee /\ row.status # "none"
      BY <1>1, <3>1, <3>2 DEF ShiftRow, Exists
    <3> HIDE DEF row
    <3> QED
      BY <1>3, <3>1, <3>2, <3>3
  <2>3. ASSUME NEW e \in Employee, CreateShift(s, e) PROVE
             /\ RosterTypeOK'
             /\ \A x \in Shift : publishedTo[x] \subseteq publishedTo'[x]
             /\ \A x \in Shift : shifts[x].status # "none" => shifts'[x].status # "none"
             /\ \A x \in Shift : Exists(x)' => Exists(x) \/ shifts[x].status = "none"
    <3> DEFINE row == [status |-> "draft", owner |-> e]
    <3>1. row \in ShiftRow /\ row.status = "draft"
      BY DEF ShiftRow
    <3>2. /\ shifts' = [shifts EXCEPT ![s] = row] /\ shifts[s].status = "none"
          /\ publishedTo' = publishedTo
      BY <2>3 DEF CreateShift
    <3> HIDE DEF row
    <3> QED
      BY <1>3, <3>1, <3>2
  <2>4. ASSUME NEW e \in Employee, UpdateShift(s, e) PROVE
             /\ RosterTypeOK'
             /\ \A x \in Shift : publishedTo[x] \subseteq publishedTo'[x]
             /\ \A x \in Shift : shifts[x].status # "none" => shifts'[x].status # "none"
             /\ \A x \in Shift : Exists(x)' => Exists(x) \/ shifts[x].status = "none"
    <3> DEFINE row == [shifts[s] EXCEPT !.owner = e]
    <3>1. row \in ShiftRow /\ row.status = shifts[s].status
      BY <1>1, <2>4 DEF ShiftRow, UpdateShift, Exists
    <3>2. /\ shifts' = [shifts EXCEPT ![s] = row] /\ Exists(s)
          /\ publishedTo' = [publishedTo EXCEPT ![s] = @ \cup {e}] \/ publishedTo' = publishedTo
      BY <2>4 DEF UpdateShift
    <3>3. {e} \in SUBSET Employee /\ row.status # "none"
      BY <3>1, <3>2 DEF Exists
    <3> HIDE DEF row
    <3> QED
      BY <1>3, <3>1, <3>2, <3>3
  <2> QED
    BY <2>1, <2>2, <2>3, <2>4
<1>5. ASSUME NEW s \in Shift, DeleteShift(s) PROVE
             /\ RosterTypeOK'
             /\ \A x \in Shift : publishedTo[x] \subseteq publishedTo'[x]
             /\ \A x \in Shift : shifts[x].status # "none" => shifts'[x].status # "none"
             /\ \A x \in Shift : Exists(x)' => Exists(x) \/ shifts[x].status = "none"
  <2> DEFINE row == [status |-> "deleted", owner |-> NoEmployee]
  <2>1. row \in ShiftRow /\ row.status = "deleted"
    BY DEF ShiftRow
  <2>2. /\ shifts' = [shifts EXCEPT ![s] = row]
        /\ publishedTo' = [publishedTo EXCEPT ![s] = @ \cup {}]
    BY <1>1, <1>5 DEF DeleteShift, RemoveShift
  <2>3. {} \in SUBSET Employee /\ row.status # "none"
    BY <2>1
  <2> HIDE DEF row
  <2> QED
    BY <1>3, <2>1, <2>2, <2>3
<1>6. CASE ManageEmployee \/ \E r \in Request : Serve(r)
  <2>1. UNCHANGED <<shifts, publishedTo>>
    BY <1>6, ServeTables DEF ManageEmployee
  <2> QED
    BY <1>2, <2>1
<1> QED
  BY <1>4, <1>5, <1>6 DEF Next

LEMMA LinksKept ==
  ASSUME IdentityTypeOK, LinksLive, Next
  PROVE  LinksLive'
<1>1. employees \in [Employee -> EmployeeRow]
  BY DEF IdentityTypeOK
<1>2. CASE UNCHANGED employees
  BY <1>2 DEF LinksLive
<1>3. CASE ManageEmployee
  <2>1. PICK e \in Employee :
          \/ \E u \in User \cup {NoUser} : CreateEmployee(e, u)
          \/ \E u \in User : SetEmployeeUserID(e, u)
          \/ DeleteEmployee(e, ShiftOwners \cup Attending)
    BY <1>3 DEF ManageEmployee
  <2>2. ASSUME NEW row, employees' = [employees EXCEPT ![e] = row],
               row.row # "live" => row.user = NoUser
        PROVE  LinksLive'
    BY <1>1, <2>2 DEF LinksLive
  <2>3. ASSUME NEW u, CreateEmployee(e, u) PROVE LinksLive'
    <3>1. employees' = [employees EXCEPT ![e] = [row |-> "live", user |-> u]]
      BY <2>3 DEF CreateEmployee
    <3> QED
      BY <2>2, <3>1
  <2>4. ASSUME NEW u, SetEmployeeUserID(e, u) PROVE LinksLive'
    <3>1. employees' = [employees EXCEPT ![e] = [employees[e] EXCEPT !.user = u]]
      BY <2>4 DEF SetEmployeeUserID
    <3>2. [employees[e] EXCEPT !.user = u].row = "live"
      BY <1>1, <2>4 DEF SetEmployeeUserID, Live, EmployeeRow
    <3> QED
      BY <2>2, <3>1, <3>2
  <2>5. ASSUME DeleteEmployee(e, ShiftOwners \cup Attending) PROVE LinksLive'
    <3>1. employees' = [employees EXCEPT ![e] = [row |-> "deleted", user |-> NoUser]]
      BY <2>5 DEF DeleteEmployee
    <3> QED
      BY <2>2, <3>1
  <2> QED
    BY <2>1, <2>3, <2>4, <2>5
<1> QED
  BY <1>2, <1>3, ServeTables DEF Next, DeleteShift, ManageShift

(* A login resolves to another employee only when some link changes.        *)
LEMMA ResolvedKept ==
  ASSUME LinksLive, LinksLive', NEW u \in User,
         \A e \in Employee : employees'[e].user = employees[e].user
  PROVE  Resolved(u)' = Resolved(u)
<1>1. EmployeesOfUser(u) = {e \in Employee : employees[e].user = u}
  BY IdentityAssumption DEF LinksLive, EmployeesOfUser, Live
<1>2. EmployeesOfUser(u)' = {e \in Employee : employees'[e].user = u}
  BY IdentityAssumption DEF LinksLive, EmployeesOfUser, Live
<1>3. EmployeesOfUser(u)' = EmployeesOfUser(u)
  BY <1>1, <1>2
<1> QED
  BY <1>3 DEF Resolved

(* Recorded rows stay, with their employee; owners are only added.          *)
LEMMA HistoryGrows ==
  ASSUME IInv, Next
  PROVE  /\ \A c \in ClientId : Recorded(c) =>
              Recorded(c)' /\ records'[c].employee = records[c].employee
         /\ \A s \in Shift : publishedTo[s] \subseteq publishedTo'[s]
<1>1. ASSUME NEW c \in ClientId, Recorded(c)
      PROVE  Recorded(c)' /\ records'[c].employee = records[c].employee
  <2>1. RowChange(c) /\ records[c] \in Row
    BY <1>1, RowChanges DEF IInv, TypeOK
  <2> QED
    BY <1>1, <2>1 DEF RowChange, Row, CheckedOut, BreakSet, Recorded
<1> QED
  BY <1>1, ShiftSteps DEF IInv, TypeOK

-----------------------------------------------------------------------------
(* A report while the backend goes on. *)

LEMMA ViewOutlives ==
  ASSUME ReportsInv, NEW q \in ReportState, ViewSound(q),
         q.pc # "start", q.user = NoUser, q.code # 500,
         NEW to, to.pc = q.pc, to.window = q.window, to.owners = q.owners, to.rows = q.rows,
         to.named = q.named, to.touched = q.touched \cup {s \in Shift : Changes(s)}
  PROVE  ViewSound(to)'
<1> SUFFICES ASSUME NEW s \in to.window \ to.touched
             PROVE  /\ (s \in ListedShifts(to)) <=> (shifts'[s].status = "published")
                    /\ s \in ListedShifts(to) =>
                         /\ to.owners[s] = shifts'[s].owner
                         /\ to.pc # "attendance" => RowShown(to, s)'
                         /\ to.pc = "done" => to.owners[s] \in to.named
  BY DEF ViewSound, ListedShifts
<1>1. s \in Shift /\ s \in q.window \ q.touched /\ ~Changes(s)
  BY DEF ReportState
<1>2. ListedShifts(to) = ListedShifts(q)
  BY DEF ListedShifts
<1>3. shifts'[s] = shifts[s]
  BY <1>1 DEF Changes
<1>4. \A c \in ClientId : records'[c] # records[c] =>
        s # records[c].shift /\ s # records'[c].shift
  BY <1>1 DEF Changes
<1>5. LinkedTo(s)' = LinkedTo(s) /\ \A c \in LinkedTo(s) : records'[c] = records[c]
  BY <1>4 DEF LinkedTo, Recorded
<1>6. {records[c] : c \in LinkedTo(s)}' = {records[c] : c \in LinkedTo(s)}
  BY <1>5
<1>7. RowShown(q, s) => RowShown(to, s)'
  BY <1>5, <1>6 DEF RowShown
<1> QED
  BY <1>1, <1>2, <1>3, <1>7 DEF ViewSound

LEMMA StatsOutlive ==
  ASSUME ReportsInv, Next, LinksLive', NEW q \in ReportState, StatsSound(q),
         NEW to, to.pc = q.pc, to.user = q.user, to.employee = q.employee, to.mine = q.mine,
         to.own = q.own, to.month = q.month, to.starts = q.starts,
         \A s \in Listed(q) \ to.touched : s \notin q.touched /\ shifts'[s] = shifts[s],
         ~to.relinked /\ Resolving(q) =>
            /\ ~q.relinked
            /\ \A e \in Employee : employees'[e].user = employees[e].user,
         ~to.relinked => ~q.relinked
  PROVE  StatsSound(to)'
<1>1. IInv /\ LinksLive
  BY DEF ReportsInv
<1>2. Resolving(q) =>
        /\ q.user \in User /\ q.employee \in Employee
        /\ ~to.relinked => q.employee = Resolved(q.user)'
  BY <1>1, ResolvedKept DEF StatsSound
<1>3. \A c \in ClientId : q.mine[c].status # "none" =>
        Recorded(c)' /\ records'[c].employee = q.employee
  BY <1>1, HistoryGrows DEF StatsSound
<1>4. \A c \in ClientId : q.mine[c].shift # NoShift =>
        q.employee \in publishedTo'[q.mine[c].shift]
  <2>1. \A c \in ClientId : q.mine[c].shift \in Shift \cup {NoShift}
    BY DEF ReportState, Row
  <2> QED
    BY <1>1, <2>1, HistoryGrows DEF StatsSound
<1>5. ~to.relinked => \A s \in Listed(q) \ to.touched :
        Exists(s)' /\ shifts'[s].owner = q.employee
  BY DEF StatsSound, Exists
<1>6. Listed(to) = Listed(q)
  BY DEF Listed
<1> QED
  BY <1>2, <1>3, <1>4, <1>5, <1>6 DEF StatsSound, Resolving, Listing

LEMMA MeanwhileKeeps == ASSUME ReportsInv, Meanwhile PROVE ReportsInv'
<1>1. Next /\ reports' = [p \in Report |-> Watched(reports[p])]
  BY DEF Meanwhile
<1>2. IInv /\ IInv' /\ LinksLive /\ LinksLive'
  <2>1. IInv'
    BY <1>1, NextInv DEF ReportsInv
  <2> QED
    BY <1>1, <2>1, LinksKept DEF ReportsInv, IInv, TypeOK
<1>3. ASSUME NEW p \in Report
      PROVE  \E to \in ReportState : to = reports'[p] /\ ReportInv(to)'
  <2> DEFINE q == reports[p]
  <2>0. PICK to : to = reports'[p]
    OBVIOUS
  <2>1. q \in ReportState /\ ReportInv(q) /\ to = Watched(q)
    BY <1>1, <2>0, ReportCurrent
  <2>2. CASE q.pc = "start" \/ q.code = 500
    <3>1. to = q
      BY <2>1, <2>2 DEF Watched
    <3>2. StatsSound(to)'
      <4>1. ~Resolving(q)
        BY <2>1, <2>2 DEF ReportInv, Resolving
      <4>2. Listed(q) = {}
        BY <2>1, <2>2, FreshReport DEF ReportInv, Listed
      <4> QED
        BY <1>1, <1>2, <2>1, <3>1, <4>1, <4>2, StatsOutlive DEF ReportInv
    <3>3. ViewSound(to)'
      BY <2>2, <3>1 DEF ViewSound
    <3>4. ReportInv(to)'
      BY <2>1, <3>1, <3>2, <3>3 DEF ReportInv
    <3> QED
      BY <2>0, <2>1, <3>1, <3>4
  <2>3. CASE ~(q.pc = "start" \/ q.code = 500) /\ q.user = NoUser
    <3> DEFINE new == {s \in Shift : Changes(s)}
    <3>1. to = [q EXCEPT !.touched = @ \cup new]
      BY <2>1, <2>3 DEF Watched
    <3>2. q.touched \cup new \in ShiftSets
      BY <2>1 DEF ReportState, ShiftSets
    <3>3. to \in ReportState
      BY <2>1, <3>1, <3>2, Shape
    <3>4. /\ to.pc = q.pc /\ to.user = q.user /\ to.code = q.code /\ to.window = q.window
          /\ to.owners = q.owners /\ to.rows = q.rows /\ to.named = q.named
          /\ to.employee = q.employee /\ to.mine = q.mine /\ to.month = q.month
          /\ to.starts = q.starts /\ to.relinked = q.relinked /\ to.own = q.own
          /\ to.touched = q.touched \cup new
      BY <2>1, <3>1 DEF ReportState
    <3>5. ViewSound(to)'
      BY <2>1, <2>3, <3>4, ViewOutlives DEF ReportInv
    <3>6. ~Resolving(q)
      BY <2>1, <2>3, IdentityAssumption DEF ReportInv, StatsSound
    <3>7. \A s \in Listed(q) \ to.touched : s \notin q.touched /\ shifts'[s] = shifts[s]
      BY <2>1, <3>4 DEF Listed, Changes, ReportState
    <3>8. StatsSound(to)'
      BY <1>1, <1>2, <2>1, <3>4, <3>6, <3>7, StatsOutlive DEF ReportInv
    <3>9. ReportInv(to)'
      BY <2>1, <2>3, <3>4, <3>5, <3>8 DEF ReportInv
    <3> QED
      BY <2>0, <3>3, <3>9
  <2>4. CASE ~(q.pc = "start" \/ q.code = 500) /\ q.user # NoUser
    <3> DEFINE moved == \E e \in Employee : employees[e].user # employees'[e].user
               new == {s \in Shift : shifts'[s] # shifts[s]}
    <3>1. to = [q EXCEPT !.touched = @ \cup new, !.relinked = @ \/ moved]
      BY <2>1, <2>4 DEF Watched
    <3>2. /\ q.relinked \in BOOLEAN /\ (q.relinked \/ moved) \in BOOLEAN
          /\ q.touched \cup new \in ShiftSets
      BY <2>1 DEF ReportState, ShiftSets
    <3>3. to \in ReportState
      BY <2>1, <3>1, <3>2, Shape
    <3>4. /\ to.pc = q.pc /\ to.user = q.user /\ to.code = q.code
          /\ to.employee = q.employee /\ to.mine = q.mine /\ to.month = q.month
          /\ to.starts = q.starts /\ to.own = q.own
          /\ to.relinked = (q.relinked \/ moved) /\ to.touched = q.touched \cup new
      BY <2>1, <3>1 DEF ReportState
    <3>5. ViewSound(to)'
      BY <2>4, <3>4 DEF ViewSound
    <3>6. ~to.relinked => ~q.relinked /\ ~moved
      BY <3>4
    <3>7. \A s \in Listed(q) \ to.touched : s \notin q.touched /\ shifts'[s] = shifts[s]
      BY <2>1, <3>4 DEF Listed, ReportState
    <3>8. StatsSound(to)'
      BY <1>1, <1>2, <2>1, <3>4, <3>6, <3>7, StatsOutlive DEF ReportInv
    <3>9. ReportInv(to)'
      BY <2>1, <2>4, <3>4, <3>5, <3>8 DEF ReportInv
    <3> QED
      BY <2>0, <3>3, <3>9
  <2> QED
    BY <2>2, <2>3, <2>4
<1>4. reports' \in [Report -> ReportState]
  BY <1>1, <1>3
<1>5. ASSUME NEW p \in Report PROVE ReportInv(reports[p])'
  <2>1. PICK to : to = reports'[p] /\ ReportInv(to)'
    BY <1>3
  <2> QED
    BY <2>1 DEF ReportInv, ViewSound, StatsSound, RowShown, ListedShifts, Resolving, Listing,
       Listed, Failed, NewReport, Reported, NoRow
<1> QED
  BY <1>2, <1>4, <1>5 DEF ReportsInv

-----------------------------------------------------------------------------
(* The invariant of the reports. *)

LEMMA ReportsInitInv == ReportsInit => ReportsInv
<1> SUFFICES ASSUME ReportsInit PROVE ReportsInv
  OBVIOUS
<1>1. IInv
  BY InitInv DEF ReportsInit
<1>2. LinksLive
  BY DEF ReportsInit, Init, IdentityInit, LinksLive
<1>3. ReportInv(NewReport)
  <2>1. NewReport.pc = "start"
    BY DEF NewReport
  <2> QED
    BY <2>1, FreshReport DEF ReportInv, ViewSound, StatsSound, Resolving, Listing, Listed
<1> QED
  BY <1>1, <1>2, <1>3, FreshReport DEF ReportsInit, ReportsInv

LEMMA ReportsNextInv == ReportsInv /\ [ReportsNext]_reportVars => ReportsInv'
<1> SUFFICES ASSUME ReportsInv, [ReportsNext]_reportVars PROVE ReportsInv'
  OBVIOUS
<1>1. CASE UNCHANGED reportVars
  <2>1. UNCHANGED <<employees, shifts, publishedTo, records, requests, now, reports>>
    BY <1>1 DEF reportVars
  <2>2. IInv'
    <3>1. UNCHANGED vars
      BY <2>1 DEF vars
    <3> QED
      BY <3>1, NextInv DEF ReportsInv
  <2>3. ASSUME NEW p \in Report PROVE ReportInv(reports[p])'
    <3>1. ReportInv(reports[p])
      BY DEF ReportsInv
    <3> QED
      BY <2>1, <3>1 DEF ReportInv, ViewSound, StatsSound, RowShown, LinkedTo, ListedShifts,
         Recorded, Resolved, EmployeesOfUser, Live, Resolving, Listing, Listed, Exists
  <2> QED
    BY <2>1, <2>2, <2>3 DEF ReportsInv, LinksLive
<1>2. ASSUME NEW p \in Report, ReportFails(p) PROVE ReportsInv'
  BY <1>2, ReportFailsKeeps DEF ReportFails
<1> QED
  BY <1>1, <1>2, MeanwhileKeeps, ListPublishedKeeps, ListByShiftIDsKeeps, ListEmployeesKeeps,
     ResolveCallerKeeps, ResolveAgainKeeps, ListMonthKeeps, ListMineKeeps, ListStartsKeeps,
     GetHiredKeeps
     DEF ReportsNext, ResolveForMonth, ResolveForStarts

THEOREM ReportsInvariance == ReportsSpec => []ReportsInv
BY ReportsInitInv, ReportsNextInv, PTL DEF ReportsSpec

(* The tables and the reports have their types. *)
THEOREM ReportsTypeCorrect == ReportsSpec => []ReportsTypeOK
<1>1. ReportsInv => ReportsTypeOK
  BY DEF ReportsInv, IInv, ReportsTypeOK
<1> QED
  BY <1>1, ReportsInvariance, PTL

(* A live view is exact for every shift that nobody touches between its     *)
(* three reads, whatever happens to the others (liveview/service.go 58-112). *)
THEOREM ViewsExact == ReportsSpec => []ViewExact
<1>1. ReportsInv => ViewExact
  <2> SUFFICES ASSUME ReportsInv, NEW p \in Report, reports[p].pc = "done",
                      reports[p].user = NoUser, reports[p].code = 200,
                      NEW s \in reports[p].window \ reports[p].touched
               PROVE  /\ (s \in ListedShifts(reports[p])) <=> (shifts[s].status = "published")
                      /\ s \in ListedShifts(reports[p]) =>
                           /\ reports[p].owners[s] = shifts[s].owner
                           /\ reports[p].owners[s] \in reports[p].named
                           /\ RowShown(reports[p], s)
    BY DEF ViewExact, RowShown
  <2> QED
    BY ReportCurrent DEF ReportInv, ViewSound
<1> QED
  BY <1>1, ReportsInvariance, PTL

(* Statistics count the hours and the shifts of one employee, however often *)
(* the login is resolved; see StatsOfOneEmployee                            *)
(* (stats/service.go 53-138, roster/service.go 207-223).                    *)
THEOREM StatsAgree == ReportsSpec => []StatsOfOneEmployee
<1>1. ReportsInv => StatsOfOneEmployee
  <2> SUFFICES ASSUME ReportsInv, NEW p \in Report
               PROVE  LET q == reports[p] IN
                      /\ \A c \in Worked(q, 0) : records[c].employee = q.employee
                      /\ \A s \in Considered(q) : q.employee \in publishedTo[s]
                      /\ ~q.relinked => \A s \in (q.month \cup Considered(q)) \ q.touched :
                                          Exists(s) /\ shifts[s].owner = q.employee
    BY DEF StatsOfOneEmployee
  <2> DEFINE q == reports[p]
  <2>1. StatsSound(q)
    BY ReportCurrent DEF ReportInv
  <2>2. Considered(q) \subseteq q.starts
    BY DEF Considered
  <2>3. \A s \in Considered(q) : q.employee \in publishedTo[s]
    BY <2>1 DEF StatsSound, Considered, CheckedInShifts
  <2>4. \A c \in Worked(q, 0) : records[c].employee = q.employee
    BY <2>1 DEF StatsSound, Worked
  <2>5. ~q.relinked => \A s \in (q.month \cup Considered(q)) \ q.touched :
                         Exists(s) /\ shifts[s].owner = q.employee
    BY <2>1, <2>2 DEF StatsSound, Listed
  <2> QED
    BY <2>3, <2>4, <2>5
<1> QED
  BY <1>1, ReportsInvariance, PTL

-----------------------------------------------------------------------------
(* The demo seeder.  It deletes attendance, so that the invariant of the    *)
(* attendance service does not hold beside it; its types do.                *)

Placed(q) ==
  q.pc \in {"lookup", "validate", "insert", "reread", "update"} => q.client \in ClientId

Typed == TypeOK /\ \A r \in Request : Placed(requests[r])

LEMMA MoveTyped ==
  ASSUME Typed, ReadOnly, NEW r \in Request, NEW q \in RequestState, Placed(q),
         requests' = [requests EXCEPT ![r] = q]
  PROVE  Typed'
<1>1. requests' \in [Request -> RequestState] /\ \A x \in Request : Placed(requests'[x])
  BY DEF Typed, TypeOK
<1>2. TypeOK'
  BY <1>1 DEF Typed, TypeOK, ReadOnly, IdentityTypeOK, RosterTypeOK
<1>3. (\A x \in Request : Placed(requests[x]))'
  BY <1>1 DEF Placed
<1> QED
  BY <1>2, <1>3 DEF Typed

LEMMA GoTyped ==
  ASSUME Typed, ReadOnly, NEW r \in Request,
         NEW label \in {"lookup", "validate", "insert", "reread", "update"},
         Goto(r, label), requests[r].client \in ClientId
  PROVE  Typed'
<1>1. requests[r] \in RequestState
  BY DEF Typed, TypeOK
<1>2. Moved(requests[r], label) \in RequestState /\ Placed(Moved(requests[r], label))
  BY <1>1, RequestTypes, RequestFields DEF Placed
<1>3. requests' = [requests EXCEPT ![r] = Moved(requests[r], label)]
  BY DEF Goto
<1> QED
  BY <1>2, <1>3, MoveTyped

LEMMA AnswerTyped ==
  ASSUME Typed, ReadOnly, NEW r \in Request, NEW code \in Code, NEW row \in Row,
         Answer(r, code, row)
  PROVE  Typed'
<1>1. requests[r] \in RequestState
  BY DEF Typed, TypeOK
<1>2. Answered(requests[r], code, row) \in RequestState /\ Placed(Answered(requests[r], code, row))
  BY <1>1, RequestTypes, RequestFields DEF Placed
<1>3. requests' = [requests EXCEPT ![r] = Answered(requests[r], code, row)]
  BY DEF Answer
<1> QED
  BY <1>2, <1>3, MoveTyped

LEMMA WriteTyped ==
  ASSUME Typed, NEW r \in Request, NEW code \in Code, NEW row \in Row,
         requests[r].client \in ClientId, Write(r, code, row), now' = now + 1
  PROVE  Typed'
<1>1. TypeOK'
  BY WriteTypes DEF Typed
<1>2. requests \in [Request -> RequestState]
  BY DEF Typed, TypeOK
<1>3. PICK k, shown : requests' = [requests EXCEPT ![r] = Answered(requests[r], k, shown)]
  <2>1. ASSUME NEW k, NEW shown, Answer(r, k, shown)
        PROVE  \E j, seen : requests' = [requests EXCEPT ![r] = Answered(requests[r], j, seen)]
    BY <2>1, Zenon DEF Answer
  <2>2. \/ Answer(r, code, row)
        \/ \E k : Answer(r, k, NoRow)
    BY Zenon DEF Write
  <2> QED
    BY <2>1, <2>2
<1>4. requests'[r].pc = "done"
  BY <1>2, <1>3, RequestFields
<1>5. \A x \in Request : x # r => requests'[x] = requests[x]
  BY <1>2, <1>3
<1>6. (\A x \in Request : Placed(requests[x]))'
  BY <1>4, <1>5 DEF Typed, Placed
<1> QED
  BY <1>1, <1>6 DEF Typed

LEMMA Answers200 == 200 \in Code /\ 201 \in Code /\ 400 \in Code /\ 404 \in Code
                    /\ 409 \in Code /\ 500 \in Code
BY DEF Code

LEMMA ResolveTyped == ASSUME Typed, NEW r \in Request, Resolve(r) PROVE Typed'
<1>1. requests[r] \in RequestState /\ ReadOnly
  BY DEF Typed, TypeOK, Resolve
<1>2. PICK op \in Op, c \in ClientId \cup {NoClient}, u \in User, s \in Shift \cup {NoShift} :
        \/ \E e \in EmployeesOfUser(u) :
             c # NoClient /\ requests' = [requests EXCEPT ![r] = Called(@, op, c, s, e)]
        \/ requests' = [requests EXCEPT ![r] = Refused(@, op, c, s, 400)]
        \/ requests' = [requests EXCEPT ![r] = Refused(@, op, c, s, 500)]
  BY DEF Resolve
<1>3. ASSUME NEW e \in EmployeesOfUser(u), c # NoClient,
             requests' = [requests EXCEPT ![r] = Called(@, op, c, s, e)]
      PROVE  Typed'
  <2>1. e \in Employee
    BY DEF EmployeesOfUser
  <2>2. Called(requests[r], op, c, s, e) \in RequestState
    BY <1>1, <2>1, RequestTypes
  <2>3. Placed(Called(requests[r], op, c, s, e))
    <3>1. Called(requests[r], op, c, s, e).client = c
      BY <1>1, RequestFields
    <3> QED
      BY <1>3, <3>1 DEF Placed
  <2> QED
    BY <1>1, <1>3, <2>2, <2>3, MoveTyped
<1>4. ASSUME NEW code \in Code, requests' = [requests EXCEPT ![r] = Refused(@, op, c, s, code)]
      PROVE  Typed'
  <2>1. Refused(requests[r], op, c, s, code) \in RequestState
    BY <1>1, RequestTypes
  <2>2. Refused(requests[r], op, c, s, code).pc = "done"
    BY <1>1, RequestFields
  <2> QED
    BY <1>1, <1>4, <2>1, <2>2, MoveTyped DEF Placed
<1> DEFINE Refuses(code) == requests' = [requests EXCEPT ![r] = Refused(@, op, c, s, code)]
<1>5. Refuses(400) \/ Refuses(500) => Typed'
  <2>1. \A code \in Code : Refuses(code) => Typed'
    BY <1>4
  <2> HIDE DEF Refuses
  <2> QED
    BY <2>1, Answers200, SMT
<1> QED
  BY <1>2, <1>3, <1>5

LEMMA ServeTyped == ASSUME Typed, NEW r \in Request, Serve(r) PROVE Typed'
<1> DEFINE q == requests[r]
<1>1. q \in RequestState /\ Placed(q) /\ TypeOK /\ NoRow \in Row
  BY RowTypes DEF Typed, TypeOK
<1>2. q.client \in ClientId => records[q.client] \in Row
  BY <1>1 DEF TypeOK
<1>3. CASE Resolve(r)
  BY <1>3, ResolveTyped
<1>4. CASE LookupForCheckIn(r)
  <2>1. q.client \in ClientId /\ ReadOnly
    BY <1>1, <1>4 DEF LookupForCheckIn, At, Placed
  <2>2. \/ Goto(r, "insert") \/ Goto(r, "validate")
        \/ Answer(r, 200, records[q.client]) \/ Answer(r, 409, NoRow)
    BY <1>4 DEF LookupForCheckIn
  <2> QED
    BY <1>1, <1>2, <2>1, <2>2, Answers200, GoTyped, AnswerTyped
<1>5. CASE ValidateOwnShift(r)
  <2>1. q.client \in ClientId /\ ReadOnly
    BY <1>1, <1>5 DEF ValidateOwnShift, At, Placed
  <2> QED
    BY <1>1, <1>5, <2>1, Answers200, GoTyped, AnswerTyped DEF ValidateOwnShift
<1>6. CASE InsertCheckIn(r)
  <2>1. q.client \in ClientId
    BY <1>1, <1>6 DEF InsertCheckIn, At, Placed
  <2>2. \/ Goto(r, "reread") /\ ReadOnly
        \/ Answer(r, 400, NoRow) /\ ReadOnly
        \/ /\ ReferencesHold(q.employee, q.shift)
           /\ Write(r, 201, CheckedIn(q.employee, q.shift)) /\ now' = now + 1
    BY <1>6 DEF InsertCheckIn
  <2>3. ReferencesHold(q.employee, q.shift) => CheckedIn(q.employee, q.shift) \in Row
    <3>1. ReferencesHold(q.employee, q.shift) => q.employee \in Employee
      BY DEF ReferencesHold, Live
    <3>2. q.shift \in Shift \cup {NoShift}
      BY <1>1 DEF RequestState
    <3> QED
      BY <1>1, <3>1, <3>2, RowTypes
  <2> QED
    BY <1>1, <2>1, <2>2, <2>3, Answers200, GoTyped, AnswerTyped, WriteTyped
<1>7. CASE RereadAfterConflict(r)
  <2>1. q.client \in ClientId /\ ReadOnly
    BY <1>1, <1>7 DEF RereadAfterConflict, At, Placed
  <2> QED
    BY <1>1, <1>2, <1>7, <2>1, Answers200, AnswerTyped DEF RereadAfterConflict
<1>8. CASE LookupForCheckOut(r)
  <2>1. q.client \in ClientId /\ ReadOnly
    BY <1>1, <1>8 DEF LookupForCheckOut, At, Placed
  <2>2. Answer(r, 404, NoRow) \/ Answer(r, 200, records[q.client]) \/ Goto(r, "update")
    BY <1>8 DEF LookupForCheckOut
  <2> QED
    BY <1>1, <1>2, <2>1, <2>2, Answers200, GoTyped, AnswerTyped
<1>9. CASE UpdateCheckOut(r)
  <2>1. q.client \in ClientId
    BY <1>1, <1>9 DEF UpdateCheckOut, At, Placed
  <2>2. \/ Answer(r, 404, NoRow) /\ ReadOnly
        \/ Write(r, 200, CheckedOut(records[q.client])) /\ now' = now + 1
    BY <1>9 DEF UpdateCheckOut
  <2>3. CheckedOut(records[q.client]) \in Row
    BY <1>1, <1>2, <2>1, RowTypes
  <2> QED
    BY <1>1, <2>1, <2>2, <2>3, Answers200, AnswerTyped, WriteTyped
<1>10. CASE LookupForBreak(r)
  <2>1. q.client \in ClientId /\ ReadOnly
    BY <1>1, <1>10 DEF LookupForBreak, At, Placed
  <2>2. \/ Answer(r, 404, NoRow) \/ Answer(r, 200, records[q.client]) \/ Goto(r, "update")
        \/ Answer(r, 400, NoRow)
    BY <1>10 DEF LookupForBreak
  <2> QED
    BY <1>1, <1>2, <2>1, <2>2, Answers200, GoTyped, AnswerTyped
<1>11. CASE UpdateBreak(r)
  <2>1. q.client \in ClientId /\ q.op \in Op
    BY <1>1, <1>11 DEF UpdateBreak, At, Placed, Op
  <2>2. \/ Answer(r, 404, NoRow) /\ ReadOnly
        \/ Write(r, 200, BreakSet(records[q.client], q.op)) /\ now' = now + 1
    BY <1>11 DEF UpdateBreak
  <2>3. BreakSet(records[q.client], q.op) \in Row
    BY <1>1, <1>2, <2>1, RowTypes
  <2> QED
    BY <1>1, <2>1, <2>2, <2>3, Answers200, AnswerTyped, WriteTyped
<1>12. CASE Fail(r)
  BY <1>1, <1>12, Answers200, AnswerTyped DEF Fail
<1> QED
  BY <1>3, <1>4, <1>5, <1>6, <1>7, <1>8, <1>9, <1>10, <1>11, <1>12 DEF Serve

LEMMA NextTyped == ASSUME Typed, Next PROVE Typed'
<1>1. /\ IdentityTypeOK /\ RosterTypeOK /\ records \in [ClientId -> Row]
      /\ requests \in [Request -> RequestState] /\ now \in Nat
  BY DEF Typed, TypeOK
<1>2. RosterTypeOK'
  BY <1>1, ShiftSteps
<1>3. ASSUME UNCHANGED <<requests, now>>, records' \in [ClientId -> Row], IdentityTypeOK'
      PROVE  Typed'
  BY <1>1, <1>2, <1>3 DEF Typed, TypeOK, Placed
<1>4. ASSUME NEW s \in Shift, DeleteShift(s) PROVE Typed'
  <2>1. records' \in [ClientId -> Row]
    BY <1>4, RowTypes DEF Typed, DeleteShift
  <2> QED
    BY <1>1, <1>3, <1>4, <2>1 DEF DeleteShift, IdentityTypeOK
<1>5. CASE ManageShift
  BY <1>1, <1>3, <1>5 DEF ManageShift, IdentityTypeOK
<1>6. CASE ManageEmployee
  <2>1. PICK e \in Employee :
          \/ \E u \in User \cup {NoUser} : CreateEmployee(e, u)
          \/ \E u \in User : SetEmployeeUserID(e, u)
          \/ DeleteEmployee(e, ShiftOwners \cup Attending)
    BY <1>6 DEF ManageEmployee
  <2>2. PICK row \in EmployeeRow : employees' = [employees EXCEPT ![e] = row]
    <3>1. ASSUME NEW u \in User \cup {NoUser}, CreateEmployee(e, u)
          PROVE  \E row \in EmployeeRow : employees' = [employees EXCEPT ![e] = row]
      <4>1. [row |-> "live", user |-> u] \in EmployeeRow
        BY DEF EmployeeRow
      <4> QED
        BY <3>1, <4>1 DEF CreateEmployee
    <3>2. ASSUME NEW u \in User, SetEmployeeUserID(e, u)
          PROVE  \E row \in EmployeeRow : employees' = [employees EXCEPT ![e] = row]
      <4>1. [employees[e] EXCEPT !.user = u] \in EmployeeRow
        BY <1>1 DEF IdentityTypeOK, EmployeeRow
      <4>2. employees' = [employees EXCEPT ![e] = [employees[e] EXCEPT !.user = u]]
        BY <3>2 DEF SetEmployeeUserID
      <4> QED
        BY <4>1, <4>2
    <3>3. ASSUME DeleteEmployee(e, ShiftOwners \cup Attending)
          PROVE  \E row \in EmployeeRow : employees' = [employees EXCEPT ![e] = row]
      <4>1. [row |-> "deleted", user |-> NoUser] \in EmployeeRow
        BY DEF EmployeeRow
      <4> QED
        BY <3>3, <4>1 DEF DeleteEmployee
    <3> QED
      BY <2>1, <3>1, <3>2, <3>3
  <2>3. IdentityTypeOK'
    BY <1>1, <2>2 DEF IdentityTypeOK
  <2> QED
    BY <1>1, <1>3, <1>6, <2>3 DEF ManageEmployee
<1> QED
  BY <1>4, <1>5, <1>6, ServeTyped DEF Next

(* A row stays, loses its shift, or is written by a request that names it.  *)
LEMMA RowSteps ==
  ASSUME Typed, Next, NEW c \in ClientId
  PROVE  \/ records'[c] = records[c]
         \/ records'[c] = [records[c] EXCEPT !.shift = NoShift]
         \/ records'[c].status # "none" /\ \E r \in Request : requests'[r].client = c
<1>1. records \in [ClientId -> Row] /\ requests \in [Request -> RequestState]
  BY DEF Typed, TypeOK
<1>2. ASSUME NEW r \in Request, NEW code, NEW row, Write(r, code, row), row.status # "none"
      PROVE  \/ records'[c] = records[c]
             \/ records'[c].status # "none" /\ requests'[r].client = c
  <2>1. records' = [records EXCEPT ![requests[r].client] = row]
    BY <1>2 DEF Write
  <2>2. requests'[r].client = requests[r].client
    <3>1. ASSUME NEW k, NEW shown, Answer(r, k, shown)
          PROVE  requests'[r].client = requests[r].client
      BY <1>1, <3>1, RequestFields DEF Answer
    <3> QED
      BY <1>2, <3>1 DEF Write
  <2>3. requests[r].client = c => records'[c] = row
    BY <1>1, <2>1
  <2>4. requests[r].client # c => records'[c] = records[c]
    BY <1>1, <2>1
  <2>5. CASE requests[r].client = c
    <3>1. records'[c].status # "none"
      BY <1>2, <2>3, <2>5
    <3>2. requests'[r].client = c
      BY <2>2, <2>5
    <3> QED
      BY <3>1, <3>2
  <2> QED
    BY <2>4, <2>5
<1>3. ASSUME NEW r \in Request, Serve(r)
      PROVE  \/ records'[c] = records[c]
             \/ records'[c].status # "none" /\ requests'[r].client = c
  <2>1. CASE ReadOnly
    BY <2>1 DEF ReadOnly
  <2>2. CASE InsertCheckIn(r)
    <3>1. CheckedIn(requests[r].employee, requests[r].shift).status # "none"
      BY DEF CheckedIn
    <3> QED
      BY <1>2, <2>1, <2>2, <3>1 DEF InsertCheckIn
  <2>3. CASE UpdateCheckOut(r)
    <3>1. ASSUME Recorded(requests[r].client), requests[r].client = c
          PROVE  CheckedOut(records[c]).status # "none"
      BY <1>1 DEF CheckedOut, Row
    <3>2. Write(r, 200, CheckedOut(records[requests[r].client])) /\ requests[r].client # c =>
            records'[c] = records[c]
      BY <1>1 DEF Write
    <3> QED
      BY <1>2, <2>1, <2>3, <3>1, <3>2 DEF UpdateCheckOut
  <2>4. CASE UpdateBreak(r)
    <3>1. requests[r].client = c => BreakSet(records[c], requests[r].op).status # "none"
      BY <1>1 DEF BreakSet, Row
    <3>2. /\ Write(r, 200, BreakSet(records[requests[r].client], requests[r].op))
          /\ requests[r].client # c
          => records'[c] = records[c]
      BY <1>1 DEF Write
    <3> QED
      BY <1>2, <2>1, <2>4, <3>1, <3>2 DEF UpdateBreak
  <2> QED
    BY <1>3, <2>1, <2>2, <2>3, <2>4
       DEF Serve, Resolve, LookupForCheckIn, ValidateOwnShift, RereadAfterConflict,
           LookupForCheckOut, LookupForBreak, Fail
<1>4. ASSUME NEW s \in Shift, DeleteShift(s)
      PROVE  records'[c] = records[c] \/ records'[c] = [records[c] EXCEPT !.shift = NoShift]
  BY <1>4 DEF DeleteShift, Detached
<1>5. CASE ManageShift \/ ManageEmployee
  BY <1>5 DEF ManageShift, ManageEmployee
<1> QED
  BY <1>3, <1>4, <1>5 DEF Next

(* A row keeps its shift and its time, loses its shift, or is new.          *)
RowsAge ==
  /\ now' \in Nat /\ now <= now'
  /\ \A c \in ClientId :
       \/ records'[c].shift = NoShift
       \/ records'[c].shift = records[c].shift /\ records'[c].checkInAt = records[c].checkInAt
       \/ records'[c].checkInAt > now

LEMMA NextAges == ASSUME Typed, Next PROVE RowsAge
<1>1. /\ records \in [ClientId -> Row] /\ requests \in [Request -> RequestState]
      /\ now \in Nat /\ now + 1 \in Nat /\ now <= now + 1 /\ now + 1 > now /\ now <= now
  BY DEF Typed, TypeOK
<1> DEFINE Ages(row, c) ==
      \/ row.shift = NoShift
      \/ row.shift = records[c].shift /\ row.checkInAt = records[c].checkInAt
      \/ row.checkInAt > now
<1>2. ASSUME records' = records, now' = now PROVE RowsAge
  BY <1>1, <1>2 DEF RowsAge
<1>3. ASSUME NEW r \in Request, NEW code, NEW row, Write(r, code, row), now' \in {now, now + 1},
             requests[r].client \in ClientId => Ages(row, requests[r].client)
      PROVE  RowsAge
  <2>1. records' = [records EXCEPT ![requests[r].client] = row]
    BY <1>3 DEF Write
  <2>2. ASSUME NEW c \in ClientId PROVE Ages(records'[c], c)
    <3>1. CASE c = requests[r].client
      BY <1>1, <1>3, <2>1, <3>1
    <3>2. CASE c # requests[r].client
      BY <1>1, <2>1, <3>2
    <3> QED
      BY <3>1, <3>2
  <2>3. now' \in Nat /\ now <= now'
    BY <1>1, <1>3
  <2> QED
    BY <2>2, <2>3 DEF RowsAge
<1>4. ASSUME NEW r \in Request, Serve(r) PROVE RowsAge
  <2>1. CASE ReadOnly
    BY <1>2, <2>1 DEF ReadOnly
  <2>2. CASE InsertCheckIn(r)
    <3>1. CheckedIn(requests[r].employee, requests[r].shift).checkInAt > now
      BY <1>1 DEF CheckedIn
    <3> QED
      BY <1>3, <2>1, <2>2, <3>1 DEF InsertCheckIn
  <2>3. CASE UpdateCheckOut(r)
    <3>1. requests[r].client \in ClientId =>
            Ages(CheckedOut(records[requests[r].client]), requests[r].client)
      BY <1>1 DEF CheckedOut, Row
    <3> QED
      BY <1>3, <2>1, <2>3, <3>1 DEF UpdateCheckOut
  <2>4. CASE UpdateBreak(r)
    <3>1. requests[r].client \in ClientId =>
            Ages(BreakSet(records[requests[r].client], requests[r].op), requests[r].client)
      BY <1>1 DEF BreakSet, Row
    <3> QED
      BY <1>3, <2>1, <2>4, <3>1 DEF UpdateBreak
  <2> QED
    BY <1>4, <2>1, <2>2, <2>3, <2>4
       DEF Serve, Resolve, LookupForCheckIn, ValidateOwnShift, RereadAfterConflict,
           LookupForCheckOut, LookupForBreak, Fail
<1>5. ASSUME NEW s \in Shift, DeleteShift(s) PROVE RowsAge
  <2>1. \A c \in ClientId : records'[c] = records[c] \/ records'[c] = [records[c] EXCEPT !.shift = NoShift]
    BY <1>5 DEF DeleteShift, Detached
  <2>2. \A c \in ClientId : Ages(records'[c], c)
    BY <1>1, <2>1 DEF Row
  <2> QED
    BY <1>1, <1>5, <2>2 DEF RowsAge, DeleteShift
<1>6. CASE ManageShift \/ ManageEmployee
  BY <1>2, <1>6 DEF ManageShift, ManageEmployee
<1> QED
  BY <1>4, <1>5, <1>6 DEF Next

LiveEmployees == {e \in Employee : Live(e)}

(* A step adds one employee at most. *)
LEMMA StillFinite ==
  ASSUME Typed, IsFiniteSet(LiveEmployees), Next
  PROVE  IsFiniteSet(LiveEmployees)'
<1>1. \E e : LiveEmployees' \subseteq LiveEmployees \cup {e}
  <2>1. CASE UNCHANGED employees
    BY <2>1 DEF LiveEmployees, Live
  <2>2. CASE ManageEmployee
    <3>1. PICK e \in Employee : \E row : employees' = [employees EXCEPT ![e] = row]
      <4>1. PICK e \in Employee :
              \/ \E u \in User \cup {NoUser} : CreateEmployee(e, u)
              \/ \E u \in User : SetEmployeeUserID(e, u)
              \/ DeleteEmployee(e, ShiftOwners \cup Attending)
        BY <2>2 DEF ManageEmployee
      <4>2. ASSUME NEW u, CreateEmployee(e, u)
            PROVE  \E row : employees' = [employees EXCEPT ![e] = row]
        BY <4>2 DEF CreateEmployee
      <4>3. ASSUME NEW u, SetEmployeeUserID(e, u)
            PROVE  \E row : employees' = [employees EXCEPT ![e] = row]
        <5>1. employees' = [employees EXCEPT ![e] = [employees[e] EXCEPT !.user = u]]
          BY <4>3 DEF SetEmployeeUserID
        <5> QED
          BY <5>1
      <4>4. ASSUME DeleteEmployee(e, ShiftOwners \cup Attending)
            PROVE  \E row : employees' = [employees EXCEPT ![e] = row]
        BY <4>4 DEF DeleteEmployee
      <4> QED
        BY <4>1, <4>2, <4>3, <4>4
    <3>2. employees \in [Employee -> EmployeeRow]
      BY DEF Typed, TypeOK, IdentityTypeOK
    <3>3. \A x \in Employee \ {e} : employees'[x] = employees[x]
      BY <3>1, <3>2
    <3> QED
      BY <3>3 DEF LiveEmployees, Live
  <2> QED
    BY <2>1, <2>2, ServeTables DEF Next, DeleteShift, ManageShift
<1>2. PICK e : LiveEmployees' \subseteq LiveEmployees \cup {e}
  BY <1>1
<1>3. IsFiniteSet(LiveEmployees \cup {e})
  BY FS_AddElement
<1>4. PICK more : more = LiveEmployees'
  OBVIOUS
<1>5. IsFiniteSet(more)
  BY <1>2, <1>3, <1>4, FS_Subset
<1> QED
  BY <1>4, <1>5

(* A seeding.  The shifts met when the call came had rows, and an id is     *)
(* used once, so that none of them is seeded again.  Once the attendance of *)
(* the listed shifts is deleted, what is on them is newer.                  *)
SeedSound(q) ==
  /\ q.code = 200 => q.pc = "done"
  /\ \A s \in q.before : shifts[s].status # "none"
  /\ q.pc \in {"create", "record"} \/ q.code = 200 => q.before \cap Tagged = {}
  /\ q.old \subseteq tagged.ever
  /\ q.purged <= now
  /\ q.pc = "shifts" =>
       \A c \in ClientId : records[c].shift \in q.old => records[c].checkInAt > q.purged

SeedInv ==
  /\ Typed
  /\ tagged \in [now : SUBSET Shift, ever : SUBSET Shift]
  /\ seeds \in [Seed -> SeedState]
  /\ IsFiniteSet(LiveEmployees)
  /\ tagged.now \subseteq tagged.ever
  /\ \A s \in tagged.now : shifts[s].status # "none"
  /\ \A g \in Seed : SeedSound(seeds[g])

SeedPcs == {"gate", "employees", "ids", "attendance", "shifts", "create", "record", "done"}
ShiftOrNone == Shift \cup {NoShift}
SeedCodes == {0, 200, 403, 500}

LEMMA SeedShape ==
  SeedState = [pc : SeedPcs, todo : EmployeeSets, count : Nat, next : Nat, old : ShiftSets,
               shift : ShiftOrNone, owner : Employees, code : SeedCodes, before : ShiftSets,
               purged : Nat]
BY DEF SeedState, SeedPcs, EmployeeSets, ShiftSets, ShiftOrNone, Employees, SeedCodes

LEMMA SeedParts ==
  /\ {"gate", "employees", "ids", "attendance", "shifts", "create", "record", "done"}
       \subseteq SeedPcs
  /\ 0 \in SeedCodes /\ 200 \in SeedCodes /\ 403 \in SeedCodes /\ 500 \in SeedCodes
  /\ NoShift \in ShiftOrNone /\ NoEmployee \in Employees /\ {} \in ShiftSets
  /\ {} \in EmployeeSets
BY DEF SeedPcs, EmployeeSets, ShiftSets, ShiftOrNone, Employees, SeedCodes

LEMMA FreshSeed == NewSeed \in SeedState
BY SeedShape, SeedParts DEF NewSeed

LEMMA EndedFields ==
  ASSUME NEW q \in SeedState, NEW code \in SeedCodes
  PROVE  /\ Ended(q, code) \in SeedState
         /\ Ended(q, code).pc = "done" /\ Ended(q, code).code = code
         /\ Ended(q, code).before = q.before /\ Ended(q, code).old = {}
         /\ Ended(q, code).purged = 0
<1>1. q.before \in ShiftSets /\ "done" \in SeedPcs
  BY SeedShape, SeedParts
<1>2. PICK fresh \in SeedState : fresh = NewSeed /\ fresh.old = {} /\ fresh.purged = 0
  BY FreshSeed DEF NewSeed
<1>3. PICK to : to = [fresh EXCEPT !.pc = "done", !.code = code, !.before = q.before]
  OBVIOUS
<1>4. to \in SeedState
  BY <1>1, <1>3, SeedShape
<1>5. /\ to.pc = "done" /\ to.code = code /\ to.before = q.before /\ to.old = {}
      /\ to.purged = 0
  BY <1>2, <1>3 DEF SeedState
<1>6. to = Ended(q, code)
  BY <1>2, <1>3 DEF Ended
<1> QED
  BY <1>4, <1>5, <1>6

(* What every step leaves of the tables the calls of the seeder rely on: no *)
(* id comes back and no row gets older; and, but for the manager who writes *)
(* the note, only fresh ids get it.                                         *)
TablesStay ==
  /\ Typed'
  /\ tagged' \in [now : SUBSET Shift, ever : SUBSET Shift]
  /\ IsFiniteSet(LiveEmployees)'
  /\ tagged'.now \subseteq tagged'.ever
  /\ tagged.ever \subseteq tagged'.ever
  /\ \A s \in tagged'.now : shifts'[s].status # "none"
  /\ \A s \in Shift : shifts[s].status # "none" => shifts'[s].status # "none"
  /\ RowsAge

TablesKept ==
  /\ TablesStay
  /\ Tagged' \subseteq Tagged \cup {s \in Shift : shifts[s].status = "none"}

LEMMA SeedCurrent ==
  ASSUME SeedInv, NEW g \in Seed
  PROVE  seeds[g] \in SeedState /\ SeedSound(seeds[g])
BY DEF SeedInv

LEMMA SoundOutlives ==
  ASSUME SeedInv, NEW q \in SeedState, SeedSound(q), TablesStay,
         NEW to, to.pc = q.pc, to.code = q.code, to.old = q.old, to.purged = q.purged,
         to.before \subseteq q.before,
         \A s \in to.before : s \in Tagged' => s \in Tagged \/ shifts[s].status = "none"
  PROVE  SeedSound(to)'
<1>1. q.before \subseteq Shift /\ NoShift \notin q.old /\ q.purged \in Nat
  BY RosterAssumption DEF SeedState
<1>2. \A s \in to.before : shifts'[s].status # "none"
  BY <1>1 DEF SeedSound, TablesStay
<1>3. q.before \cap Tagged = {} => to.before \cap Tagged' = {}
  BY DEF SeedSound
<1>4. to.old \subseteq tagged'.ever
  BY DEF SeedSound, TablesStay
<1>5. now \in Nat /\ records \in [ClientId -> Row] /\ records' \in [ClientId -> Row]
  BY DEF SeedInv, TablesStay, Typed, TypeOK
<1>6. to.purged <= now'
  BY <1>1, <1>5 DEF SeedSound, TablesStay, RowsAge
<1>7. ASSUME to.pc = "shifts", NEW c \in ClientId, records'[c].shift \in to.old
      PROVE  records'[c].checkInAt > to.purged
  <2>1. records'[c].shift # NoShift
    BY <1>1, <1>7
  <2>2. records'[c].checkInAt \in Nat
    BY <1>5 DEF Row
  <2>3. \/ records'[c].shift = records[c].shift /\ records'[c].checkInAt = records[c].checkInAt
        \/ records'[c].checkInAt > now
    BY <2>1 DEF TablesStay, RowsAge
  <2>4. CASE records'[c].shift = records[c].shift /\ records'[c].checkInAt = records[c].checkInAt
    BY <1>7, <2>4 DEF SeedSound
  <2>5. CASE records'[c].checkInAt > now
    BY <1>1, <1>5, <2>2, <2>5 DEF SeedSound
  <2> QED
    BY <2>3, <2>4, <2>5
<1> QED
  BY <1>2, <1>3, <1>4, <1>6, <1>7 DEF SeedSound

(* The clock does not go back. *)
LEMMA PurgedStays ==
  ASSUME SeedInv, NEW q \in SeedState, SeedSound(q), TablesKept PROVE q.purged <= now'
<1>1. q.purged \in Nat /\ now \in Nat /\ now' \in Nat
  BY DEF SeedState, SeedInv, Typed, TypeOK, TablesKept, TablesStay, RowsAge
<1> QED
  BY <1>1 DEF SeedSound, TablesKept, TablesStay, RowsAge

(* A call ends in the middle. *)
LEMMA EndedSound ==
  ASSUME SeedInv, NEW q \in SeedState, SeedSound(q), TablesKept, NEW code \in {403, 500}
  PROVE  SeedSound(Ended(q, code))'
<1>0. now' \in Nat /\ 0 <= now'
  BY DEF TablesKept, TablesStay, RowsAge
<1>1. code \in SeedCodes /\ code # 200
  BY DEF SeedCodes
<1>2. PICK to : to = Ended(q, code)
  OBVIOUS
<1>3. /\ to.pc = "done" /\ to.code # 200 /\ to.before = q.before /\ to.old = {}
      /\ to.purged = 0
  BY <1>1, <1>2, EndedFields
<1>4. \A s \in to.before : shifts'[s].status # "none"
  BY <1>3 DEF SeedSound, TablesKept, TablesStay, SeedState
<1>5. SeedSound(to)'
  BY <1>0, <1>3, <1>4 DEF SeedSound
<1> QED
  BY <1>2, <1>5

(* The other calls stay sound. *)
LEMMA OtherSound ==
  ASSUME SeedInv, TablesKept, NEW h \in Seed, seeds'[h] = seeds[h]
  PROVE  SeedSound(seeds[h])'
<1>1. PICK q : q = seeds[h]
  OBVIOUS
<1>2. q \in SeedState /\ SeedSound(q)
  BY <1>1, SeedCurrent
<1>3. SeedSound(q)'
  BY <1>2, SoundOutlives DEF TablesKept, TablesStay
<1>4. q = seeds'[h]
  BY <1>1
<1> QED
  BY <1>3, <1>4 DEF SeedSound

(* A step of one call. *)
LEMMA SeedMoves ==
  ASSUME SeedInv, NEW g \in Seed, TablesKept, NEW to \in SeedState,
         seeds' = [seeds EXCEPT ![g] = to], SeedSound(to)'
  PROVE  SeedInv'
<1>1. seeds \in [Seed -> SeedState]
  BY DEF SeedInv
<1>2. seeds' \in [Seed -> SeedState] /\ seeds'[g] = to
  BY <1>1
<1>3. \A h \in Seed \ {g} : seeds'[h] = seeds[h]
  BY <1>1
<1>4. ASSUME NEW h \in Seed \ {g} PROVE SeedSound(seeds[h])'
  BY <1>3, OtherSound
<1>5. SeedSound(seeds[g])'
  BY <1>2 DEF SeedSound
<1> QED
  BY <1>2, <1>4, <1>5 DEF SeedInv, TablesKept, TablesStay

LEMMA AdvanceKeeps ==
  ASSUME SeedInv, NEW g \in Seed, NEW q, q = seeds[g], NEW from, from \notin {"gate", "done"},
         NEW to \in SeedState, Advance(g, from, to), TablesKept, SeedSound(to)'
  PROVE  SeedInv'
<1>1. q \in SeedState /\ SeedSound(q)
  BY SeedCurrent
<1>2. CASE seeds' = [seeds EXCEPT ![g] = to]
  BY <1>1, <1>2, SeedMoves
<1>3. CASE seeds' = [seeds EXCEPT ![g] = Ended(@, 500)]
  <2>0. PICK code \in {403, 500} : code = 500
    OBVIOUS
  <2>1. PICK end : end = Ended(q, code)
    OBVIOUS
  <2>2. end \in SeedState /\ end.pc = "done"
    <3>1. code \in SeedCodes
      BY DEF SeedCodes
    <3> QED
      BY <1>1, <2>1, <3>1, EndedFields
  <2>3. SeedSound(end)'
    BY <1>1, <2>1, EndedSound
  <2>4. seeds' = [seeds EXCEPT ![g] = end]
    BY <1>3, <2>0, <2>1
  <2>5. end \in SeedState
    BY <2>2
  <2> QED
    BY <2>3, <2>4, <2>5, SeedMoves
<1> QED
  BY <1>2, <1>3 DEF Advance

(* A step of somebody else. *)
LEMMA SeedsStay == ASSUME SeedInv, TablesKept, seeds' = seeds PROVE SeedInv'
<1>1. \A g \in Seed : SeedSound(seeds[g])'
  BY OtherSound
<1> QED
  BY <1>1 DEF SeedInv, TablesKept, TablesStay

LEMMA StillTables ==
  ASSUME SeedInv, UNCHANGED <<vars, tagged>>
  PROVE  TablesKept /\ Tagged' = Tagged
<1>1. UNCHANGED <<employees, shifts, publishedTo, records, requests, now, tagged>>
  BY DEF vars
<1>2. Tagged' = Tagged /\ LiveEmployees' = LiveEmployees
  BY <1>1 DEF Tagged, Exists, LiveEmployees, Live
<1>3. Typed'
  BY <1>1 DEF SeedInv, Typed, TypeOK, IdentityTypeOK, RosterTypeOK, Placed
<1>4. IsFiniteSet(LiveEmployees)'
  <2>1. PICK live : live = LiveEmployees
    OBVIOUS
  <2>2. IsFiniteSet(live) /\ live = LiveEmployees'
    BY <1>2, <2>1 DEF SeedInv
  <2> QED
    BY <2>2
<1>5. RowsAge
  BY <1>1 DEF SeedInv, Typed, TypeOK, RowsAge
<1> QED
  BY <1>1, <1>2, <1>3, <1>4, <1>5 DEF SeedInv, TablesKept, TablesStay

LEMMA OthersKeep == ASSUME SeedInv, Others PROVE SeedInv'
<1>1. Next /\ UNCHANGED <<tagged, seeds>> /\ \A r \in Request : requests'[r].client \notin SeedClient
  BY DEF Others
<1>2. Typed /\ RosterTypeOK
  BY DEF SeedInv, Typed, TypeOK
<1>3. /\ \A s \in Shift : shifts[s].status # "none" => shifts'[s].status # "none"
      /\ \A s \in Shift : Exists(s)' => Exists(s) \/ shifts[s].status = "none"
  BY <1>1, <1>2, ShiftSteps
<1>4. Typed' /\ IsFiniteSet(LiveEmployees)'
  BY <1>1, <1>2, NextTyped, StillFinite DEF SeedInv
<1>5. Tagged' \subseteq Tagged
  BY <1>1, <1>3 DEF SeedInv, Tagged
<1>6. RowsAge
  BY <1>1, <1>2, NextAges
<1>7. TablesKept
  BY <1>1, <1>3, <1>4, <1>5, <1>6 DEF SeedInv, TablesKept, TablesStay
<1> QED
  BY <1>1, <1>7, SeedsStay

LEMMA EditNoteKeeps == ASSUME SeedInv, NEW s \in Shift, EditNote(s) PROVE SeedInv'
<1>1. /\ UNCHANGED <<employees, shifts, publishedTo, records, requests, now, seeds>>
      /\ tagged' = [tagged EXCEPT !.now = @ \ {s}]
  BY DEF EditNote, vars
<1>2. /\ tagged' \in [now : SUBSET Shift, ever : SUBSET Shift]
      /\ tagged'.now = tagged.now \ {s} /\ tagged'.ever = tagged.ever
  BY <1>1 DEF SeedInv
<1>3. Tagged' \subseteq Tagged
  BY <1>1, <1>2 DEF Tagged, Exists
<1>4. Typed'
  BY <1>1 DEF SeedInv, Typed, TypeOK, IdentityTypeOK, RosterTypeOK, Placed
<1>5. IsFiniteSet(LiveEmployees)'
  <2>1. PICK live : live = LiveEmployees
    OBVIOUS
  <2>2. IsFiniteSet(live) /\ live = LiveEmployees'
    BY <1>1, <2>1 DEF SeedInv, LiveEmployees, Live
  <2> QED
    BY <2>2
<1>6. RowsAge
  BY <1>1 DEF SeedInv, Typed, TypeOK, RowsAge
<1>7. TablesKept
  BY <1>1, <1>2, <1>3, <1>4, <1>5, <1>6 DEF SeedInv, TablesKept, TablesStay
<1> QED
  BY <1>1, <1>7, SeedsStay

(* The shift that gets the note leaves the history of the calls. *)
LEMMA WriteNoteKeeps == ASSUME SeedInv, NEW s \in Shift, WriteNote(s) PROVE SeedInv'
<1>1. /\ UNCHANGED <<employees, shifts, publishedTo, records, requests, now>> /\ Exists(s)
      /\ tagged' = [now |-> tagged.now \cup {s}, ever |-> tagged.ever \cup {s}]
      /\ seeds' = [h \in Seed |-> [seeds[h] EXCEPT !.before = @ \ {s}]]
  BY DEF WriteNote, vars
<1>2. /\ tagged' \in [now : SUBSET Shift, ever : SUBSET Shift]
      /\ tagged'.now = tagged.now \cup {s} /\ tagged'.ever = tagged.ever \cup {s}
  BY <1>1 DEF SeedInv
<1>3. \A x \in Tagged' : x \in Tagged \/ x = s
  BY <1>1, <1>2 DEF Tagged, Exists
<1>4. Typed'
  BY <1>1 DEF SeedInv, Typed, TypeOK, IdentityTypeOK, RosterTypeOK, Placed
<1>5. IsFiniteSet(LiveEmployees)'
  <2>1. PICK live : live = LiveEmployees
    OBVIOUS
  <2>2. IsFiniteSet(live) /\ live = LiveEmployees'
    BY <1>1, <2>1 DEF SeedInv, LiveEmployees, Live
  <2> QED
    BY <2>2
<1>6. RowsAge
  BY <1>1 DEF SeedInv, Typed, TypeOK, RowsAge
<1>7. TablesStay
  <2>1. \A x \in tagged'.now : shifts'[x].status # "none"
    BY <1>1, <1>2 DEF SeedInv, Exists
  <2> QED
    BY <1>1, <1>2, <1>4, <1>5, <1>6, <2>1 DEF SeedInv, TablesStay
<1>8. ASSUME NEW h \in Seed
      PROVE  \E to \in SeedState : seeds'[h] = to /\ SeedSound(to)'
  <2>1. PICK q : q = seeds[h]
    OBVIOUS
  <2>2. q \in SeedState /\ SeedSound(q)
    BY <2>1, SeedCurrent
  <2>3. PICK rest : rest = q.before \ {s}
    OBVIOUS
  <2>4. PICK to : to = [q EXCEPT !.before = rest]
    OBVIOUS
  <2>5. to \in SeedState
    <3>1. rest \in ShiftSets
      BY <2>2, <2>3 DEF SeedState, ShiftSets
    <3> QED
      BY <2>2, <2>4, <3>1, SeedShape
  <2>6. /\ to.pc = q.pc /\ to.code = q.code /\ to.old = q.old /\ to.purged = q.purged
        /\ to.before = rest
    BY <2>2, <2>4 DEF SeedState
  <2>7. SeedSound(to)'
    BY <1>3, <1>7, <2>2, <2>3, <2>6, SoundOutlives
  <2>8. seeds'[h] = to
    BY <1>1, <2>1, <2>3, <2>4
  <2> QED
    BY <2>5, <2>7, <2>8
<1>9. seeds' \in [Seed -> SeedState]
  <2>1. DOMAIN seeds' = Seed /\ seeds' = [h \in Seed |-> seeds'[h]]
    BY <1>1
  <2> QED
    BY <1>8, <2>1
<1>10. ASSUME NEW h \in Seed PROVE SeedSound(seeds[h])'
  <2>1. PICK to : seeds'[h] = to /\ SeedSound(to)'
    BY <1>8
  <2> QED
    BY <2>1 DEF SeedSound
<1> QED
  BY <1>7, <1>9, <1>10 DEF SeedInv, TablesStay

LEMMA SeedFailsKeeps == ASSUME SeedInv, NEW g \in Seed, SeedFails(g) PROVE SeedInv'
<1>1. PICK q : q = seeds[g]
  OBVIOUS
<1>2. PICK code \in {403, 500} : code = 500
  OBVIOUS
<1>3. PICK to : to = Ended(q, code)
  OBVIOUS
<1>4. q \in SeedState /\ SeedSound(q) /\ TablesKept
  BY <1>1, SeedCurrent, StillTables DEF SeedFails
<1>5. to \in SeedState /\ to.pc = "done"
  <2>1. code \in SeedCodes
    BY DEF SeedCodes
  <2> QED
    BY <1>3, <1>4, <2>1, EndedFields
<1>6. SeedSound(to)'
  BY <1>3, <1>4, EndedSound
<1>7. seeds' = [seeds EXCEPT ![g] = to]
  BY <1>1, <1>2, <1>3 DEF SeedFails
<1> QED
  BY <1>4, <1>5, <1>6, <1>7, SeedMoves

(* A call comes. *)
LEMMA AdmitKeeps == ASSUME SeedInv, NEW g \in Seed, Admit(g) PROVE SeedInv'
<1>1. PICK q : q = seeds[g]
  OBVIOUS
<1>2. q \in SeedState /\ SeedSound(q) /\ q.pc = "gate"
  BY <1>1, SeedCurrent DEF Admit
<1>3. TablesKept /\ Tagged' = Tagged
  BY StillTables DEF Admit
<1>4. CASE seeds' = [seeds EXCEPT ![g] = [q EXCEPT !.pc = "employees", !.before = Tagged]]
  <2>1. PICK old : old = Tagged
    OBVIOUS
  <2>2. PICK to : to = [q EXCEPT !.pc = "employees", !.before = old]
    OBVIOUS
  <2>3. to \in SeedState
    <3>1. old \in ShiftSets /\ "employees" \in SeedPcs
      BY <2>1, SeedParts DEF SeedInv, Tagged, ShiftSets
    <3> QED
      BY <1>2, <2>2, <3>1, SeedShape
  <2>4. /\ to.pc = "employees" /\ to.before = old /\ to.purged = q.purged
        /\ to.old = q.old /\ to.code = q.code
    BY <1>2, <2>2 DEF SeedState
  <2>5. SeedSound(to)'
    <3>1. \A s \in old : shifts'[s].status # "none"
      BY <2>1, <1>3 DEF Tagged, SeedInv, Exists, TablesKept, TablesStay
    <3>2. to.old \subseteq tagged'.ever
      BY <1>2, <1>3, <2>4 DEF SeedSound, TablesKept, TablesStay
    <3>3. to.code # 200
      BY <1>2, <2>4 DEF SeedSound
    <3>4. to.purged <= now'
      BY <1>2, <1>3, <2>4, PurgedStays
    <3> QED
      BY <2>4, <3>1, <3>2, <3>3, <3>4 DEF SeedSound
  <2>6. seeds' = [seeds EXCEPT ![g] = to]
    BY <1>4, <2>1, <2>2
  <2> QED
    BY <1>3, <2>3, <2>5, <2>6, SeedMoves
<1>5. CASE \E code \in {403, 500} : seeds' = [seeds EXCEPT ![g] = Ended(q, code)]
  <2>0. PICK code \in {403, 500} : seeds' = [seeds EXCEPT ![g] = Ended(q, code)]
    BY <1>5, Zenon
  <2>1. PICK to : to = Ended(q, code)
    OBVIOUS
  <2>2. to \in SeedState
    <3>1. code \in SeedCodes
      BY DEF SeedCodes
    <3> QED
      BY <1>2, <2>1, <3>1, EndedFields
  <2>3. SeedSound(to)'
    BY <1>2, <1>3, <2>1, EndedSound
  <2> QED
    BY <1>3, <2>0, <2>1, <2>2, <2>3, SeedMoves
<1>6. \/ seeds' = [seeds EXCEPT ![g] = [q EXCEPT !.pc = "employees", !.before = Tagged]]
      \/ \E code \in {403, 500} : seeds' = [seeds EXCEPT ![g] = Ended(q, code)]
  BY <1>1 DEF Admit
<1> QED
  BY <1>4, <1>5, <1>6, Zenon

LEMMA ListActiveKeeps == ASSUME SeedInv, NEW g \in Seed, ListActive(g) PROVE SeedInv'
<1>1. PICK q : q = seeds[g]
  OBVIOUS
<1>2. q \in SeedState /\ SeedSound(q) /\ TablesKept
  BY <1>1, SeedCurrent, StillTables DEF ListActive
<1>3. CASE Advance(g, "employees", Ended(q, 500))
  <2>1. PICK code \in {403, 500} : code = 500
    OBVIOUS
  <2>2. PICK to : to = Ended(q, code)
    OBVIOUS
  <2>3. to \in SeedState /\ to.pc = "done"
    <3>1. code \in SeedCodes
      BY DEF SeedCodes
    <3> QED
      BY <1>2, <2>2, <3>1, EndedFields
  <2>4. SeedSound(to)'
    BY <1>2, <2>2, EndedSound
  <2>5. Advance(g, "employees", to)
    BY <1>3, <2>1, <2>2
  <2> QED
    BY <1>1, <1>2, <2>3, <2>4, <2>5, AdvanceKeeps
<1>4. ASSUME NEW active \in SUBSET {e \in Employee : Live(e)}, NEW n, n = Cardinality(active),
             Advance(g, "employees", [q EXCEPT !.pc = "ids", !.todo = active, !.count = n])
      PROVE  SeedInv'
  <2>1. PICK to : to = [q EXCEPT !.pc = "ids", !.todo = active, !.count = n]
    OBVIOUS
  <2>2. n \in Nat
    <3>1. IsFiniteSet(active)
      BY FS_Subset DEF SeedInv, LiveEmployees
    <3> QED
      BY <1>4, <3>1, FS_CardinalityType
  <2>3. to \in SeedState
    <3>1. "ids" \in SeedPcs /\ active \in EmployeeSets
      BY SeedParts DEF EmployeeSets
    <3> QED
      BY <1>2, <2>1, <2>2, <3>1, SeedShape
  <2>4. /\ to.pc = "ids" /\ to.before = q.before /\ to.purged = q.purged
        /\ to.old = q.old /\ to.code = q.code
    BY <1>2, <2>1 DEF SeedState
  <2>5. q.pc = "employees"
    BY <1>1, <1>4 DEF Advance
  <2>6. SeedSound(to)'
    <3>1. \A s \in to.before : shifts'[s].status # "none"
      BY <1>2, <2>4 DEF SeedSound, TablesKept, TablesStay, SeedState
    <3>2. to.old \subseteq tagged'.ever
      BY <1>2, <2>4 DEF SeedSound, TablesKept, TablesStay
    <3>3. to.code # 200
      BY <1>2, <2>4, <2>5 DEF SeedSound
    <3>4. to.purged <= now'
      BY <1>2, <2>4, PurgedStays
    <3> QED
      BY <2>4, <3>1, <3>2, <3>3, <3>4 DEF SeedSound
  <2>7. Advance(g, "employees", to)
    BY <1>4, <2>1
  <2> QED
    BY <1>1, <1>2, <2>3, <2>4, <2>6, <2>7, AdvanceKeeps
<1> QED
  BY <1>1, <1>3, <1>4 DEF ListActive

LEMMA ShiftIDsByNoteKeeps == ASSUME SeedInv, NEW g \in Seed, ShiftIDsByNote(g) PROVE SeedInv'
<1>1. PICK q : q = seeds[g]
  OBVIOUS
<1>2. q \in SeedState /\ SeedSound(q) /\ TablesKept /\ Tagged' = Tagged
  BY <1>1, SeedCurrent, StillTables DEF ShiftIDsByNote
<1>3. PICK old : old = Tagged
  OBVIOUS
<1>4. PICK to : to = [q EXCEPT !.pc = "attendance", !.old = old]
  OBVIOUS
<1>5. Advance(g, "ids", to) /\ q.pc = "ids"
  BY <1>1, <1>3, <1>4 DEF ShiftIDsByNote, Advance
<1>6. to \in SeedState
  <2>1. "attendance" \in SeedPcs /\ old \in ShiftSets
    BY <1>3, SeedParts DEF SeedInv, Tagged, ShiftSets
  <2> QED
    BY <1>2, <1>4, <2>1, SeedShape
<1>7. /\ to.pc = "attendance" /\ to.before = q.before /\ to.purged = q.purged
      /\ to.old = old /\ to.code = q.code
  BY <1>2, <1>4 DEF SeedState
<1>8. SeedSound(to)'
  <2>1. \A s \in to.before : shifts'[s].status # "none"
    BY <1>2, <1>7 DEF SeedSound, TablesKept, TablesStay, SeedState
  <2>2. to.old \subseteq tagged'.ever
    BY <1>2, <1>3, <1>7 DEF SeedInv, TablesKept, TablesStay, Tagged
  <2>3. to.code # 200
    BY <1>2, <1>5, <1>7 DEF SeedSound
  <2>4. to.purged <= now'
    BY <1>2, <1>7, PurgedStays
  <2> QED
    BY <1>7, <2>1, <2>2, <2>3, <2>4 DEF SeedSound
<1> QED
  BY <1>1, <1>2, <1>5, <1>6, <1>7, <1>8, AdvanceKeeps

LEMMA DeleteByShiftIDsKeeps ==
  ASSUME SeedInv, NEW g \in Seed, DeleteByShiftIDs(g) PROVE SeedInv'
<1>1. PICK q : q = seeds[g]
  OBVIOUS
<1>2. q \in SeedState /\ SeedSound(q) /\ Typed /\ NoRow \in Row /\ NoRow.shift = NoShift
  BY <1>1, SeedCurrent DEF SeedInv, Typed, NoRow, Row
<1>3. /\ UNCHANGED <<employees, shifts, publishedTo, requests, now, tagged>>
      /\ records' = [c \in ClientId |-> IF records[c].shift \in q.old THEN NoRow ELSE records[c]]
  BY <1>1 DEF DeleteByShiftIDs
<1>4. Tagged' = Tagged /\ LiveEmployees' = LiveEmployees
  BY <1>3 DEF Tagged, Exists, LiveEmployees, Live
<1>5. Typed'
  <2>1. records' \in [ClientId -> Row]
    BY <1>2, <1>3 DEF Typed, TypeOK
  <2> QED
    BY <1>3, <2>1 DEF SeedInv, Typed, TypeOK, IdentityTypeOK, RosterTypeOK, Placed
<1>6. IsFiniteSet(LiveEmployees)'
  <2>1. PICK live : live = LiveEmployees
    OBVIOUS
  <2>2. IsFiniteSet(live) /\ live = LiveEmployees'
    BY <1>4, <2>1 DEF SeedInv
  <2> QED
    BY <2>2
<1>7. TablesKept
  <2>1. now \in Nat
    BY <1>2 DEF Typed, TypeOK
  <2>2. RowsAge
    BY <1>2, <1>3, <2>1 DEF RowsAge
  <2> QED
    BY <1>3, <1>4, <1>5, <1>6, <2>2 DEF SeedInv, TablesKept, TablesStay
<1>8. PICK to : to = [q EXCEPT !.pc = "shifts", !.purged = now]
  OBVIOUS
<1>9. Advance(g, "attendance", to) /\ q.pc = "attendance"
  BY <1>1, <1>8 DEF DeleteByShiftIDs, Advance
<1>10. to \in SeedState
  <2>1. "shifts" \in SeedPcs /\ now \in Nat
    BY <1>2, SeedParts DEF Typed, TypeOK
  <2> QED
    BY <1>2, <1>8, <2>1, SeedShape
<1>11. /\ to.pc = "shifts" /\ to.before = q.before /\ to.purged = now
       /\ to.old = q.old /\ to.code = q.code
  BY <1>2, <1>8 DEF SeedState
<1>12. SeedSound(to)'
  <2>1. \A s \in to.before : shifts'[s].status # "none"
    BY <1>2, <1>7, <1>11 DEF SeedSound, TablesKept, TablesStay, SeedState
  <2>2. to.old \subseteq tagged'.ever
    BY <1>2, <1>7, <1>11 DEF SeedSound, TablesKept, TablesStay
  <2>3. to.code # 200
    BY <1>2, <1>9, <1>11 DEF SeedSound
  <2>4. to.purged <= now'
    BY <1>3, <1>7, <1>11 DEF TablesKept, TablesStay, RowsAge
  <2>5. \A c \in ClientId : records'[c].shift \notin to.old
    <3>1. NoShift \notin q.old
      BY <1>2, RosterAssumption DEF SeedState
    <3> QED
      BY <1>2, <1>3, <1>11, <3>1
  <2> QED
    BY <1>11, <2>1, <2>2, <2>3, <2>4, <2>5 DEF SeedSound
<1> QED
  BY <1>1, <1>7, <1>9, <1>10, <1>11, <1>12, AdvanceKeeps

(* Nothing is left tagged. *)
LEMMA DeleteShiftsByNoteKeeps ==
  ASSUME SeedInv, NEW g \in Seed, DeleteShiftsByNote(g) PROVE SeedInv'
<1>1. PICK q : q = seeds[g]
  OBVIOUS
<1>2. q \in SeedState /\ SeedSound(q) /\ Typed
  BY <1>1, SeedCurrent DEF SeedInv
<1>3. /\ UNCHANGED <<employees, publishedTo, requests, now, tagged>>
      /\ shifts' = [s \in Shift |-> IF s \in Tagged
                                    THEN [status |-> "deleted", owner |-> NoEmployee] ELSE shifts[s]]
      /\ records' = [c \in ClientId |-> IF records[c].shift \in Tagged
                                        THEN [records[c] EXCEPT !.shift = NoShift] ELSE records[c]]
  BY DEF DeleteShiftsByNote
<1>4. shifts' \in [Shift -> ShiftRow]
  <2>1. [status |-> "deleted", owner |-> NoEmployee] \in ShiftRow
    BY DEF ShiftRow
  <2> QED
    BY <1>2, <1>3, <2>1 DEF Typed, TypeOK, RosterTypeOK
<1>5. records' \in [ClientId -> Row]
  <2>1. ASSUME NEW row \in Row PROVE [row EXCEPT !.shift = NoShift] \in Row
    BY DEF Row
  <2> QED
    BY <1>2, <1>3, <2>1 DEF Typed, TypeOK
<1>6. Typed'
  BY <1>2, <1>3, <1>4, <1>5 DEF Typed, TypeOK, IdentityTypeOK, RosterTypeOK, Placed
<1>7. \A s \in Tagged : s \in Shift /\ shifts'[s].status = "deleted"
  BY <1>3 DEF Tagged, SeedInv
<1>8. \A s \in Shift \ Tagged : shifts'[s] = shifts[s]
  BY <1>3
<1>9. Tagged' = {}
  <2>1. \A s \in tagged.now : s \in Shift
    BY DEF SeedInv
  <2> QED
    BY <1>3, <1>7, <1>8, <2>1 DEF Tagged, Exists
<1>10. IsFiniteSet(LiveEmployees)'
  <2>1. PICK live : live = LiveEmployees
    OBVIOUS
  <2>2. IsFiniteSet(live) /\ live = LiveEmployees'
    BY <1>3, <2>1 DEF SeedInv, LiveEmployees, Live
  <2> QED
    BY <2>2
<1>11. \A s \in Shift : shifts[s].status # "none" => shifts'[s].status # "none"
  BY <1>7, <1>8
<1>12. TablesKept
  <2>1. \A s \in tagged'.now : shifts'[s].status # "none"
    BY <1>3, <1>11 DEF SeedInv
  <2>2. /\ now \in Nat
        /\ \A c \in ClientId : \/ records'[c] = records[c]
                               \/ records'[c] = [records[c] EXCEPT !.shift = NoShift]
    BY <1>2, <1>3 DEF Typed, TypeOK
  <2>3. RowsAge
    <3>1. records \in [ClientId -> Row]
      BY <1>2 DEF Typed, TypeOK
    <3> QED
      BY <1>3, <2>2, <3>1 DEF RowsAge, Row
  <2> QED
    BY <1>3, <1>6, <1>9, <1>10, <1>11, <2>1, <2>3 DEF SeedInv, TablesKept, TablesStay
<1>13. PICK none, at : none = {} /\ at = 0
  OBVIOUS
<1>14. PICK to : to = [q EXCEPT !.pc = "create", !.old = none, !.purged = at]
  OBVIOUS
<1>15. Advance(g, "shifts", to) /\ q.pc = "shifts"
  BY <1>1, <1>13, <1>14 DEF DeleteShiftsByNote, Advance
<1>16. to \in SeedState
  <2>1. "create" \in SeedPcs /\ none \in ShiftSets /\ at \in Nat
    BY <1>13, SeedParts
  <2> QED
    BY <1>2, <1>14, <2>1, SeedShape
<1>17. /\ to.pc = "create" /\ to.before = q.before /\ to.purged = 0
       /\ to.old = {} /\ to.code = q.code
  BY <1>2, <1>13, <1>14 DEF SeedState
<1>18. SeedSound(to)'
  <2>1. \A s \in to.before : shifts'[s].status # "none"
    BY <1>2, <1>12, <1>17 DEF SeedSound, TablesKept, TablesStay, SeedState
  <2>2. to.code # 200
    BY <1>2, <1>15, <1>17 DEF SeedSound
  <2>3. now' \in Nat /\ 0 <= now'
    BY <1>12 DEF TablesKept, TablesStay, RowsAge
  <2> QED
    BY <1>9, <1>17, <2>1, <2>2, <2>3 DEF SeedSound
<1> QED
  BY <1>1, <1>12, <1>15, <1>16, <1>17, <1>18, AdvanceKeeps

LEMMA LoopOnFields ==
  ASSUME NEW q \in SeedState, q.code # 200, NEW clock \in Nat, q.purged <= clock
  PROVE  /\ LoopOn(q) \in SeedState
         /\ LoopOn(q).pc \in {"create", "done"}
         /\ LoopOn(q).before = q.before /\ LoopOn(q).old \subseteq q.old
         /\ LoopOn(q).code = 200 => LoopOn(q).pc = "done"
         /\ LoopOn(q).purged <= clock
<1>1. CASE q.todo = {}
  <2>1. PICK code \in SeedCodes : code = 200
    BY SeedParts
  <2>2. LoopOn(q) = Ended(q, code)
    BY <1>1, <2>1 DEF LoopOn
  <2> QED
    BY <2>2, EndedFields
<1>2. CASE q.todo # {}
  <2>1. PICK to : to = [q EXCEPT !.pc = "create", !.next = q.next + 1, !.shift = NoShift,
                                 !.owner = NoEmployee]
    OBVIOUS
  <2>2. to = LoopOn(q)
    BY <1>2, <2>1 DEF LoopOn
  <2>3. to \in SeedState
    <3>1. "create" \in SeedPcs /\ NoShift \in ShiftOrNone /\ NoEmployee \in Employees
      BY SeedParts
    <3>2. q.next + 1 \in Nat
      BY DEF SeedState
    <3> QED
      BY <2>1, <3>1, <3>2, SeedShape
  <2>4. /\ to.pc = "create" /\ to.before = q.before /\ to.old = q.old
        /\ to.code = q.code /\ to.purged = q.purged
    BY <2>1 DEF SeedState
  <2> QED
    BY <2>2, <2>3, <2>4
<1> QED
  BY <1>1, <1>2

(* Once the old shifts are deleted, the loop only adds fresh ones.          *)
LEMMA LoopSound ==
  ASSUME SeedInv, NEW q \in SeedState, SeedSound(q), q.pc \in {"create", "record"}, TablesKept,
         NEW to, to.pc \in {"create", "record", "done"}, to.before = q.before,
         to.old \subseteq q.old, to.code = 200 => to.pc = "done", to.purged <= now'
  PROVE  SeedSound(to)'
<1>1. \A s \in to.before : shifts[s].status # "none" /\ shifts'[s].status # "none"
  BY DEF SeedSound, TablesKept, TablesStay, SeedState
<1>2. to.before \cap Tagged' = {}
  BY <1>1 DEF SeedSound, TablesKept, TablesStay
<1>3. to.old \subseteq tagged'.ever
  BY DEF SeedSound, TablesKept, TablesStay
<1> QED
  BY <1>1, <1>2, <1>3 DEF SeedSound

LEMMA CreatePublishedShiftKeeps ==
  ASSUME SeedInv, NEW g \in Seed, CreatePublishedShift(g) PROVE SeedInv'
<1>1. PICK q : q = seeds[g]
  OBVIOUS
<1>2. q \in SeedState /\ SeedSound(q) /\ Typed
  BY <1>1, SeedCurrent DEF SeedInv
<1>3. PICK e \in q.todo, s \in Shift :
        LET created == [q EXCEPT !.todo = @ \ {e}, !.shift = s, !.owner = e] IN
        /\ shifts[s].status = "none" /\ Live(e)
        /\ Advance(g, "create", IF Attended(q.next, q.count)
                                THEN [created EXCEPT !.pc = "record"] ELSE LoopOn(created))
        /\ shifts' = [shifts EXCEPT ![s] = [status |-> "published", owner |-> e]]
        /\ publishedTo' = [publishedTo EXCEPT ![s] = @ \cup {e}]
        /\ tagged' = [now |-> tagged.now \cup {s}, ever |-> tagged.ever \cup {s}]
        /\ UNCHANGED <<employees, records, requests, now>>
  BY <1>1 DEF CreatePublishedShift
<1>4. q.pc = "create" /\ e \in Employee /\ q.code # 200
  BY <1>1, <1>2, <1>3 DEF Advance, SeedState, SeedSound
<1>5. /\ shifts \in [Shift -> ShiftRow] /\ publishedTo \in [Shift -> SUBSET Employee]
      /\ tagged.now \subseteq Shift /\ tagged.ever \subseteq Shift
  BY <1>2 DEF Typed, TypeOK, RosterTypeOK, SeedInv
<1>6. [status |-> "published", owner |-> e] \in ShiftRow
  BY <1>4 DEF ShiftRow
<1>7. Typed'
  <2>1. RosterTypeOK'
    BY <1>3, <1>4, <1>5, <1>6 DEF RosterTypeOK
  <2> QED
    BY <1>2, <1>3, <2>1 DEF Typed, TypeOK, IdentityTypeOK, Placed
<1>8. shifts'[s].status = "published" /\ \A x \in Shift \ {s} : shifts'[x] = shifts[x]
  BY <1>3, <1>5
<1>9. tagged'.now = tagged.now \cup {s} /\ tagged'.ever = tagged.ever \cup {s}
  BY <1>3
<1>10. TablesKept
  <2>1. IsFiniteSet(LiveEmployees)'
    <3>1. PICK live : live = LiveEmployees
      OBVIOUS
    <3>2. IsFiniteSet(live) /\ live = LiveEmployees'
      BY <1>3, <3>1 DEF SeedInv, LiveEmployees, Live
    <3> QED
      BY <3>2
  <2>2. tagged' \in [now : SUBSET Shift, ever : SUBSET Shift]
    BY <1>3, <1>5
  <2>3. Tagged' \subseteq Tagged \cup {x \in Shift : shifts[x].status = "none"}
    BY <1>3, <1>5, <1>8, <1>9 DEF Tagged, Exists
  <2>4. \A x \in tagged'.now : shifts'[x].status # "none"
    BY <1>5, <1>8, <1>9 DEF SeedInv
  <2>5. \A x \in Shift : shifts[x].status # "none" => shifts'[x].status # "none"
    BY <1>8
  <2>6. tagged'.now \subseteq tagged'.ever /\ tagged.ever \subseteq tagged'.ever
    BY <1>9 DEF SeedInv
  <2>7. RowsAge
    BY <1>2, <1>3 DEF Typed, TypeOK, RowsAge
  <2> QED
    BY <1>7, <2>1, <2>2, <2>3, <2>4, <2>5, <2>6, <2>7 DEF TablesKept, TablesStay
<1>11. PICK todo : todo = q.todo \ {e}
  OBVIOUS
<1>12. PICK created : created = [q EXCEPT !.todo = todo, !.shift = s, !.owner = e]
  OBVIOUS
<1>13. created \in SeedState
  <2>1. todo \in EmployeeSets
    BY <1>2, <1>11 DEF SeedState, EmployeeSets
  <2>2. s \in ShiftOrNone /\ e \in Employees
    BY <1>4 DEF ShiftOrNone, Employees
  <2> QED
    BY <1>2, <1>12, <2>1, <2>2, SeedShape
<1>14. /\ created.pc = q.pc /\ created.code = q.code /\ created.before = q.before
       /\ created.old = q.old /\ created.purged = q.purged
       /\ now' \in Nat /\ q.purged <= now'
  BY <1>2, <1>10, <1>12, PurgedStays DEF SeedState, TablesKept, TablesStay, RowsAge
<1>15. PICK to : to = IF Attended(q.next, q.count)
                      THEN [created EXCEPT !.pc = "record"] ELSE LoopOn(created)
  OBVIOUS
<1>16. Advance(g, "create", to)
  BY <1>3, <1>11, <1>12, <1>15
<1>17. /\ to \in SeedState /\ to.pc \in {"create", "record", "done"}
       /\ to.before = q.before /\ to.old \subseteq q.old
       /\ to.code = 200 => to.pc = "done"
       /\ to.purged <= now'
  <2>1. CASE to = LoopOn(created)
    BY <1>4, <1>13, <1>14, <2>1, LoopOnFields
  <2>2. CASE to = [created EXCEPT !.pc = "record"]
    <3>1. to \in SeedState
      <4>1. "record" \in SeedPcs
        BY SeedParts
      <4> QED
        BY <1>13, <2>2, <4>1, SeedShape
    <3>2. /\ to.pc = "record" /\ to.before = created.before /\ to.old = created.old
          /\ to.code = created.code /\ to.purged = created.purged
      BY <1>13, <2>2 DEF SeedState
    <3> QED
      BY <1>4, <1>14, <3>1, <3>2
  <2> QED
    BY <1>15, <2>1, <2>2
<1>18. SeedSound(to)'
  BY <1>2, <1>4, <1>10, <1>17, LoopSound
<1> QED
  BY <1>1, <1>10, <1>16, <1>17, <1>18, AdvanceKeeps

LEMMA SeedDemoRecordKeeps ==
  ASSUME SeedInv, NEW g \in Seed, SeedDemoRecord(g) PROVE SeedInv'
<1>1. PICK q : q = seeds[g]
  OBVIOUS
<1>2. q \in SeedState /\ SeedSound(q) /\ Typed
  BY <1>1, SeedCurrent DEF SeedInv
<1>3. PICK c \in SeedClient :
        /\ ~Recorded(c) /\ ReferencesHold(q.owner, q.shift)
        /\ Advance(g, "record", LoopOn(q))
        /\ records' = [records EXCEPT ![c] = DemoRecord(q.next, q.owner, q.shift)]
        /\ now' = now + 2
        /\ UNCHANGED <<employees, shifts, publishedTo, requests, tagged>>
  BY <1>1 DEF SeedDemoRecord
<1>4. q.pc = "record" /\ q.code # 200 /\ q.owner \in Employee /\ q.shift \in Shift \cup {NoShift}
  BY <1>1, <1>2, <1>3 DEF Advance, SeedState, SeedSound, ReferencesHold, Live
<1>5. now \in Nat /\ now + 1 \in Nat /\ now + 2 \in Nat /\ 0 \in Nat
  BY <1>2 DEF Typed, TypeOK
<1>6. DemoRecord(q.next, q.owner, q.shift) \in Row
  <2>1. \A i : (CASE i = 0 -> "checked_out" [] i = 1 -> "on_break" [] OTHER -> "checked_in")
                 \in {"checked_in", "on_break", "checked_out"}
    OBVIOUS
  <2> QED
    BY <1>4, <1>5, <2>1 DEF DemoRecord, Row
<1>7. Typed'
  BY <1>2, <1>3, <1>5, <1>6 DEF Typed, TypeOK, IdentityTypeOK, RosterTypeOK, Placed
<1>8. Tagged' = Tagged
  BY <1>3 DEF Tagged, Exists
<1>9. TablesKept
  <2>1. IsFiniteSet(LiveEmployees)'
    <3>1. PICK live : live = LiveEmployees
      OBVIOUS
    <3>2. IsFiniteSet(live) /\ live = LiveEmployees'
      BY <1>3, <3>1 DEF SeedInv, LiveEmployees, Live
    <3> QED
      BY <3>2
  <2>2. RowsAge
    <3>1. records \in [ClientId -> Row]
      BY <1>2 DEF Typed, TypeOK
    <3>2. DemoRecord(q.next, q.owner, q.shift).checkInAt = now + 1
      BY DEF DemoRecord
    <3>3. now' \in Nat /\ now <= now' /\ now + 1 > now
      BY <1>3, <1>5
    <3>4. \A x \in ClientId : records'[x] = records[x] \/ records'[x].checkInAt = now + 1
      BY <1>3, <3>1, <3>2
    <3> QED
      BY <3>3, <3>4 DEF RowsAge
  <2> QED
    BY <1>3, <1>7, <1>8, <2>1, <2>2 DEF SeedInv, TablesKept, TablesStay
<1>10. PICK to : to = LoopOn(q)
  OBVIOUS
<1>11. /\ to \in SeedState /\ to.pc \in {"create", "done"}
       /\ to.before = q.before /\ to.old \subseteq q.old
       /\ to.code = 200 => to.pc = "done"
       /\ to.purged <= now'
  <2>1. now' \in Nat /\ q.purged <= now'
    BY <1>2, <1>9, PurgedStays DEF TablesKept, TablesStay, RowsAge
  <2> QED
    BY <1>2, <1>4, <1>10, <2>1, LoopOnFields
<1>12. SeedSound(to)'
  BY <1>2, <1>4, <1>9, <1>11, LoopSound
<1> QED
  BY <1>1, <1>3, <1>9, <1>10, <1>11, <1>12, AdvanceKeeps

-----------------------------------------------------------------------------
(* The invariant of the seeder. *)

LEMMA SeedInitInv == SeedInit => SeedInv
<1> SUFFICES ASSUME SeedInit PROVE SeedInv
  OBVIOUS
<1>1. Typed
  <2>1. \A r \in Request : requests[r].pc = "resolve"
    BY DEF SeedInit, Init, NewRequest
  <2> QED
    BY <2>1, InitType DEF SeedInit, Typed, Placed
<1>2. IsFiniteSet(LiveEmployees)
  <2>1. LiveEmployees = {}
    BY DEF SeedInit, Init, IdentityInit, LiveEmployees, Live
  <2> QED
    BY <2>1, FS_EmptySet
<1>3. SeedSound(NewSeed)
  <2>1. now = 0
    BY DEF SeedInit, Init
  <2> QED
    BY <2>1 DEF SeedSound, NewSeed
<1> QED
  BY <1>1, <1>2, <1>3, FreshSeed DEF SeedInit, SeedInv

LEMMA SeedNextInv == SeedInv /\ [SeedNext]_seedVars => SeedInv'
<1> SUFFICES ASSUME SeedInv, [SeedNext]_seedVars PROVE SeedInv'
  OBVIOUS
<1>1. CASE UNCHANGED seedVars
  <2>1. UNCHANGED <<vars, tagged>> /\ seeds' = seeds
    BY <1>1 DEF seedVars, vars
  <2> QED
    BY <2>1, StillTables, SeedsStay
<1> QED
  BY <1>1, OthersKeep, EditNoteKeeps, WriteNoteKeeps, AdmitKeeps, ListActiveKeeps, ShiftIDsByNoteKeeps,
     DeleteByShiftIDsKeeps, DeleteShiftsByNoteKeeps, CreatePublishedShiftKeeps,
     SeedDemoRecordKeeps, SeedFailsKeeps DEF SeedNext, SeedStep

(* Whatever the calls of the seeder, the phones and the managers do between *)
(* each other's statements.                                                 *)
THEOREM SeedInvariance == SeedSpec => []SeedInv
BY SeedInitInv, SeedNextInv, PTL DEF SeedSpec

(* The tables, the notes and the calls of the seeder have their types. *)
THEOREM SeedTypeCorrect == SeedSpec => []SeedTypeOK
<1>1. SeedInv => SeedTypeOK
  BY DEF SeedInv, SeedTypeOK, Typed
<1> QED
  BY <1>1, SeedInvariance, PTL

(* A seeding answered 200 has replaced every shift that carried the note    *)
(* when it came, for any number of calls at once                            *)
(* (demoseed/service.go 62-69).                                             *)
THEOREM SeedingReplaces == SeedSpec => []SeededAnswerTrue
<1>1. SeedInv => SeededAnswerTrue
  BY DEF SeedInv, SeedSound, SeededAnswerTrue
<1> QED
  BY <1>1, SeedInvariance, PTL

(* A row only goes with a shift that has been tagged. *)
LEMMA RowsGoTagged ==
  ASSUME SeedInv, SeedNext, NEW c \in ClientId, Recorded(c), records'[c].status = "none"
  PROVE  records[c].shift \in tagged.ever
<1>1. records \in [ClientId -> Row] /\ Typed
  BY DEF SeedInv, Typed, TypeOK
<1>2. records[c] \in Row /\ records[c].status # "none"
  BY <1>1 DEF Recorded
<1>3. records'[c] # records[c]
  BY <1>2
<1>4. ASSUME Others PROVE FALSE
  <2>1. \A r \in Request : requests'[r].client \notin SeedClient
    BY <1>4 DEF Others
  <2>2. records'[c].status # "none"
    BY <1>1, <1>2, <1>4, RowSteps DEF Others, Row
  <2> QED
    BY <2>2
<1>5. ASSUME UNCHANGED records PROVE FALSE
  BY <1>3, <1>5
<1>6. ASSUME NEW g \in Seed, DeleteShiftsByNote(g) PROVE FALSE
  <2>1. records' = [x \in ClientId |-> IF records[x].shift \in Tagged
                                       THEN [records[x] EXCEPT !.shift = NoShift] ELSE records[x]]
    BY <1>6 DEF DeleteShiftsByNote
  <2>2. records'[c] = [records[c] EXCEPT !.shift = NoShift]
    BY <1>3, <2>1
  <2> QED
    BY <1>2, <2>2 DEF Row
<1>7. ASSUME NEW g \in Seed, SeedDemoRecord(g) PROVE FALSE
  <2>1. PICK k \in SeedClient :
          ~Recorded(k) /\ \E row : records' = [records EXCEPT ![k] = row]
    BY <1>7 DEF SeedDemoRecord
  <2> QED
    BY <1>1, <1>3, <2>1
<1>8. ASSUME NEW g \in Seed, DeleteByShiftIDs(g) PROVE records[c].shift \in tagged.ever
  <2>1. records[c].shift \in seeds[g].old
    BY <1>3, <1>8 DEF DeleteByShiftIDs
  <2> QED
    BY <2>1, SeedCurrent DEF SeedSound
<1>9. ASSUME NEW g \in Seed, SeedStep(g) PROVE records[c].shift \in tagged.ever
  BY <1>5, <1>6, <1>7, <1>8, <1>9
     DEF SeedStep, Admit, ListActive, ShiftIDsByNote, CreatePublishedShift, SeedFails, vars
<1> QED
  BY <1>4, <1>5, <1>9 DEF SeedNext, EditNote, WriteNote, vars

(* Re-seeding takes the attendance of what carries the note only, and takes *)
(* it before the shifts, whoever made it (demoseed/service.go 22-24, 87-99). *)
THEOREM OwnDataReplaced == SeedSpec => SeedReplacesOwnData
<1> DEFINE Rows == \A c \in ClientId :
             Recorded(c) /\ records'[c].status = "none" => records[c].shift \in tagged.ever
           Kept(g) == \A c \in ClientId :
             records[c].shift \in seeds[g].old /\ records[c].checkInAt <= seeds[g].purged =>
               records'[c].shift = records[c].shift
           Leaves(g) == seeds[g].pc = "shifts" /\ seeds'[g].pc # "shifts"
<1>1. SeedInv /\ SeedNext => Rows
  BY RowsGoTagged
<1>2. ASSUME SeedInv, SeedNext, NEW g \in Seed, Leaves(g) PROVE Kept(g)
  <2>1. ASSUME NEW c \in ClientId, records[c].shift \in seeds[g].old
        PROVE  ~(records[c].checkInAt <= seeds[g].purged)
    <3>1. seeds[g].purged \in Nat /\ records[c].checkInAt \in Nat
      BY <1>2 DEF SeedInv, SeedState, Typed, TypeOK, Row
    <3>2. records[c].checkInAt > seeds[g].purged
      BY <1>2, <2>1, SeedCurrent DEF SeedSound
    <3> QED
      BY <3>1, <3>2
  <2> QED
    BY <2>1
<1>3. SeedInv /\ [SeedNext]_seedVars =>
        [Rows /\ \A g \in Seed : Leaves(g) => Kept(g)]_seedVars
  <2> HIDE DEF Rows, Kept, Leaves
  <2> QED
    BY <1>1, <1>2
<1>4. SeedInv /\ [SeedNext]_seedVars =>
        [/\ \A c \in ClientId :
              Recorded(c) /\ records'[c].status = "none" => records[c].shift \in tagged.ever
         /\ \A g \in Seed : seeds[g].pc = "shifts" /\ seeds'[g].pc # "shifts" =>
              \A c \in ClientId :
                records[c].shift \in seeds[g].old /\ records[c].checkInAt <= seeds[g].purged =>
                  records'[c].shift = records[c].shift]_seedVars
  BY <1>3
<1> QED
  BY <1>4, SeedInvariance, PTL DEF SeedSpec, SeedReplacesOwnData

-----------------------------------------------------------------------------
(* The rows of attendance beside the seeder.  It deletes rows, so that what *)
(* a request has read of one need no longer be there, and the invariant of  *)
(* the attendance service is lost; but every row that is there is sound.    *)

StampsFit(row) ==
  /\ (row.status = "none") <=> (row.checkInAt = 0)
  /\ (row.status = "on_break") <=> (row.breakStartedAt > row.checkInAt)
  /\ (row.status # "on_break") <=> (row.breakStartedAt = 0)
  /\ (row.status = "checked_out") <=> (row.checkOutAt > row.checkInAt)
  /\ (row.status # "checked_out") <=> (row.checkOutAt = 0)

RowFits(row) ==
  /\ StampsFit(row)
  /\ row.checkInAt <= now
  /\ row.status # "none" => Live(row.employee)
  /\ row.shift # NoShift => /\ shifts[row.shift].status = "published"
                            /\ row.employee \in publishedTo[row.shift]

ShiftFits(s) ==
  /\ Exists(s) => Live(shifts[s].owner)
  /\ shifts[s].status = "published" => shifts[s].owner \in publishedTo[s]

(* The shift a call of the seeder has created and is about to record on     *)
(* stays published until it is deleted, and was published to its owner.     *)
Placing(q) ==
  q.pc = "record" => /\ q.shift # NoShift
                     /\ shifts[q.shift].status \in {"published", "deleted"}
                     /\ q.owner \in publishedTo[q.shift]

SeedTables ==
  /\ \A c \in ClientId : RowFits(records[c])
  /\ \A s \in Shift : ShiftFits(s)
  /\ \A r \in Request : Validated(requests[r])
  /\ \A g \in Seed : Placing(seeds[g])

RosterAdvances ==
  /\ \A s \in Shift : shifts[s].status \in {"published", "deleted"} =>
                        shifts'[s].status \in {"published", "deleted"}
  /\ \A s \in Shift : publishedTo[s] \subseteq publishedTo'[s]

LEMMA TypedTables ==
  ASSUME Typed
  PROVE  /\ records \in [ClientId -> Row] /\ requests \in [Request -> RequestState]
         /\ shifts \in [Shift -> ShiftRow] /\ publishedTo \in [Shift -> SUBSET Employee]
         /\ employees \in [Employee -> EmployeeRow] /\ now \in Nat
BY DEF Typed, TypeOK, IdentityTypeOK, RosterTypeOK

(* A row that is not written stays sound while its employee and its shift do. *)
LEMMA RowStays ==
  ASSUME NEW row \in Row, RowFits(row), now \in Nat, now' \in Nat, now <= now',
         row.status # "none" => Live(row.employee)',
         row.shift # NoShift => shifts'[row.shift].status = "published",
         \A s \in Shift : publishedTo[s] \subseteq publishedTo'[s]
  PROVE  RowFits(row)'
<1>1. row.checkInAt \in Nat /\ row.shift \in Shift \cup {NoShift}
  BY DEF Row
<1>2. row.checkInAt <= now'
  BY <1>1 DEF RowFits
<1>3. row.shift # NoShift => row.employee \in publishedTo'[row.shift]
  BY <1>1 DEF RowFits
<1> QED
  BY <1>2, <1>3 DEF RowFits, StampsFit

(* What a request has validated, and what the seeder has placed, outlives   *)
(* any move of the roster.                                                  *)
LEMMA RequestStays ==
  ASSUME Typed, RosterAdvances, NEW q \in RequestState, Validated(q) PROVE Validated(q)'
<1>1. q.shift \in Shift \cup {NoShift}
  BY DEF RequestState
<1> QED
  BY <1>1 DEF Validated, RosterAdvances

LEMMA SeedStays ==
  ASSUME RosterAdvances, NEW q \in SeedState, Placing(q) PROVE Placing(q)'
<1>1. q.shift \in Shift \cup {NoShift}
  BY DEF SeedState
<1> QED
  BY <1>1 DEF Placing, RosterAdvances

(* The requests and the seeder's calls, when the roster is all that moves.  *)
LEMMA CallsStay ==
  ASSUME SeedInv, SeedTables, RosterAdvances
  PROVE  /\ UNCHANGED requests => (\A r \in Request : Validated(requests[r]))'
         /\ \A g \in Seed : seeds'[g] = seeds[g] => Placing(seeds[g])'
<1>1. ASSUME NEW r \in Request, requests'[r] = requests[r] PROVE Validated(requests[r])'
  <2>1. PICK q : q = requests[r]
    OBVIOUS
  <2>2. Typed /\ q \in RequestState /\ Validated(q)
    BY <2>1, TypedTables DEF SeedInv, SeedTables
  <2>3. Validated(q)'
    BY <2>2, RequestStays
  <2> QED
    BY <1>1, <2>1, <2>3 DEF Validated
<1>2. ASSUME NEW g \in Seed, seeds'[g] = seeds[g] PROVE Placing(seeds[g])'
  <2>1. PICK q : q = seeds[g]
    OBVIOUS
  <2>2. q \in SeedState /\ Placing(q)
    BY <2>1, SeedCurrent DEF SeedTables
  <2>3. Placing(q)'
    BY <2>2, SeedStays
  <2> QED
    BY <1>2, <2>1, <2>3 DEF Placing
<1> QED
  BY <1>1, <1>2

(* A step of a request, as the tables see it. *)
LEMMA ServeValidated ==
  ASSUME SeedInv, SeedTables, NEW r \in Request, Serve(r)
  PROVE  (\A x \in Request : Validated(requests[x]))'
<1>1. Typed /\ UNCHANGED <<employees, shifts, publishedTo>>
  BY ServeTables DEF SeedInv
<1>2. requests \in [Request -> RequestState] /\ RosterAdvances
  BY <1>1, TypedTables DEF RosterAdvances
<1>3. PICK q : q = requests[r]
  OBVIOUS
<1>4. q \in RequestState
  BY <1>2, <1>3
<1>5. ASSUME NEW to, requests' = [requests EXCEPT ![r] = to], Validated(to)
      PROVE  (\A x \in Request : Validated(requests[x]))'
  <2>1. \A x \in Request : requests'[x] = IF x = r THEN to ELSE requests[x]
    BY <1>2, <1>5
  <2> QED
    BY <1>1, <1>5, <2>1 DEF Validated, SeedTables
<1>6. ASSUME NEW to, requests' = [requests EXCEPT ![r] = to], to.pc # "insert"
      PROVE  (\A x \in Request : Validated(requests[x]))'
  BY <1>5, <1>6 DEF Validated
<1>7. ASSUME NEW code, NEW row, Answer(r, code, row)
      PROVE  (\A x \in Request : Validated(requests[x]))'
  <2>1. PICK to : to = Answered(q, code, row)
    OBVIOUS
  <2>2. to.pc = "done"
    BY <1>4, <2>1, RequestFields
  <2>3. requests' = [requests EXCEPT ![r] = to]
    BY <1>3, <1>7, <2>1 DEF Answer
  <2> QED
    BY <1>6, <2>2, <2>3
<1>8. ASSUME NEW label, Goto(r, label),
             label = "insert" /\ q.shift # NoShift => OwnPublishedShift(q.shift, q.employee)
      PROVE  (\A x \in Request : Validated(requests[x]))'
  <2>1. PICK to : to = Moved(q, label)
    OBVIOUS
  <2>2. to.pc = label /\ to.shift = q.shift /\ to.employee = q.employee
    BY <1>4, <2>1, RequestFields
  <2>3. requests' = [requests EXCEPT ![r] = to]
    BY <1>3, <1>8, <2>1 DEF Goto
  <2>4. label = "insert" /\ q.shift # NoShift => q.employee \in publishedTo[q.shift]
    <3>1. q.shift \in Shift \cup {NoShift}
      BY <1>4 DEF RequestState
    <3> QED
      BY <1>8, <3>1 DEF SeedTables, ShiftFits, Exists, OwnPublishedShift
  <2>5. Validated(to)
    BY <1>8, <2>2, <2>4 DEF Validated, OwnPublishedShift
  <2> QED
    BY <1>5, <2>3, <2>5
<1>9. CASE Resolve(r)
  <2>1. \/ \E op, c, s, e : requests' = [requests EXCEPT ![r] = Called(@, op, c, s, e)]
        \/ \E op, c, s, code : requests' = [requests EXCEPT ![r] = Refused(@, op, c, s, code)]
    BY <1>9 DEF Resolve
  <2>2. ASSUME NEW op, NEW c, NEW s, NEW e,
               requests' = [requests EXCEPT ![r] = Called(@, op, c, s, e)]
        PROVE  (\A x \in Request : Validated(requests[x]))'
    <3>1. PICK to : to = Called(q, op, c, s, e)
      OBVIOUS
    <3>2. to.pc = "lookup"
      BY <1>4, <3>1, RequestFields
    <3> QED
      BY <1>3, <1>6, <2>2, <3>1, <3>2
  <2>3. ASSUME NEW op, NEW c, NEW s, NEW code,
               requests' = [requests EXCEPT ![r] = Refused(@, op, c, s, code)]
        PROVE  (\A x \in Request : Validated(requests[x]))'
    <3>1. PICK to : to = Refused(q, op, c, s, code)
      OBVIOUS
    <3>2. to.pc = "done"
      BY <1>4, <3>1, RequestFields
    <3> QED
      BY <1>3, <1>6, <2>3, <3>1, <3>2
  <2> QED
    BY <2>1, <2>2, <2>3
<1>10. CASE LookupForCheckIn(r)
  <2>1. \/ Goto(r, IF q.shift = NoShift THEN "insert" ELSE "validate")
        \/ \E code, row : Answer(r, code, row)
    BY <1>3, <1>10 DEF LookupForCheckIn
  <2> QED
    BY <1>7, <1>8, <2>1
<1>11. CASE ValidateOwnShift(r)
  BY <1>3, <1>7, <1>8, <1>11 DEF ValidateOwnShift
<1>12. ASSUME NEW code, NEW row, Write(r, code, row)
       PROVE  (\A x \in Request : Validated(requests[x]))'
  BY <1>7, <1>12 DEF Write
<1> QED
  BY <1>3, <1>7, <1>8, <1>9, <1>10, <1>11, <1>12
     DEF Serve, InsertCheckIn, RereadAfterConflict, LookupForCheckOut, UpdateCheckOut,
         LookupForBreak, UpdateBreak, Fail

(* The rows a request writes: an update finds the row as it is now, whether *)
(* or not it is the one the request has read.                               *)
LEMMA ServeRows ==
  ASSUME SeedInv, SeedTables, NEW r \in Request, Serve(r), NEW c \in ClientId
  PROVE  RowFits(records[c])'
<1> DEFINE q == requests[r]
<1>1. /\ Typed /\ UNCHANGED <<employees, shifts, publishedTo>>
      /\ records \in [ClientId -> Row] /\ q \in RequestState /\ now \in Nat
      /\ Placed(q) /\ Validated(q)
  BY ServeTables, TypedTables DEF SeedInv, SeedTables, Typed
<1>2. PICK old : old = records[c]
  OBVIOUS
<1>3. old \in Row /\ RowFits(old)
  BY <1>1, <1>2 DEF SeedTables
<1>4. CASE ReadOnly
  BY <1>4 DEF ReadOnly, SeedTables, RowFits, StampsFit, Live
<1>5. ASSUME NEW code, NEW row \in Row, Write(r, code, row), now' = now + 1,
             q.client \in ClientId, c = q.client => RowFits(row)'
      PROVE  RowFits(records[c])'
  <2>1. records' = [records EXCEPT ![q.client] = row]
    BY <1>5 DEF Write
  <2>2. CASE c = q.client
    <3>1. records'[c] = row
      BY <1>1, <2>1, <2>2
    <3> QED
      BY <1>5, <2>2, <3>1 DEF RowFits, StampsFit
  <2>3. CASE c # q.client
    <3>1. records'[c] = old
      BY <1>1, <1>2, <2>1, <2>3
    <3>2. now' \in Nat /\ now <= now'
      BY <1>1, <1>5
    <3>3. RowFits(old)'
      BY <1>1, <1>3, <3>2, RowStays DEF RowFits, Live
    <3> QED
      BY <3>1, <3>3 DEF RowFits, StampsFit
  <2> QED
    BY <2>2, <2>3
<1>6. CASE InsertCheckIn(r)
  <2>1. CASE /\ ReferencesHold(q.employee, q.shift) /\ now' = now + 1
             /\ Write(r, 201, CheckedIn(q.employee, q.shift))
    <3>1. PICK row : row = CheckedIn(q.employee, q.shift)
      OBVIOUS
    <3>2. /\ row.status = "checked_in" /\ row.employee = q.employee /\ row.shift = q.shift
          /\ row.checkInAt = now + 1 /\ row.checkOutAt = 0 /\ row.breakStartedAt = 0
      BY <3>1 DEF CheckedIn
    <3>3. q.client \in ClientId /\ q.pc = "insert"
      BY <1>1, <1>6 DEF InsertCheckIn, At, Placed
    <3>4. q.employee \in Employee /\ q.shift \in Shift \cup {NoShift}
      BY <1>1, <2>1 DEF ReferencesHold, Live, RequestState
    <3>5. row \in Row
      BY <1>1, <3>1, <3>4, RowTypes DEF Typed
    <3>6. Live(row.employee)'
      BY <1>1, <2>1, <3>2 DEF ReferencesHold, Live
    <3>7. row.shift # NoShift => /\ shifts'[row.shift].status = "published"
                                 /\ row.employee \in publishedTo'[row.shift]
      BY <1>1, <2>1, <3>2, <3>3 DEF ReferencesHold, Exists, Validated
    <3>8. ~(0 > now + 1) /\ now + 1 # 0 /\ now + 1 <= now'
      BY <1>1, <2>1
    <3>9. RowFits(row)'
      BY <3>2, <3>6, <3>7, <3>8 DEF RowFits, StampsFit
    <3> QED
      BY <1>5, <2>1, <3>1, <3>3, <3>5, <3>9
  <2> QED
    BY <1>4, <1>6, <2>1 DEF InsertCheckIn
<1>7. ASSUME NEW row \in Row, Write(r, 200, row), now' = now + 1, q.client \in ClientId,
             Recorded(q.client),
             row.employee = records[q.client].employee, row.shift = records[q.client].shift,
             row.checkInAt = records[q.client].checkInAt, row.status # "none",
             row.checkInAt # 0 /\ row.checkInAt <= now => StampsFit(row)
      PROVE  RowFits(records[c])'
  <2>1. CASE c = q.client
    <3>1. /\ old.checkInAt \in Nat /\ old.checkInAt # 0 /\ old.checkInAt <= now
          /\ Live(old.employee) /\ Recorded(c)
      BY <1>2, <1>3, <1>7, <2>1 DEF RowFits, StampsFit, Row, Recorded
    <3>2. row.checkInAt <= now'
      BY <1>1, <1>2, <1>7, <2>1, <3>1
    <3>3. StampsFit(row) /\ row.status # "none"
      BY <1>2, <1>7, <2>1, <3>1
    <3>4. Live(row.employee)'
      BY <1>1, <1>2, <1>7, <2>1, <3>1 DEF Live
    <3>5. row.shift # NoShift => /\ shifts'[row.shift].status = "published"
                                 /\ row.employee \in publishedTo'[row.shift]
      BY <1>1, <1>2, <1>3, <1>7, <2>1 DEF RowFits
    <3>6. RowFits(row)'
      BY <3>2, <3>3, <3>4, <3>5 DEF RowFits, StampsFit
    <3> QED
      BY <1>5, <1>7, <3>6
  <2> QED
    BY <1>5, <1>7, <2>1
<1>8. CASE UpdateCheckOut(r)
  <2>1. CASE /\ Recorded(q.client) /\ now' = now + 1
             /\ Write(r, 200, CheckedOut(records[q.client]))
    <3>1. PICK row : row = CheckedOut(records[q.client])
      OBVIOUS
    <3>2. q.client \in ClientId
      BY <1>1, <1>8 DEF UpdateCheckOut, At, Placed
    <3>3. row \in Row
      BY <1>1, <3>1, <3>2, RowTypes DEF Typed
    <3>4. /\ row.status = "checked_out" /\ row.checkOutAt = now + 1 /\ row.breakStartedAt = 0
          /\ row.employee = records[q.client].employee /\ row.shift = records[q.client].shift
          /\ row.checkInAt = records[q.client].checkInAt
      BY <1>1, <3>1, <3>2 DEF CheckedOut, Row
    <3>5. ASSUME row.checkInAt # 0, row.checkInAt <= now PROVE StampsFit(row)
      <4>1. row.checkInAt \in Nat
        BY <3>3 DEF Row
      <4>2. now + 1 > row.checkInAt /\ ~(0 > row.checkInAt) /\ now + 1 # 0
        BY <1>1, <3>5, <4>1
      <4> QED
        BY <3>4, <3>5, <4>2 DEF StampsFit
    <3> QED
      BY <1>7, <2>1, <3>1, <3>2, <3>3, <3>4, <3>5
  <2> QED
    BY <1>4, <1>8, <2>1 DEF UpdateCheckOut
<1>9. CASE UpdateBreak(r)
  <2>1. CASE /\ Open(records[q.client]) /\ now' = now + 1
             /\ Write(r, 200, BreakSet(records[q.client], q.op))
    <3>1. PICK row : row = BreakSet(records[q.client], q.op)
      OBVIOUS
    <3>2. q.client \in ClientId /\ q.op \in Op
      BY <1>1, <1>9 DEF UpdateBreak, At, Placed, Op
    <3>3. row \in Row
      BY <1>1, <3>1, <3>2, RowTypes DEF Typed
    <3>4. /\ row.employee = records[q.client].employee /\ row.shift = records[q.client].shift
          /\ row.checkInAt = records[q.client].checkInAt
          /\ row.checkOutAt = records[q.client].checkOutAt
          /\ \/ row.status = "on_break" /\ row.breakStartedAt = now + 1
             \/ row.status = "checked_in" /\ row.breakStartedAt = 0
      BY <1>1, <3>1, <3>2 DEF BreakSet, Row
    <3>5. Recorded(q.client) /\ records[q.client].checkOutAt = 0
      BY <2>1, <3>2 DEF Open, Recorded, SeedTables, RowFits, StampsFit
    <3>6. ASSUME row.checkInAt # 0, row.checkInAt <= now PROVE StampsFit(row)
      <4>1. row.checkInAt \in Nat
        BY <3>3 DEF Row
      <4>2. now + 1 > row.checkInAt /\ ~(0 > row.checkInAt) /\ now + 1 # 0
        BY <1>1, <3>6, <4>1
      <4> QED
        BY <3>4, <3>5, <3>6, <4>2 DEF StampsFit
    <3>7. row.status # "none"
      BY <3>4
    <3> QED
      BY <1>7, <2>1, <3>1, <3>2, <3>3, <3>4, <3>5, <3>6, <3>7
  <2> QED
    BY <1>4, <1>9, <2>1 DEF UpdateBreak
<1> QED
  BY <1>4, <1>6, <1>8, <1>9
     DEF Serve, Resolve, LookupForCheckIn, ValidateOwnShift, RereadAfterConflict,
         LookupForCheckOut, LookupForBreak, Fail

(* The managers: who is given a shift is there, and is remembered once the  *)
(* shift is published.                                                      *)
LEMMA ManageShiftTables ==
  ASSUME SeedInv, SeedTables, ManageShift
  PROVE  /\ RosterAdvances
         /\ \A s \in Shift : shifts[s].status = "published" => shifts'[s].status = "published"
         /\ (\A s \in Shift : ShiftFits(s))'
<1>1. PICK s \in Shift :
        \/ PublishShift(s)
        \/ \E e \in Employee : CreateShift(s, e) \/ UpdateShift(s, e)
  BY DEF ManageShift
<1>2. /\ UNCHANGED employees /\ shifts \in [Shift -> ShiftRow]
      /\ publishedTo \in [Shift -> SUBSET Employee]
  BY TypedTables DEF ManageShift, SeedInv
<1>3. ASSUME NEW row, NEW more, shifts' = [shifts EXCEPT ![s] = row],
             publishedTo' = [publishedTo EXCEPT ![s] = more],
             publishedTo[s] \subseteq more, Live(row.owner),
             row.status = "published" => row.owner \in more,
             row.status \in {"draft", "published"}, shifts[s].status # "deleted",
             shifts[s].status = "published" => row.status = "published"
      PROVE  /\ RosterAdvances
             /\ \A x \in Shift : shifts[x].status = "published" => shifts'[x].status = "published"
             /\ (\A x \in Shift : ShiftFits(x))'
  <2>1. \A x \in Shift : /\ shifts'[x] = IF x = s THEN row ELSE shifts[x]
                         /\ publishedTo'[x] = IF x = s THEN more ELSE publishedTo[x]
    BY <1>2, <1>3
  <2>2. RosterAdvances
    BY <1>3, <2>1 DEF RosterAdvances
  <2>3. ASSUME NEW x \in Shift PROVE ShiftFits(x)'
    BY <1>2, <1>3, <2>1 DEF SeedTables, ShiftFits, Exists, Live
  <2> QED
    BY <1>3, <2>1, <2>2, <2>3
<1>4. CASE PublishShift(s)
  <2>1. PICK row : row = [shifts[s] EXCEPT !.status = "published"]
    OBVIOUS
  <2>2. row.status = "published" /\ row.owner = shifts[s].owner
    BY <1>2, <2>1 DEF ShiftRow
  <2>3. /\ shifts' = [shifts EXCEPT ![s] = row] /\ Exists(s)
        /\ publishedTo' = [publishedTo EXCEPT ![s] = publishedTo[s] \cup {shifts[s].owner}]
    BY <1>2, <1>4, <2>1 DEF PublishShift
  <2>4. Live(row.owner)
    BY <2>2, <2>3 DEF SeedTables, ShiftFits
  <2>5. PICK more : more = publishedTo[s] \cup {row.owner}
    OBVIOUS
  <2>6. /\ publishedTo' = [publishedTo EXCEPT ![s] = more]
        /\ publishedTo[s] \subseteq more /\ row.owner \in more
    BY <2>2, <2>3, <2>5
  <2> QED
    BY <1>3, <2>2, <2>3, <2>4, <2>6 DEF Exists
<1>5. ASSUME NEW e \in Employee, CreateShift(s, e) \/ UpdateShift(s, e)
      PROVE  \E row, more :
               /\ shifts' = [shifts EXCEPT ![s] = row] /\ publishedTo' = [publishedTo EXCEPT ![s] = more]
               /\ publishedTo[s] \subseteq more /\ Live(row.owner)
               /\ row.status = "published" => row.owner \in more
               /\ row.status \in {"draft", "published"} /\ shifts[s].status # "deleted"
               /\ shifts[s].status = "published" => row.status = "published"
  <2>1. PICK more :
          more = publishedTo[s] \cup (IF shifts[s].status = "published" THEN {e} ELSE {})
    OBVIOUS
  <2>2. /\ publishedTo' = [publishedTo EXCEPT ![s] = more] /\ publishedTo[s] \subseteq more
        /\ shifts[s].status = "published" => e \in more
    BY <1>2, <1>5, <2>1 DEF CreateShift, UpdateShift
  <2>3. CASE CreateShift(s, e)
    <3>1. PICK row : row = [status |-> "draft", owner |-> e]
      OBVIOUS
    <3>2. row.status = "draft" /\ row.owner = e
      BY <3>1
    <3>3. shifts' = [shifts EXCEPT ![s] = row] /\ Live(e) /\ shifts[s].status = "none"
      BY <2>3, <3>1 DEF CreateShift
    <3> QED
      BY <2>2, <3>2, <3>3
  <2>4. CASE UpdateShift(s, e)
    <3>1. PICK row : row = [shifts[s] EXCEPT !.owner = e]
      OBVIOUS
    <3>2. row.status = shifts[s].status /\ row.owner = e
      BY <1>2, <3>1 DEF ShiftRow
    <3>3. shifts' = [shifts EXCEPT ![s] = row] /\ Live(e) /\ Exists(s)
      BY <2>4, <3>1 DEF UpdateShift
    <3> QED
      BY <2>2, <3>2, <3>3 DEF Exists
  <2> QED
    BY <1>5, <2>3, <2>4
<1> QED
  BY <1>1, <1>3, <1>4, <1>5

(* Nobody who has shifts or attendance is deleted. *)
LEMMA ManageEmployeeTables ==
  ASSUME SeedInv, SeedTables, ManageEmployee
  PROVE  /\ \A c \in ClientId : Recorded(c) => Live(records[c].employee)'
         /\ (\A s \in Shift : ShiftFits(s))'
<1>1. PICK e \in Employee :
        \/ \E u \in User \cup {NoUser} : CreateEmployee(e, u)
        \/ \E u \in User : SetEmployeeUserID(e, u)
        \/ DeleteEmployee(e, ShiftOwners \cup Attending)
  BY DEF ManageEmployee
<1>2. /\ UNCHANGED <<shifts, publishedTo, records>> /\ employees \in [Employee -> EmployeeRow]
      /\ publishedTo \in [Shift -> SUBSET Employee] /\ shifts \in [Shift -> ShiftRow]
  BY TypedTables DEF ManageEmployee, SeedInv
<1>3. ASSUME NEW x \in Employee, Live(x), x \in ShiftOwners \cup Attending PROVE Live(x)'
  <2>1. ASSUME NEW row, employees' = [employees EXCEPT ![e] = row], x # e \/ row.row = "live"
        PROVE  Live(x)'
    BY <1>2, <1>3, <2>1 DEF Live
  <2>2. ASSUME NEW u, CreateEmployee(e, u) PROVE Live(x)'
    <3>1. employees' = [employees EXCEPT ![e] = [row |-> "live", user |-> u]]
      BY <2>2 DEF CreateEmployee
    <3> QED
      BY <2>1, <3>1
  <2>3. ASSUME NEW u, SetEmployeeUserID(e, u) PROVE Live(x)'
    <3>1. employees' = [employees EXCEPT ![e] = [employees[e] EXCEPT !.user = u]]
      BY <2>3 DEF SetEmployeeUserID
    <3>2. [employees[e] EXCEPT !.user = u].row = "live"
      BY <1>2, <2>3 DEF SetEmployeeUserID, Live, EmployeeRow
    <3> QED
      BY <2>1, <3>1, <3>2
  <2>4. CASE DeleteEmployee(e, ShiftOwners \cup Attending)
    <3>1. x # e /\ employees' = [employees EXCEPT ![e] = [row |-> "deleted", user |-> NoUser]]
      BY <1>3, <2>4 DEF DeleteEmployee
    <3> QED
      BY <2>1, <3>1
  <2> QED
    BY <1>1, <2>2, <2>3, <2>4
<1>4. ASSUME NEW c \in ClientId, Recorded(c) PROVE Live(records[c].employee)'
  <2>1. Live(records[c].employee)
    BY <1>4 DEF SeedTables, RowFits, Recorded
  <2>2. records[c].employee \in Employee /\ records[c].employee \in Attending
    BY <1>4, <2>1 DEF Live, Attending
  <2>3. PICK x \in Employee : x = records[c].employee
    BY <2>2
  <2>4. Live(x)'
    BY <1>3, <2>1, <2>2, <2>3
  <2> QED
    BY <1>2, <2>3, <2>4 DEF Live
<1>5. ASSUME NEW s \in Shift PROVE ShiftFits(s)'
  <2>1. CASE ~Exists(s)
    BY <1>2, <2>1 DEF ShiftFits, Exists
  <2>2. CASE Exists(s)
    <3>1. /\ Live(shifts[s].owner)
          /\ shifts[s].status = "published" => shifts[s].owner \in publishedTo[s]
      BY <2>2 DEF SeedTables, ShiftFits
    <3>2. shifts[s].owner \in Employee /\ shifts[s].owner \in ShiftOwners
      BY <1>2, <2>2 DEF ShiftOwners, ShiftRow, Exists
    <3>3. PICK x \in Employee : x = shifts[s].owner
      BY <3>2
    <3>4. Live(x)'
      BY <1>3, <3>1, <3>2, <3>3
    <3> QED
      BY <1>2, <3>1, <3>3, <3>4 DEF ShiftFits, Exists, Live
  <2> QED
    BY <2>1, <2>2
<1> QED
  BY <1>4, <1>5

(* The deletion of some shifts, one or all that carry the note.             *)
LEMMA DeletionTables ==
  ASSUME SeedInv, SeedTables, NEW gone \in SUBSET Shift,
         UNCHANGED <<employees, publishedTo, now>>,
         \A s \in Shift : shifts'[s] = IF s \in gone THEN [status |-> "deleted", owner |-> NoEmployee]
                                                     ELSE shifts[s],
         \A c \in ClientId : records'[c] = IF records[c].shift \in gone
                                           THEN [records[c] EXCEPT !.shift = NoShift] ELSE records[c]
  PROVE  /\ RosterAdvances
         /\ (\A c \in ClientId : RowFits(records[c]))'
         /\ (\A s \in Shift : ShiftFits(s))'
<1>1. records \in [ClientId -> Row] /\ now \in Nat
  BY TypedTables DEF SeedInv
<1>2. RosterAdvances
  BY DEF RosterAdvances
<1>3. ASSUME NEW s \in Shift PROVE ShiftFits(s)'
  BY DEF SeedTables, ShiftFits, Exists, Live
<1>4. ASSUME NEW c \in ClientId PROVE RowFits(records[c])'
  <2>1. PICK old \in Row : old = records[c] /\ RowFits(old)
    BY <1>1 DEF SeedTables
  <2>2. old.shift \in Shift \cup {NoShift}
    BY DEF Row
  <2>3. CASE old.shift \in gone
    <3>1. PICK row : row = [old EXCEPT !.shift = NoShift]
      OBVIOUS
    <3>2. /\ row.shift = NoShift /\ row.status = old.status /\ row.employee = old.employee
          /\ row.checkInAt = old.checkInAt /\ row.checkOutAt = old.checkOutAt
          /\ row.breakStartedAt = old.breakStartedAt
      BY <3>1 DEF Row
    <3>3. RowFits(row)'
      BY <2>1, <3>2 DEF RowFits, StampsFit, Live
    <3>4. row = records'[c]
      BY <2>1, <2>3, <3>1
    <3> QED
      BY <3>3, <3>4 DEF RowFits, StampsFit
  <2>4. CASE old.shift \notin gone
    <3>1. RowFits(old)'
      BY <2>1, <2>2, <2>4 DEF RowFits, StampsFit, Live
    <3>2. old = records'[c]
      BY <2>1, <2>4
    <3> QED
      BY <3>1, <3>2 DEF RowFits, StampsFit
  <2> QED
    BY <2>3, <2>4
<1> QED
  BY <1>2, <1>3, <1>4

(* A step that leaves the tables of attendance alone. *)
LEMMA RowsKept ==
  ASSUME SeedInv, SeedTables, UNCHANGED <<records, now>>,
         \A c \in ClientId : Recorded(c) => Live(records[c].employee)',
         \A s \in Shift : shifts[s].status = "published" => shifts'[s].status = "published",
         \A s \in Shift : publishedTo[s] \subseteq publishedTo'[s]
  PROVE  (\A c \in ClientId : RowFits(records[c]))'
<1>1. ASSUME NEW c \in ClientId PROVE RowFits(records[c])'
  <2>1. records \in [ClientId -> Row] /\ now \in Nat
    BY TypedTables DEF SeedInv
  <2>2. PICK row \in Row : row = records[c] /\ RowFits(row)
    BY <2>1 DEF SeedTables
  <2>3. row.shift \in Shift \cup {NoShift}
    BY DEF Row
  <2>4. row.shift # NoShift => shifts'[row.shift].status = "published"
    BY <2>2, <2>3 DEF RowFits
  <2>5. row.status # "none" => Live(row.employee)'
    BY <2>2 DEF Recorded, Live
  <2>6. now <= now' /\ now' \in Nat
    BY <2>1
  <2>7. RowFits(row)'
    BY <2>1, <2>2, <2>4, <2>5, <2>6, RowStays
  <2> QED
    BY <2>2, <2>7 DEF RowFits, StampsFit
<1> QED
  BY <1>1

-----------------------------------------------------------------------------
(* The steps of a behaviour of the seeder, and the theorem. *)

LEMMA OthersTables ==
  ASSUME SeedInv, SeedTables, Others PROVE SeedTables'
<1>1. Next /\ UNCHANGED seeds
  BY DEF Others
<1>2. /\ records \in [ClientId -> Row] /\ shifts \in [Shift -> ShiftRow]
      /\ publishedTo \in [Shift -> SUBSET Employee] /\ seeds' = seeds /\ RosterTypeOK
  BY <1>1, TypedTables DEF SeedInv, RosterTypeOK
<1>3. CASE ManageShift
  <2>1. /\ UNCHANGED <<employees, records, requests, now>>
        /\ \A s \in Shift : publishedTo[s] \subseteq publishedTo'[s]
    BY <1>1, <1>2, <1>3, ShiftSteps DEF ManageShift
  <2>2. \A c \in ClientId : Recorded(c) => Live(records[c].employee)'
    BY <2>1 DEF SeedTables, RowFits, Recorded, Live
  <2>3. (\A c \in ClientId : RowFits(records[c]))'
    BY <1>3, <2>1, <2>2, ManageShiftTables, RowsKept
  <2> QED
    BY <1>1, <1>3, <2>1, <2>3, ManageShiftTables, CallsStay DEF SeedTables
<1>4. ASSUME NEW s \in Shift, DeleteShift(s) PROVE SeedTables'
  <2>1. /\ UNCHANGED <<employees, publishedTo, requests, now>>
        /\ shifts' = [shifts EXCEPT ![s] = [status |-> "deleted", owner |-> NoEmployee]]
        /\ records' = Detached(s)
    BY <1>4 DEF DeleteShift, RemoveShift
  <2>2. PICK gone \in SUBSET Shift : gone = {s}
    OBVIOUS
  <2>3. \A x \in Shift : shifts'[x] = IF x \in gone THEN [status |-> "deleted", owner |-> NoEmployee]
                                                    ELSE shifts[x]
    BY <1>2, <2>1, <2>2
  <2>4. \A c \in ClientId : records'[c] = IF records[c].shift \in gone
                                          THEN [records[c] EXCEPT !.shift = NoShift] ELSE records[c]
    BY <2>1, <2>2 DEF Detached
  <2>5. RosterAdvances /\ (\A c \in ClientId : RowFits(records[c]))' /\ (\A x \in Shift : ShiftFits(x))'
    BY <2>1, <2>3, <2>4, DeletionTables
  <2> QED
    BY <1>1, <2>1, <2>5, CallsStay DEF SeedTables
<1>5. CASE ManageEmployee
  <2>1. UNCHANGED <<shifts, publishedTo, records, requests, now>>
    BY <1>5 DEF ManageEmployee
  <2>2. RosterAdvances
    BY <2>1 DEF RosterAdvances
  <2>3. (\A c \in ClientId : RowFits(records[c]))' /\ (\A s \in Shift : ShiftFits(s))'
    BY <1>5, <2>1, ManageEmployeeTables, RowsKept
  <2> QED
    BY <1>1, <2>1, <2>2, <2>3, CallsStay DEF SeedTables
<1>6. ASSUME NEW r \in Request, Serve(r) PROVE SeedTables'
  <2>1. UNCHANGED <<employees, shifts, publishedTo>>
    BY <1>6, ServeTables
  <2>2. RosterAdvances
    BY <2>1 DEF RosterAdvances
  <2>3. (\A s \in Shift : ShiftFits(s))'
    BY <2>1 DEF SeedTables, ShiftFits, Exists, Live
  <2>4. (\A c \in ClientId : RowFits(records[c]))'
    BY <1>6, ServeRows
  <2> QED
    BY <1>1, <1>6, <2>2, <2>3, <2>4, ServeValidated, CallsStay DEF SeedTables
<1> QED
  BY <1>1, <1>3, <1>4, <1>5, <1>6 DEF Next

(* A call of the seeder, once it is settled what it does to the tables.     *)
LEMMA SeedMovesTables ==
  ASSUME SeedInv, SeedTables, RosterAdvances, UNCHANGED requests, NEW g \in Seed,
         \A h \in Seed \ {g} : seeds'[h] = seeds[h], Placing(seeds[g])',
         (\A c \in ClientId : RowFits(records[c]))', (\A s \in Shift : ShiftFits(s))'
  PROVE  SeedTables'
<1>1. ASSUME NEW h \in Seed PROVE Placing(seeds[h])'
  <2>1. CASE h # g
    <3>1. PICK q : q = seeds[h]
      OBVIOUS
    <3>2. q \in SeedState /\ Placing(q)
      BY <3>1, SeedCurrent DEF SeedTables
    <3>3. Placing(q)'
      BY <3>2, SeedStays
    <3> QED
      BY <2>1, <3>1, <3>3 DEF Placing
  <2> QED
    BY <2>1
<1> QED
  BY <1>1, CallsStay DEF SeedTables

LEMMA EndedStops == ASSUME NEW q, NEW code PROVE Ended(q, code).pc = "done"
BY DEF Ended, NewSeed

(* An advance of g, or its failure.                                         *)
LEMMA AdvanceTables ==
  ASSUME SeedInv, SeedTables, RosterAdvances, UNCHANGED requests, NEW g \in Seed, NEW from, NEW to,
         Advance(g, from, to), Placing(to)',
         (\A c \in ClientId : RowFits(records[c]))', (\A s \in Shift : ShiftFits(s))'
  PROVE  SeedTables'
<1>1. PICK q : q = seeds[g]
  OBVIOUS
<1>2. q \in SeedState /\ seeds \in [Seed -> SeedState]
  BY <1>1, SeedCurrent DEF SeedInv
<1>3. ASSUME NEW next, seeds' = [seeds EXCEPT ![g] = next], Placing(next)' PROVE SeedTables'
  <2>1. seeds'[g] = next /\ \A h \in Seed \ {g} : seeds'[h] = seeds[h]
    BY <1>2, <1>3
  <2>2. Placing(seeds[g])'
    BY <1>3, <2>1 DEF Placing
  <2> QED
    BY <2>1, <2>2, SeedMovesTables
<1>4. CASE seeds' = [seeds EXCEPT ![g] = Ended(@, 500)]
  <2>1. PICK end : end = Ended(q, 500)
    OBVIOUS
  <2>2. end.pc = "done"
    BY <1>2, <2>1, EndedStops
  <2>3. Placing(end)'
    BY <2>2 DEF Placing
  <2>4. seeds' = [seeds EXCEPT ![g] = end]
    BY <1>1, <1>4, <2>1
  <2> QED
    BY <1>3, <2>3, <2>4
<1> QED
  BY <1>3, <1>4 DEF Advance

(* A statement that writes nothing. *)
LEMMA SameTables ==
  ASSUME SeedInv, SeedTables, UNCHANGED vars
  PROVE  /\ RosterAdvances /\ UNCHANGED requests
         /\ (\A c \in ClientId : RowFits(records[c]))' /\ (\A s \in Shift : ShiftFits(s))'
<1>1. UNCHANGED <<employees, shifts, publishedTo, records, requests, now>>
  BY DEF vars
<1>2. (\A c \in ClientId : RowFits(records[c]))' /\ (\A s \in Shift : ShiftFits(s))'
  BY <1>1 DEF SeedTables, RowFits, StampsFit, ShiftFits, Exists, Live
<1> QED
  BY <1>1, <1>2 DEF RosterAdvances

(* A call comes. *)
LEMMA AdmitTables ==
  ASSUME SeedInv, SeedTables, NEW g \in Seed, Admit(g) PROVE SeedTables'
<1>1. PICK q : q = seeds[g]
  OBVIOUS
<1>2. UNCHANGED vars /\ seeds \in [Seed -> SeedState] /\ q \in SeedState
  BY <1>1, SeedCurrent DEF Admit, SeedInv
<1>3. [q EXCEPT !.pc = "employees", !.before = Tagged].pc = "employees"
  BY <1>2 DEF SeedState
<1>4. \A code : Ended(q, code).pc = "done"
  BY EndedStops
<1>5. PICK to : seeds' = [seeds EXCEPT ![g] = to] /\ to.pc # "record"
  <2>1. CASE seeds' = [seeds EXCEPT ![g] = [q EXCEPT !.pc = "employees", !.before = Tagged]]
    BY <1>3, <2>1
  <2>2. ASSUME NEW code, seeds' = [seeds EXCEPT ![g] = Ended(q, code)]
        PROVE  \E to : seeds' = [seeds EXCEPT ![g] = to] /\ to.pc # "record"
    <3>1. Ended(q, code).pc # "record"
      BY <1>4
    <3> QED
      BY <2>2, <3>1, Zenon
  <2>3. \/ seeds' = [seeds EXCEPT ![g] = [q EXCEPT !.pc = "employees", !.before = Tagged]]
        \/ \E code \in {403, 500} : seeds' = [seeds EXCEPT ![g] = Ended(q, code)]
    BY <1>1 DEF Admit
  <2> QED
    BY <2>1, <2>2, <2>3, Zenon
<1>6. seeds'[g] = to /\ \A h \in Seed \ {g} : seeds'[h] = seeds[h]
  BY <1>2, <1>5
<1>7. Placing(seeds[g])'
  BY <1>5, <1>6 DEF Placing
<1> QED
  BY <1>2, <1>6, <1>7, SameTables, SeedMovesTables

LEMMA LoopOnPlaces ==
  ASSUME NEW q \in SeedState PROVE LoopOn(q).pc # "record"
<1>1. CASE q.todo = {}
  BY <1>1, EndedStops DEF LoopOn
<1>2. CASE q.todo # {}
  BY <1>2 DEF LoopOn, SeedState
<1> QED
  BY <1>1, <1>2

(* Readings, and the failure of a statement. *)
LEMMA ReadingTables ==
  ASSUME SeedInv, SeedTables, NEW g \in Seed,
         ListActive(g) \/ ShiftIDsByNote(g) \/ SeedFails(g)
  PROVE  SeedTables'
<1>1. PICK q : q = seeds[g]
  OBVIOUS
<1>2. q \in SeedState /\ UNCHANGED vars
  BY <1>1, SeedCurrent DEF ListActive, ShiftIDsByNote, SeedFails
<1>3. ASSUME NEW from, NEW to, Advance(g, from, to), to.pc # "record" PROVE SeedTables'
  <2>1. Placing(to)'
    BY <1>3 DEF Placing
  <2> QED
    BY <1>2, <1>3, <2>1, SameTables, AdvanceTables
<1>4. CASE ListActive(g)
  <2>1. PICK active : IF active = {} THEN Advance(g, "employees", Ended(seeds[g], 500))
                      ELSE Advance(g, "employees", [seeds[g] EXCEPT
                             !.pc = "ids", !.todo = active, !.count = Cardinality(active)])
    BY <1>4 DEF ListActive
  <2>2. Ended(q, 500).pc = "done"
    BY <1>2, EndedStops
  <2>3. [q EXCEPT !.pc = "ids", !.todo = active, !.count = Cardinality(active)].pc = "ids"
    BY <1>2 DEF SeedState
  <2>4. PICK to : Advance(g, "employees", to) /\ to.pc # "record"
    <3>1. CASE active = {}
      BY <1>1, <2>1, <2>2, <3>1
    <3>2. CASE active # {}
      BY <1>1, <2>1, <2>3, <3>2
    <3> QED
      BY <3>1, <3>2
  <2> QED
    BY <1>3, <2>4
<1>5. CASE ShiftIDsByNote(g)
  <2>1. [q EXCEPT !.pc = "attendance", !.old = Tagged].pc = "attendance"
    BY <1>2 DEF SeedState
  <2> QED
    BY <1>1, <1>3, <1>5, <2>1 DEF ShiftIDsByNote
<1>6. CASE SeedFails(g)
  <2>1. PICK end : end = Ended(q, 500)
    OBVIOUS
  <2>2. end.pc = "done"
    BY <1>2, <2>1, EndedStops
  <2>3. Advance(g, q.pc, end)
    BY <1>1, <1>6, <2>1 DEF SeedFails, Advance
  <2> QED
    BY <1>3, <2>2, <2>3
<1> QED
  BY <1>4, <1>5, <1>6

(* The statements of the seeder that write. *)
LEMMA DeleteByShiftIDsTables ==
  ASSUME SeedInv, SeedTables, NEW g \in Seed, DeleteByShiftIDs(g) PROVE SeedTables'
<1>1. PICK q : q = seeds[g]
  OBVIOUS
<1>2. /\ UNCHANGED <<employees, shifts, publishedTo, requests, now>> /\ q \in SeedState
      /\ \A c \in ClientId : records'[c] = IF records[c].shift \in q.old THEN NoRow ELSE records[c]
  BY <1>1, SeedCurrent DEF DeleteByShiftIDs
<1>3. RosterAdvances /\ (\A s \in Shift : ShiftFits(s))'
  BY <1>2 DEF RosterAdvances, SeedTables, ShiftFits, Exists, Live
<1>4. (\A c \in ClientId : RowFits(records[c]))'
  <2>1. now \in Nat /\ RowFits(NoRow)'
    <3>1. now \in Nat /\ now' = now
      BY <1>2, TypedTables DEF SeedInv
    <3> QED
      BY <3>1 DEF RowFits, StampsFit, NoRow
  <2> QED
    BY <1>2, <2>1 DEF SeedTables, RowFits, StampsFit, Live
<1>5. PICK to : to = [q EXCEPT !.pc = "shifts", !.purged = now]
  OBVIOUS
<1>6. to.pc = "shifts" /\ Advance(g, "attendance", to)
  BY <1>1, <1>2, <1>5 DEF DeleteByShiftIDs, SeedState
<1>7. Placing(to)'
  BY <1>6 DEF Placing
<1> QED
  BY <1>2, <1>3, <1>4, <1>6, <1>7, AdvanceTables

LEMMA DeleteShiftsByNoteTables ==
  ASSUME SeedInv, SeedTables, NEW g \in Seed, DeleteShiftsByNote(g) PROVE SeedTables'
<1>1. PICK q : q = seeds[g]
  OBVIOUS
<1>2. PICK gone \in SUBSET Shift : gone = Tagged
  BY DEF Tagged, SeedInv
<1>3. /\ UNCHANGED <<employees, publishedTo, requests, now>> /\ q \in SeedState
      /\ \A s \in Shift : shifts'[s] = IF s \in gone THEN [status |-> "deleted", owner |-> NoEmployee]
                                                     ELSE shifts[s]
      /\ \A c \in ClientId : records'[c] = IF records[c].shift \in gone
                                           THEN [records[c] EXCEPT !.shift = NoShift] ELSE records[c]
  BY <1>1, <1>2, SeedCurrent DEF DeleteShiftsByNote
<1>4. RosterAdvances /\ (\A c \in ClientId : RowFits(records[c]))' /\ (\A s \in Shift : ShiftFits(s))'
  BY <1>3, DeletionTables
<1>5. PICK to : to = [q EXCEPT !.pc = "create", !.old = {}, !.purged = 0]
  OBVIOUS
<1>6. to.pc = "create" /\ Advance(g, "shifts", to)
  BY <1>1, <1>3, <1>5 DEF DeleteShiftsByNote, SeedState
<1>7. Placing(to)'
  BY <1>6 DEF Placing
<1> QED
  BY <1>3, <1>4, <1>6, <1>7, AdvanceTables

LEMMA CreatePublishedShiftTables ==
  ASSUME SeedInv, SeedTables, NEW g \in Seed, CreatePublishedShift(g) PROVE SeedTables'
<1>1. PICK q : q = seeds[g]
  OBVIOUS
<1>2. q \in SeedState
  BY <1>1, SeedCurrent
<1>3. PICK e \in q.todo, s \in Shift :
        LET created == [q EXCEPT !.todo = @ \ {e}, !.shift = s, !.owner = e] IN
        /\ shifts[s].status = "none" /\ Live(e)
        /\ Advance(g, "create", IF Attended(q.next, q.count)
                                THEN [created EXCEPT !.pc = "record"] ELSE LoopOn(created))
        /\ shifts' = [shifts EXCEPT ![s] = [status |-> "published", owner |-> e]]
        /\ publishedTo' = [publishedTo EXCEPT ![s] = @ \cup {e}]
        /\ UNCHANGED <<employees, records, requests, now>>
  BY <1>1 DEF CreatePublishedShift
<1>4. shifts \in [Shift -> ShiftRow] /\ publishedTo \in [Shift -> SUBSET Employee] /\ e \in Employee
  BY <1>2, <1>3, TypedTables DEF SeedInv, SeedState
<1>5. \A x \in Shift : x # s => shifts'[x] = shifts[x] /\ publishedTo'[x] = publishedTo[x]
  BY <1>3, <1>4
<1>6. /\ shifts'[s].status = "published" /\ shifts'[s].owner = e
      /\ publishedTo'[s] = publishedTo[s] \cup {e}
  BY <1>3, <1>4
<1>7. /\ RosterAdvances
      /\ \A x \in Shift : shifts[x].status = "published" => shifts'[x].status = "published"
      /\ \A x \in Shift : publishedTo[x] \subseteq publishedTo'[x]
  BY <1>3, <1>5, <1>6 DEF RosterAdvances
<1>8. ASSUME NEW x \in Shift PROVE ShiftFits(x)'
  <2>1. CASE x = s
    BY <1>3, <1>6, <2>1 DEF ShiftFits, Live
  <2>2. CASE x # s
    BY <1>3, <1>5, <2>2 DEF SeedTables, ShiftFits, Exists, Live
  <2> QED
    BY <2>1, <2>2
<1>9. (\A c \in ClientId : RowFits(records[c]))'
  <2>1. \A c \in ClientId : Recorded(c) => Live(records[c].employee)'
    BY <1>3 DEF SeedTables, RowFits, Recorded, Live
  <2> QED
    BY <1>3, <1>7, <2>1, RowsKept
<1>10. PICK todo : todo = q.todo \ {e}
  OBVIOUS
<1>11. PICK created : created = [q EXCEPT !.todo = todo, !.shift = s, !.owner = e]
  OBVIOUS
<1>12. created \in SeedState /\ created.shift = s /\ created.owner = e
  <2>1. todo \in EmployeeSets
    BY <1>2, <1>10 DEF SeedState, EmployeeSets
  <2>2. s \in ShiftOrNone /\ e \in Employees
    BY <1>4 DEF ShiftOrNone, Employees
  <2>3. created \in SeedState
    BY <1>2, <1>11, <2>1, <2>2, SeedShape
  <2> QED
    BY <1>2, <1>11, <2>3 DEF SeedState
<1>13. PICK to : to = IF Attended(q.next, q.count)
                      THEN [created EXCEPT !.pc = "record"] ELSE LoopOn(created)
  OBVIOUS
<1>14. Advance(g, "create", to)
  BY <1>3, <1>10, <1>11, <1>13
<1>15. to.pc = "record" => to.shift = s /\ to.owner = e
  <2>1. [created EXCEPT !.pc = "record"].shift = s /\ [created EXCEPT !.pc = "record"].owner = e
    BY <1>12 DEF SeedState
  <2> QED
    BY <1>12, <1>13, <2>1, LoopOnPlaces
<1>16. Placing(to)'
  BY <1>6, <1>15, RosterAssumption DEF Placing
<1> QED
  BY <1>3, <1>7, <1>8, <1>9, <1>14, <1>16, AdvanceTables

LEMMA SeedDemoRecordTables ==
  ASSUME SeedInv, SeedTables, NEW g \in Seed, SeedDemoRecord(g) PROVE SeedTables'
<1>1. PICK q : q = seeds[g]
  OBVIOUS
<1>2. q \in SeedState /\ Placing(q) /\ records \in [ClientId -> Row] /\ now \in Nat
  BY <1>1, SeedCurrent, TypedTables DEF SeedInv, SeedTables
<1>3. PICK k \in SeedClient :
        /\ ~Recorded(k) /\ ReferencesHold(q.owner, q.shift)
        /\ Advance(g, "record", LoopOn(q))
        /\ records' = [records EXCEPT ![k] = DemoRecord(q.next, q.owner, q.shift)]
        /\ now' = now + 2
        /\ UNCHANGED <<employees, shifts, publishedTo, requests>>
  BY <1>1 DEF SeedDemoRecord
<1>4. RosterAdvances /\ (\A s \in Shift : ShiftFits(s))'
  BY <1>3 DEF RosterAdvances, SeedTables, ShiftFits, Exists, Live
<1>5. now' \in Nat /\ now <= now' /\ ~(0 > now + 1) /\ now + 1 # 0 /\ now + 2 > now + 1
      /\ now + 2 # 0 /\ now + 1 <= now'
  BY <1>2, <1>3
<1>6. PICK row : row = DemoRecord(q.next, q.owner, q.shift)
  OBVIOUS
<1>7. /\ row.employee = q.owner /\ row.shift = q.shift /\ row.checkInAt = now + 1
      /\ \/ row.status = "checked_out" /\ row.checkOutAt = now + 2 /\ row.breakStartedAt = 0
         \/ row.status = "on_break" /\ row.checkOutAt = 0 /\ row.breakStartedAt = now + 2
         \/ row.status = "checked_in" /\ row.checkOutAt = 0 /\ row.breakStartedAt = 0
  BY <1>6 DEF DemoRecord
<1>8. StampsFit(row)
  BY <1>5, <1>7 DEF StampsFit
<1>9. Live(row.employee)'
  BY <1>3, <1>7 DEF ReferencesHold, Live
<1>10. q.pc = "record"
  BY <1>1, <1>3 DEF Advance
<1>11. shifts'[row.shift].status = "published" /\ row.employee \in publishedTo'[row.shift]
  BY <1>2, <1>3, <1>7, <1>10 DEF Placing, ReferencesHold, Exists
<1>12. RowFits(row)'
  BY <1>5, <1>7, <1>8, <1>9, <1>11 DEF RowFits, StampsFit
<1>13. ASSUME NEW c \in ClientId PROVE RowFits(records[c])'
  <2>1. CASE c = k
    <3>1. records'[c] = row
      BY <1>2, <1>3, <1>6, <2>1
    <3> QED
      BY <1>12, <3>1 DEF RowFits, StampsFit
  <2>2. CASE c # k
    <3>1. PICK old \in Row : old = records[c] /\ RowFits(old)
      BY <1>2 DEF SeedTables
    <3>2. old = records'[c]
      BY <1>2, <1>3, <2>2, <3>1
    <3>3. RowFits(old)'
      BY <1>2, <1>3, <1>5, <3>1, RowStays DEF RowFits, Live
    <3> QED
      BY <3>2, <3>3 DEF RowFits, StampsFit
  <2> QED
    BY <2>1, <2>2
<1>14. Placing(LoopOn(q))'
  <2>1. PICK to : to = LoopOn(q)
    OBVIOUS
  <2>2. to.pc # "record"
    BY <1>2, <2>1, LoopOnPlaces
  <2> QED
    BY <2>1, <2>2 DEF Placing
<1> QED
  BY <1>3, <1>4, <1>13, <1>14, AdvanceTables

LEMMA EditNoteTables ==
  ASSUME SeedInv, SeedTables, NEW s \in Shift, EditNote(s) PROVE SeedTables'
BY SameTables, CallsStay DEF EditNote, SeedTables

LEMMA WriteNoteTables ==
  ASSUME SeedInv, SeedTables, NEW s \in Shift, WriteNote(s) PROVE SeedTables'
<1>1. UNCHANGED vars /\ RosterAdvances /\ UNCHANGED requests
  BY SameTables DEF WriteNote
<1>2. ASSUME NEW h \in Seed PROVE Placing(seeds[h])'
  <2>1. PICK q : q = seeds[h]
    OBVIOUS
  <2>2. q \in SeedState /\ Placing(q)
    BY <2>1, SeedCurrent DEF SeedTables
  <2>3. PICK rest : seeds'[h] = [q EXCEPT !.before = rest]
    BY <2>1 DEF WriteNote
  <2>4. /\ seeds'[h].pc = q.pc /\ seeds'[h].shift = q.shift /\ seeds'[h].owner = q.owner
    BY <2>2, <2>3 DEF SeedState
  <2>5. Placing(q)'
    BY <1>1, <2>2, SeedStays
  <2> QED
    BY <2>4, <2>5 DEF Placing
<1> QED
  BY <1>1, <1>2, SameTables, CallsStay DEF SeedTables

(* Nothing is there at first. *)
LEMMA SeedInitTables == SeedInit => SeedTables
<1> SUFFICES ASSUME SeedInit PROVE SeedTables
  OBVIOUS
<1>1. /\ \A c \in ClientId : records[c] = NoRow
      /\ \A r \in Request : requests[r].pc = "resolve"
      /\ \A g \in Seed : seeds[g].pc = "gate" /\ \A s \in Shift : shifts[s].status = "none"
      /\ now = 0
  BY DEF SeedInit, Init, RosterInit, NewRequest, NewSeed
<1>2. \A s \in Shift : shifts[s].status = "none"
  BY DEF SeedInit, Init, RosterInit
<1>3. RowFits(NoRow)
  BY <1>1 DEF RowFits, StampsFit, NoRow
<1> QED
  BY <1>1, <1>2, <1>3 DEF SeedTables, ShiftFits, Exists, Validated, Placing

LEMMA SeedNextTables ==
  SeedInv /\ SeedTables /\ [SeedNext]_seedVars => SeedTables'
<1> SUFFICES ASSUME SeedInv, SeedTables, [SeedNext]_seedVars PROVE SeedTables'
  OBVIOUS
<1>1. CASE UNCHANGED seedVars
  <2>1. UNCHANGED vars /\ seeds' = seeds
    BY <1>1 DEF seedVars, vars
  <2> QED
    BY <2>1, SameTables, CallsStay DEF SeedTables
<1> QED
  BY <1>1, OthersTables, EditNoteTables, WriteNoteTables, AdmitTables, ReadingTables, DeleteByShiftIDsTables,
     DeleteShiftsByNoteTables, CreatePublishedShiftTables, SeedDemoRecordTables
     DEF SeedNext, SeedStep

(* Whatever the seeder deletes, fabricates or leaves half done, the tables  *)
(* that phones, managers and other calls of the seeder work on stay sound.  *)
THEOREM SeedTablesInvariance == SeedSpec => []SeedTables
BY SeedInitTables, SeedNextTables, SeedInvariance, PTL DEF SeedSpec

(* A call of the seeder takes no transaction, and phones, managers and      *)
(* other calls act between its statements; still every record's stamps tell *)
(* the same story as its status, its shift was published to its employee,   *)
(* and no record or shift has lost its employee (demoseed/service.go 69-180, *)
(* attendance/service.go).                                                  *)
THEOREM SeededRowsSound ==
  SeedSpec => [](StampsMatchStatus /\ AttendanceOnOwnShift /\ HistoryKeepsEmployee)
<1>1. SeedTables => StampsMatchStatus /\ AttendanceOnOwnShift /\ HistoryKeepsEmployee
  BY DEF SeedTables, RowFits, StampsFit, ShiftFits, StampsMatchStatus, AttendanceOnOwnShift,
         HistoryKeepsEmployee, Recorded
<1> QED
  BY <1>1, SeedTablesInvariance, PTL
=============================================================================
