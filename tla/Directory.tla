------------------------------ MODULE Directory ------------------------------
(***************************************************************************)
(* The tables a manager maintains in one tenant database: departments, HR  *)
(* roles, employees, locations, tours and shifts, with the references      *)
(* between them.  A handler decodes the body, the service validates it,    *)
(* and the store runs one SQL statement; whatever the statement meets is   *)
(* mapped to an answer by the package of the table.  Calls of several      *)
(* managers interleave statement by statement, so one call is one step.    *)
(*                                                                         *)
(* Only the columns that refer to another row, or that a constraint reads, *)
(* are kept.  The login of an employee (user_id) is Identity's, and the    *)
(* attendance and leave that refer to these rows have their own modules.   *)
(***************************************************************************)
EXTENDS Integers

CONSTANTS Department, Role, Employee, Location, Tour, Shift,  \* ids of rows
          None,         \* NULL, an absent field, and "no such row"
          Name,         \* role names as they are written
          Folded,       \* lower(name)
          Instant,      \* the starts and ends of shifts
          Amount,       \* the integers a client sends for a tour
          MaxInt32      \* 2^31 - 1

ASSUME DirectoryAssumption ==
  /\ None \notin UNION {Department, Role, Employee, Location, Tour, Shift, Name}
  /\ None \notin Int
  /\ DOMAIN Folded = Name
  /\ Instant \subseteq Nat /\ Amount \subseteq Int
  /\ MaxInt32 \in Nat

VARIABLES db,           \* the tables: a row or None for every id
          answer        \* what the last statement met, and what was answered

vars == <<db, answer>>

Optional(S) == S \cup {None}

(* The rows, and with every field optional the bodies of a PATCH.           *)
DepartmentRow == [parent : Optional(Department), lead : Optional(Employee)]
RoleRow == [name : Name, department : Optional(Department)]
EmployeeRow == [department : Optional(Department), role : Optional(Role),
                reportsTo : Optional(Employee)]
LocationRow == [place : {"named"}]
TourRow == [minutes : Amount]
ShiftRow == [employee : Employee, location : Optional(Location), tour : Optional(Tour),
             starts : Instant, ends : Instant]

(* NULL is not a row. *)
ASSUME NoneAssumption ==
  /\ None \notin DepartmentRow /\ None \notin RoleRow /\ None \notin EmployeeRow
  /\ None \notin LocationRow /\ None \notin [minutes : Int] /\ None \notin ShiftRow

Tables == [department |-> Department, role |-> Role, employee |-> Employee,
           location |-> Location, tour |-> Tour, shift |-> Shift]

(* REFERENCES: <<table, column, table referred to>>. *)
Reference ==
  {<<"department", "parent", "department">>, <<"department", "lead", "employee">>,
   <<"role", "department", "department">>,
   <<"employee", "department", "department">>, <<"employee", "role", "role">>,
   <<"employee", "reportsTo", "employee">>,
   <<"shift", "location", "location">>, <<"shift", "tour", "tour">>,
   <<"shift", "employee", "employee">>}

(* ON DELETE RESTRICT; every other reference is ON DELETE SET NULL. *)
Restricting == {<<"shift", "employee", "employee">>}

(* What a call meets: "unlisted" is any other error PostgreSQL may raise,   *)
(* such as 22021 for a zero byte in a text.                                 *)
Outcome == {"ok", "invalid", "absent", "check", "unique", "reference", "restrict",
            "unlisted", "down"}

Rows(t) == {x \in Tables[t] : db[t][x] # None}

Init ==
  /\ db = [t \in DOMAIN Tables |-> [x \in Tables[t] |-> None]]
  /\ answer = [outcome |-> "ok", code |-> 200]

-----------------------------------------------------------------------------
(* Statements. *)

ReferencesExist(t, row) ==
  \A ref \in Reference :
    ref[1] = t => row[ref[2]] \in Optional(Rows(ref[3]))

(* PostgreSQL evaluates CHECK constraints first, then unique indexes, then  *)
(* foreign keys.                                                            *)
Met(t, row, checks, unique) ==
  IF ~checks THEN "check"
  ELSE IF ~unique THEN "unique"
  ELSE IF ~ReferencesExist(t, row) THEN "reference" ELSE "ok"

With(t, x, row) == [db EXCEPT ![t][x] = row]

(* A bug ReferencesLostWithTarget must catch: what a body leaves out is     *)
(* cleared.                                                                 *)
Replaced(old, patch) == [f \in DOMAIN old |->
                           IF patch[f] = None /\ f \in {"name", "minutes", "employee", "starts",
                                                        "ends", "place"}
                           THEN old[f] ELSE patch[f]]

(* SET column = COALESCE(field, column): a field that is absent, or null,   *)
(* leaves its column alone.                                                 *)
Coalesced(old, patch) == [f \in DOMAIN old |-> IF patch[f] = None THEN old[f] ELSE patch[f]]

(* A bug RowsConsistent must catch: the column of roles, which a later      *)
(* migration added, has no foreign key.                                     *)
WithoutForgettingRoles(t, x) ==
  [u \in DOMAIN db |-> [y \in Tables[u] |->
     IF db[u][y] = None \/ (u = t /\ y = x) THEN None
     ELSE IF u = "role" THEN db[u][y]
     ELSE [f \in DOMAIN db[u][y] |->
             IF <<u, f, t>> \in Reference /\ db[u][y][f] = x THEN None ELSE db[u][y][f]]]]

(* The row is gone, and every reference to it is NULL. *)
Without(t, x) ==
  [u \in DOMAIN db |-> [y \in Tables[u] |->
     IF db[u][y] = None \/ (u = t /\ y = x) THEN None
     ELSE [f \in DOMAIN db[u][y] |->
             IF <<u, f, t>> \in Reference /\ db[u][y][f] = x THEN None ELSE db[u][y][f]]]]

Restricted(t, x) ==
  \E ref \in Restricting : ref[3] = t /\ \E y \in Rows(ref[1]) : db[ref[1]][y][ref[2]] = x

(* lower(name) is unique among the roles. *)
NameFree(x, name) == \A y \in Rows("role") \ {x} : Folded[db["role"][y].name] # Folded[name]

(* int32(v): the value that is stored for v. *)
Int32(v) == LET h == MaxInt32 + 1 IN ((v + h) % (2 * h)) - h

InOrder(row) == row.ends > row.starts

-----------------------------------------------------------------------------
(* Answers: mapErr and writeServiceError of the package of each table.      *)
IdentityCode(o) ==
  CASE o = "absent" -> 404
    [] o \in {"invalid", "check", "reference"} -> 400
    [] o \in {"unique", "restrict"} -> 409
    [] OTHER -> 500

(* A bug RefusalsMapped must catch: the CHECK constraints are not mapped.   *)
RosterCodeWithoutChecks(o) ==
  CASE o = "absent" -> 404
    [] o \in {"invalid", "reference"} -> 400
    [] OTHER -> 500

RosterCode(o) ==
  CASE o = "absent" -> 404
    [] o \in {"invalid", "check", "reference"} -> 400
    [] OTHER -> 500

ToursCode(o) ==
  CASE o = "absent" -> 404
    [] o \in {"invalid", "check"} -> 400
    [] OTHER -> 500

Code(t, o) ==
  IF t \in {"department", "role", "employee"} THEN IdentityCode(o)
  ELSE IF t = "tour" THEN ToursCode(o) ELSE RosterCode(o)

(* The body is malformed, or the service's validation refuses it or the     *)
(* filter of a list.                                                        *)
Refuse(t) ==
  /\ answer' = [outcome |-> "invalid", code |-> Code(t, "invalid")]
  /\ UNCHANGED db

(* The statement is run: it takes effect or meets something, PostgreSQL     *)
(* refuses it with an error that no package lists, or the database fails,   *)
(* before or after it took effect.                                          *)
Run(t, o, effect, code) ==
  \/ /\ o = "ok" /\ db' = effect
     /\ answer' = [outcome |-> o, code |-> code]
  \/ /\ o # "ok" /\ UNCHANGED db
     /\ answer' = [outcome |-> o, code |-> Code(t, o)]
  \/ /\ UNCHANGED db
     /\ answer' = [outcome |-> "unlisted", code |-> Code(t, "unlisted")]
  \/ /\ db' \in (IF o = "ok" THEN {db, effect} ELSE {db})
     /\ answer' = [outcome |-> "down", code |-> Code(t, "down")]

Insert(t, row, checks, unique) ==
  \E x \in Tables[t] \ Rows(t) : Run(t, Met(t, row, checks, unique), With(t, x, row), 201)

(* "row" is the row after the update; for an id without a row it is unused. *)
Amend(t, x, row, checks, unique) ==
  Run(t, IF x \in Rows(t) THEN Met(t, row, checks, unique) ELSE "absent", With(t, x, row), 200)

Remove(t, x) ==
  Run(t, IF x \notin Rows(t) THEN "absent"
         ELSE IF Restricted(t, x) THEN "restrict" ELSE "ok", Without(t, x), 204)

(* SELECT one row, or all that a filter lets through: nothing changes, and  *)
(* a row that is not there is an answer too.                                *)
Fetch(t, x) == Run(t, IF x \in Rows(t) THEN "ok" ELSE "absent", db, 200)
Listing(t) == Run(t, "ok", db, 200)

Patched(t, x, patch) == IF x \in Rows(t) THEN Coalesced(db[t][x], patch) ELSE patch

-----------------------------------------------------------------------------
(* Departments.  Nothing keeps parent_id from closing a cycle. *)
InsertDepartment(row) == Insert("department", row, TRUE, TRUE)

CreateDepartment == Refuse("department") \/ \E row \in DepartmentRow : InsertDepartment(row)

AmendDepartment(d, patch) ==
  Amend("department", d, Patched("department", d, patch), TRUE, TRUE)

UpdateDepartment ==
  \/ Refuse("department")
  \/ \E d \in Department, patch \in DepartmentRow : AmendDepartment(d, patch)

DeleteDepartment == \E d \in Department : Remove("department", d)

GetDepartment == \E d \in Department : Fetch("department", d)

ListDepartments == Listing("department")

(* Roles.  The access level is checked by the database only. *)
InsertRole(row) ==
  \E level \in BOOLEAN : Insert("role", row, level, NameFree(None, row.name))

CreateRole == Refuse("role") \/ \E row \in RoleRow : InsertRole(row)

AmendRole(x, patch) ==
  LET row == Patched("role", x, patch) IN
  \E level \in BOOLEAN : Amend("role", x, row, level, x \in Rows("role") => NameFree(x, row.name))

UpdateRole ==
  \/ Refuse("role")
  \/ \E x \in Role, name \in Optional(Name), d \in Optional(Department) :
       AmendRole(x, [name |-> name, department |-> d])

DeleteRole == \E x \in Role : Remove("role", x)

GetRole == \E x \in Role : Fetch("role", x)

ListRoles == Listing("role")

(* Employees. *)
InsertEmployee(row) == Insert("employee", row, TRUE, TRUE)

CreateEmployee == Refuse("employee") \/ \E row \in EmployeeRow : InsertEmployee(row)

AmendEmployee(e, patch) == Amend("employee", e, Patched("employee", e, patch), TRUE, TRUE)

UpdateEmployee ==
  \/ Refuse("employee")
  \/ \E e \in Employee, patch \in EmployeeRow : AmendEmployee(e, patch)

DeleteEmployee == \E e \in Employee : Remove("employee", e)

GetEmployee == \E e \in Employee : Fetch("employee", e)

ListEmployees == Refuse("employee") \/ Listing("employee")

(* Locations. *)
InsertLocation(row) == Insert("location", row, TRUE, TRUE)

CreateLocation == Refuse("location") \/ \E row \in LocationRow : InsertLocation(row)

AmendLocation(x, patch) == Amend("location", x, Patched("location", x, patch), TRUE, TRUE)

UpdateLocation ==
  \/ Refuse("location")
  \/ \E x \in Location, patch \in LocationRow : AmendLocation(x, patch)

DeleteLocation == \E x \in Location : Remove("location", x)

GetLocation == \E x \in Location : Fetch("location", x)

ListLocations == Listing("location")

-----------------------------------------------------------------------------
(* Tours.  Numbers are narrowed before the database checks their sign.      *)
Narrowed(row) == [row EXCEPT !.minutes = IF @ = None THEN None ELSE Int32(@)]

InsertTour(row) == Insert("tour", Narrowed(row), Narrowed(row).minutes >= 0, TRUE)

CreateTour == Refuse("tour") \/ \E row \in TourRow : InsertTour(row)

AmendTour(x, patch) ==
  LET row == Patched("tour", x, Narrowed(patch)) IN
  Amend("tour", x, row, x \in Rows("tour") => row.minutes >= 0, TRUE)

UpdateTour ==
  \/ Refuse("tour")
  \/ \E x \in Tour, n \in Optional(Amount) : AmendTour(x, [minutes |-> n])

DeleteTour == \E x \in Tour : Remove("tour", x)

GetTour == \E x \in Tour : Fetch("tour", x)

ListTours == Listing("tour")

(* Shifts.  A body with both bounds is refused if they are out of order;    *)
(* one with a single bound is left to the CHECK constraint.                 *)
InsertShift(row) == Insert("shift", row, InOrder(row), TRUE)

CreateShift ==
  \/ Refuse("shift")
  \/ \E row \in ShiftRow : InOrder(row) /\ InsertShift(row)

AmendShift(x, patch) ==
  LET row == Patched("shift", x, patch) IN
  Amend("shift", x, row, x \in Rows("shift") => InOrder(row), TRUE)

UpdateShift ==
  \/ Refuse("shift")
  \/ \E x \in Shift, e \in Optional(Employee), l \in Optional(Location), t \in Optional(Tour),
        from, to \in Optional(Instant) :
       /\ from # None /\ to # None => to > from
       /\ AmendShift(x, [employee |-> e, location |-> l, tour |-> t, starts |-> from, ends |-> to])

DeleteShift == \E x \in Shift : Remove("shift", x)

GetShift == \E x \in Shift : Fetch("shift", x)

ListShifts == Listing("shift")

Next ==
  \/ CreateDepartment \/ UpdateDepartment \/ DeleteDepartment \/ GetDepartment \/ ListDepartments
  \/ CreateRole \/ UpdateRole \/ DeleteRole \/ GetRole \/ ListRoles
  \/ CreateEmployee \/ UpdateEmployee \/ DeleteEmployee \/ GetEmployee \/ ListEmployees
  \/ CreateLocation \/ UpdateLocation \/ DeleteLocation \/ GetLocation \/ ListLocations
  \/ CreateTour \/ UpdateTour \/ DeleteTour \/ GetTour \/ ListTours
  \/ CreateShift \/ UpdateShift \/ DeleteShift \/ GetShift \/ ListShifts

Spec == Init /\ [][Next]_vars

-----------------------------------------------------------------------------
(* Every row refers to rows that exist, shifts have an employee and end     *)
(* after they start whatever single bounds were moved, role names differ in *)
(* more than their case, and no negative number is stored for a tour.  This *)
(* is the module's type invariant as well.                                  *)
RowsConsistent ==
  /\ \A t \in DOMAIN Tables : \A x \in Tables[t] : db[t][x] # None => ReferencesExist(t, db[t][x])
  /\ \A x \in Rows("shift") : InOrder(db["shift"][x]) /\ db["shift"][x].employee # None
  /\ \A x \in Rows("role") : NameFree(x, db["role"][x].name)
  /\ \A x \in Rows("tour") : db["tour"][x].minutes \in 0 .. MaxInt32
  /\ answer \in [outcome : Outcome, code : {200, 201, 204, 400, 404, 409, 500}]

(* Whatever validation or a constraint refuses a body for, the client is    *)
(* told: an internal error is a failure of the database or an error that is *)
(* no constraint.  The constraints are in the migrations, and the codes     *)
(* they raise are listed once per package (identity/store.go 29-50,         *)
(* roster/store.go 29-46, tours/store.go 24-38).                            *)
RefusalsMapped == answer.code = 500 <=> answer.outcome \in {"unlisted", "down"}

(* A reference is never lost by an edit, of its own row or of another: it   *)
(* is cleared only when the row it names is deleted (sqlc updates with      *)
(* COALESCE, ON DELETE SET NULL).                                           *)
ReferencesLostWithTarget ==
  [][\A ref \in Reference : \A x \in Rows(ref[1]) :
       LET y == db[ref[1]][x][ref[2]] IN
       y # None /\ db'[ref[1]][x] # None /\ db'[ref[1]][x][ref[2]] = None
         => db'[ref[3]][y] = None]_vars
=============================================================================
