--------------------------- MODULE DirectoryProofs ---------------------------
(***************************************************************************)
(* Theorems about the directory of a tenant, for any rows, names, bodies   *)
(* and width of the stored integers.                                       *)
(***************************************************************************)
EXTENDS Directory, TLAPS

-----------------------------------------------------------------------------
(* The inductive invariant. *)

TableName == DOMAIN Tables

(* What the columns and the constraints of a table let it store. *)
RowOf(t) ==
  CASE t = "department" -> DepartmentRow
    [] t = "role" -> RoleRow
    [] t = "employee" -> EmployeeRow
    [] t = "location" -> LocationRow
    [] t = "tour" -> [minutes : 0 .. MaxInt32]
    [] t = "shift" -> {row \in ShiftRow : InOrder(row)}

DbInv ==
  /\ DOMAIN db = TableName
  /\ \A t \in TableName : db[t] \in [Tables[t] -> Optional(RowOf(t))]
  /\ \A t \in TableName : \A x \in Rows(t) : ReferencesExist(t, db[t][x])
  /\ \A x \in Rows("role") : NameFree(x, db["role"][x].name)

AnswerInv ==
  /\ answer \in [outcome : Outcome, code : {200, 201, 204, 400, 404, 409, 500}]
  /\ RefusalsMapped

DirInv == DbInv /\ AnswerInv

(* How the database changes: a row is stored, new or amended without losing *)
(* a reference, or one goes that nothing restricts.                         *)
Fits(t, x, row) ==
  /\ ReferencesExist(t, row)
  /\ t = "role" => NameFree(x, row.name)
  /\ x \in Rows(t) => \A f \in DOMAIN db[t][x] : row[f] = None => db[t][x][f] = None

Stores(t, x, row) == row \in RowOf(t) /\ Fits(t, x, row) /\ db' = With(t, x, row)
Drops(t, x) == x \in Rows(t) /\ ~Restricted(t, x) /\ db' = Without(t, x)

DbChange ==
  \/ UNCHANGED db
  \/ \E t \in TableName : \E x \in Tables[t] : Drops(t, x) \/ \E row : Stores(t, x, row)

-----------------------------------------------------------------------------
(* The tables and their references. *)

LEMMA TableFacts ==
  /\ TableName = {"department", "role", "employee", "location", "tour", "shift"}
  /\ Tables["department"] = Department /\ Tables["role"] = Role
  /\ Tables["employee"] = Employee /\ Tables["location"] = Location
  /\ Tables["tour"] = Tour /\ Tables["shift"] = Shift
  /\ \A t \in TableName : None \notin Tables[t]
<1>1. /\ TableName = {"department", "role", "employee", "location", "tour", "shift"}
      /\ Tables["department"] = Department /\ Tables["role"] = Role
      /\ Tables["employee"] = Employee /\ Tables["location"] = Location
      /\ Tables["tour"] = Tour /\ Tables["shift"] = Shift
  BY DEF TableName, Tables
<1>2. /\ None \notin Department /\ None \notin Role /\ None \notin Employee
      /\ None \notin Location /\ None \notin Tour /\ None \notin Shift
  BY DirectoryAssumption
<1> QED
  BY <1>1, <1>2

LEMMA RowTypes ==
  /\ RowOf("department") = DepartmentRow /\ RowOf("role") = RoleRow
  /\ RowOf("employee") = EmployeeRow /\ RowOf("location") = LocationRow
  /\ RowOf("tour") = [minutes : 0 .. MaxInt32]
  /\ RowOf("shift") = {row \in ShiftRow : InOrder(row)}
BY DEF RowOf

LEMMA NoneIsNoRow == ASSUME NEW t \in TableName PROVE None \notin RowOf(t)
<1>1. None \notin [minutes : 0 .. MaxInt32]
  <2>1. [minutes : 0 .. MaxInt32] \subseteq [minutes : Int]
    OBVIOUS
  <2> QED
    BY <2>1, NoneAssumption
<1> QED
  BY <1>1, TableFacts, RowTypes, NoneAssumption

(* The columns that refer to another row, by table. *)
LEMMA ReferenceFacts ==
  /\ \A ref \in Reference : /\ ref = <<ref[1], ref[2], ref[3]>>
                            /\ ref[1] \in TableName /\ ref[3] \in TableName
  /\ \A r1, r2 \in Reference : r1[1] = r2[1] /\ r1[2] = r2[2] => r1[3] = r2[3]
  /\ \A ref \in Reference : ref[1] # "tour" /\ ref[1] # "location"
<1>1. \A ref \in Reference : /\ ref = <<ref[1], ref[2], ref[3]>>
                             /\ ref[1] \in TableName /\ ref[3] \in TableName
  BY TableFacts DEF Reference
<1>2. \A r1, r2 \in Reference : r1[1] = r2[1] /\ r1[2] = r2[2] => r1[3] = r2[3]
  BY DEF Reference
<1>3. \A ref \in Reference : ref[1] # "tour" /\ ref[1] # "location"
  BY DEF Reference
<1> QED
  BY <1>1, <1>2, <1>3

(* Every row has the columns that refer to others. *)
LEMMA ReferringColumns ==
  ASSUME NEW ref \in Reference, NEW row \in RowOf(ref[1])
  PROVE  ref[2] \in DOMAIN row
<1>1. /\ \A r \in DepartmentRow : DOMAIN r = {"parent", "lead"}
      /\ \A r \in RoleRow : DOMAIN r = {"name", "department"}
      /\ \A r \in EmployeeRow : DOMAIN r = {"department", "role", "reportsTo"}
      /\ \A r \in ShiftRow : DOMAIN r = {"employee", "location", "tour", "starts", "ends"}
  BY DEF DepartmentRow, RoleRow, EmployeeRow, ShiftRow
<1>2. \/ ref[1] = "department" /\ ref[2] \in {"parent", "lead"}
      \/ ref[1] = "role" /\ ref[2] = "department"
      \/ ref[1] = "employee" /\ ref[2] \in {"department", "role", "reportsTo"}
      \/ ref[1] = "shift" /\ ref[2] \in {"location", "tour", "employee"}
  BY DEF Reference
<1>3. \A r \in RowOf("shift") : r \in ShiftRow
  BY RowTypes
<1> QED
  BY <1>1, <1>2, <1>3, RowTypes

LEMMA Current ==
  ASSUME DbInv, NEW t \in TableName, NEW x \in Rows(t)
  PROVE  x \in Tables[t] /\ db[t][x] \in RowOf(t) /\ ReferencesExist(t, db[t][x])
BY DEF DbInv, Rows, Optional

LEMMA Stored ==
  ASSUME DbInv, NEW t \in TableName, NEW x \in Tables[t], NEW row, Stores(t, x, row)
  PROVE  /\ DOMAIN db' = TableName
         /\ \A u \in TableName : db'[u] \in [Tables[u] -> Optional(RowOf(u))]
         /\ db'[t][x] = row
         /\ \A u \in TableName : \A y \in Tables[u] :
              u # t \/ y # x => db'[u][y] = db[u][y]
         /\ Rows(t)' = Rows(t) \cup {x}
         /\ \A u \in TableName : u # t => Rows(u)' = Rows(u)
<1>1. /\ DOMAIN db = TableName /\ db' = [db EXCEPT ![t] = [db[t] EXCEPT ![x] = row]]
      /\ \A u \in TableName : db[u] \in [Tables[u] -> Optional(RowOf(u))]
      /\ row \in RowOf(t)
  BY DEF DbInv, Stores, With
<1>2. DOMAIN db' = TableName
  BY <1>1
<1>3. db'[t] = [db[t] EXCEPT ![x] = row] /\ \A u \in TableName : u # t => db'[u] = db[u]
  BY <1>1
<1>4. db'[t][x] = row /\ \A y \in Tables[t] : y # x => db'[t][y] = db[t][y]
  BY <1>1, <1>3
<1>5. db'[t] \in [Tables[t] -> Optional(RowOf(t))]
  BY <1>1, <1>3 DEF Optional
<1>6. row # None
  BY <1>1, NoneIsNoRow
<1>7. Rows(t)' = Rows(t) \cup {x}
  BY <1>4, <1>6 DEF Rows
<1>8. \A u \in TableName : u # t => Rows(u)' = Rows(u)
  BY <1>3 DEF Rows
<1> QED
  BY <1>1, <1>2, <1>3, <1>4, <1>5, <1>7, <1>8

LEMMA StoresKeeps ==
  ASSUME DbInv, NEW t \in TableName, NEW x \in Tables[t], NEW row, Stores(t, x, row)
  PROVE  DbInv'
<1>1. \A u \in TableName : Rows(u) \subseteq Rows(u)'
  BY Stored
<1>2. ASSUME NEW u \in TableName, NEW r, ReferencesExist(u, r)
      PROVE  ReferencesExist(u, r)'
  BY <1>1, <1>2, ReferenceFacts DEF ReferencesExist, Optional
<1>3. ASSUME NEW u \in TableName, NEW y \in Rows(u)'
      PROVE  ReferencesExist(u, db[u][y])'
  <2>1. PICK r : r = db'[u][y]
    OBVIOUS
  <2>2. CASE u = t /\ y = x
    <3>1. r = row
      BY <2>1, <2>2, Stored
    <3>2. ReferencesExist(u, r)'
      BY <1>2, <2>2, <3>1 DEF Stores, Fits
    <3> QED
      BY <2>1, <3>2 DEF ReferencesExist
  <2>3. CASE ~(u = t /\ y = x)
    <3>1. y \in Rows(u)
      BY <1>3, <2>3, Stored
    <3>2. r = db[u][y] /\ ReferencesExist(u, db[u][y])
      BY <2>1, <2>3, <3>1, Stored, Current
    <3>3. ReferencesExist(u, r)'
      BY <1>2, <3>2
    <3> QED
      BY <2>1, <3>3 DEF ReferencesExist
  <2> QED
    BY <2>2, <2>3
<1>4. "role" \in TableName
  BY TableFacts
<1>5. ASSUME NEW y \in Rows("role")', NEW z \in Rows("role")' \ {y}
      PROVE  Folded[db'["role"][z].name] # Folded[db'["role"][y].name]
  <2>1. ASSUME NEW y1 \in Rows("role"), NEW z1 \in Rows("role"), y1 # z1
        PROVE  Folded[db["role"][z1].name] # Folded[db["role"][y1].name]
    BY <2>1 DEF DbInv, NameFree
  <2>2. CASE t # "role"
    <3>1. y \in Rows("role") /\ z \in Rows("role")
      BY <1>4, <2>2, Stored
    <3>2. db'["role"][y] = db["role"][y] /\ db'["role"][z] = db["role"][z]
      BY <1>4, <2>2, <3>1, Stored, Current
    <3> QED
      BY <1>5, <2>1, <3>1, <3>2
  <2>3. CASE t = "role"
    <3>1. \A w \in Rows("role") \ {x} : Folded[db["role"][w].name] # Folded[row.name]
      BY <2>3 DEF Stores, Fits, NameFree
    <3>2. \A w \in Rows("role")' : w = x \/ w \in Rows("role")
      BY <2>3, Stored
    <3>3. \A w \in Rows("role") : w # x => db'["role"][w] = db["role"][w]
      BY <1>4, <2>3, Stored, Current
    <3>4. db'["role"][x] = row
      BY <2>3, Stored
    <3>5. CASE y = x
      BY <1>5, <3>1, <3>2, <3>3, <3>4, <3>5
    <3>6. CASE z = x
      BY <1>5, <3>1, <3>2, <3>3, <3>4, <3>6
    <3>7. CASE y # x /\ z # x
      BY <1>5, <2>1, <3>2, <3>3, <3>7
    <3> QED
      BY <3>5, <3>6, <3>7
  <2> QED
    BY <2>2, <2>3
<1>6. \A y \in Rows("role")' : NameFree(y, db["role"][y].name)'
  BY <1>5 DEF NameFree
<1> QED
  BY <1>3, <1>6, Stored DEF DbInv

(* A row of table u once row x of table t is gone. *)
Cleared(u, row, t, x) ==
  [f \in DOMAIN row |-> IF <<u, f, t>> \in Reference /\ row[f] = x THEN None ELSE row[f]]

LEMMA ClearedRow ==
  ASSUME NEW u \in TableName, NEW row \in RowOf(u), NEW t \in TableName, NEW x,
         u = "shift" /\ t = "employee" => row.employee # x
  PROVE  Cleared(u, row, t, x) \in RowOf(u)
<1>1. CASE u = "department"
  <2>1. row \in DepartmentRow
    BY <1>1, RowTypes
  <2>2. Cleared(u, row, t, x) \in DepartmentRow
    BY <2>1 DEF Cleared, DepartmentRow, Optional
  <2> QED
    BY <1>1, <2>2, RowTypes
<1>2. CASE u = "role"
  <2>1. row \in RoleRow
    BY <1>2, RowTypes
  <2>2. <<u, "name", t>> \notin Reference
    BY <1>2 DEF Reference
  <2>3. Cleared(u, row, t, x) \in RoleRow
    BY <2>1, <2>2 DEF Cleared, RoleRow, Optional
  <2> QED
    BY <1>2, <2>3, RowTypes
<1>3. CASE u = "employee"
  <2>1. row \in EmployeeRow
    BY <1>3, RowTypes
  <2>2. Cleared(u, row, t, x) \in EmployeeRow
    BY <2>1 DEF Cleared, EmployeeRow, Optional
  <2> QED
    BY <1>3, <2>2, RowTypes
<1>4. CASE u \in {"location", "tour"}
  <2>1. \A f : <<u, f, t>> \notin Reference
    BY <1>4 DEF Reference
  <2>2. \E S : row = [f \in S |-> row[f]]
    <3>1. row \in LocationRow \/ row \in [minutes : 0 .. MaxInt32]
      BY <1>4, RowTypes
    <3>2. row = [f \in {"place"} |-> row[f]] \/ row = [f \in {"minutes"} |-> row[f]]
      BY <3>1 DEF LocationRow
    <3> QED
      BY <3>2
  <2>3. Cleared(u, row, t, x) = row
    BY <2>1, <2>2 DEF Cleared
  <2> QED
    BY <2>3
<1>5. CASE u = "shift"
  <2>1. row \in ShiftRow /\ InOrder(row)
    BY <1>5, RowTypes
  <2>2. /\ <<u, "starts", t>> \notin Reference /\ <<u, "ends", t>> \notin Reference
        /\ <<u, "employee", t>> \in Reference => t = "employee"
    BY <1>5 DEF Reference
  <2>3. Cleared(u, row, t, x) \in ShiftRow
    BY <1>5, <2>1, <2>2 DEF Cleared, ShiftRow, Optional
  <2>4. InOrder(Cleared(u, row, t, x))
    BY <2>1, <2>2 DEF Cleared, ShiftRow, InOrder
  <2> QED
    BY <1>5, <2>3, <2>4, RowTypes
<1> QED
  BY <1>1, <1>2, <1>3, <1>4, <1>5, TableFacts

LEMMA Dropped ==
  ASSUME DbInv, NEW t \in TableName, NEW x \in Tables[t], Drops(t, x)
  PROVE  /\ DOMAIN db' = TableName
         /\ \A u \in TableName : db'[u] \in [Tables[u] -> Optional(RowOf(u))]
         /\ \A u \in TableName : \A y \in Rows(u)' :
              /\ y \in Rows(u) /\ (u # t \/ y # x)
              /\ db'[u][y] = Cleared(u, db[u][y], t, x)
         /\ \A u \in TableName : \A y \in Rows(u) : u # t \/ y # x => y \in Rows(u)'
         /\ db'[t][x] = None
<1>1. DOMAIN db = TableName /\ \A u \in TableName : db[u] \in [Tables[u] -> Optional(RowOf(u))]
  BY DEF DbInv
<1>2. db' = [u \in TableName |-> [y \in Tables[u] |->
               IF db[u][y] = None \/ (u = t /\ y = x) THEN None
               ELSE Cleared(u, db[u][y], t, x)]]
  BY <1>1 DEF Drops, Without, Cleared
<1>3. ASSUME NEW u \in TableName, NEW y \in Tables[u], db[u][y] # None, ~(u = t /\ y = x)
      PROVE  /\ Cleared(u, db[u][y], t, x) \in RowOf(u)
             /\ Cleared(u, db[u][y], t, x) # None
  <2>1. db[u][y] \in RowOf(u)
    BY <1>1, <1>3 DEF Optional
  <2>2. u = "shift" /\ t = "employee" => db[u][y].employee # x
    <3>1. ASSUME u = "shift", t = "employee" PROVE db[u][y].employee # x
      <4>1. <<"shift", "employee", "employee">> \in Restricting
        BY DEF Restricting
      <4>2. ~\E z \in Rows("shift") : db["shift"][z]["employee"] = x
        BY <3>1, <4>1 DEF Drops, Restricted
      <4>3. y \in Rows("shift")
        BY <1>3, <3>1 DEF Rows
      <4> QED
        BY <3>1, <4>2, <4>3
    <3> QED
      BY <3>1
  <2>3. Cleared(u, db[u][y], t, x) \in RowOf(u)
    BY <2>1, <2>2, ClearedRow
  <2> QED
    BY <2>3, NoneIsNoRow
<1>4. \A u \in TableName : \A y \in Tables[u] :
        db'[u][y] = IF db[u][y] = None \/ (u = t /\ y = x) THEN None
                    ELSE Cleared(u, db[u][y], t, x)
  BY <1>2
<1>5. ASSUME NEW u \in TableName PROVE db'[u] \in [Tables[u] -> Optional(RowOf(u))]
  <2>1. \A y \in Tables[u] : db'[u][y] \in Optional(RowOf(u))
    BY <1>3, <1>4 DEF Optional
  <2>2. \E F : db'[u] = [y \in Tables[u] |-> F[y]]
    <3>1. db'[u] = [y \in Tables[u] |->
                     IF db[u][y] = None \/ (u = t /\ y = x) THEN None
                     ELSE Cleared(u, db[u][y], t, x)]
      BY <1>2
    <3>2. db'[u] = [y \in Tables[u] |-> db'[u][y]]
      BY <3>1
    <3> QED
      BY <3>2
  <2> QED
    BY <2>1, <2>2
<1>6. ASSUME NEW u \in TableName, NEW y \in Rows(u)'
      PROVE  /\ y \in Rows(u) /\ (u # t \/ y # x)
             /\ db'[u][y] = Cleared(u, db[u][y], t, x)
  BY <1>4, <1>6 DEF Rows
<1>7. ASSUME NEW u \in TableName, NEW y \in Rows(u), u # t \/ y # x PROVE y \in Rows(u)'
  BY <1>3, <1>4, <1>7 DEF Rows
<1> QED
  BY <1>2, <1>4, <1>5, <1>6, <1>7

LEMMA DropsKeeps ==
  ASSUME DbInv, NEW t \in TableName, NEW x \in Tables[t], Drops(t, x)
  PROVE  DbInv'
<1>1. ASSUME NEW u \in TableName, NEW y \in Rows(u)'
      PROVE  ReferencesExist(u, db[u][y])'
  <2>1. y \in Rows(u) /\ db'[u][y] = Cleared(u, db[u][y], t, x)
    BY <1>1, Dropped
  <2>2. db[u][y] \in RowOf(u) /\ ReferencesExist(u, db[u][y])
    BY <2>1, Current
  <2>3. PICK r : r = db[u][y]
    OBVIOUS
  <2>4. ASSUME NEW ref \in Reference, ref[1] = u
        PROVE  Cleared(u, r, t, x)[ref[2]] \in Optional(Rows(ref[3])')
    <3>1. ref[2] \in DOMAIN r /\ ref[3] \in TableName /\ ref = <<u, ref[2], ref[3]>>
      BY <2>2, <2>3, <2>4, ReferringColumns, ReferenceFacts
    <3>2. r[ref[2]] \in Optional(Rows(ref[3]))
      BY <2>2, <2>3, <2>4 DEF ReferencesExist
    <3>3. Cleared(u, r, t, x)[ref[2]] =
            IF <<u, ref[2], t>> \in Reference /\ r[ref[2]] = x THEN None ELSE r[ref[2]]
      BY <3>1 DEF Cleared
    <3>4. CASE ref[3] = t /\ r[ref[2]] = x
      BY <3>1, <3>3, <3>4 DEF Optional
    <3>5. CASE ~(ref[3] = t /\ r[ref[2]] = x)
      BY <3>1, <3>2, <3>3, <3>5, Dropped DEF Optional
    <3> QED
      BY <3>4, <3>5
  <2>5. PICK new : new = db'[u][y]
    OBVIOUS
  <2>6. new = Cleared(u, r, t, x)
    BY <2>1, <2>3, <2>5
  <2>7. ReferencesExist(u, new)'
    BY <2>4, <2>6 DEF ReferencesExist, Optional
  <2> QED
    BY <2>5, <2>7 DEF ReferencesExist
<1>2. "role" \in TableName
  BY TableFacts
<1>3. ASSUME NEW y \in Rows("role")' PROVE y \in Rows("role") /\ db'["role"][y].name = db["role"][y].name
  <2>1. y \in Rows("role") /\ db'["role"][y] = Cleared("role", db["role"][y], t, x)
    BY <1>2, <1>3, Dropped
  <2>2. db["role"][y] \in RoleRow
    BY <1>2, <2>1, Current, RowTypes
  <2>3. "name" \in DOMAIN db["role"][y]
    BY <2>2 DEF RoleRow
  <2>4. <<"role", "name", t>> \notin Reference
    BY DEF Reference
  <2> QED
    BY <2>1, <2>3, <2>4 DEF Cleared
<1>4. \A y \in Rows("role")' : NameFree(y, db["role"][y].name)'
  <2>1. \A y, z \in Rows("role") : y # z => Folded[db["role"][z].name] # Folded[db["role"][y].name]
    BY DEF DbInv, NameFree
  <2> QED
    BY <1>3, <2>1 DEF NameFree
<1> QED
  BY <1>1, <1>4, Dropped DEF DbInv

LEMMA ChangesKeep == ASSUME DbInv, DbChange PROVE DbInv'
<1>1. CASE UNCHANGED db
  <2>1. \A t : Rows(t)' = Rows(t)
    BY <1>1 DEF Rows
  <2> QED
    BY <1>1, <2>1 DEF DbInv, ReferencesExist, NameFree
<1> QED
  BY <1>1, StoresKeeps, DropsKeeps DEF DbChange

-----------------------------------------------------------------------------
(* Answers. *)

(* What the statements on a table can meet. *)
CanMeet(t, o) ==
  \/ t \in {"department", "role", "employee"}
  \/ o \notin {"unique", "restrict"} /\ (t = "tour" => o # "reference")

Refusal == {"invalid", "absent", "check", "unique", "reference", "restrict"}
RefusalCode == {400, 404, 409}

(* What no table of codes lists. *)
Failure == {"unlisted", "down"}

LEMMA Outcomes ==
  /\ Outcome = Refusal \cup Failure \cup {"ok"}
  /\ "ok" \notin Refusal /\ Refusal \cap Failure = {}
BY DEF Outcome, Refusal, Failure

LEMMA RefusalCodes == 400 \in RefusalCode /\ 404 \in RefusalCode /\ 409 \in RefusalCode
BY DEF RefusalCode

LEMMA IdentityCodes ==
  /\ \A o \in Refusal : IdentityCode(o) \in RefusalCode
  /\ \A o \in Failure : IdentityCode(o) = 500
<1>0. \A o \in Failure : IdentityCode(o) = 500
  BY DEF IdentityCode, Failure
<1>1. IdentityCode("absent") = 404
  BY DEF IdentityCode
<1>2. \A o \in {"invalid", "check", "reference"} : IdentityCode(o) = 400
  BY DEF IdentityCode
<1>3. \A o \in {"unique", "restrict"} : IdentityCode(o) = 409
  BY DEF IdentityCode
<1>4. IdentityCode("absent") \in RefusalCode
  BY <1>1, RefusalCodes
<1>5. \A o \in {"invalid", "check", "reference"} : IdentityCode(o) \in RefusalCode
  BY <1>2, RefusalCodes
<1>6. \A o \in {"unique", "restrict"} : IdentityCode(o) \in RefusalCode
  BY <1>3, RefusalCodes
<1>7. \A o \in Refusal : IdentityCode(o) \in RefusalCode
  BY <1>4, <1>5, <1>6 DEF Refusal
<1> QED
  BY <1>0, <1>7

LEMMA RosterCodes ==
  /\ \A o \in Refusal \ {"unique", "restrict"} : RosterCode(o) \in RefusalCode
  /\ \A o \in Failure : RosterCode(o) = 500
<1>0. \A o \in Failure : RosterCode(o) = 500
  BY DEF RosterCode, Failure
<1>1. RosterCode("absent") = 404
  BY DEF RosterCode
<1>2. \A o \in {"invalid", "check", "reference"} : RosterCode(o) = 400
  BY DEF RosterCode
<1>3. RosterCode("absent") \in RefusalCode
  BY <1>1, RefusalCodes
<1>4. \A o \in {"invalid", "check", "reference"} : RosterCode(o) \in RefusalCode
  BY <1>2, RefusalCodes
<1>5. \A o \in Refusal \ {"unique", "restrict"} : RosterCode(o) \in RefusalCode
  BY <1>3, <1>4 DEF Refusal
<1> QED
  BY <1>0, <1>5

LEMMA ToursCodes ==
  /\ \A o \in {"absent", "invalid", "check"} : ToursCode(o) \in RefusalCode
  /\ \A o \in Failure : ToursCode(o) = 500
<1>0. \A o \in Failure : ToursCode(o) = 500
  BY DEF ToursCode, Failure
<1>1. ToursCode("absent") = 404
  BY DEF ToursCode
<1>2. \A o \in {"invalid", "check"} : ToursCode(o) = 400
  BY DEF ToursCode
<1>3. ToursCode("absent") \in RefusalCode
  BY <1>1, RefusalCodes
<1>4. \A o \in {"invalid", "check"} : ToursCode(o) \in RefusalCode
  BY <1>2, RefusalCodes
<1>5. \A o \in {"absent", "invalid", "check"} : ToursCode(o) \in RefusalCode
  BY <1>3, <1>4
<1> QED
  BY <1>0, <1>5

LEMMA Answers ==
  ASSUME NEW t \in TableName
  PROVE  /\ \A o \in Refusal : CanMeet(t, o) => Code(t, o) \in RefusalCode
         /\ \A o \in Failure : Code(t, o) = 500
<1>1. CASE t \in {"department", "role", "employee"}
  <2>1. \A o : Code(t, o) = IdentityCode(o)
    BY <1>1 DEF Code
  <2> QED
    BY <2>1, IdentityCodes
<1>2. CASE t = "tour"
  <2>1. \A o : Code(t, o) = ToursCode(o)
    BY <1>2 DEF Code
  <2>2. \A o \in Refusal : CanMeet(t, o) => o \in {"absent", "invalid", "check"}
    BY <1>2 DEF CanMeet, Refusal
  <2>3. \A o \in Refusal : CanMeet(t, o) => Code(t, o) \in RefusalCode
    BY <2>1, <2>2, ToursCodes
  <2>4. \A o \in Failure : Code(t, o) = 500
    BY <2>1, ToursCodes
  <2> QED
    BY <2>3, <2>4
<1>3. CASE t \in {"location", "shift"}
  <2>1. \A o : Code(t, o) = RosterCode(o)
    BY <1>3 DEF Code
  <2>2. \A o \in Refusal : CanMeet(t, o) => o \in Refusal \ {"unique", "restrict"}
    BY <1>3 DEF CanMeet
  <2> QED
    BY <2>1, <2>2, RosterCodes
<1> QED
  BY <1>1, <1>2, <1>3, TableFacts

LEMMA RefusedAnswer ==
  ASSUME NEW o \in Refusal, NEW code \in RefusalCode,
         answer' = [outcome |-> o, code |-> code]
  PROVE  AnswerInv'
<1>1. o \in Outcome /\ o \notin {"unlisted", "down"}
  BY Outcomes DEF Failure
<1>2. code # 500 /\ code \in {200, 201, 204, 400, 404, 409, 500}
  BY DEF RefusalCode
<1> QED
  BY <1>1, <1>2 DEF AnswerInv, RefusalsMapped

LEMMA RefuseAnswers ==
  ASSUME NEW t \in TableName, Refuse(t)
  PROVE  AnswerInv' /\ UNCHANGED db
<1>1. "invalid" \in Refusal /\ CanMeet(t, "invalid")
  BY DEF Refusal, CanMeet
<1>2. Code(t, "invalid") \in RefusalCode
  BY <1>1, Answers
<1> QED
  BY <1>1, <1>2, RefusedAnswer DEF Refuse

LEMMA RunAnswers ==
  ASSUME NEW t \in TableName, NEW o \in Outcome \ Failure, CanMeet(t, o),
         NEW effect, NEW code \in {200, 201, 204}, Run(t, o, effect, code)
  PROVE  AnswerInv' /\ (UNCHANGED db \/ (o = "ok" /\ db' = effect))
<1>1. o # "ok" => o \in Refusal /\ Code(t, o) \in RefusalCode
  BY Answers, Outcomes
<1>2. \A f \in Failure : Code(t, f) = 500
  BY Answers
<1>3. AnswerInv'
  <2>1. CASE o = "ok" /\ answer' = [outcome |-> o, code |-> code]
    <3>1. code # 500 /\ code \in {200, 201, 204, 400, 404, 409, 500}
      OBVIOUS
    <3> QED
      BY <2>1, <3>1 DEF AnswerInv, RefusalsMapped
  <2>2. CASE o # "ok" /\ answer' = [outcome |-> o, code |-> Code(t, o)]
    BY <1>1, <2>2, RefusedAnswer
  <2>3. ASSUME NEW f \in Failure, answer' = [outcome |-> f, code |-> Code(t, f)]
        PROVE  AnswerInv'
    <3>1. f \in Outcome /\ f \in {"unlisted", "down"}
      BY Outcomes DEF Failure
    <3>2. answer' = [outcome |-> f, code |-> 500]
      BY <1>2, <2>3
    <3> QED
      BY <3>1, <3>2 DEF AnswerInv, RefusalsMapped
  <2> QED
    BY <2>1, <2>2, <2>3 DEF Run, Failure
<1>4. UNCHANGED db \/ (o = "ok" /\ db' = effect)
  BY DEF Run
<1> QED
  BY <1>3, <1>4

(* A step that answers as the code maps it, and changes the tables soundly. *)
Sound == AnswerInv' /\ DbChange

LEMMA RefuseSound == ASSUME NEW t \in TableName, Refuse(t) PROVE Sound
BY RefuseAnswers DEF Sound, DbChange

LEMMA ReadSound ==
  ASSUME NEW t \in TableName, NEW x, Fetch(t, x) \/ Listing(t)
  PROVE  Sound
<1>1. "ok" \in Outcome \ Failure /\ "absent" \in Outcome \ Failure
  BY DEF Outcome, Failure
<1>2. CanMeet(t, "ok") /\ CanMeet(t, "absent")
  BY DEF CanMeet
<1>3. PICK code \in {200, 201, 204} : code = 200
  OBVIOUS
<1>4. PICK o \in {"ok", "absent"} : Run(t, o, db, code)
  BY <1>3 DEF Fetch, Listing
<1>5. o \in Outcome \ Failure /\ CanMeet(t, o)
  BY <1>1, <1>2, <1>4
<1>6. AnswerInv' /\ (UNCHANGED db \/ (o = "ok" /\ db' = db))
  BY <1>4, <1>5, RunAnswers
<1> QED
  BY <1>6 DEF Sound, DbChange

LEMMA RemoveSound ==
  ASSUME NEW t \in TableName, NEW x \in Tables[t], Remove(t, x)
  PROVE  Sound
<1>1. PICK o : o = IF x \notin Rows(t) THEN "absent"
                   ELSE IF Restricted(t, x) THEN "restrict" ELSE "ok"
  OBVIOUS
<1>2. o \in Outcome \ Failure
  BY <1>1 DEF Outcome, Failure
<1>3. CanMeet(t, o)
  <2>1. Restricted(t, x) => t = "employee"
    BY DEF Restricted, Restricting
  <2> QED
    BY <1>1, <2>1 DEF CanMeet
<1>4. PICK code \in {200, 201, 204} : code = 204
  OBVIOUS
<1>5. Run(t, o, Without(t, x), code)
  BY <1>1, <1>4 DEF Remove
<1>6. AnswerInv' /\ (UNCHANGED db \/ (o = "ok" /\ db' = Without(t, x)))
  BY <1>2, <1>3, <1>5, RunAnswers
<1>7. o = "ok" /\ db' = Without(t, x) => Drops(t, x)
  BY <1>1 DEF Drops
<1> QED
  BY <1>6, <1>7 DEF Sound, DbChange

(* A statement that writes one row: it takes effect only if everything it   *)
(* meets lets it.                                                           *)
LEMMA WriteSound ==
  ASSUME NEW t \in TableName, NEW x \in Tables[t], NEW row, NEW o \in Outcome \ Failure,
         CanMeet(t, o), NEW code \in {200, 201, 204}, Run(t, o, With(t, x, row), code),
         o = "ok" => row \in RowOf(t) /\ Fits(t, x, row)
  PROVE  Sound
<1>1. AnswerInv' /\ (UNCHANGED db \/ (o = "ok" /\ db' = With(t, x, row)))
  BY RunAnswers
<1>2. o = "ok" /\ db' = With(t, x, row) => Stores(t, x, row)
  BY DEF Stores
<1> QED
  BY <1>1, <1>2 DEF Sound, DbChange

-----------------------------------------------------------------------------
(* The calls, table by table. *)

(* What a statement that writes a row meets. *)
LEMMA MetFacts ==
  ASSUME NEW t \in TableName, NEW row, NEW checks \in BOOLEAN, NEW unique \in BOOLEAN,
         NEW o, o = Met(t, row, checks, unique),
         unique \/ t \in {"department", "role", "employee"}
  PROVE  /\ o \in Outcome \ Failure /\ CanMeet(t, o)
         /\ o = "ok" => checks /\ unique /\ ReferencesExist(t, row)
<1>1. /\ o \in {"check", "unique", "reference", "ok"}
      /\ o = "ok" => checks /\ unique /\ ReferencesExist(t, row)
      /\ o = "unique" => ~unique
      /\ o = "reference" => ~ReferencesExist(t, row)
  BY DEF Met
<1>2. t = "tour" => ReferencesExist(t, row)
  BY ReferenceFacts DEF ReferencesExist
<1> QED
  BY <1>1, <1>2 DEF Outcome, Failure, CanMeet

LEMMA InsertSound ==
  ASSUME NEW t \in TableName, NEW row, NEW checks \in BOOLEAN, NEW unique \in BOOLEAN,
         unique \/ t \in {"department", "role", "employee"},
         Insert(t, row, checks, unique),
         checks => row \in RowOf(t),
         unique /\ t = "role" => \A x \in Role : NameFree(x, row.name)
  PROVE  Sound
<1>1. PICK x \in Tables[t] \ Rows(t) : Run(t, Met(t, row, checks, unique), With(t, x, row), 201)
  BY DEF Insert
<1>2. PICK code \in {200, 201, 204} : code = 201
  OBVIOUS
<1>3. PICK o : o = Met(t, row, checks, unique)
  OBVIOUS
<1>4. /\ o \in Outcome \ Failure /\ CanMeet(t, o)
      /\ o = "ok" => checks /\ unique /\ ReferencesExist(t, row)
  BY <1>3, MetFacts
<1>5. o = "ok" => row \in RowOf(t) /\ Fits(t, x, row)
  BY <1>1, <1>4, TableFacts DEF Fits
<1>6. Run(t, o, With(t, x, row), code)
  BY <1>1, <1>2, <1>3
<1> QED
  BY <1>1, <1>4, <1>5, <1>6, WriteSound

(* An update keeps the references the body leaves out. *)
LEMMA CoalescedKeeps ==
  ASSUME NEW old, NEW patch, NEW f \in DOMAIN old, Coalesced(old, patch)[f] = None
  PROVE  old[f] = None
BY DEF Coalesced

LEMMA AmendSound ==
  ASSUME NEW t \in TableName, NEW x \in Tables[t], NEW patch, NEW row, row = Patched(t, x, patch),
         NEW checks \in BOOLEAN, NEW unique \in BOOLEAN,
         unique \/ t \in {"department", "role", "employee"},
         Amend(t, x, row, checks, unique),
         x \in Rows(t) /\ checks => row \in RowOf(t),
         x \in Rows(t) /\ unique /\ t = "role" => NameFree(x, row.name)
  PROVE  Sound
<1>1. PICK o : o = IF x \in Rows(t) THEN Met(t, row, checks, unique) ELSE "absent"
  OBVIOUS
<1>2. PICK code \in {200, 201, 204} : code = 200
  OBVIOUS
<1>3. /\ o \in Outcome \ Failure /\ CanMeet(t, o)
      /\ o = "ok" => x \in Rows(t) /\ checks /\ unique /\ ReferencesExist(t, row)
  <2>1. CASE x \in Rows(t)
    <3>1. o = Met(t, row, checks, unique)
      BY <1>1, <2>1
    <3> QED
      BY <2>1, <3>1, MetFacts
  <2>2. CASE x \notin Rows(t)
    BY <1>1, <2>2 DEF Outcome, Failure, CanMeet
  <2> QED
    BY <2>1, <2>2
<1>4. x \in Rows(t) => \A f \in DOMAIN db[t][x] : row[f] = None => db[t][x][f] = None
  <2>1. x \in Rows(t) => row = Coalesced(db[t][x], patch)
    BY DEF Patched
  <2> QED
    BY <2>1, CoalescedKeeps
<1>5. o = "ok" => row \in RowOf(t) /\ Fits(t, x, row)
  BY <1>3, <1>4 DEF Fits
<1>6. Run(t, o, With(t, x, row), code)
  BY <1>1, <1>2 DEF Amend
<1> QED
  BY <1>3, <1>5, <1>6, WriteSound

LEMMA DepartmentsSound ==
  ASSUME DbInv,
         CreateDepartment \/ UpdateDepartment \/ DeleteDepartment \/ GetDepartment \/ ListDepartments
  PROVE  Sound
<1>1. "department" \in TableName /\ Tables["department"] = Department /\ RowOf("department") = DepartmentRow
  BY TableFacts, RowTypes
<1>2. ASSUME NEW row \in DepartmentRow, InsertDepartment(row) PROVE Sound
  BY <1>1, <1>2, InsertSound DEF InsertDepartment
<1>3. ASSUME NEW d \in Department, NEW patch \in DepartmentRow, AmendDepartment(d, patch) PROVE Sound
  <2>1. PICK row : row = Patched("department", d, patch)
    OBVIOUS
  <2>2. d \in Rows("department") => row \in DepartmentRow
    <3>1. ASSUME NEW old \in DepartmentRow PROVE Coalesced(old, patch) \in DepartmentRow
      BY <1>3 DEF Coalesced, DepartmentRow
    <3> QED
      BY <1>1, <2>1, <3>1, Current DEF Patched
  <2>3. Amend("department", d, row, TRUE, TRUE)
    BY <1>3, <2>1 DEF AmendDepartment
  <2> QED
    BY <1>1, <1>3, <2>1, <2>2, <2>3, AmendSound
<1>4. CASE DeleteDepartment
  BY <1>1, <1>4, RemoveSound DEF DeleteDepartment
<1>5. CASE GetDepartment \/ ListDepartments
  BY <1>1, <1>5, ReadSound DEF GetDepartment, ListDepartments
<1> QED
  BY <1>1, <1>2, <1>3, <1>4, <1>5, RefuseSound DEF CreateDepartment, UpdateDepartment

LEMMA EmployeesSound ==
  ASSUME DbInv,
         CreateEmployee \/ UpdateEmployee \/ DeleteEmployee \/ GetEmployee \/ ListEmployees
  PROVE  Sound
<1>1. "employee" \in TableName /\ Tables["employee"] = Employee /\ RowOf("employee") = EmployeeRow
  BY TableFacts, RowTypes
<1>2. ASSUME NEW row \in EmployeeRow, InsertEmployee(row) PROVE Sound
  BY <1>1, <1>2, InsertSound DEF InsertEmployee
<1>3. ASSUME NEW e \in Employee, NEW patch \in EmployeeRow, AmendEmployee(e, patch) PROVE Sound
  <2>1. PICK row : row = Patched("employee", e, patch)
    OBVIOUS
  <2>2. e \in Rows("employee") => row \in EmployeeRow
    <3>1. ASSUME NEW old \in EmployeeRow PROVE Coalesced(old, patch) \in EmployeeRow
      BY <1>3 DEF Coalesced, EmployeeRow
    <3> QED
      BY <1>1, <2>1, <3>1, Current DEF Patched
  <2>3. Amend("employee", e, row, TRUE, TRUE)
    BY <1>3, <2>1 DEF AmendEmployee
  <2> QED
    BY <1>1, <1>3, <2>1, <2>2, <2>3, AmendSound
<1>4. CASE DeleteEmployee
  BY <1>1, <1>4, RemoveSound DEF DeleteEmployee
<1>5. CASE GetEmployee \/ ListEmployees
  BY <1>1, <1>5, ReadSound, RefuseSound DEF GetEmployee, ListEmployees
<1> QED
  BY <1>1, <1>2, <1>3, <1>4, <1>5, RefuseSound DEF CreateEmployee, UpdateEmployee

LEMMA LocationsSound ==
  ASSUME DbInv,
         CreateLocation \/ UpdateLocation \/ DeleteLocation \/ GetLocation \/ ListLocations
  PROVE  Sound
<1>1. "location" \in TableName /\ Tables["location"] = Location /\ RowOf("location") = LocationRow
  BY TableFacts, RowTypes
<1>2. ASSUME NEW row \in LocationRow, InsertLocation(row) PROVE Sound
  BY <1>1, <1>2, InsertSound DEF InsertLocation
<1>3. ASSUME NEW x \in Location, NEW patch \in LocationRow, AmendLocation(x, patch) PROVE Sound
  <2>1. PICK row : row = Patched("location", x, patch)
    OBVIOUS
  <2>2. x \in Rows("location") => row \in LocationRow
    <3>1. ASSUME NEW old \in LocationRow PROVE Coalesced(old, patch) \in LocationRow
      BY <1>3 DEF Coalesced, LocationRow
    <3> QED
      BY <1>1, <2>1, <3>1, Current DEF Patched
  <2>3. Amend("location", x, row, TRUE, TRUE)
    BY <1>3, <2>1 DEF AmendLocation
  <2> QED
    BY <1>1, <1>3, <2>1, <2>2, <2>3, AmendSound
<1>4. CASE DeleteLocation
  BY <1>1, <1>4, RemoveSound DEF DeleteLocation
<1>5. CASE GetLocation \/ ListLocations
  BY <1>1, <1>5, ReadSound DEF GetLocation, ListLocations
<1> QED
  BY <1>1, <1>2, <1>3, <1>4, <1>5, RefuseSound DEF CreateLocation, UpdateLocation

LEMMA RolesSound ==
  ASSUME DbInv, CreateRole \/ UpdateRole \/ DeleteRole \/ GetRole \/ ListRoles
  PROVE  Sound
<1>1. "role" \in TableName /\ Tables["role"] = Role /\ RowOf("role") = RoleRow
  BY TableFacts, RowTypes
<1>2. ASSUME NEW row \in RoleRow, InsertRole(row) PROVE Sound
  <2>1. PICK level \in BOOLEAN : Insert("role", row, level, NameFree(None, row.name))
    BY <1>2 DEF InsertRole
  <2>2. PICK unique \in BOOLEAN : unique = NameFree(None, row.name)
    BY DEF NameFree
  <2>3. Insert("role", row, level, unique)
    BY <2>1, <2>2
  <2>4. unique => \A x \in Role : NameFree(x, row.name)
    <3>1. None \notin Rows("role")
      BY <1>1, TableFacts DEF Rows
    <3> QED
      BY <2>2, <3>1 DEF NameFree
  <2> QED
    BY <1>1, <2>3, <2>4, InsertSound
<1>3. ASSUME NEW x \in Role, NEW name \in Optional(Name), NEW d \in Optional(Department),
             AmendRole(x, [name |-> name, department |-> d])
      PROVE  Sound
  <2>1. PICK patch : patch = [name |-> name, department |-> d]
    OBVIOUS
  <2>2. PICK row : row = Patched("role", x, patch)
    OBVIOUS
  <2>3. PICK level \in BOOLEAN :
          Amend("role", x, row, level, x \in Rows("role") => NameFree(x, row.name))
    BY <1>3, <2>1, <2>2 DEF AmendRole
  <2>4. PICK unique \in BOOLEAN : unique = (x \in Rows("role") => NameFree(x, row.name))
    OBVIOUS
  <2>5. Amend("role", x, row, level, unique)
    BY <2>3, <2>4
  <2>6. x \in Rows("role") => row \in RoleRow
    <3>1. ASSUME NEW old \in RoleRow PROVE Coalesced(old, patch) \in RoleRow
      BY <2>1, <3>1 DEF Coalesced, RoleRow, Optional
    <3> QED
      BY <1>1, <2>2, <3>1, Current DEF Patched
  <2> QED
    BY <1>1, <2>2, <2>4, <2>5, <2>6, AmendSound
<1>4. CASE DeleteRole
  BY <1>1, <1>4, RemoveSound DEF DeleteRole
<1>5. CASE GetRole \/ ListRoles
  BY <1>1, <1>5, ReadSound DEF GetRole, ListRoles
<1> QED
  BY <1>1, <1>2, <1>3, <1>4, <1>5, RefuseSound DEF CreateRole, UpdateRole

(* What is stored for an integer fits the column.                           *)
LEMMA Int32Range ==
  ASSUME NEW v \in Int
  PROVE  Int32(v) \in Int /\ (Int32(v) >= 0 => Int32(v) \in 0 .. MaxInt32)
BY DirectoryAssumption DEF Int32

LEMMA ToursSound ==
  ASSUME DbInv, CreateTour \/ UpdateTour \/ DeleteTour \/ GetTour \/ ListTours
  PROVE  Sound
<1>1. /\ "tour" \in TableName /\ Tables["tour"] = Tour
      /\ RowOf("tour") = [minutes : 0 .. MaxInt32]
  BY TableFacts, RowTypes
<1>2. Amount \subseteq Int /\ None \notin Int
  BY DirectoryAssumption
<1>3. ASSUME NEW sent \in TourRow, InsertTour(sent) PROVE Sound
  <2>1. PICK row : row = Narrowed(sent)
    OBVIOUS
  <2>2. row = [sent EXCEPT !.minutes = Int32(sent.minutes)] /\ sent.minutes \in Int
    BY <1>2, <2>1 DEF Narrowed, TourRow
  <2>3. row.minutes \in Int /\ (row.minutes >= 0 => row \in [minutes : 0 .. MaxInt32])
    BY <2>2, Int32Range DEF TourRow
  <2>4. PICK checks \in BOOLEAN : checks <=> row.minutes >= 0
    OBVIOUS
  <2>5. Insert("tour", row, checks, TRUE)
    BY <1>3, <2>1, <2>4 DEF InsertTour, Insert, Met
  <2> QED
    BY <1>1, <2>3, <2>4, <2>5, InsertSound
<1>4. ASSUME NEW x \in Tour, NEW n \in Optional(Amount), AmendTour(x, [minutes |-> n]) PROVE Sound
  <2>1. PICK patch : patch = Narrowed([minutes |-> n])
    OBVIOUS
  <2>2. PICK row : row = Patched("tour", x, patch)
    OBVIOUS
  <2>3. patch = [minutes |-> IF n = None THEN None ELSE Int32(n)]
    BY <2>1 DEF Narrowed
  <2>4. x \in Rows("tour") => /\ row.minutes \in Int
                              /\ row.minutes >= 0 => row \in [minutes : 0 .. MaxInt32]
    <3>1. ASSUME NEW old \in [minutes : 0 .. MaxInt32]
          PROVE  LET new == Coalesced(old, patch) IN
                 new.minutes \in Int /\ (new.minutes >= 0 => new \in [minutes : 0 .. MaxInt32])
      <4>1. n # None => n \in Int
        BY <1>2 DEF Optional
      <4>2. CASE n = None
        <5>1. Coalesced(old, patch) = old
          BY <2>3, <4>2 DEF Coalesced
        <5> QED
          BY <5>1, DirectoryAssumption
      <4>3. CASE n # None
        <5>1. Int32(n) \in Int /\ Int32(n) # None
          BY <1>2, <4>1, <4>3, Int32Range
        <5>2. Coalesced(old, patch) = [minutes |-> Int32(n)]
          BY <2>3, <4>3, <5>1 DEF Coalesced
        <5> QED
          BY <4>1, <4>3, <5>2, Int32Range
      <4> QED
        BY <4>2, <4>3
    <3> QED
      BY <1>1, <2>2, <3>1, Current DEF Patched
  <2>5. PICK checks \in BOOLEAN : checks = (x \in Rows("tour") => row.minutes >= 0)
    OBVIOUS
  <2>6. Amend("tour", x, row, checks, TRUE)
    BY <1>4, <2>1, <2>2, <2>5 DEF AmendTour
  <2> QED
    BY <1>1, <2>2, <2>4, <2>5, <2>6, AmendSound
<1>5. CASE DeleteTour
  BY <1>1, <1>5, RemoveSound DEF DeleteTour
<1>6. CASE GetTour \/ ListTours
  BY <1>1, <1>6, ReadSound DEF GetTour, ListTours
<1> QED
  BY <1>1, <1>3, <1>4, <1>5, <1>6, RefuseSound DEF CreateTour, UpdateTour

LEMMA ShiftsSound ==
  ASSUME DbInv, CreateShift \/ UpdateShift \/ DeleteShift \/ GetShift \/ ListShifts
  PROVE  Sound
<1>1. /\ "shift" \in TableName /\ Tables["shift"] = Shift
      /\ RowOf("shift") = {row \in ShiftRow : InOrder(row)}
  BY TableFacts, RowTypes
<1>2. ASSUME NEW row \in ShiftRow, InsertShift(row) PROVE Sound
  <2>1. PICK checks \in BOOLEAN : checks <=> InOrder(row)
    OBVIOUS
  <2>2. Insert("shift", row, checks, TRUE)
    BY <1>2, <2>1 DEF InsertShift, Insert, Met
  <2> QED
    BY <1>1, <2>1, <2>2, InsertSound
<1>3. ASSUME NEW x \in Shift, NEW e \in Optional(Employee), NEW l \in Optional(Location),
             NEW t \in Optional(Tour), NEW from \in Optional(Instant), NEW to \in Optional(Instant),
             AmendShift(x, [employee |-> e, location |-> l, tour |-> t,
                            starts |-> from, ends |-> to])
      PROVE  Sound
  <2>1. PICK patch : patch = [employee |-> e, location |-> l, tour |-> t,
                              starts |-> from, ends |-> to]
    OBVIOUS
  <2>2. PICK row : row = Patched("shift", x, patch)
    OBVIOUS
  <2>3. x \in Rows("shift") => row \in ShiftRow
    <3>1. ASSUME NEW old \in ShiftRow PROVE Coalesced(old, patch) \in ShiftRow
      <4>1. /\ DOMAIN old = {"employee", "location", "tour", "starts", "ends"}
            /\ old.employee \in Employee /\ old.location \in Optional(Location)
            /\ old.tour \in Optional(Tour) /\ old.starts \in Instant /\ old.ends \in Instant
        BY DEF ShiftRow
      <4>2. /\ patch.employee = e /\ patch.location = l /\ patch.tour = t
            /\ patch.starts = from /\ patch.ends = to
        BY <2>1
      <4>3. PICK new : new = Coalesced(old, patch)
        OBVIOUS
      <4>4. new = [f \in {"employee", "location", "tour", "starts", "ends"} |->
                     IF patch[f] = None THEN old[f] ELSE patch[f]]
        BY <4>1, <4>3 DEF Coalesced
      <4>5. new["employee"] \in Employee
        BY <4>1, <4>2, <4>4 DEF Optional
      <4>6. new["location"] \in Optional(Location) /\ new["tour"] \in Optional(Tour)
        BY <4>1, <4>2, <4>4
      <4>7. new["starts"] \in Instant /\ new["ends"] \in Instant
        BY <4>1, <4>2, <4>4 DEF Optional
      <4>8. new = [f \in {"employee", "location", "tour", "starts", "ends"} |-> new[f]]
        BY <4>4
      <4>9. new \in ShiftRow
        BY <4>5, <4>6, <4>7, <4>8 DEF ShiftRow
      <4> QED
        BY <4>3, <4>9
    <3> QED
      BY <1>1, <2>2, <3>1, Current DEF Patched
  <2>4. PICK checks \in BOOLEAN : checks = (x \in Rows("shift") => InOrder(row))
    OBVIOUS
  <2>5. Amend("shift", x, row, checks, TRUE)
    BY <1>3, <2>1, <2>2, <2>4 DEF AmendShift
  <2> QED
    BY <1>1, <2>2, <2>3, <2>4, <2>5, AmendSound
<1>4. CASE DeleteShift
  BY <1>1, <1>4, RemoveSound DEF DeleteShift
<1>5. CASE GetShift \/ ListShifts
  BY <1>1, <1>5, ReadSound DEF GetShift, ListShifts
<1> QED
  BY <1>1, <1>2, <1>3, <1>4, <1>5, RefuseSound DEF CreateShift, UpdateShift

LEMMA NextSound == ASSUME DbInv, Next PROVE Sound
BY DepartmentsSound, RolesSound, EmployeesSound, LocationsSound, ToursSound, ShiftsSound
   DEF Next

-----------------------------------------------------------------------------
(* The theorems. *)

LEMMA InitInv == Init => DirInv
<1> SUFFICES ASSUME Init PROVE DirInv
  OBVIOUS
<1>1. \A t \in TableName : db[t] = [x \in Tables[t] |-> None]
  BY DEF Init, TableName
<1>2. \A t \in TableName : Rows(t) = {}
  BY <1>1 DEF Rows
<1>3. "role" \in TableName /\ DOMAIN db = TableName
  BY TableFacts DEF Init, TableName
<1>4. \A t \in TableName : db[t] \in [Tables[t] -> Optional(RowOf(t))]
  BY <1>1 DEF Optional
<1>5. DbInv
  BY <1>2, <1>3, <1>4 DEF DbInv
<1>6. "ok" \in Outcome
  BY DEF Outcome, Failure
<1>7. AnswerInv
  BY <1>6 DEF Init, AnswerInv, RefusalsMapped
<1> QED
  BY <1>5, <1>7 DEF DirInv

LEMMA NextInv == DirInv /\ [Next]_vars => DirInv'
<1> SUFFICES ASSUME DirInv, [Next]_vars PROVE DirInv'
  OBVIOUS
<1>1. CASE Next
  BY <1>1, NextSound, ChangesKeep DEF DirInv, Sound
<1>2. CASE UNCHANGED vars
  <2>1. DbInv'
    BY <1>2, ChangesKeep DEF vars, DirInv, DbChange
  <2>2. AnswerInv'
    BY <1>2 DEF vars, DirInv, AnswerInv, RefusalsMapped
  <2> QED
    BY <2>1, <2>2 DEF DirInv
<1> QED
  BY <1>1, <1>2

(* Whatever the calls of several managers, and the failures between them.   *)
THEOREM DirectoryInvariance == Spec => []DirInv
BY InitInv, NextInv, PTL DEF Spec

(* Rows refer to rows that exist, shifts end after they start, role names   *)
(* differ in more than their case, and no integer of a tour is negative,    *)
(* whatever width a client's numbers have (migrations 0001-0021).           *)
THEOREM RowsStayConsistent == Spec => []RowsConsistent
<1>1. DirInv => RowsConsistent
  <2> SUFFICES ASSUME DirInv PROVE RowsConsistent
    OBVIOUS
  <2>1. \A t \in DOMAIN Tables : \A x \in Tables[t] :
          db[t][x] # None => ReferencesExist(t, db[t][x])
    BY DEF DirInv, DbInv, TableName, Rows
  <2>2. ASSUME NEW x \in Rows("shift")
        PROVE  InOrder(db["shift"][x]) /\ db["shift"][x].employee # None
    <3>1. db["shift"][x] \in ShiftRow /\ InOrder(db["shift"][x])
      BY Current, TableFacts, RowTypes DEF DirInv
    <3>2. None \notin Employee
      BY DirectoryAssumption
    <3> QED
      BY <3>1, <3>2 DEF ShiftRow
  <2>3. ASSUME NEW x \in Rows("tour") PROVE db["tour"][x].minutes \in 0 .. MaxInt32
    <3>1. db["tour"][x] \in [minutes : 0 .. MaxInt32]
      BY Current, TableFacts, RowTypes DEF DirInv
    <3> QED
      BY <3>1
  <2> QED
    BY <2>1, <2>2, <2>3 DEF DirInv, DbInv, AnswerInv, RowsConsistent
<1> QED
  BY <1>1, DirectoryInvariance, PTL

(* Every constraint a statement can meet is mapped to an answer: 500 tells  *)
(* of a failure of the database, or of an error that is no constraint       *)
(* (identity/store.go 29-50, roster/store.go 29-46, tours/store.go 24-38).  *)
THEOREM RefusalsAnswered == Spec => []RefusalsMapped
<1>1. DirInv => RefusalsMapped
  BY DEF DirInv, AnswerInv
<1> QED
  BY <1>1, DirectoryInvariance, PTL

(* A reference is cleared only by the deletion of the row it names          *)
(* (COALESCE in the updates, ON DELETE SET NULL in the migrations).         *)
THEOREM ReferencesOutlive == Spec => ReferencesLostWithTarget
<1>1. ASSUME DirInv, Next, NEW ref \in Reference, NEW x \in Rows(ref[1]),
             db[ref[1]][x][ref[2]] # None, db'[ref[1]][x] # None, db'[ref[1]][x][ref[2]] = None
      PROVE  db'[ref[3]][db[ref[1]][x][ref[2]]] = None
  <2> DEFINE u == ref[1]
             y == db[u][x][ref[2]]
  <2>1. /\ u \in TableName /\ ref[3] \in TableName /\ x \in Tables[u]
        /\ db[u][x] \in RowOf(u) /\ ref[2] \in DOMAIN db[u][x]
    BY <1>1, ReferenceFacts, ReferringColumns, Current DEF DirInv
  <2>2. CASE UNCHANGED db
    BY <1>1, <2>2
  <2>3. ASSUME NEW t \in TableName, NEW z \in Tables[t], NEW row, Stores(t, z, row) PROVE FALSE
    <3>1. t = u /\ z = x
      BY <1>1, <2>1, <2>3, Stored DEF DirInv
    <3>2. db'[u][x] = row
      BY <1>1, <2>3, <3>1, Stored DEF DirInv
    <3> QED
      BY <1>1, <2>1, <2>3, <3>1, <3>2 DEF Stores, Fits
  <2>4. ASSUME NEW t \in TableName, NEW z \in Tables[t], Drops(t, z)
        PROVE  db'[ref[3]][y] = None
    <3>1. x \in Rows(u)'
      BY <1>1, <2>1 DEF Rows
    <3>2. db'[u][x] = Cleared(u, db[u][x], t, z)
      BY <1>1, <2>1, <2>4, <3>1, Dropped DEF DirInv
    <3>3. <<u, ref[2], t>> \in Reference /\ y = z
      BY <1>1, <2>1, <3>2 DEF Cleared
    <3>4. ref[3] = t
      <4>1. PICK other \in Reference : other = <<u, ref[2], t>>
        BY <3>3
      <4>2. other[1] = ref[1] /\ other[2] = ref[2] /\ other[3] = t
        BY <4>1
      <4> QED
        BY <4>2, ReferenceFacts
    <3> QED
      BY <1>1, <2>4, <3>3, <3>4, Dropped DEF DirInv
  <2> QED
    BY <1>1, <2>2, <2>3, <2>4, NextSound DEF DirInv, Sound, DbChange
<1>2. DirInv /\ [Next]_vars =>
        [\A ref \in Reference : \A x \in Rows(ref[1]) :
           LET y == db[ref[1]][x][ref[2]] IN
           y # None /\ db'[ref[1]][x] # None /\ db'[ref[1]][x][ref[2]] = None
             => db'[ref[3]][y] = None]_vars
  BY <1>1
<1> QED
  BY <1>2, DirectoryInvariance, PTL DEF Spec, ReferencesLostWithTarget
=============================================================================
