------------------------- MODULE ControlPlaneProofs -------------------------
(***************************************************************************)
(* Theorems about signups, the staff's changes and the migration command,  *)
(* for any number of each.                                                 *)
(***************************************************************************)
EXTENDS ControlPlane, TLAPS

(* The inductive invariant.                                                 *)

(* A call that works for the row it inserted.                               *)
AtWork(q) == q.pc \in {"create", "migrate", "hash", "user", "activate", "drop", "delete"}

(* A row is the only one of its slug, so that only signups for other slugs  *)
(* can touch its database: this is what one signup's cleanup leaves alone.  *)
SlugsOwned ==
  /\ \A t \in Signup : Stored(t) => calls[t].slug \in Slug /\ calls[t].pc \notin {"start", "tenant"}
  /\ \A t, u \in Signup : Stored(t) /\ Stored(u) /\ calls[t].slug = calls[u].slug => t = u

(* What a signup has established when it gets to a statement, and what its *)
(* answer says.                                                             *)
OnCourse(t) ==
  LET q == calls[t] IN
  /\ q.pc # "done" => q.code = 0
  /\ q.pc = "start" => q.slug = NoSlug
  /\ q.pc \in {"start", "tenant"} => admins[t] \in Gone
  /\ q.pc \notin {"start", "done"} => q.slug \in Slug
  /\ AtWork(q) \/ q.code = 201 => Stored(t)
  /\ q.pc = "activate" \/ q.code = 201 => admins[t] \in UserStatus
  /\ ~NameShared(t) =>
       /\ q.pc \in {"hash", "user", "activate"} \/ q.code = 201 =>
            UpToDate(DatabaseOf(t), q.release)
       /\ q.pc = "delete" /\ ~q.stuck => databases[DatabaseOf(t)] = -1

(* What an open transaction found is there until it ends.                   *)
StaffSound ==
  \A a \in Staff : InTx(a) => staff[a].update \in Update /\ Found(staff[a].update)

(* The migration command: a tenant it is done with has the new schema, or   *)
(* is one whose signup fails.                                               *)
RunnerSound ==
  /\ runner.pc = "idle" /\ ~runner.failed => runner.todo = {}
  /\ ~runner.failed =>
       \A t \in runner.listed \ runner.todo :
         \/ NameShared(t)
         \/ calls[t].pc = "delete"
         \/ calls[t].pc = "done" /\ calls[t].code # 201
         \/ UpToDate(DatabaseOf(t), runner.release)
  /\ \A t \in runner.listed : calls[t].slug \in Slug /\ calls[t].pc \notin {"start", "tenant"}

IInv ==
  /\ TypeOK /\ SlugsOwned /\ StaffSound /\ RunnerSound /\ SuspensionsAudited
  /\ \A t \in Signup : OnCourse(t)

-----------------------------------------------------------------------------
LEMMA Codes ==
  /\ {0, 201, 400, 409, 500} \subseteq Code
  /\ 0 # 201 /\ 400 # 201 /\ 409 # 201 /\ 500 # 201 /\ 0 # 500
BY DEF Code

LEMMA InitInv == Init => IInv
<1> SUFFICES ASSUME Init PROVE IInv
  OBVIOUS
<1>1. \A t \in Signup :
        /\ calls[t] = NewCall
        /\ ~Stored(t) /\ tenants[t] # "suspended"
  BY DEF Init, Stored, Gone
<1>2. TypeOK
  <2>1. 0 \in 0..LastRelease /\ 1 \in 1..LastRelease /\ 0 \in Code
    BY ControlPlaneAssumption, Codes
  <2>2. /\ tenants \in [Signup -> TenantStatus \cup Gone]
        /\ admins \in [Signup -> UserStatus \cup Gone]
        /\ databases \in [Database -> 0..LastRelease \cup {-1}]
        /\ events \subseteq Update
    BY DEF Init, Gone
  <2>3. release \in 1..LastRelease
    BY <2>1 DEF Init
  <2>4. calls \in [Signup -> CallState]
    <3>1. NewCall \in CallState
      BY <2>1 DEF NewCall, CallState
    <3> QED
      BY <3>1 DEF Init
  <2>5. staff \in [Staff -> StaffState]
    BY DEF Init, StaffState
  <2>6. runner \in RunnerState
    BY <2>1 DEF Init, RunnerState
  <2> QED
    BY <2>2, <2>3, <2>4, <2>5, <2>6 DEF TypeOK
<1>3. SlugsOwned /\ SuspensionsAudited
  BY <1>1 DEF SlugsOwned, SuspensionsAudited
<1>4. StaffSound /\ RunnerSound
  BY DEF Init, StaffSound, RunnerSound, InTx
<1>5. /\ NewCall.pc = "start" /\ NewCall.code = 0 /\ NewCall.code # 201
      /\ NewCall.slug = NoSlug
  BY DEF NewCall
<1>6. \A t \in Signup : OnCourse(t)
  BY <1>1, <1>5 DEF OnCourse, AtWork, Init, Gone
<1> QED
  BY <1>2, <1>3, <1>4, <1>6 DEF IInv

LEMMA Current ==
  ASSUME IInv, NEW t \in Signup
  PROVE  /\ TypeOK /\ calls[t] \in CallState /\ OnCourse(t)
         /\ tenants[t] \in TenantStatus \cup Gone /\ admins[t] \in UserStatus \cup Gone
BY DEF IInv, TypeOK

(* The database of a signup is nobody else's unless another slug names it.  *)
LEMMA OwnDatabase ==
  ASSUME IInv, NEW t \in Signup, NEW u \in Signup \ {t}, Stored(t), Stored(u), ~NameShared(u)
  PROVE  DatabaseOf(t) # DatabaseOf(u)
BY DEF IInv, SlugsOwned, NameShared

LEMMA SharedSame ==
  ASSUME UNCHANGED calls, NEW t \in Signup
  PROVE  (NameShared(t)' <=> NameShared(t)) /\ DatabaseOf(t)' = DatabaseOf(t)
BY DEF NameShared, DatabaseOf

(* A slug that is asked for stays so, and with it the names that are shared. *)
LEMMA SharedForGood ==
  ASSUME NEW t \in Signup, NameShared(t),
         \A u \in Signup : calls[u].slug \in Slug => calls'[u].slug = calls[u].slug
  PROVE  NameShared(t)'
BY DEF NameShared, DatabaseOf

LEMMA DatabaseType ==
  ASSUME IInv, NEW t \in Signup, calls[t].slug \in Slug
  PROVE  DatabaseOf(t) \in Database /\ databases[DatabaseOf(t)] \in 0..LastRelease \cup {-1}
BY ControlPlaneAssumption DEF IInv, TypeOK, DatabaseOf

(* What a signup has established stays true while others lose it no row, no *)
(* admin and no migration.                                                  *)
LEMMA CourseKept ==
  ASSUME NEW t \in Signup, OnCourse(t), calls'[t] = calls[t],
         Stored(t) => Stored(t)',
         admins[t] \in UserStatus => admins'[t] \in UserStatus,
         admins[t] \in Gone => admins'[t] \in Gone,
         NameShared(t) => NameShared(t)',
         Stored(t) /\ ~NameShared(t) =>
           \/ databases'[DatabaseOf(t)] = databases[DatabaseOf(t)]
           \/ /\ databases[DatabaseOf(t)] # -1
              /\ \A r \in 0..LastRelease :
                   databases[DatabaseOf(t)] >= r => databases'[DatabaseOf(t)] >= r,
         calls[t].release \in 0..LastRelease
  PROVE  OnCourse(t)'
<1>1. DatabaseOf(t)' = DatabaseOf(t)
  BY DEF DatabaseOf
<1> QED
  BY <1>1 DEF OnCourse, AtWork, UpToDate

-----------------------------------------------------------------------------
(* The steps of a signup.                                                   *)

LEMMA BecomeChanges ==
  ASSUME IInv, NEW t \in Signup, NEW q \in CallState, Become(t, q)
  PROVE  /\ calls' \in [Signup -> CallState] /\ calls'[t] = q
         /\ \A u \in Signup \ {t} : calls'[u] = calls[u]
BY DEF IInv, TypeOK, Become

LEMMA GoChanges ==
  ASSUME IInv, NEW t \in Signup,
         NEW pc \in {"create", "migrate", "hash", "user", "activate", "drop", "delete"},
         Go(t, pc)
  PROVE  \E q \in CallState :
           /\ Become(t, q) /\ q.pc = pc
           /\ q.slug = calls[t].slug /\ q.release = calls[t].release
           /\ q.code = calls[t].code /\ q.stuck = calls[t].stuck
<1> DEFINE q == [calls[t] EXCEPT !.pc = pc]
<1>1. q \in CallState
  BY Current DEF CallState
<1>2. /\ q.pc = pc /\ q.slug = calls[t].slug /\ q.release = calls[t].release
      /\ q.code = calls[t].code /\ q.stuck = calls[t].stuck
  BY Current DEF CallState
<1> QED
  BY <1>1, <1>2 DEF Go

LEMMA ReplyChanges ==
  ASSUME IInv, NEW t \in Signup, NEW code \in Code, Reply(t, code)
  PROVE  \E q \in CallState :
           /\ Become(t, q) /\ q.pc = "done" /\ q.code = code /\ q.stuck = calls[t].stuck
           /\ q.slug = calls[t].slug /\ q.release = calls[t].release
<1> DEFINE q == [calls[t] EXCEPT !.pc = "done", !.code = code]
<1>1. q \in CallState
  BY Current DEF CallState
<1>2. /\ q.pc = "done" /\ q.code = code /\ q.stuck = calls[t].stuck
      /\ q.slug = calls[t].slug /\ q.release = calls[t].release
  BY Current DEF CallState
<1> QED
  BY <1>1, <1>2 DEF Reply

(* What a statement of t must show.                                         *)
LEMMA SignupMove ==
  ASSUME IInv, NEW t \in Signup, NEW q \in CallState, Become(t, q),
         calls[t].pc \notin {"start", "done"}, q.pc \notin {"start", "tenant"},
         q.slug = calls[t].slug, q.release = calls[t].release,
         UNCHANGED <<events, release, staff, runner>>,
         tenants' \in [Signup -> TenantStatus \cup Gone],
         admins' \in [Signup -> UserStatus \cup Gone],
         databases' \in [Database -> 0..LastRelease \cup {-1}],
         \A u \in Signup \ {t} : tenants'[u] = tenants[u] /\ admins'[u] = admins[u],
         \A d \in Database \ {DatabaseOf(t)} : databases'[d] = databases[d],
         Stored(t) \/ UNCHANGED databases,
         Stored(t)' => Stored(t) \/ ~SlugTaken(calls[t].slug),
         tenants'[t] = "suspended" => tenants[t] = "suspended",
         TenantLocked(t) => /\ Stored(t) => Stored(t)'
                            /\ admins[t] \notin Gone => admins'[t] \notin Gone,
         OnCourse(t)',
         calls[t].pc = "delete" => q.pc = "done" /\ q.code # 201,
         \/ q.pc \in {"delete", "done"} /\ q.code # 201
         \/ \A r \in 0..LastRelease :
              UpToDate(DatabaseOf(t), r) => databases'[DatabaseOf(t)] >= r
  PROVE  IInv'
<1>1. /\ calls' \in [Signup -> CallState] /\ calls'[t] = q
      /\ \A u \in Signup \ {t} : calls'[u] = calls[u]
  BY BecomeChanges
<1>2. TypeOK'
  BY <1>1 DEF IInv, TypeOK
<1>3. \A u \in Signup : /\ calls'[u].slug = calls[u].slug /\ DatabaseOf(u)' = DatabaseOf(u)
                        /\ NameShared(u) => NameShared(u)'
  BY <1>1, SharedForGood DEF DatabaseOf
<1>4. \A u \in Signup \ {t} : (Stored(u) <=> Stored(u)')
  BY DEF Stored
<1>5. SlugsOwned'
  <2>1. ASSUME NEW u \in Signup, Stored(u)'
        PROVE  calls'[u].slug \in Slug /\ calls'[u].pc \notin {"start", "tenant"}
    <3>1. CASE u = t
      BY <1>1, <3>1, Current DEF OnCourse
    <3>2. CASE u # t
      BY <1>1, <1>4, <2>1, <3>2 DEF IInv, SlugsOwned
    <3> QED
      BY <3>1, <3>2
  <2>2. ASSUME NEW u \in Signup \ {t}, Stored(t)', Stored(u)', calls[t].slug = calls[u].slug
        PROVE  FALSE
    BY <1>4, <2>2 DEF IInv, SlugsOwned, SlugTaken
  <2>3. ASSUME NEW u \in Signup, NEW v \in Signup, Stored(u)', Stored(v)',
               calls'[u].slug = calls'[v].slug
        PROVE  u = v
    BY <1>3, <1>4, <2>2, <2>3 DEF IInv, SlugsOwned
  <2> QED
    BY <2>1, <2>3 DEF SlugsOwned
<1>6. StaffSound'
  <2>1. ASSUME NEW a \in Staff, InTx(a)'
        PROVE  staff'[a].update \in Update /\ Found(staff[a].update)'
    <3>1. InTx(a) /\ staff'[a] = staff[a] /\ staff[a].update \in Update /\ Found(staff[a].update)
      BY <2>1 DEF IInv, StaffSound, InTx
    <3>2. staff[a].update.tenant \in Signup
      BY <3>1 DEF Update
    <3>3. CASE staff[a].update.tenant = t
      BY <3>1, <3>3 DEF Found, TenantLocked
    <3>4. CASE staff[a].update.tenant # t
      BY <3>1, <3>2, <3>4 DEF Found, Stored
    <3> QED
      BY <3>1, <3>3, <3>4
  <2> QED
    BY <2>1 DEF StaffSound
<1>7. SuspensionsAudited'
  BY DEF IInv, SuspensionsAudited
<1>8. ASSUME NEW u \in Signup \ {t}, Stored(u), ~NameShared(u)
      PROVE  databases'[DatabaseOf(u)] = databases[DatabaseOf(u)]
  <2>1. calls[u].slug \in Slug
    BY <1>8 DEF IInv, SlugsOwned
  <2>2. Stored(t) => DatabaseOf(u) # DatabaseOf(t)
    BY <1>8, OwnDatabase
  <2> QED
    BY <2>1, <2>2, DatabaseType
<1>9. ASSUME NEW u \in Signup PROVE OnCourse(u)'
  <2>1. CASE u = t
    BY <2>1
  <2>2. CASE u # t
    <3>1. calls[u].release \in 0..LastRelease
      BY Current DEF CallState
    <3> QED
      BY <1>1, <1>3, <1>4, <1>8, <2>2, <3>1, CourseKept, Current
  <2> QED
    BY <2>1, <2>2
<1>10. RunnerSound'
  <2>1. \A u \in runner.listed :
          /\ u \in Signup
          /\ calls'[u].slug \in Slug /\ calls'[u].pc \notin {"start", "tenant"}
    BY <1>1, <1>3 DEF IInv, RunnerSound, TypeOK, RunnerState
  <2>2. ASSUME ~runner.failed, NEW u \in runner.listed \ runner.todo, ~NameShared(u)
        PROVE  \/ calls'[u].pc = "delete"
               \/ calls'[u].pc = "done" /\ calls'[u].code # 201
               \/ databases'[DatabaseOf(u)] >= runner.release
    <3>1. \/ calls[u].pc = "delete"
          \/ calls[u].pc = "done" /\ calls[u].code # 201
          \/ UpToDate(DatabaseOf(u), runner.release)
      BY <2>2 DEF IInv, RunnerSound
    <3>2. runner.release \in 0..LastRelease
      BY DEF IInv, TypeOK, RunnerState
    <3>3. CASE u = t
      BY <1>1, <3>1, <3>2, <3>3
    <3>4. CASE u # t
      <4>1. Stored(u) \/ (calls[u].pc = "done" /\ calls[u].code # 201)
        <5>1. calls[u].pc \notin {"start", "tenant"} /\ u \in Signup
          BY <2>1, <2>2, <3>4, <1>1
        <5> QED
          BY <5>1, Current DEF OnCourse, AtWork, CallState
      <4> QED
        BY <1>1, <1>8, <2>1, <2>2, <3>1, <3>4, <4>1 DEF UpToDate
    <3> QED
      BY <3>3, <3>4
  <2> QED
    BY <1>3, <2>1, <2>2 DEF RunnerSound, UpToDate, IInv
<1> QED
  BY <1>2, <1>5, <1>6, <1>7, <1>9, <1>10 DEF IInv

(* A statement that fails without an effect.                                *)
LEMMA BackOut ==
  ASSUME IInv, NEW t \in Signup, Go(t, "drop"),
         calls[t].pc \in {"create", "migrate", "hash", "user", "activate"},
         UNCHANGED <<tenants, admins, databases, events, release, staff, runner>>
  PROVE  IInv'
<1>1. PICK q \in CallState : /\ Become(t, q) /\ q.pc = "drop"
                             /\ q.slug = calls[t].slug /\ q.release = calls[t].release
                             /\ q.code = calls[t].code /\ q.stuck = calls[t].stuck
  BY GoChanges
<1>2. calls'[t] = q /\ DatabaseOf(t)' = DatabaseOf(t)
  BY <1>1, BecomeChanges DEF DatabaseOf
<1>3. OnCourse(t)'
  BY <1>1, <1>2, Current, Codes DEF OnCourse, AtWork, Stored
<1> QED
  BY <1>1, <1>3, SignupMove DEF IInv, TypeOK, Stored, UpToDate

(* An error that is answered at once.                                       *)
LEMMA Refusal ==
  ASSUME IInv, NEW t \in Signup, NEW code \in Code, code # 201, Reply(t, code),
         calls[t].pc \in {"tenant", "delete"},
         UNCHANGED <<tenants, admins, databases, events, release, staff, runner>>
  PROVE  IInv'
<1>1. PICK q \in CallState : /\ Become(t, q) /\ q.pc = "done" /\ q.code = code
                             /\ q.slug = calls[t].slug /\ q.release = calls[t].release
  BY ReplyChanges
<1>2. calls'[t] = q
  BY <1>1, BecomeChanges
<1>3. OnCourse(t)'
  BY <1>1, <1>2 DEF OnCourse, AtWork
<1> QED
  BY <1>1, <1>3, SignupMove DEF IInv, TypeOK, Stored, UpToDate

LEMMA InsertTenantKeeps == ASSUME IInv, NEW t \in Signup, InsertTenant(t) PROVE IInv'
<1>1. /\ calls[t].pc = "tenant" /\ UNCHANGED <<admins, databases, events, release, staff, runner>>
      /\ \/ \E code \in Code \ {201} : Reply(t, code) /\ UNCHANGED tenants
         \/ /\ ~SlugTaken(calls[t].slug)
            /\ Go(t, "create") \/ \E code \in Code \ {201} : Reply(t, code)
            /\ tenants' = [tenants EXCEPT ![t] = "provisioning"]
  BY Codes DEF InsertTenant, At
<1>2. CASE \E code \in Code \ {201} : Reply(t, code) /\ UNCHANGED tenants
  BY <1>1, <1>2, Refusal
<1>3. CASE /\ ~SlugTaken(calls[t].slug)
           /\ Go(t, "create") \/ \E code \in Code \ {201} : Reply(t, code)
           /\ tenants' = [tenants EXCEPT ![t] = "provisioning"]
  <2>1. PICK q \in CallState :
          /\ Become(t, q) /\ q.slug = calls[t].slug /\ q.release = calls[t].release
          /\ \/ q.pc = "create" /\ q.code = calls[t].code
             \/ q.pc = "done" /\ q.code # 201
    <3>1. CASE Go(t, "create")
      BY <3>1, GoChanges
    <3>2. CASE \E code \in Code \ {201} : Reply(t, code)
      BY <3>2, ReplyChanges
    <3> QED
      BY <1>3, <3>1, <3>2
  <2>2. calls'[t] = q
    BY <2>1, BecomeChanges
  <2>3. /\ tenants' \in [Signup -> TenantStatus \cup Gone] /\ tenants'[t] = "provisioning"
        /\ \A u \in Signup \ {t} : tenants'[u] = tenants[u]
    BY <1>3, Current DEF TypeOK, TenantStatus
  <2>4. Stored(t)'
    BY <2>3 DEF Stored, Gone
  <2>5. OnCourse(t)'
    BY <1>1, <2>1, <2>2, <2>4, Current, Codes DEF OnCourse, AtWork
  <2> QED
    BY <1>1, <1>3, <2>1, <2>3, <2>4, <2>5, SignupMove DEF IInv, TypeOK, UpToDate
<1> QED
  BY <1>1, <1>2, <1>3

(* A statement of t that leaves the tables alone, or only its database.     *)
LEMMA OwnDatabaseMove ==
  ASSUME IInv, NEW t \in Signup, NEW q \in CallState, Become(t, q),
         calls[t].pc \in {"create", "migrate", "hash", "user", "activate", "drop"},
         q.pc \in {"migrate", "hash", "user", "drop", "delete"},
         q.slug = calls[t].slug, q.release = calls[t].release, q.code = calls[t].code,
         UNCHANGED <<tenants, admins, events, release, staff, runner>>,
         NEW v \in 0..LastRelease \cup {-1},
         databases' = [databases EXCEPT ![DatabaseOf(t)] = v],
         v >= databases[DatabaseOf(t)] \/ q.pc = "delete",
         ~NameShared(t) /\ q.pc \in {"hash", "user"} => v >= q.release,
         q.pc = "delete" => v = -1 \/ q.stuck
  PROVE  IInv'
<1>1. /\ calls'[t] = q /\ DatabaseOf(t)' = DatabaseOf(t)
      /\ NameShared(t) => NameShared(t)'
  BY BecomeChanges, SharedForGood DEF DatabaseOf
<1>2. Stored(t) /\ calls[t].slug \in Slug /\ calls[t].code = 0
  BY Current DEF OnCourse, AtWork
<1>3. DatabaseOf(t) \in Database /\ databases[DatabaseOf(t)] \in 0..LastRelease \cup {-1}
  BY <1>2, DatabaseType
<1>4. /\ databases' \in [Database -> 0..LastRelease \cup {-1}]
      /\ databases'[DatabaseOf(t)] = v
      /\ \A d \in Database \ {DatabaseOf(t)} : databases'[d] = databases[d]
  BY <1>3 DEF IInv, TypeOK
<1>5. OnCourse(t)'
  BY <1>1, <1>2, <1>4, Codes DEF OnCourse, AtWork, Stored, UpToDate
<1>6. \/ q.pc = "delete" /\ q.code # 201
      \/ \A r \in 0..LastRelease :
           UpToDate(DatabaseOf(t), r) => databases'[DatabaseOf(t)] >= r
  <2>1. ASSUME v >= databases[DatabaseOf(t)], NEW r \in 0..LastRelease,
               UpToDate(DatabaseOf(t), r)
        PROVE  databases'[DatabaseOf(t)] >= r
    BY <1>3, <1>4, <2>1, ControlPlaneAssumption DEF UpToDate
  <2> QED
    BY <1>2, <2>1, Codes
<1> QED
  BY <1>2, <1>4, <1>5, <1>6, SignupMove DEF IInv, TypeOK, Stored

LEMMA CreateDatabaseKeeps == ASSUME IInv, NEW t \in Signup, CreateDatabase(t) PROVE IInv'
<1> DEFINE d == DatabaseOf(t)
<1>1. calls[t].pc = "create" /\ UNCHANGED <<tenants, admins, events, release, staff, runner>>
  BY DEF CreateDatabase, At
<1>2. d \in Database /\ databases[d] \in 0..LastRelease \cup {-1}
  BY <1>1, Current, DatabaseType DEF OnCourse
<1>3. CASE Go(t, "drop") /\ UNCHANGED databases
  BY <1>1, <1>3, BackOut
<1>4. CASE /\ databases[d] = -1 /\ databases' = [databases EXCEPT ![d] = 0]
           /\ Go(t, "migrate") \/ Go(t, "drop")
  <2>1. PICK q \in CallState :
          /\ Become(t, q) /\ q.pc \in {"migrate", "drop"}
          /\ q.slug = calls[t].slug /\ q.release = calls[t].release /\ q.code = calls[t].code
    BY <1>4, GoChanges
  <2>2. 0 \in 0..LastRelease \cup {-1} /\ 0 >= databases[d]
    BY <1>4, ControlPlaneAssumption
  <2> QED
    BY <1>1, <1>4, <2>1, <2>2, OwnDatabaseMove
<1>5. CASE Go(t, "migrate") /\ UNCHANGED databases
  <2>1. PICK q \in CallState :
          /\ Become(t, q) /\ q.pc = "migrate"
          /\ q.slug = calls[t].slug /\ q.release = calls[t].release /\ q.code = calls[t].code
    BY <1>5, GoChanges
  <2>2. databases' = [databases EXCEPT ![d] = databases[d]] /\ databases[d] >= databases[d]
    BY <1>2, <1>5, ControlPlaneAssumption DEF IInv, TypeOK
  <2> QED
    BY <1>1, <1>2, <2>1, <2>2, OwnDatabaseMove
<1> QED
  BY <1>3, <1>4, <1>5 DEF CreateDatabase

LEMMA MigrateNewKeeps == ASSUME IInv, NEW t \in Signup, MigrateNew(t) PROVE IInv'
<1> DEFINE d == DatabaseOf(t)
<1>1. calls[t].pc = "migrate" /\ UNCHANGED <<tenants, admins, events, release, staff, runner>>
  BY DEF MigrateNew, At
<1>2. /\ d \in Database /\ databases[d] \in 0..LastRelease \cup {-1}
      /\ calls[t].release \in 0..LastRelease
  BY <1>1, Current, DatabaseType DEF OnCourse, CallState
<1>3. CASE Go(t, "drop") /\ UNCHANGED databases
  BY <1>1, <1>3, BackOut
<1>4. CASE Migrates(d, calls[t].release) /\ Go(t, "migrate")
  <2>1. PICK q \in CallState :
          /\ Become(t, q) /\ q.pc = "migrate"
          /\ q.slug = calls[t].slug /\ q.release = calls[t].release /\ q.code = calls[t].code
    BY <1>4, GoChanges
  <2>2. /\ databases' = [databases EXCEPT ![d] = databases[d] + 1]
        /\ databases[d] + 1 \in 0..LastRelease \cup {-1} /\ databases[d] + 1 >= databases[d]
    BY <1>2, <1>4, ControlPlaneAssumption DEF Migrates
  <2> QED
    BY <1>1, <2>1, <2>2, OwnDatabaseMove
<1>5. CASE UpToDate(d, calls[t].release) /\ Go(t, "hash") /\ UNCHANGED databases
  <2>1. PICK q \in CallState :
          /\ Become(t, q) /\ q.pc = "hash"
          /\ q.slug = calls[t].slug /\ q.release = calls[t].release /\ q.code = calls[t].code
    BY <1>5, GoChanges
  <2>2. /\ databases' = [databases EXCEPT ![d] = databases[d]]
        /\ databases[d] >= databases[d] /\ databases[d] >= q.release
    BY <1>2, <1>5, <2>1, ControlPlaneAssumption DEF IInv, TypeOK, UpToDate
  <2> QED
    BY <1>1, <1>2, <2>1, <2>2, OwnDatabaseMove
<1> QED
  BY <1>3, <1>4, <1>5 DEF MigrateNew

LEMMA HashPasswordKeeps == ASSUME IInv, NEW t \in Signup, HashPassword(t) PROVE IInv'
<1>1. /\ calls[t].pc = "hash"
      /\ UNCHANGED <<tenants, admins, databases, events, release, staff, runner>>
  BY DEF HashPassword, At
<1>2. CASE Go(t, "drop")
  BY <1>1, <1>2, BackOut
<1>3. CASE Go(t, "user")
  <2>1. PICK q \in CallState :
          /\ Become(t, q) /\ q.pc = "user"
          /\ q.slug = calls[t].slug /\ q.release = calls[t].release /\ q.code = calls[t].code
    BY <1>3, GoChanges
  <2> DEFINE d == DatabaseOf(t)
  <2>2. /\ d \in Database /\ databases[d] \in 0..LastRelease \cup {-1}
        /\ ~NameShared(t) => UpToDate(d, calls[t].release)
    BY <1>1, Current, DatabaseType DEF OnCourse
  <2>3. /\ databases' = [databases EXCEPT ![d] = databases[d]]
        /\ databases[d] >= databases[d] /\ (~NameShared(t) => databases[d] >= q.release)
    BY <1>1, <2>1, <2>2, ControlPlaneAssumption DEF IInv, TypeOK, UpToDate
  <2> QED
    BY <1>1, <2>1, <2>2, <2>3, OwnDatabaseMove
<1> QED
  BY <1>2, <1>3 DEF HashPassword

LEMMA InsertAdminKeeps == ASSUME IInv, NEW t \in Signup, InsertAdmin(t) PROVE IInv'
<1>1. calls[t].pc = "user" /\ UNCHANGED <<tenants, databases, events, release, staff, runner>>
  BY DEF InsertAdmin, At
<1>2. CASE Go(t, "drop") /\ UNCHANGED admins
  BY <1>1, <1>2, BackOut
<1>3. CASE admins' = [admins EXCEPT ![t] = "active"] /\ (Go(t, "activate") \/ Go(t, "drop"))
  <2>1. PICK q \in CallState :
          /\ Become(t, q) /\ q.pc \in {"activate", "drop"}
          /\ q.slug = calls[t].slug /\ q.release = calls[t].release /\ q.code = calls[t].code
    BY <1>3, GoChanges
  <2>2. /\ calls'[t] = q /\ DatabaseOf(t)' = DatabaseOf(t)
        /\ NameShared(t) => NameShared(t)'
    BY <2>1, BecomeChanges, SharedForGood DEF DatabaseOf
  <2>3. /\ admins' \in [Signup -> UserStatus \cup Gone] /\ admins'[t] = "active"
        /\ \A u \in Signup \ {t} : admins'[u] = admins[u]
    BY <1>3, Current DEF TypeOK, UserStatus
  <2>4. admins'[t] \in UserStatus /\ admins'[t] \notin Gone
    BY <2>3 DEF UserStatus, Gone
  <2>5. OnCourse(t)'
    BY <1>1, <2>1, <2>2, <2>4, Current, Codes DEF OnCourse, AtWork, Stored, UpToDate
  <2>6. Stored(t)
    BY <1>1, Current DEF OnCourse, AtWork
  <2> QED
    BY <1>1, <2>1, <2>3, <2>4, <2>5, <2>6, SignupMove DEF IInv, TypeOK, Stored, UpToDate
<1> QED
  BY <1>2, <1>3 DEF InsertAdmin

LEMMA ActivateKeeps == ASSUME IInv, NEW t \in Signup, Activate(t) PROVE IInv'
<1>1. calls[t].pc = "activate" /\ UNCHANGED <<admins, databases, events, release, staff, runner>>
  BY DEF Activate, At
<1>2. CASE Go(t, "drop") /\ UNCHANGED tenants
  BY <1>1, <1>2, BackOut
<1>3. CASE tenants' = [tenants EXCEPT ![t] = "active"] /\ (Reply(t, 201) \/ Go(t, "drop"))
  <2>1. PICK q \in CallState :
          /\ Become(t, q) /\ q.slug = calls[t].slug /\ q.release = calls[t].release
          /\ \/ q.pc = "done"
             \/ q.pc = "drop" /\ q.code = calls[t].code
    <3>1. CASE Reply(t, 201)
      <4>1. PICK code \in Code : Reply(t, code)
        BY <3>1, Codes
      <4>2. PICK q \in CallState : /\ Become(t, q) /\ q.pc = "done"
                                   /\ q.slug = calls[t].slug /\ q.release = calls[t].release
        BY <4>1, ReplyChanges
      <4> QED
        BY <4>2
    <3>2. CASE Go(t, "drop")
      BY <3>2, GoChanges
    <3> QED
      BY <1>3, <3>1, <3>2
  <2>2. /\ calls'[t] = q /\ DatabaseOf(t)' = DatabaseOf(t)
        /\ NameShared(t) => NameShared(t)'
    BY <2>1, BecomeChanges, SharedForGood DEF DatabaseOf
  <2>3. /\ tenants' \in [Signup -> TenantStatus \cup Gone] /\ tenants'[t] = "active"
        /\ \A u \in Signup \ {t} : tenants'[u] = tenants[u]
    BY <1>3, Current DEF TypeOK, TenantStatus
  <2>4. Stored(t)' /\ Stored(t)
    BY <1>1, <2>3, Current DEF OnCourse, AtWork, Stored, Gone
  <2>5. OnCourse(t)'
    BY <1>1, <2>1, <2>2, <2>4, Current DEF OnCourse, AtWork, UpToDate
  <2> QED
    BY <1>1, <2>1, <2>3, <2>4, <2>5, SignupMove DEF IInv, TypeOK, UpToDate
<1> QED
  BY <1>2, <1>3 DEF Activate

LEMMA DropDatabaseKeeps == ASSUME IInv, NEW t \in Signup, DropDatabase(t) PROVE IInv'
<1> DEFINE d == DatabaseOf(t)
<1>1. calls[t].pc = "drop" /\ UNCHANGED <<tenants, admins, events, release, staff, runner>>
  BY DEF DropDatabase, At
<1>2. d \in Database /\ databases[d] \in 0..LastRelease \cup {-1}
  BY <1>1, Current, DatabaseType DEF OnCourse
<1>3. CASE databases' = [databases EXCEPT ![d] = -1] /\ Go(t, "delete")
  <2>1. PICK q \in CallState :
          /\ Become(t, q) /\ q.pc = "delete"
          /\ q.slug = calls[t].slug /\ q.release = calls[t].release /\ q.code = calls[t].code
    BY <1>3, GoChanges
  <2>2. -1 \in 0..LastRelease \cup {-1}
    OBVIOUS
  <2> QED
    BY <1>1, <1>3, <2>1, <2>2, OwnDatabaseMove
<1>4. CASE /\ Become(t, [calls[t] EXCEPT !.pc = "delete", !.stuck = TRUE])
           /\ UNCHANGED databases
  <2> DEFINE q == [calls[t] EXCEPT !.pc = "delete", !.stuck = TRUE]
  <2>1. /\ q \in CallState /\ q.pc = "delete" /\ q.stuck
        /\ q.slug = calls[t].slug /\ q.release = calls[t].release /\ q.code = calls[t].code
    BY Current DEF CallState
  <2> HIDE DEF q
  <2>2. databases' = [databases EXCEPT ![d] = databases[d]]
    BY <1>2, <1>4 DEF IInv, TypeOK
  <2>3. Become(t, q)
    BY <1>4 DEF q
  <2> QED
    BY <1>1, <1>2, <2>1, <2>2, <2>3, OwnDatabaseMove
<1> QED
  BY <1>3, <1>4 DEF DropDatabase

LEMMA DeleteTenantKeeps == ASSUME IInv, NEW t \in Signup, DeleteTenant(t) PROVE IInv'
<1>1. /\ calls[t].pc = "delete" /\ ~TenantLocked(t)
      /\ UNCHANGED <<databases, events, release, staff, runner>>
  BY DEF DeleteTenant, At
<1>2. \E code \in Code \ {201} : code = 500
  BY Codes
<1>3. CASE Reply(t, 500) /\ UNCHANGED <<tenants, admins>>
  BY <1>1, <1>2, <1>3, Refusal
<1>4. CASE /\ tenants' = [tenants EXCEPT ![t] = "deleted"]
           /\ admins' = [admins EXCEPT ![t] = IF @ = "none" THEN "none" ELSE "deleted"]
           /\ Reply(t, 500)
  <2>1. PICK q \in CallState :
          /\ Become(t, q) /\ q.slug = calls[t].slug /\ q.release = calls[t].release
          /\ q.pc = "done" /\ q.code # 201
    BY <1>2, <1>4, ReplyChanges
  <2>2. calls'[t] = q
    BY <2>1, BecomeChanges
  <2>3. /\ tenants' \in [Signup -> TenantStatus \cup Gone] /\ tenants'[t] = "deleted"
        /\ \A u \in Signup \ {t} : tenants'[u] = tenants[u]
    BY <1>4, Current DEF TypeOK, Gone
  <2>4. /\ admins' \in [Signup -> UserStatus \cup Gone]
        /\ \A u \in Signup \ {t} : admins'[u] = admins[u]
    BY <1>4, Current DEF TypeOK, Gone
  <2>5. ~Stored(t)'
    BY <2>3 DEF Stored, Gone
  <2>6. OnCourse(t)'
    BY <2>1, <2>2 DEF OnCourse, AtWork
  <2> QED
    BY <1>1, <2>1, <2>3, <2>4, <2>5, <2>6, SignupMove DEF IInv, TypeOK
<1>5. CASE /\ Become(t, [calls[t] EXCEPT !.pc = "done", !.code = 500, !.stuck = TRUE])
           /\ UNCHANGED <<tenants, admins>>
  <2>1. PICK code \in Code \ {201} : code = 500
    BY <1>2
  <2> DEFINE q == [calls[t] EXCEPT !.pc = "done", !.code = code, !.stuck = TRUE]
  <2>2. /\ q \in CallState /\ q.pc = "done" /\ q.code = code
        /\ q.slug = calls[t].slug /\ q.release = calls[t].release
    <3>1. calls[t] \in CallState
      BY Current
    <3>2. /\ q.pc = "done" /\ q.code = code
          /\ q.slug = calls[t].slug /\ q.release = calls[t].release
      BY <3>1 DEF CallState
    <3>3. q \in CallState
      BY <3>1 DEF CallState
    <3> QED
      BY <3>2, <3>3
  <2>3. Become(t, q)
    BY <1>5, <2>1, Zenon
  <2> HIDE DEF q
  <2>4. calls'[t] = q
    BY <2>2, <2>3, BecomeChanges
  <2>5. OnCourse(t)'
    BY <2>2, <2>4 DEF OnCourse, AtWork
  <2> QED
    BY <1>1, <1>5, <2>2, <2>3, <2>5, SignupMove DEF IInv, TypeOK, Stored, UpToDate
<1> QED
  BY <1>3, <1>4, <1>5 DEF DeleteTenant

(* A signup that arrives, or is refused before it has a row.                *)
LEMMA RequestKeeps == ASSUME IInv, NEW t \in Signup, Request(t) PROVE IInv'
<1>1. /\ calls[t].pc = "start"
      /\ UNCHANGED <<tenants, admins, databases, events, release, staff, runner>>
  BY DEF Request, At
<1>2. PICK q \in CallState :
        /\ Become(t, q)
        /\ \/ q.pc = "done" /\ q.code # 201
           \/ q.pc = "tenant" /\ q.code = calls[t].code /\ q.slug \in Slug
  <2>1. CASE Reply(t, 400)
    <3>1. \E code \in Code \ {201} : Reply(t, code)
      BY <2>1, Codes
    <3> QED
      BY <3>1, ReplyChanges
  <2>2. ASSUME NEW s \in Slug,
               Become(t, [calls[t] EXCEPT !.pc = "tenant", !.slug = s, !.release = release])
        PROVE  \E q \in CallState :
                 /\ Become(t, q)
                 /\ q.pc = "tenant" /\ q.code = calls[t].code /\ q.slug \in Slug
    <3> DEFINE q == [calls[t] EXCEPT !.pc = "tenant", !.slug = s, !.release = release]
    <3>1. release \in 0..LastRelease
      BY DEF IInv, TypeOK
    <3>2. q \in CallState
      BY <3>1, Current DEF CallState
    <3>3. q.pc = "tenant" /\ q.code = calls[t].code /\ q.slug = s
      BY Current DEF CallState
    <3> QED
      BY <2>2, <3>2, <3>3
  <2> QED
    BY <2>1, <2>2 DEF Request
<1>3. /\ calls' \in [Signup -> CallState] /\ calls'[t] = q
      /\ \A u \in Signup \ {t} : calls'[u] = calls[u]
  BY <1>2, BecomeChanges
<1>4. /\ ~Stored(t) /\ t \notin runner.listed /\ calls[t].code = 0
      /\ calls[t].slug = NoSlug /\ admins[t] \in Gone
  BY <1>1, Current DEF IInv, SlugsOwned, RunnerSound, OnCourse
<1>5. \A u \in Signup : NameShared(u) => NameShared(u)'
  BY <1>3, <1>4, ControlPlaneAssumption, SharedForGood
<1>6. TypeOK'
  BY <1>1, <1>3 DEF IInv, TypeOK
<1>7. SlugsOwned'
  BY <1>1, <1>3, <1>4 DEF IInv, SlugsOwned, Stored
<1>8. StaffSound' /\ SuspensionsAudited'
  BY <1>1 DEF IInv, StaffSound, SuspensionsAudited, Found, InTx, Stored
<1>9. RunnerSound'
  <2>1. ASSUME NEW u \in runner.listed
        PROVE  /\ u \in Signup \ {t} /\ calls'[u] = calls[u]
               /\ DatabaseOf(u)' = DatabaseOf(u)
               /\ NameShared(u) => NameShared(u)'
    <3>1. u \in Signup \ {t}
      BY <1>4, <2>1 DEF IInv, TypeOK, RunnerState
    <3> QED
      BY <1>3, <1>5, <3>1 DEF DatabaseOf
  <2>2. runner.pc = "idle" /\ ~runner.failed => runner.todo = {}
    BY DEF IInv, RunnerSound
  <2>3. \A u \in runner.listed : calls[u].slug \in Slug /\ calls[u].pc \notin {"start", "tenant"}
    BY DEF IInv, RunnerSound
  <2>4. ASSUME ~runner.failed, NEW u \in runner.listed \ runner.todo
        PROVE  \/ NameShared(u)
               \/ calls[u].pc = "delete"
               \/ calls[u].pc = "done" /\ calls[u].code # 201
               \/ UpToDate(DatabaseOf(u), runner.release)
    BY <2>4 DEF IInv, RunnerSound
  <2>5. ASSUME ~runner.failed, NEW u \in runner.listed \ runner.todo
        PROVE  \/ NameShared(u)'
               \/ calls'[u].pc = "delete"
               \/ calls'[u].pc = "done" /\ calls'[u].code # 201
               \/ UpToDate(DatabaseOf(u), runner.release)'
    BY <1>1, <2>1, <2>4, <2>5 DEF UpToDate
  <2>6. \A u \in runner.listed :
          calls'[u].slug \in Slug /\ calls'[u].pc \notin {"start", "tenant"}
    BY <2>1, <2>3
  <2>7. UNCHANGED runner
    BY <1>1
  <2> QED
    BY <2>2, <2>5, <2>6, <2>7 DEF RunnerSound
<1>10. ASSUME NEW u \in Signup PROVE OnCourse(u)'
  <2>1. CASE u = t
    BY <1>1, <1>2, <1>3, <1>4, <2>1, Codes DEF OnCourse, AtWork
  <2>2. CASE u # t
    BY <1>1, <1>3, <1>5, <2>2, Current, CourseKept DEF Stored, CallState
  <2> QED
    BY <2>1, <2>2
<1> QED
  BY <1>6, <1>7, <1>8, <1>9, <1>10 DEF IInv

-----------------------------------------------------------------------------
(* The staff and the migration command.                                     *)

(* A transaction of the staff that touches no table, or commits.            *)
LEMMA StaffMove ==
  ASSUME IInv, UNCHANGED <<databases, release, calls, runner>>,
         staff' \in [Staff -> StaffState], events' \subseteq Update,
         tenants' \in [Signup -> TenantStatus \cup Gone],
         admins' \in [Signup -> UserStatus \cup Gone],
         \A t \in Signup : /\ Stored(t) <=> Stored(t)'
                           /\ admins[t] \notin Gone <=> admins'[t] \notin Gone,
         SuspensionsAudited',
         \A a \in Staff : InTx(a)' => \/ InTx(a) /\ staff'[a].update = staff[a].update
                                      \/ staff'[a].update \in Update /\ Found(staff'[a].update)
  PROVE  IInv'
<1>1. TypeOK'
  BY DEF IInv, TypeOK
<1>2. SlugsOwned'
  BY DEF IInv, SlugsOwned
<1>3. RunnerSound'
  BY SharedSame DEF IInv, TypeOK, RunnerState, RunnerSound, UpToDate
<1>4. ASSUME NEW a \in Staff, InTx(a)'
      PROVE  staff'[a].update \in Update /\ Found(staff[a].update)'
  <2>1. staff'[a].update \in Update /\ Found(staff'[a].update)
    BY <1>4 DEF IInv, StaffSound
  <2>2. staff'[a].update.tenant \in Signup
    BY <2>1 DEF Update
  <2> QED
    BY <2>1, <2>2 DEF Found
<1>5. ASSUME NEW t \in Signup PROVE OnCourse(t)'
  <2>1. /\ calls[t].release \in 0..LastRelease /\ calls'[t] = calls[t]
        /\ admins[t] \in UserStatus => admins'[t] \in UserStatus
        /\ admins[t] \in Gone => admins'[t] \in Gone
        /\ NameShared(t) => NameShared(t)'
    BY Current, SharedForGood DEF CallState, UserStatus, Gone
  <2> QED
    BY <2>1, Current, CourseKept
<1> QED
  BY <1>1, <1>2, <1>3, <1>4, <1>5 DEF IInv, StaffSound

LEMMA UpdateRowKeeps == ASSUME IInv, NEW a \in Staff, NEW u \in Update, UpdateRow(a, u) PROVE IInv'
<1>1. /\ UNCHANGED <<tenants, admins, databases, events, release, calls, runner>>
      /\ staff \in [Staff -> StaffState] /\ events \subseteq Update
  BY DEF UpdateRow, IInv, TypeOK
<1>2. CASE Found(u) /\ staff' = [staff EXCEPT ![a].pc = "audit", ![a].update = u]
  <2>1. /\ staff' \in [Staff -> StaffState] /\ staff'[a].update = u
        /\ \A b \in Staff \ {a} : staff'[b] = staff[b]
    BY <1>1, <1>2 DEF StaffState
  <2> QED
    BY <1>1, <1>2, <2>1, StaffMove DEF IInv, TypeOK, Stored, SuspensionsAudited, InTx
<1>3. CASE StaffStep(a, "start", "done")
  <2>1. /\ staff' \in [Staff -> StaffState] /\ staff'[a].pc = "done"
        /\ \A b \in Staff \ {a} : staff'[b] = staff[b]
    BY <1>1, <1>3 DEF StaffStep, StaffState
  <2> QED
    BY <1>1, <2>1, StaffMove DEF IInv, TypeOK, Stored, SuspensionsAudited, InTx
<1> QED
  BY <1>2, <1>3 DEF UpdateRow

LEMMA InsertEventKeeps == ASSUME IInv, NEW a \in Staff, InsertEvent(a) PROVE IInv'
<1>1. /\ UNCHANGED <<tenants, admins, databases, events, release, calls, runner>>
      /\ staff \in [Staff -> StaffState]
      /\ StaffStep(a, "audit", "commit") \/ StaffStep(a, "audit", "done")
  BY DEF InsertEvent, IInv, TypeOK
<1>2. /\ staff' \in [Staff -> StaffState] /\ InTx(a) /\ staff'[a].update = staff[a].update
      /\ \A b \in Staff \ {a} : staff'[b] = staff[b]
  BY <1>1 DEF StaffStep, StaffState, InTx
<1> QED
  BY <1>1, <1>2, StaffMove DEF IInv, TypeOK, Stored, SuspensionsAudited, InTx

LEMMA CommitKeeps == ASSUME IInv, NEW a \in Staff, Commit(a) PROVE IInv'
<1> DEFINE u == staff[a].update
<1>1. /\ StaffStep(a, "commit", "done") /\ UNCHANGED <<databases, release, calls, runner>>
      /\ \/ Apply(u) /\ events' = events \cup {u}
         \/ UNCHANGED <<tenants, admins, events>>
  BY DEF Commit
<1>2. /\ staff' \in [Staff -> StaffState] /\ InTx(a) /\ staff'[a].pc = "done"
      /\ \A b \in Staff \ {a} : staff'[b] = staff[b]
  BY <1>1 DEF StaffStep, StaffState, InTx, IInv, TypeOK
<1>3. u \in Update /\ Found(u) /\ u.tenant \in Signup /\ TypeOK
  BY <1>2 DEF IInv, StaffSound, Update
<1>4. CASE UNCHANGED <<tenants, admins, events>>
  BY <1>1, <1>2, <1>4, StaffMove DEF IInv, TypeOK, Stored, SuspensionsAudited, InTx
<1>5. CASE Apply(u) /\ events' = events \cup {u}
  <2> HIDE DEF u
  <2>1. events' \subseteq Update
    BY <1>3, <1>5 DEF TypeOK
  <2>2. CASE u.of = "tenant" /\ u.set # "NULL"
    <3>1. u.set \in TenantStatus /\ Stored(u.tenant)
      BY <1>3, <2>2 DEF Update, Found
    <3>2. tenants' = [tenants EXCEPT ![u.tenant] = u.set] /\ UNCHANGED admins
      BY <1>5, <2>2 DEF Apply
    <3>3. /\ tenants' \in [Signup -> TenantStatus \cup Gone] /\ tenants'[u.tenant] = u.set
          /\ \A t \in Signup \ {u.tenant} : tenants'[t] = tenants[t]
      BY <1>3, <3>1, <3>2 DEF TypeOK
    <3>4. \A t \in Signup : Stored(t) <=> Stored(t)'
      BY <3>1, <3>3 DEF Stored, TenantStatus, Gone
    <3>5. SuspensionsAudited'
      <4>1. u.set = "suspended" => u = [tenant |-> u.tenant, of |-> "tenant", set |-> "suspended"]
        BY <1>3, <2>2 DEF Update
      <4> QED
        BY <1>5, <3>3, <4>1 DEF IInv, SuspensionsAudited
    <3> QED
      BY <1>1, <1>2, <2>1, <3>2, <3>3, <3>4, <3>5, StaffMove DEF IInv, TypeOK, InTx
  <2>3. CASE u.of = "tenant" /\ u.set = "NULL"
    <3>1. UNCHANGED <<tenants, admins>>
      BY <1>5, <2>3 DEF Apply
    <3> QED
      BY <1>1, <1>2, <1>5, <2>1, <3>1, StaffMove DEF IInv, TypeOK, Stored, SuspensionsAudited, InTx
  <2>4. CASE u.of # "tenant"
    <3>1. u.set \in UserStatus
      BY <1>3, <2>4 DEF Update
    <3>2. admins' = [admins EXCEPT ![u.tenant] = u.set] /\ UNCHANGED tenants
      BY <1>5, <2>4 DEF Apply
    <3>3. /\ admins' \in [Signup -> UserStatus \cup Gone]
          /\ \A t \in Signup : admins[t] \notin Gone <=> admins'[t] \notin Gone
      BY <1>3, <2>4, <3>1, <3>2 DEF TypeOK, UserStatus, Gone, Found
    <3> QED
      BY <1>1, <1>2, <1>5, <2>1, <3>2, <3>3, StaffMove
      DEF IInv, TypeOK, Stored, SuspensionsAudited, InTx
  <2> QED
    BY <2>2, <2>3, <2>4
<1> QED
  BY <1>1, <1>4, <1>5

LEMMA DeployKeeps == ASSUME IInv, Deploy PROVE IInv'
<1>1. release' \in 1..LastRelease
  BY ControlPlaneAssumption DEF IInv, TypeOK, Deploy
<1>2. TypeOK'
  BY <1>1 DEF IInv, TypeOK, Deploy
<1>3. SlugsOwned' /\ StaffSound' /\ SuspensionsAudited'
  BY DEF Deploy, IInv, SlugsOwned, StaffSound, SuspensionsAudited, Stored, Found, InTx
<1>4. RunnerSound'
  BY SharedSame DEF Deploy, IInv, TypeOK, RunnerState, RunnerSound, UpToDate
<1>5. ASSUME NEW t \in Signup PROVE OnCourse(t)'
  BY Current, CourseKept, SharedSame DEF Deploy, CallState, Stored
<1> QED
  BY <1>2, <1>3, <1>4, <1>5 DEF IInv

(* The migration command's own steps change its state and add migrations.   *)
LEMMA RunnerMove ==
  ASSUME IInv, UNCHANGED <<tenants, admins, events, release, calls, staff>>,
         runner' \in RunnerState,
         databases' \in [Database -> 0..LastRelease \cup {-1}],
         \A d \in Database :
           \/ databases'[d] = databases[d]
           \/ /\ databases[d] # -1
              /\ \A r \in 0..LastRelease : databases[d] >= r => databases'[d] >= r,
         RunnerSound'
  PROVE  IInv'
<1>1. TypeOK'
  BY DEF IInv, TypeOK
<1>2. SlugsOwned' /\ StaffSound' /\ SuspensionsAudited'
  BY DEF IInv, SlugsOwned, StaffSound, SuspensionsAudited, Stored, Found, InTx
<1>3. ASSUME NEW t \in Signup PROVE OnCourse(t)'
  <2>1. Stored(t) => DatabaseOf(t) \in Database
    BY DatabaseType DEF IInv, SlugsOwned
  <2> QED
    BY <2>1, Current, CourseKept, SharedSame DEF CallState, Stored
<1> QED
  BY <1>1, <1>2, <1>3 DEF IInv

LEMMA ListTenantsKeeps == ASSUME IInv, ListTenants PROVE IInv'
<1>1. /\ UNCHANGED <<tenants, admins, databases, events, release, calls, staff>>
      /\ \E all \in SUBSET Signup :
           /\ \A t \in all : Stored(t)
           /\ runner' = [pc |-> "run", release |-> release, listed |-> all, todo |-> all,
                         failed |-> FALSE]
  BY DEF ListTenants
<1>2. PICK all \in SUBSET Signup :
        /\ \A t \in all : Stored(t)
        /\ runner' = [pc |-> "run", release |-> release, listed |-> all, todo |-> all,
                      failed |-> FALSE]
  BY <1>1
<1>3. release \in 0..LastRelease
  BY DEF IInv, TypeOK
<1>4. runner' \in RunnerState
  BY <1>2, <1>3 DEF RunnerState
<1>5. RunnerSound'
  BY <1>1, <1>2 DEF IInv, RunnerSound, SlugsOwned
<1> QED
  BY <1>1, <1>4, <1>5, RunnerMove DEF IInv, TypeOK

LEMMA MigrateListedKeeps == ASSUME IInv, NEW t \in Signup, MigrateListed(t) PROVE IInv'
<1> DEFINE d == DatabaseOf(t)
<1>1. /\ UNCHANGED <<tenants, admins, events, release, calls, staff>>
      /\ runner.pc = "run" /\ t \in runner.todo /\ runner \in RunnerState
      /\ databases \in [Database -> 0..LastRelease \cup {-1}]
  BY DEF MigrateListed, IInv, TypeOK
<1>2. \A u \in runner.listed :
        u \in Signup /\ DatabaseOf(u) \in Database /\ DatabaseOf(u)' = DatabaseOf(u)
  BY <1>1, DatabaseType DEF IInv, RunnerSound, RunnerState, DatabaseOf
<1>3. CASE Migrates(d, runner.release) /\ UNCHANGED runner
  <2>1. /\ databases[d] \in 0..(runner.release - 1) /\ runner.release \in 0..LastRelease
        /\ databases' = [databases EXCEPT ![d] = databases[d] + 1]
    BY <1>1, <1>3 DEF Migrates, RunnerState
  <2>2. /\ databases[d] # -1 /\ databases[d] + 1 \in 0..LastRelease \cup {-1}
        /\ \A r \in 0..LastRelease : databases[d] >= r => databases[d] + 1 >= r
    BY <2>1, ControlPlaneAssumption
  <2>3. /\ databases' \in [Database -> 0..LastRelease \cup {-1}]
        /\ \A e \in Database :
             \/ databases'[e] = databases[e]
             \/ /\ databases[e] # -1
                /\ \A r \in 0..LastRelease : databases[e] >= r => databases'[e] >= r
    BY <1>1, <2>1, <2>2
  <2>4. RunnerSound'
    BY <1>1, <1>2, <1>3, <2>1, <2>3, SharedSame DEF IInv, RunnerSound, UpToDate
  <2> QED
    BY <1>1, <1>3, <2>3, <2>4, RunnerMove
<1>4. CASE /\ UpToDate(d, runner.release)
           /\ runner' = [runner EXCEPT !.todo = @ \ {t}]
           /\ UNCHANGED databases
  <2>1. /\ runner' \in RunnerState /\ runner'.todo = runner.todo \ {t}
        /\ runner'.listed = runner.listed /\ runner'.release = runner.release
        /\ runner'.pc = "run" /\ runner'.failed = runner.failed
    BY <1>1, <1>4 DEF RunnerState
  <2>2. RunnerSound'
    BY <1>1, <1>2, <1>4, <2>1, SharedSame DEF IInv, RunnerSound, UpToDate
  <2> QED
    BY <1>1, <1>4, <2>1, <2>2, RunnerMove
<1>5. CASE /\ runner' = [runner EXCEPT !.todo = @ \ {t}, !.failed = TRUE]
           /\ UNCHANGED databases
  <2>1. /\ runner' \in RunnerState /\ runner'.failed /\ runner'.listed = runner.listed
    BY <1>1, <1>5 DEF RunnerState
  <2>2. RunnerSound'
    BY <1>1, <2>1 DEF IInv, RunnerSound
  <2> QED
    BY <1>1, <1>5, <2>1, <2>2, RunnerMove
<1> QED
  BY <1>3, <1>4, <1>5 DEF MigrateListed

LEMMA MigrateExitsKeeps == ASSUME IInv, MigrateExits PROVE IInv'
<1>1. /\ UNCHANGED <<tenants, admins, databases, events, release, calls, staff>>
      /\ runner.todo = {} /\ runner' = [runner EXCEPT !.pc = "idle"]
      /\ runner \in RunnerState
  BY DEF MigrateExits, IInv, TypeOK
<1>2. /\ runner' \in RunnerState /\ runner'.todo = {} /\ runner'.listed = runner.listed
      /\ runner'.failed = runner.failed /\ runner'.release = runner.release
  BY <1>1 DEF RunnerState
<1>3. RunnerSound'
  BY <1>1, <1>2, SharedSame DEF IInv, RunnerState, RunnerSound, UpToDate
<1> QED
  BY <1>1, <1>2, <1>3, RunnerMove DEF IInv, TypeOK

-----------------------------------------------------------------------------
(* The results.                                                             *)

LEMMA NextInv == IInv /\ [Next]_vars => IInv'
<1> SUFFICES ASSUME IInv, [Next]_vars PROVE IInv'
  OBVIOUS
<1>1. ASSUME NEW t \in Signup, Request(t) PROVE IInv'
  BY <1>1, RequestKeeps
<1>2. ASSUME NEW t \in Signup, SignupStep(t) PROVE IInv'
  BY <1>2, InsertTenantKeeps, CreateDatabaseKeeps, MigrateNewKeeps, HashPasswordKeeps,
     InsertAdminKeeps, ActivateKeeps, DropDatabaseKeeps, DeleteTenantKeeps DEF SignupStep
<1>3. ASSUME NEW t \in Signup, MigrateListed(t) PROVE IInv'
  BY <1>3, MigrateListedKeeps
<1>4. ASSUME NEW a \in Staff, (\E u \in Update : UpdateRow(a, u)) \/ InsertEvent(a) \/ Commit(a)
      PROVE  IInv'
  BY <1>4, UpdateRowKeeps, InsertEventKeeps, CommitKeeps
<1>5. CASE Deploy \/ ListTenants \/ MigrateExits
  BY <1>5, DeployKeeps, ListTenantsKeeps, MigrateExitsKeeps
<1>6. CASE UNCHANGED vars
  BY <1>6 DEF vars, IInv, TypeOK, SlugsOwned, StaffSound, RunnerSound, SuspensionsAudited,
         OnCourse, Stored, Found, InTx, UpToDate, DatabaseOf, NameShared
<1> QED
  BY <1>1, <1>2, <1>3, <1>4, <1>5, <1>6 DEF Next

(* The invariant holds throughout.                                          *)
THEOREM Invariance == Spec => []IInv
BY InitInv, NextInv, PTL DEF Spec

(* Tables, calls, transactions and the migration command keep their types;  *)
(* no database has a migration that no release has, however many commands   *)
(* and signups migrate it (cmd/migrate/main.go 67-91).                      *)
THEOREM TypeCorrect == Spec => []TypeOK
<1>1. IInv => TypeOK
  BY DEF IInv
<1> QED
  BY <1>1, Invariance, PTL

(* A suspension is never in force without its audit event, whatever signups *)
(* and other staff do (controlplane/store.go 30-33, service.go 278-289).    *)
THEOREM Audit == Spec => []SuspensionsAudited
<1>1. IInv => SuspensionsAudited
  BY DEF IInv
<1> QED
  BY <1>1, Invariance, PTL

(* However PostgreSQL shortens names, a tenant whose signup was answered    *)
(* keeps its row and its admin through any number of other signups that     *)
(* fail, and its migrated database through those for its own slug and for   *)
(* every slug that is not shortened to its name (controlplane/service.go    *)
(* 104-135, 436-445, types.go 277-285).                                     *)
THEOREM SignupsUsable == Spec => []AnsweredSignupUsable
<1>1. IInv => AnsweredSignupUsable
  BY DEF IInv, AnsweredSignupUsable, OnCourse
<1> QED
  BY <1>1, Invariance, PTL

(* However PostgreSQL shortens names, a migration command that exits        *)
(* without an error has migrated every tenant in use that it listed and     *)
(* whose database no other slug names (cmd/migrate/main.go 89-107).         *)
THEOREM Migrated == Spec => []MigratedAll
<1>1. IInv => MigratedAll
  <2> SUFFICES ASSUME IInv, runner.pc = "idle", ~runner.failed,
                      NEW t \in runner.listed, calls[t].code = 201, ~NameShared(t)
               PROVE  UpToDate(DatabaseOf(t), runner.release)
    BY DEF MigratedAll
  <2>1. runner.todo = {} /\ t \in Signup
    BY DEF IInv, RunnerSound, TypeOK, RunnerState
  <2>2. calls[t].pc = "done"
    BY <2>1, Current, Codes DEF OnCourse
  <2> QED
    BY <2>1, <2>2 DEF IInv, RunnerSound
<1> QED
  BY <1>1, Invariance, PTL

(* Nothing but a step of t changes what t has answered.                     *)
LEMMA OnlyItsOwnStep ==
  ASSUME TypeOK, [Next]_vars, NEW t \in Signup, calls'[t].code # calls[t].code
  PROVE  Request(t) \/ SignupStep(t)
<1>1. ASSUME NEW u \in Signup, NEW q, Become(u, q) PROVE u = t
  BY <1>1 DEF TypeOK, Become
<1>2. ASSUME NEW u \in Signup, Request(u) \/ SignupStep(u) PROVE u = t
  <2>1. ASSUME NEW pc, Go(u, pc) PROVE \E q : Become(u, q)
    BY <2>1, Zenon DEF Go
  <2>2. ASSUME NEW code, Reply(u, code) PROVE \E q : Become(u, q)
    BY <2>2, Zenon DEF Reply
  <2>3. \/ \E q : Become(u, q)
        \/ \E pc : Go(u, pc)
        \/ \E code : Reply(u, code)
    <3>1. CASE Request(u)
      BY <3>1, Zenon DEF Request
    <3>2. CASE InsertTenant(u)
      BY <3>2, Zenon DEF InsertTenant
    <3>3. CASE CreateDatabase(u)
      BY <3>3, Zenon DEF CreateDatabase
    <3>4. CASE MigrateNew(u)
      BY <3>4, Zenon DEF MigrateNew
    <3>5. CASE HashPassword(u) \/ InsertAdmin(u)
      BY <3>5, Zenon DEF HashPassword, InsertAdmin
    <3>6. CASE Activate(u)
      BY <3>6, Zenon DEF Activate
    <3>7. CASE DropDatabase(u)
      BY <3>7, Zenon DEF DropDatabase
    <3>8. CASE DeleteTenant(u)
      BY <3>8, Zenon DEF DeleteTenant
    <3> QED
      BY <1>2, <3>1, <3>2, <3>3, <3>4, <3>5, <3>6, <3>7, <3>8 DEF SignupStep
  <2> QED
    BY <1>1, <2>1, <2>2, <2>3
<1>3. /\ ~ UNCHANGED vars /\ ~ Deploy /\ ~ ListTenants /\ ~ MigrateExits
      /\ \A u \in Signup : ~ MigrateListed(u)
      /\ \A a \in Staff : /\ \A w \in Update : ~ UpdateRow(a, w)
                          /\ ~ InsertEvent(a) /\ ~ Commit(a)
  BY DEF vars, Deploy, ListTenants, MigrateExits, MigrateListed, UpdateRow, InsertEvent, Commit
<1> QED
  BY <1>2, <1>3 DEF Next

(* However PostgreSQL shortens names, a signup that answers 500 leaves a     *)
(* bare row when the answer to its INSERT was lost, and otherwise takes row, *)
(* admin and database back, unless its cleanup fails, an event about the     *)
(* tenant is recorded or another slug names its database                     *)
(* (controlplane/service.go 104-133, 436-445).                               *)
THEOREM FailuresClean == Spec => FailedSignupLeavesNothing
<1>1. ASSUME IInv, [Next]_vars, NEW t \in Signup, Stored(t), calls[t].pc # "done",
             calls'[t].code = 500, ~calls'[t].stuck, ~Audited(t)
      PROVE  /\ ~Stored(t)' /\ admins'[t] \in Gone
             /\ databases'[DatabaseOf(t)] = -1 \/ NameShared(t)
  <2>1. AtWork(calls[t]) /\ calls[t].code = 0 /\ OnCourse(t) /\ TypeOK
    BY <1>1, Current DEF IInv, SlugsOwned, OnCourse, AtWork, CallState
  <2>2. calls'[t].code # 0 /\ calls'[t].code # calls[t].code
    BY <1>1, <2>1, Codes
  <2>0. IInv /\ ~calls'[t].stuck
    BY <1>1
  <2>4. ASSUME NEW pc \in {"create", "migrate", "hash", "user", "activate", "drop", "delete"},
               Go(t, pc)
        PROVE  FALSE
    <3>1. \E q \in CallState : Become(t, q) /\ q.code = calls[t].code
      BY <2>4, <2>0, GoChanges
    <3> QED
      BY <2>2, <2>0, <3>1, BecomeChanges
  <2>5. ~ Reply(t, 201)
    <3>1. ASSUME NEW code \in Code, Reply(t, code) PROVE calls'[t].code = code
      BY <1>1, <3>1, ReplyChanges, BecomeChanges
    <3> QED
      BY <1>1, <3>1, Codes
  <2>6. /\ ~ CreateDatabase(t) /\ ~ MigrateNew(t) /\ ~ HashPassword(t)
        /\ ~ InsertAdmin(t) /\ ~ Activate(t)
    BY <2>4, <2>5 DEF CreateDatabase, MigrateNew, HashPassword, InsertAdmin, Activate
  <2>7. ~ DropDatabase(t)
    <3>1. ~ Become(t, [calls[t] EXCEPT !.pc = "delete", !.stuck = TRUE])
      <4> DEFINE q == [calls[t] EXCEPT !.pc = "delete", !.stuck = TRUE]
      <4>1. q \in CallState /\ q.stuck
        BY <2>0, Current DEF CallState
      <4> QED
        BY <2>0, <4>1, BecomeChanges
    <3> QED
      BY <2>4, <3>1 DEF DropDatabase
  <2>8. DeleteTenant(t)
    <3>1. ~ Request(t) /\ ~ InsertTenant(t)
      BY <2>1 DEF Request, InsertTenant, At, AtWork
    <3>2. Request(t) \/ SignupStep(t)
      BY <1>1, <2>1, <2>2, OnlyItsOwnStep
    <3> QED
      BY <2>6, <2>7, <3>1, <3>2 DEF SignupStep
  <2>9. ~ Become(t, [calls[t] EXCEPT !.pc = "done", !.code = 500, !.stuck = TRUE])
    <3>1. PICK code \in Code : code = 500
      BY Codes
    <3> DEFINE q == [calls[t] EXCEPT !.pc = "done", !.code = code, !.stuck = TRUE]
    <3>2. q \in CallState /\ q.stuck
      BY <2>0, Current DEF CallState
    <3>3. ~ Become(t, q)
      BY <2>0, <3>2, BecomeChanges
    <3> QED
      BY <3>1, <3>3, Zenon
  <2>10. /\ calls[t].pc = "delete" /\ UNCHANGED databases
         /\ tenants' = [tenants EXCEPT ![t] = "deleted"]
         /\ admins' = [admins EXCEPT ![t] = IF @ = "none" THEN "none" ELSE "deleted"]
         /\ Reply(t, 500)
    BY <1>1, <2>8, <2>9 DEF DeleteTenant, At
  <2>11. ~ calls[t].stuck
    <3>1. ASSUME NEW code \in Code, Reply(t, code) PROVE calls'[t].stuck = calls[t].stuck
      BY <1>1, <3>1, ReplyChanges, BecomeChanges
    <3> QED
      BY <1>1, <2>10, <3>1, Codes
  <2> QED
    BY <2>1, <2>10, <2>11 DEF TypeOK, Stored, Gone, OnCourse, DatabaseOf
<1>2. ASSUME IInv, [Next]_vars, NEW t \in Signup, ~Stored(t), calls[t].pc # "done",
             calls'[t].code = 500
      PROVE  /\ calls[t].pc = "tenant" /\ tenants'[t] \in Gone \cup {"provisioning"}
             /\ admins'[t] \in Gone /\ UNCHANGED databases
  <2>1. /\ calls[t].pc \in {"start", "tenant"} /\ calls[t].code = 0
        /\ tenants[t] \in Gone /\ admins[t] \in Gone /\ IInv /\ TypeOK
    BY <1>2, Current DEF OnCourse, AtWork, CallState, Stored
  <2>2. calls'[t].code # 0 /\ calls'[t].code # calls[t].code
    BY <1>2, <2>1, Codes
  <2>3. ~ Request(t)
    <3>1. ~ Reply(t, 400)
      <4>1. ASSUME NEW code \in Code, Reply(t, code) PROVE calls'[t].code = code
        BY <2>1, <4>1, ReplyChanges, BecomeChanges
      <4> QED
        BY <1>2, <4>1, Codes
    <3>2. ASSUME NEW s \in Slug,
                 Become(t, [calls[t] EXCEPT !.pc = "tenant", !.slug = s, !.release = release])
          PROVE  FALSE
      <4> DEFINE q == [calls[t] EXCEPT !.pc = "tenant", !.slug = s, !.release = release]
      <4>1. q \in CallState /\ q.code = calls[t].code
        <5>1. calls[t] \in CallState /\ release \in 0..LastRelease
          BY <2>1 DEF TypeOK
        <5> QED
          BY <5>1 DEF CallState
      <4> QED
        BY <2>1, <2>2, <3>2, <4>1, BecomeChanges
    <3> QED
      BY <3>1, <3>2 DEF Request
  <2>4. InsertTenant(t)
    <3>1. SignupStep(t)
      BY <1>2, <2>1, <2>2, <2>3, OnlyItsOwnStep
    <3>2. /\ calls[t].pc # "create" /\ calls[t].pc # "migrate" /\ calls[t].pc # "hash"
          /\ calls[t].pc # "user" /\ calls[t].pc # "activate" /\ calls[t].pc # "drop"
          /\ calls[t].pc # "delete"
      BY <2>1
    <3> QED
      BY <3>1, <3>2, Zenon
      DEF SignupStep, CreateDatabase, MigrateNew, HashPassword, InsertAdmin, Activate,
          DropDatabase, DeleteTenant, At
  <2>5. calls[t].pc = "tenant" /\ UNCHANGED <<admins, databases>>
    BY <2>4 DEF InsertTenant, At
  <2>6. tenants' = tenants \/ tenants' = [tenants EXCEPT ![t] = "provisioning"]
    BY <2>4 DEF InsertTenant
  <2> QED
    BY <2>1, <2>5, <2>6 DEF TypeOK
<1>3. IInv /\ [Next]_vars =>
        [\A t \in Signup :
           calls[t].pc # "done" /\ calls'[t].code = 500 =>
             \/ /\ calls[t].pc = "tenant" /\ tenants'[t] \in Gone \cup {"provisioning"}
                /\ admins'[t] \in Gone /\ UNCHANGED databases
             \/ /\ ~Stored(t)' /\ admins'[t] \in Gone
                /\ databases'[DatabaseOf(t)] = -1 \/ NameShared(t)
             \/ calls'[t].stuck \/ Audited(t)]_vars
  BY <1>1, <1>2
<1> QED
  BY <1>3, Invariance, PTL DEF Spec, FailedSignupLeavesNothing
=============================================================================
