---------------------------- MODULE ControlPlane ----------------------------
(***************************************************************************)
(* Tenants come and go: Signup, which spans the control-plane database and *)
(* CREATE DATABASE on the server, its compensation, the platform staff who *)
(* change tenants and admins meanwhile, and the command that migrates all  *)
(* tenant databases after a deploy.                                        *)
(*                                                                         *)
(* A signup is identified with the row it inserts.  A statement fails      *)
(* without an effect, or succeeds, or takes effect while its answer is     *)
(* lost; a cancelled request is one whose remaining statements all fail, a *)
(* crash one that takes no further step.  The validation of names, emails  *)
(* and passwords is one choice; the signature of a token does not fail.    *)
(***************************************************************************)
EXTENDS Integers

CONSTANTS Signup,       \* the calls of Signup in one behaviour
          Slug, NoSlug,
          Database,     \* names of physical databases
          PhysicalName, \* what PostgreSQL keeps, 63 bytes, of prefix and slug
          Staff,        \* the updates the platform staff makes
          NoTenant,
          LastRelease   \* releases of the backend; each adds one tenant migration

ASSUME ControlPlaneAssumption ==
  /\ PhysicalName \in [Slug -> Database]
  /\ NoSlug \notin Slug /\ NoTenant \notin Signup
  /\ LastRelease \in Nat \ {0}

VARIABLES tenants,      \* the status of each row of tenants
          admins,       \* the status of each tenant's first user
          databases,    \* schema version of each database, -1 when there is none
          events,       \* super_admin_audit_events
          release,      \* the release that is deployed
          calls, staff, runner

vars == <<tenants, admins, databases, events, release, calls, staff, runner>>

TenantStatus == {"active", "suspended", "provisioning"}
UserStatus == {"active", "disabled"}
Gone == {"none", "deleted"}

(* The staff's "set" is the new status; NULL leaves it as it is.           *)
Update == [tenant : Signup, of : {"tenant"}, set : TenantStatus \cup {"NULL"}]
            \cup [tenant : Signup, of : {"user"}, set : UserStatus]

NoUpdate == [tenant |-> NoTenant, of |-> "tenant", set |-> "NULL"]

Code == {0, 201, 400, 409, 500}

(* "release" is the one the call runs on.  "stuck" is history: a statement *)
(* of the cleanup met a failure.                                           *)
CallState == [pc      : {"start", "tenant", "create", "migrate", "hash", "user",
                         "activate", "drop", "delete", "done"},
              slug    : Slug \cup {NoSlug},
              release : 0..LastRelease,
              code    : Code,
              stuck   : BOOLEAN]

NewCall == [pc |-> "start", slug |-> NoSlug, release |-> 0, code |-> 0, stuck |-> FALSE]

StaffState == [pc : {"start", "audit", "commit", "done"}, update : Update \cup {NoUpdate}]

RunnerState == [pc : {"idle", "run"}, release : 0..LastRelease,
                listed : SUBSET Signup, todo : SUBSET Signup, failed : BOOLEAN]

TypeOK ==
  /\ tenants \in [Signup -> TenantStatus \cup Gone]
  /\ admins \in [Signup -> UserStatus \cup Gone]
  /\ databases \in [Database -> 0..LastRelease \cup {-1}]
  /\ events \subseteq Update
  /\ release \in 1..LastRelease
  /\ calls \in [Signup -> CallState]
  /\ staff \in [Staff -> StaffState]
  /\ runner \in RunnerState

Init ==
  /\ tenants = [t \in Signup |-> "none"]
  /\ admins = [t \in Signup |-> "none"]
  /\ databases = [d \in Database |-> -1]
  /\ events = {}
  /\ release = 1
  /\ calls = [t \in Signup |-> NewCall]
  /\ staff = [a \in Staff |-> [pc |-> "start", update |-> NoUpdate]]
  /\ runner = [pc |-> "idle", release |-> 0, listed |-> {}, todo |-> {}, failed |-> TRUE]

-----------------------------------------------------------------------------
Stored(t) == tenants[t] \notin Gone

DatabaseOf(t) == PhysicalName[calls[t].slug]

(* Somebody asked for another slug of which PostgreSQL keeps the same      *)
(* bytes.  Provisioning does not tell: it accepts a database that exists.  *)
NameShared(t) ==
  \E u \in Signup : /\ {calls[t].slug, calls[u].slug} \subseteq Slug
                    /\ calls[u].slug # calls[t].slug
                    /\ DatabaseOf(u) = DatabaseOf(t)

(* tenants.slug and tenants.db_name are UNIQUE; the latter is the former   *)
(* with a prefix.                                                          *)
SlugTaken(s) == \E t \in Signup : Stored(t) /\ calls[t].slug = s

(* A bug SignupAnswered must catch: transactions that fail are not rolled  *)
(* back and hold their locks.                                              *)
InTxForGood(a) == staff[a].pc # "start"

(* Open transactions of the staff hold the row they update.                *)
InTx(a) == staff[a].pc \in {"audit", "commit"}
RowLocked(t) == \E a \in Staff : InTx(a) /\ staff[a].update.tenant = t
                                        /\ staff[a].update.of = "tenant"

(* Deleting t waits for both kinds: it cascades to the users of t.         *)
TenantLocked(t) == \E a \in Staff : InTx(a) /\ staff[a].update.tenant = t

(* super_admin_audit_events.tenant_id restricts the deletion of t.         *)
Audited(t) == \E e \in events : e.tenant = t

At(t, pc) == calls[t].pc = pc
Become(t, q) == calls' = [calls EXCEPT ![t] = q]
Go(t, pc) == Become(t, [calls[t] EXCEPT !.pc = pc])
Reply(t, code) == Become(t, [calls[t] EXCEPT !.pc = "done", !.code = code])

(* A bug TypeOK must catch: migrations run again on a current schema.      *)
MigratesAgain(d, r) ==
  /\ databases[d] \in 0..r
  /\ databases' = [databases EXCEPT ![d] = @ + 1]

(* A goose step on database d by a binary of release r: each migration     *)
(* that the database lacks, in a transaction of its own.                   *)
Migrates(d, r) ==
  /\ databases[d] \in 0..(r - 1)
  /\ databases' = [databases EXCEPT ![d] = @ + 1]

UpToDate(d, r) == databases[d] >= r

-----------------------------------------------------------------------------
(* Signup.                                                                 *)
Request(t) ==
  /\ At(t, "start")
  /\ \/ Reply(t, 400)
     \/ \E s \in Slug :
          Become(t, [calls[t] EXCEPT !.pc = "tenant", !.slug = s, !.release = release])
  /\ UNCHANGED <<tenants, admins, databases, events, release, staff, runner>>

(* A bug AnsweredSignupUsable must catch: every error path cleans up.      *)
InsertTenantAlwaysCleanUp(t) ==
  /\ At(t, "tenant")
  /\ \/ SlugTaken(calls[t].slug) /\ Go(t, "drop") /\ UNCHANGED tenants
     \/ /\ ~SlugTaken(calls[t].slug)
        /\ Go(t, "create")
        /\ tenants' = [tenants EXCEPT ![t] = "provisioning"]
  /\ UNCHANGED <<admins, databases, events, release, staff, runner>>

(* Signup returns at once when CreateTenant reports an error: a lost       *)
(* answer leaves the row.                                                  *)
InsertTenant(t) ==
  /\ At(t, "tenant")
  /\ \/ SlugTaken(calls[t].slug) /\ Reply(t, 409) /\ UNCHANGED tenants
     \/ Reply(t, 500) /\ UNCHANGED tenants
     \/ /\ ~SlugTaken(calls[t].slug)
        /\ Go(t, "create") \/ Reply(t, 500)
        /\ tenants' = [tenants EXCEPT ![t] = "provisioning"]
  /\ UNCHANGED <<admins, databases, events, release, staff, runner>>

(* 42P04, a database that exists, counts as success.                       *)
CreateDatabase(t) ==
  LET d == DatabaseOf(t) IN
  /\ At(t, "create")
  /\ \/ /\ databases[d] = -1
        /\ databases' = [databases EXCEPT ![d] = 0]
        /\ Go(t, "migrate") \/ Go(t, "drop")
     \/ databases[d] # -1 /\ Go(t, "migrate") /\ UNCHANGED databases
     \/ Go(t, "drop") /\ UNCHANGED databases
  /\ UNCHANGED <<tenants, admins, events, release, staff, runner>>

MigrateNew(t) ==
  LET d == DatabaseOf(t) IN
  /\ At(t, "migrate")
  /\ \/ Migrates(d, calls[t].release) /\ Go(t, "migrate")
     \/ /\ UpToDate(d, calls[t].release)
        /\ Go(t, "hash")
        /\ UNCHANGED databases
     \/ Go(t, "drop") /\ UNCHANGED databases
  /\ UNCHANGED <<tenants, admins, events, release, staff, runner>>

(* bcrypt refuses more than 72 bytes; validation allows them.              *)
HashPassword(t) ==
  /\ At(t, "hash")
  /\ Go(t, "user") \/ Go(t, "drop")
  /\ UNCHANGED <<tenants, admins, databases, events, release, staff, runner>>

(* A bug FailedSignupLeavesNothing must catch: no cleanup on this path.    *)
InsertAdminWithoutCleanup(t) ==
  /\ At(t, "user")
  /\ \/ /\ admins' = [admins EXCEPT ![t] = "active"]
        /\ Go(t, "activate")
     \/ Reply(t, 500) /\ UNCHANGED admins
  /\ UNCHANGED <<tenants, databases, events, release, staff, runner>>

InsertAdmin(t) ==
  /\ At(t, "user")
  /\ \/ /\ admins' = [admins EXCEPT ![t] = "active"]
        /\ Go(t, "activate") \/ Go(t, "drop")
     \/ Go(t, "drop") /\ UNCHANGED admins
  /\ UNCHANGED <<tenants, databases, events, release, staff, runner>>

(* SetTenantStatus overwrites what the staff set meanwhile.  It waits for  *)
(* the row; a call that is cancelled while it waits might as well have     *)
(* failed before.                                                          *)
Activate(t) ==
  /\ At(t, "activate") /\ ~RowLocked(t)
  /\ \/ /\ tenants' = [tenants EXCEPT ![t] = "active"]
        /\ Reply(t, 201) \/ Go(t, "drop")
     \/ Go(t, "drop") /\ UNCHANGED tenants
  /\ UNCHANGED <<admins, databases, events, release, staff, runner>>

(* cleanup: each half is tried once and a failure only logged.             *)
DropDatabase(t) ==
  LET d == DatabaseOf(t) IN
  /\ At(t, "drop")
  /\ \/ /\ databases' = [databases EXCEPT ![d] = -1]
        /\ Go(t, "delete")
     \/ /\ Become(t, [calls[t] EXCEPT !.pc = "delete", !.stuck = TRUE])
        /\ UNCHANGED databases
  /\ UNCHANGED <<tenants, admins, events, release, staff, runner>>

DeleteTenant(t) ==
  /\ At(t, "delete") /\ ~TenantLocked(t)
  /\ \/ /\ ~Audited(t)
        /\ tenants' = [tenants EXCEPT ![t] = "deleted"]
        /\ admins' = [admins EXCEPT ![t] = IF @ = "none" THEN "none" ELSE "deleted"]
        /\ Reply(t, 500)
     \/ Audited(t) /\ Reply(t, 500) /\ UNCHANGED <<tenants, admins>>
     \/ /\ Become(t, [calls[t] EXCEPT !.pc = "done", !.code = 500, !.stuck = TRUE])
        /\ UNCHANGED <<tenants, admins>>
  /\ UNCHANGED <<databases, events, release, staff, runner>>

SignupStep(t) ==
  \/ InsertTenant(t) \/ CreateDatabase(t) \/ MigrateNew(t) \/ HashPassword(t)
  \/ InsertAdmin(t) \/ Activate(t) \/ DropDatabase(t) \/ DeleteTenant(t)

-----------------------------------------------------------------------------
(* PlatformUpdateTenant and PlatformUpdateUser: a change and its audit     *)
(* event in one transaction.  Nothing of it is seen before the commit, but *)
(* the row is locked.                                                      *)
StaffStep(a, from, to) ==
  /\ staff[a].pc = from
  /\ staff' = [staff EXCEPT ![a].pc = to]

Apply(u) ==
  IF u.of = "tenant"
  THEN /\ tenants' = IF u.set = "NULL" THEN tenants ELSE [tenants EXCEPT ![u.tenant] = u.set]
       /\ UNCHANGED admins
  ELSE admins' = [admins EXCEPT ![u.tenant] = u.set] /\ UNCHANGED tenants

Found(u) == IF u.of = "tenant" THEN Stored(u.tenant) ELSE admins[u.tenant] \notin Gone

(* A bug SuspensionsAudited must catch: the change is made on the pool and *)
(* not in the transaction.                                                 *)
UpdateRowOutsideTx(a, u) ==
  /\ staff[a].pc = "start" /\ Found(u)
  /\ staff' = [staff EXCEPT ![a].pc = "audit", ![a].update = u]
  /\ Apply(u)
  /\ UNCHANGED <<databases, events, release, calls, runner>>

(* The update may be refused, find no row, or fail.                        *)
UpdateRow(a, u) ==
  /\ staff[a].pc = "start"
  /\ \/ /\ Found(u)
        /\ ~\E b \in Staff : InTx(b) /\ staff[b].update.tenant = u.tenant
                                     /\ staff[b].update.of = u.of
        /\ staff' = [staff EXCEPT ![a].pc = "audit", ![a].update = u]
     \/ StaffStep(a, "start", "done")
  /\ UNCHANGED <<tenants, admins, databases, events, release, calls, runner>>

(* A failed INSERT of the event rolls the change back.                     *)
InsertEvent(a) ==
  /\ StaffStep(a, "audit", "commit") \/ StaffStep(a, "audit", "done")
  /\ UNCHANGED <<tenants, admins, databases, events, release, calls, runner>>

Commit(a) ==
  LET u == staff[a].update IN
  /\ StaffStep(a, "commit", "done")
  /\ \/ Apply(u) /\ events' = events \cup {u}
     \/ UNCHANGED <<tenants, admins, events>>
  /\ UNCHANGED <<databases, release, calls, runner>>

-----------------------------------------------------------------------------
(* A new release, and "migrate tenants", which lists the tenants once and  *)
(* goes on to the next one after a failure.                                *)
Deploy ==
  /\ release < LastRelease
  /\ release' = release + 1
  /\ UNCHANGED <<tenants, admins, databases, events, calls, staff, runner>>

ListTenants ==
  LET all == {t \in Signup : Stored(t)} IN
  /\ runner.pc = "idle"
  /\ runner' = [pc |-> "run", release |-> release, listed |-> all, todo |-> all,
                failed |-> FALSE]
  /\ UNCHANGED <<tenants, admins, databases, events, release, calls, staff>>

(* A bug MigratedAll must catch: the failure is logged and not counted.    *)
MigrateListedUncounted(t) ==
  LET d == DatabaseOf(t) IN
  /\ runner.pc = "run" /\ t \in runner.todo
  /\ \/ Migrates(d, runner.release) /\ UNCHANGED runner
     \/ runner' = [runner EXCEPT !.todo = @ \ {t}] /\ UNCHANGED databases
  /\ UNCHANGED <<tenants, admins, events, release, calls, staff>>

MigrateListed(t) ==
  LET d == DatabaseOf(t) IN
  /\ runner.pc = "run" /\ t \in runner.todo
  /\ \/ Migrates(d, runner.release) /\ UNCHANGED runner
     \/ /\ UpToDate(d, runner.release)
        /\ runner' = [runner EXCEPT !.todo = @ \ {t}]
        /\ UNCHANGED databases
     \/ /\ runner' = [runner EXCEPT !.todo = @ \ {t}, !.failed = TRUE]
        /\ UNCHANGED databases
  /\ UNCHANGED <<tenants, admins, events, release, calls, staff>>

(* Exit, with an error if a migration failed.                              *)
MigrateExits ==
  /\ runner.pc = "run" /\ runner.todo = {}
  /\ runner' = [runner EXCEPT !.pc = "idle"]
  /\ UNCHANGED <<tenants, admins, databases, events, release, calls, staff>>

Next ==
  \/ \E t \in Signup : Request(t) \/ SignupStep(t) \/ MigrateListed(t)
  \/ \E a \in Staff : \/ \E u \in Update : UpdateRow(a, u)
                      \/ InsertEvent(a) \/ Commit(a)
  \/ Deploy \/ ListTenants \/ MigrateExits

Spec == Init /\ [][Next]_vars

(* Every statement ends, and so does every transaction that was begun.     *)
Fairness ==
  /\ \A t \in Signup : WF_vars(SignupStep(t))
  /\ \A a \in Staff : WF_vars(InsertEvent(a)) /\ WF_vars(Commit(a))

FairSpec == Spec /\ Fairness

-----------------------------------------------------------------------------
(* A tenant whose signup was answered stays usable: its row and its admin  *)
(* outlive the failures and cleanups of all other signups, and so does its *)
(* migrated database unless a signup for another slug uses the same        *)
(* database name; signups for its own slug never disturb it                *)
(* (controlplane/service.go 104-135, 436-445, types.go 277-285).           *)
AnsweredSignupUsable ==
  \A t \in Signup :
    calls[t].code = 201 => /\ Stored(t)
                           /\ admins[t] \in UserStatus
                           /\ UpToDate(DatabaseOf(t), calls[t].release) \/ NameShared(t)

(* What a signup that answers 500 leaves behind.  When the answer to the   *)
(* INSERT of its row was lost it leaves at most that row, without an admin *)
(* and without having touched a database.  Later it takes back row, admin  *)
(* and database, unless a statement of the cleanup fails or the staff      *)
(* already recorded an event about the tenant; only a database that        *)
(* another slug names too may be there again                               *)
(* (controlplane/service.go 104-133, 436-445).                             *)
FailedSignupLeavesNothing ==
  [][\A t \in Signup :
       calls[t].pc # "done" /\ calls'[t].code = 500 =>
         \/ /\ calls[t].pc = "tenant" /\ tenants'[t] \in Gone \cup {"provisioning"}
            /\ admins'[t] \in Gone /\ UNCHANGED databases
         \/ /\ ~Stored(t)' /\ admins'[t] \in Gone
            /\ databases'[DatabaseOf(t)] = -1 \/ NameShared(t)
         \/ calls'[t].stuck \/ Audited(t)]_vars

(* A suspension is never in force without its audit event                  *)
(* (controlplane/store.go 30-33, service.go 278-289).                      *)
SuspensionsAudited ==
  \A t \in Signup :
    tenants[t] = "suspended" => [tenant |-> t, of |-> "tenant", set |-> "suspended"] \in events

(* When "migrate tenants" exits without an error, every tenant in use that *)
(* it listed has the schema of its release, unless its database is named   *)
(* by another slug too (cmd/migrate/main.go 89-107).                       *)
MigratedAll ==
  runner.pc = "idle" /\ ~runner.failed =>
    \A t \in runner.listed :
      calls[t].code = 201 => UpToDate(DatabaseOf(t), runner.release) \/ NameShared(t)

(* "Signup creates a tenant, provisions its isolated database": no two     *)
(* tenants that were answered have one database                            *)
(* (controlplane/service.go 82).                                           *)
IsolatedDatabase ==
  \A t, u \in Signup :
    calls[t].code = 201 /\ calls[u].code = 201 /\ t # u => DatabaseOf(t) # DatabaseOf(u)

(* Every signup is answered: the transactions of the staff that it waits   *)
(* for end (controlplane/store.go 38-48).                                  *)
SignupAnswered == \A t \in Signup : calls[t].pc = "tenant" ~> calls[t].pc = "done"
=============================================================================
