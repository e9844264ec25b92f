# A formal model of opero

opero is a workforce system for tour operators: a Go backend with one
PostgreSQL database per tenant and a control-plane database, a Flutter field
app that works offline, and a web console.  This directory models the parts of
it in which the order of events decides the outcome, checks them with TLC on
small instances, and proves their safety properties with TLAPS for instances of
every size: attendance, leave, the phone's offline queue, the creation of logins
and of tenants, the API process, the live view and statistics, the demo seeder
and the directory of a tenant.

    tlc -workers 2 -config MCAttendance.cfg MCAttendance     (any run below)
    tlapm AttendanceProofs.tla                               (any *Proofs module)

## 1. Inventory of the system

Backend services (`src/backend/internal`) share one shape.  A handler takes
the login from the token, the service runs a few SQL statements on the pool of
the caller's tenant, and **no service puts several statements of a tenant in
one transaction**.  Each statement is atomic; between two statements of a
request every other request can run.  This is where most hazards come from.

| component | state it keeps | operations | interacts with | what is hard | what makes it correct |
|---|---|---|---|---|---|
| attendance (`attendance/`) | `attendance_records`, unique per `client_id` | CheckIn, CheckOut, SetBreak, lists, the demo seeder's two | identity (login to employee), roster (shift owner), the field app | read, decide, write without a transaction; retries of lost answers; foreign keys that change underneath | one record per `client_id`, stamps agree with status, no re-opening, own published shift, answers describe the record |
| roster (`roster/`) | `shifts`, `locations` | create, update, publish, delete, "whose shift" | identity (foreign key RESTRICT), attendance (SET NULL) | shifts move between employees while a check-in is under way | owners exist; attendance detached, never deleted |
| identity (`identity/`) | `employees`, `departments`, `roles` | CRUD, EmployeeIDByUserID, CreateEmployeeLogin | every service above; control plane for logins | CreateEmployeeLogin spans two databases, with compensation | a login links to one employee at most; deletion blocked by history |
| leave (`leave/`) | `leave_requests`, `leave_balances` | create, list, balance, approve, reject | identity | two managers decide at once; a year's bounds | a decision is attributed to who took it; each day charged once |
| field app, offline attendance (`mobile/lib/attendance`, `offline`) | durable queue, durable active map, session, sync loop | checkIn, checkOut, setBreak, sync, sign in and out | attendance over HTTP | lost answers, app death between two writes, sign-out, expired tokens | nothing queued is lost silently; order; eventually delivered |
| control plane (`controlplane/`) | tenants, users, subscriptions, audit | Signup, Login, CreateUser, platform updates | provisioner, identity | Signup is a saga over CREATE DATABASE; the staff changes tenants meanwhile | no orphan tenant or database; slug and database agree |
| provisioner (`controlplane/provision.go`), migration runner (`cmd/migrate`) | physical databases and schema versions | Create, Drop, migrate | control plane | accepts a database that exists; partial failure | isolated database per tenant |
| API process (`cmd/api`, `platform/httpserver`, `middleware`, `db`, `config`) | the cache of tenant pools, its lock, connections | start-up, per call: bind, authenticate, role gate, tenant, pool, handler; shutdown | every service | three tables of routes kept apart; double-checked locking; pools closed under running calls | a call stays in its tenant and role; one pool per database, known to the resolver; every call ends |
| media and storage (`media/`, `platform/storage`) | objects of a bucket | upload, URL | API process | an object stored and no URL | a URL names an object of the caller's tenant |
| demo seeder (`demoseed/`) | writes shifts and attendance | Seed | roster, attendance | a long sequence without transaction, racing itself, check-ins and managers | reseeding replaces what it seeded, and nothing else |
| live view, statistics (`liveview/`, `stats/`) | none | joined reads | roster, attendance, identity | three to five reads at different times | exact for what nobody touched meanwhile; about one employee |
| tours (`tours/`) | `tours` | CRUD | shifts | numbers narrowed to int32 | constraints hold, refusals are told |
| web console, app screens | display | - | API | little | - |

The hazards, each at its line and with the properties that watch it, are the
`hazards` of `PROJECT.json`.

## 2. Modules

    Identity <- Roster <- Attendance <- MCAttendance, AttendanceProofs
                              |
                              | INSTANCE (refinement)
                       AttendanceLedger
                              | INSTANCE (as the server)
                       MobileAttendance <- MCMobileAttendance, MobileAttendanceProofs
                              |
                   Attendance <- Reports  <- MCReports
                   Attendance <- DemoSeed <- MCDemoSeed
    Reports, DemoSeed, AttendanceProofs <- CrossServiceProofs
    Identity <- Leave <- MCLeave, LeaveProofs
    Identity <- EmployeeLogin <- MCEmployeeLogin, EmployeeLoginProofs
    Directory <- MCDirectory, DirectoryProofs
    ControlPlane <- MCControlPlane (MCControlPlane.cfg, MCControlPlaneNames.cfg), ControlPlaneProofs
    Routes <- Server <- MCServer, ServerProofs

* **Identity** - the `employees` rows and their `user_id`.  An operator is one
  SQL statement with the constraint that can fail it: `employees_user_id_unique`
  in `UserIdFree`, ON DELETE RESTRICT in `DeleteEmployee`.
* **Roster** - the `shifts` rows: status and owner.  `publishedTo` is a history
  variable, the employees who had the shift while it was published; the program
  has no record of earlier owners.
* **Attendance** - the service.  `requests[r].pc` names the statement a request
  runs next, and each action is one statement with the branch the Go code takes
  on its result:

  | action | code (`attendance/service.go`) |
  |---|---|
  | Resolve | the check for `uuid.Nil` and `resolveEmployee`, 61-100 |
  | LookupForCheckIn, ValidateOwnShift, InsertCheckIn, RereadAfterConflict | CheckIn, 102-131 |
  | LookupForCheckOut, UpdateCheckOut | CheckOut, 149-160 |
  | LookupForBreak, UpdateBreak | SetBreak, 177-194 |
  | Fail | any `return err` on a failed statement or a cancelled context |
  | Write's second disjunct | the statement commits and its result is lost: the caller sees 500 |
  | ManageShift, DeleteShift, ManageEmployee | the requests of managers that meet attendance |

  A request is a call; a retry by a phone is another element of `Request` with
  the same arguments.  `now` is PostgreSQL's `now()`; each statement that stamps
  a row gets a reading of its own, so "earlier" and "equal" can be told apart.
  What callers see of a record (coordinates, photo, notes) is left out.
* **AttendanceLedger** - the abstract specification: an entry per `client_id`
  and calls that take effect, or are refused, in one step.  It says which
  answers are possible when, and nothing about SQL, employees or shifts.
* **Reports** - the two services without tables, beside everything Attendance
  does: ListPublished, ListByShiftIDs and ListEmployees are the reads of
  `liveview/service.go` 58-112; ResolveCaller, ResolveForMonth, ListMonth,
  ListMine, ResolveForStarts, ListStarts and GetHired those of
  `stats/service.go` 53-154: ListMyShifts resolves the login in a statement of
  its own before each list (`roster/service.go` 209-223).  A window of time is
  any set of shifts.  `touched` and `relinked` are history: what changed under a
  report.
* **DemoSeed** - `demoseed/service.go` 69-147 a statement at a time (Admit,
  ListActive, ShiftIDsByNote, DeleteByShiftIDs, DeleteShiftsByNote, then
  CreatePublishedShift and SeedDemoRecord in a loop), beside everything
  Attendance does, other calls of the seeder, and managers, who may edit the
  seeder's note away (EditNote) or write it on any other shift (WriteNote), as
  `roster/handler.go` 141-190 takes notes as they come.  `tagged.ever`, `before`
  and `purged` are history: who carried the note, since when, and when a call
  deleted the old attendance.
* **Directory** - departments, roles, employees, locations, tours and shifts as
  rows that refer to each other.  Create, Update, Delete, Get and List of each
  are one step, since each is one statement: `Met` says which constraint it
  runs into (or "unlisted", an error of PostgreSQL that no package lists, or a
  failure of the database), `Coalesced` what a PATCH leaves alone, `Without` what ON DELETE
  SET NULL clears, `IdentityCode`, `RosterCode` and `ToursCode` what the client
  is told.  It shares no variables with Identity and Roster: those keep what
  attendance depends on and split requests into statements, this one keeps the
  columns and constraints.
* **Routes**, **Server** - the API process.  Routes has every operation of the
  generated wrappers with path, scope and whether it has parameters, main's list
  of tenant prefixes, and which service answers.  In Server a call goes through
  Arrive (binding), Authenticate (with the role gate), TenantDBName, FindPool,
  Dial, PingSucceeds or PingFails, and Handle; Upload and ObjectURL are the
  media handler, LoginTenant and Issue the two logins.  Any other service is
  Handle, and StatementEnds if it takes a tenant's pool: between the two it holds
  a connection.  Its own module details what it does.  LoadConfig,
  NewControlPlanePool, NewMinioStore, Signal, LockPools, ClosePool, PoolsClosed
  and Exit are run() of `cmd/api/main.go` and TenantResolver.Close
  (`platform/db/db.go` 82-90): while the phase is "draining" it holds the write
  lock and waits until the connections of the pools are back.
* **Leave** - create, approve, reject and balance, statement by statement.
  Days are numbers and a year has `YearLength` of them.  `EnterAllowance` is
  external: no code writes `leave_balances`.
* **EmployeeLogin** - CreateEmployeeLogin (`identity/service.go` 206-238), which
  writes the control plane's `users` and then the tenant's `employees`:
  Request, GetEmployee, CreateUser, Link, Compensate, with administrators adding
  and deleting employees meanwhile.  `CreateUser` answers 500 for a taken email
  because the handler compares with the errors of its own package.
* **ControlPlane** - tenants from signup to cleanup, and who else touches them:

  | action | code |
  |---|---|
  | Request, InsertTenant, CreateDatabase, MigrateNew, HashPassword, InsertAdmin, Activate | Signup (`controlplane/service.go` 89-136) and Provisioner.Create |
  | DropDatabase, DeleteTenant | cleanup (437-446): each half once, failures logged |
  | UpdateRow, InsertEvent, Commit | PlatformUpdateTenant and PlatformUpdateUser, in `InTx` |
  | Deploy, ListTenants, MigrateListed, MigrateExits | a release, and `migrate tenants` (`cmd/migrate/main.go` 69-108) |

  A signup is identified with the row it inserts.  `PhysicalName` is the name
  PostgreSQL keeps of prefix and slug, any function, so that names that are
  truncated to one are a choice of instance and no theorem excludes them;
  `NameShared` says when another signup's slug has the same database name.  Transactions of the staff hold row locks; their changes
  appear at the commit.  A goose step is atomic, as goose runs each migration in
  a transaction; one that meets another migrator is a failed step.  DROP
  DATABASE fails when somebody is connected, one of the failures it may have.
* **MobileAttendance** - the phone and a network in front of
  `AttendanceLedger`.  A Dart method runs up to its next await on the platform
  or the network; those pieces are the actions:

  | action | code |
  |---|---|
  | TapCheckIn, EnqueueCheckIn, KickSync | checkIn: save of the active map (56-58), queue.add (60-69), sync (70-72) |
  | TapCheckOut, ClearActive, KickSync | checkOut: read the map and queue.add (77-92), write the map back (94-95), sync |
  | SetBreak | setBreak: one call, not queued (100-111) |
  | StartSync, SyncSend, SyncUnauthorized, SyncAnswered, SyncServerError, SyncBreaks, SyncEnds | sync (121-152), by outcome of the call |
  | SignIn, SignOut, TokenExpires, OpenShell, PullToRefresh | auth_store, shell, field_data |
  | Kill | the app dies; what shared_preferences saved stays |

  `add` and `remove` of the queue read the list and write it back
  (`offline/queue.dart` 30-40), with only micro-tasks in between; they are one
  action each, as the comment at 11-12 of that file expects.

  Reading the map and appending to the queue are one action in TapCheckOut
  because SharedPreferences answers reads from memory and updates its memory
  before the write is awaited: only micro-tasks, and no tap or network event,
  come between them.  The server's part is `ServerStep`, the ledger's own
  actions.  The hypothesis that every user is linked one to one to an employee
  stands for Identity here; the immediate 400 in `Post` is the unlinked login.

* **AttendanceProofs**, **LeaveProofs**, **EmployeeLoginProofs**,
  **ControlPlaneProofs**, **ServerProofs**, **MobileAttendanceProofs**,
  **CrossServiceProofs**, **DirectoryProofs** - section 4.

Operators introduced by the words "A bug ... must catch" are mutations of the
definition that follows them, kept to show that each property can fail.  They
are used by no specification.

## 3. Runs

| run | instance | question |
|---|---|---|
| MCAttendance | 2 employees, 2 logins, 1 shift, 1 client id, 3 calls | six invariants and two action properties of the service under every interleaving of three calls and the managers; does the service implement the ledger? |
| MCLeave | 1 employee, 2 managers, 1 request, 3 calls, 2 years of 2 days | attribution of decisions, year arithmetic, deletion races |
| MCEmployeeLogin | 2 employees, 3 logins, 2 emails, 3 calls | do logins that were reported live, and failures leave none? |
| MCEmployeeLoginRace (violated) | same | one login per employee, as the migration says? |
| MCControlPlane | 2 signups for one slug, 1 change by the staff, 2 releases | usable tenants, clean failures, audited changes, complete migrations; under fairness, every signup answered |
| MCControlPlaneNames (violated) | 2 signups, 3 slugs of which two share a name | does every tenant have a database of its own, as the service says? |
| MCMobileAttendance | 1 user, 1 client id, 1 shift, 3 taps, 2 calls in flight | is any action lost, reordered or invented? |
| MCMobileLiveness | 1 user, 2 client ids, 2 taps, 1 call in flight | does the queue drain? |
| MCServer | 2 tenants with one account each and the staff, one call of any operation and one of a tenant route, one account disabled and enabled | who reaches which handler, pool and object; who gets a token; do calls and the process end? |
| MCReports | 2 employees, 2 logins, 1 shift, 1 client id, 2 calls, 1 report | what may a live view or statistics say when the tables change between its reads? |
| MCDirectory | 2 departments, 2 roles, 2 employees, 1 location, 1 tour, 1 shift, 3 names of which two differ in case, int32 of 4 bits (`MaxInt32` = 7) | constraints, answers and references under any sequence of calls |
| MCDemoSeed | 1 employee, 2 shifts, 2 client ids of which one is the seeder's, 1 call of a phone, 2 of the seeder | what does reseeding remove, and what does its answer mean? |

**Why the bounds are enough.**  Records interact only through their key, so one
`client_id` carries every race on a record; that calls about different ones do not
disturb each other is part of the theorems, which are for any number.  The races the
code can lose need two calls between read and write, and a third to observe or
to start late: three calls.  Two employees and two logins are needed for
somebody else's record, for a shift that changes hands and for a login that is
linked anew.  A deleted id is never used again, as with `gen_random_uuid()`.
In Leave one request suffices, since the sum over requests is additive; two
days a year and two years already have a request within a year, one on each
boundary and one across it.  A login race needs two calls, and a third that
arrives when it is over.  Signups meet only through a slug or a database, so two
for one slug are a failing signup and the one that follows or conflicts, and
two for different slugs, in MCControlPlaneNames, are two names for one database
or for two; two
releases are one before the migration command and one after it.  On the phone three taps are a check-in, a break or
a second check-in, and a check-out; two calls in flight are a lost call and its
retry.  Calls meet in Server only in the resolver and in accounts: two calls
are a race for the lock, and since a token may be of either tenant, a race of
one tenant or of two; the first call ranges over every operation, the second is
a tenant route, which takes the longest path.  A report is exact or not shift by
shift and row by row; two records of one shift were checked on an instance with
two client ids, which is too large for a regular run.  `Unanswered` ends MCReports
when the report is answered, as the rest is MCAttendance's.  A seeding meets one
other seeding, one phone and managers in every order; two shifts are an old one
and its replacement, or a phone's and the seeder's.  `Unended` ends MCDemoSeed
when both seedings have ended.  `FewRows` keeps at most `RowBound` = 3 departments,
roles, employees and shifts at one time in MCDirectory: a reference, its target
and a third row.  Four bits have a number that wraps to a positive and one that
is negative.  Calls and taps are bounded by the sets `Request`, `Call` and `Tap`: no
counter needs a bound, because `now` and `appended` only move with them.

**Deadlock** is not checked: calls and taps are finite, and when all are
answered and nothing is left to manage the system really rests.

**Symmetry** is used for interchangeable requests, taps, users and employees in
the runs without liveness.  MCMobileLiveness, MCControlPlane and MCServer have none.

**Fairness**.  Server: weak fairness for each call that has arrived and for the
rest of run() after a signal.  The Go runtime schedules every goroutine; a
statement, a dial or an upload ends by its context or the driver's time-outs;
`sync.RWMutex` does not starve a waiter, a closing pool waits for connections
that come back at the end of a statement, and with finitely many calls the lock
is free in the end, which is why no strong fairness is needed.  Nobody is obliged to
call or to signal.  ControlPlane: weak fairness for the statements of a signup and
for those of a transaction that has begun.  PostgreSQL and pgx end every
statement, `InTx` ends every transaction with a commit or the deferred rollback,
and nobody is obliged to begin one.  MobileAttendance: weak fairness for what the isolate has
started and for the server answering what reached it; the scheduler of the Dart
event loop and of Go guarantee both.  Strong fairness for sending, for one
call in infinitely many getting through, and for its answer arriving, because
the network is bad at times and not for ever.  Nothing obliges a user to sign
in, tap, refresh or open the app; QueueDrains therefore has the premise that sync is
started again and again.

**What the violated runs show** are the findings of `PROJECT.json`:

* MCEmployeeLoginRace: two calls of CreateEmployeeLogin give one employee two
  logins; the unique index that the migration relies on cannot see it.
* MCControlPlaneNames: a database name is a prefix (13 bytes by default) and a
  slug of up to 63 bytes (`controlplane/types.go` 277-285).  PostgreSQL keeps 63
  bytes of it, `tenants.db_name` is unique only in full, and Provisioner.Create
  accepts a database that exists.  Two tenants whose slugs agree in the bytes
  kept are both answered 201 and share one database, where
  `controlplane/service.go` 82 says "its isolated database".  The cleanup of one
  would also drop the other's; AnsweredSignupUsable, MigratedAll and
  FailedSignupLeavesNothing name this case (`NameShared`) and hold outside it.

**Other differences met while modelling**.  The models have these behaviours,
and no run states the promise they break:

* Two check-outs that both read an open record stamp `check_out_at` twice
  (`attendance/service.go` 160); the comment at 134-135 says "Idempotent."
* Of two reviews that both read `pending`, the later overturns the earlier
  (`leave/service.go` 172); the comment at 153-155 promises "to avoid silently
  overturning a decision".  What holds instead is LateReviewChangesNothing.
* Every 4xx drops an action from the phone's queue, a 401 after the token
  expired and a 404 after somebody else signed in included
  (`attendance_service.dart` 136); the comment at 137-138 says "it will never
  succeed on retry".
* A live-view entry may join a shift with an attendance state it never had
  together: the reads are three statements.  ViewExact says for which shifts it
  is exact.
* The live view keeps the owner it read when a shift changes hands before the
  attendance is read; the row it then shows is still the earlier owner's.
* "no-show" is among the states the seeder promises (`demoseed/service.go`
  66-67), and with fewer than seven employees it creates none (MCDemoSeed
  evaluates this as an ASSUME).
* Two overlapping seedings, or a check-in or a note written between the two
  DELETEs, leave records without a shift: the second DELETE goes by the note and
  not by the ids whose attendance the first one deleted.
* A manager who writes the seeder's note on a shift has it replaced at the next
  seeding, with its attendance: "only shifts carrying this exact note".
* A PATCH cannot clear a field: COALESCE takes NULL for "absent".  Cycles of
  `parent_id` and `reports_to` are accepted.
* `int32(v)` in `tours/store.go` 40 wraps: 2^32 + 5 minutes are stored as 5.
* Disabling an account or suspending a tenant leaves issued tokens valid, and
  Login does not look at the tenant's status.
* After a signal run() returns when the listener closes and does not wait for
  Shutdown: calls that are still running lose their pools and their process
  (`cmd/api/main.go` 135-149).
* Leave is charged in full to the year it starts in, never to one it reaches
  into (`leave.sql` 25 says "overlapping the year").
* Pull-to-refresh does not sync, although `mobile/SHIPPING.md` (143) says so.
* The active map is saved before the queue, not after it
  (`attendance_service.dart` 16): a death in between leaves a shift that looks
  checked in, with no check-in queued.
* The compensation of CreateEmployeeLogin deletes the login of a linked employee
  when the answer to the link is lost; the employee then counts as having a
  login for ever.
* A taken email is answered with 500 and not with the documented 409.
* A signup whose INSERT of the tenant commits and loses its answer answers 500
  and leaves the row, and with it the slug, taken: the cleanup of
  `controlplane/service.go` 437-446 begins after that statement.
* A tenant the staff changed while it was provisioning outlives the cleanup of
  its failed signup: its audit event refers to the row.

## 4. Proofs

`AttendanceProofs` proves, for every number of employees, logins, shifts,
client ids and requests, that `IInv` is an inductive invariant, and from it
every property MCAttendance checks.  Assumed are only the ASSUMEs of the
modules: the "no value" constants are outside their sets.

The properties are not inductive by themselves.  An answer that is about to be
given was decided on reads that are out of date, so `IInv` adds what a request
has established at each statement and what survives in the meantime:

* `OnCourse`: at `update` the record exists and is the caller's, at `reread` it
  exists.  This survives because records are never deleted and never change
  hands.
* `Validated`: at `insert` the shift is published *or has been deleted*, and it
  was published to the caller at some time (`publishedTo`).  This survives
  because nothing leads back to draft; it is not true that the caller still
  owns it.
* `DescribesRow`, `ConflictIsReal`, `CreatedOnce`: given answers stay true.
* `OwnersRemembered`, `RowsInPast`: owners are in the history; stamps are not
  in the future.

`ReadOnlyStep`, `OneRequestMoves` and the lemmas on single statements carry the
argument; there is one lemma per action.  `CheckOutFinal` and `AttributionStays`
follow from what one step can do to a record (`RowChange`).

The same module proves `ServiceImplementsLedger`: under the mapping `LedgerOf`, `CallsOf` each statement is a ledger action or a stutter.
A check-in takes effect at its INSERT, check-out and break at their UPDATE;
a replay at the read that finds the caller's own record; a refusal at its
answer.  `IInv` is needed to know that the record is still there, and still
the caller's, at the UPDATE.

`LeaveProofs` proves every property of MCLeave for any number of employees,
managers, requests, calls and years.  `LeaveAttributed` is part of the
invariant; what is added, `Sound`, says what a review has established: it
names one request when it reads and writes, and if the request was decided when
the review arrived, then it is decided or deleted at the review's read, so the
review never gets to its write.  This survives because no statement makes a
request pending again.  `WriteStep` and `TablesStep` say what a step must show
when it changes requests or only other tables.

`DaysCharged`, that the days all balances charge are the days of the approved
requests, each once, compares sums over sets of requests, years and employees.
It rests on three things.
* `Booked`, a second invariant: only finitely many requests have been entered,
  each with its days in order.  Without it there is no sum to speak of.
* Sums as sizes.  `Units(F, S)` holds F[x] elements for each x of S.  The fold
  that adds up days is a function the definition chooses; `TotalExists` shows
  that there is one, `TotalCounts` that it gives the size of the units.
  What sums have in common (`UnitsJoin`, `UnitsWithout`) is then about sets.
  Both are inductions over finite sets.  The library's induction theorem takes
  an operator, which the provers cannot instantiate; `SetInduction` takes the
  *set* of the good subsets instead, and follows from the well-foundedness of
  strict inclusion.
* Years that neither overlap nor leave a day out (`InOneYear`, for years of any
  length): the balance of exactly one year and one employee counts an approved
  request, which is also a theorem, `ChargedToOneYear`.  `YearByYear` adds the
  years one by one.

`EmployeeLoginProofs` proves the three properties that MCEmployeeLogin checks
beside the types.  `LoginKept` ties a call to the `users` row it made: live
while the call runs and for ever after a 201, not live after an error unless the
deletion failed.  It survives other calls' compensations because no two calls
have the same login, the last conjunct of `IInv`.  `OnCourse` says that a call
which arrived when the employee was `Settled` (has a login, or is deleted) is
refused at its read: no statement unlinks a login, and ids are not used again.

`ServerProofs` proves every safety property of MCServer for any number of
tenants, accounts and calls.  `RoutesAgree` comes first and is about the tables
alone: for every operation of the API, the service that answers takes a pool
exactly when the path is under one of main's prefixes.  In `IInv`, `Gated` says
which checks a call at each label has passed; `Pooled`, that a call holds the
lock exactly while it dials, and uses a pool opened for its token's tenant;
`PoolsSound`, that an open pool is the cached one of its tenant and that nobody
is cached for a tenant that is being dialled for, which the second look-up
under the lock makes true, and that while run() closes the pools, when the cache
has closed ones too, no call has the lock; `Uploaded` and `LoggedIn`, that a URL's object is
stored under the token's tenant and that a token's account is the one named.

`ControlPlaneProofs` proves every safety property of MCControlPlane for any
number of signups, staff and releases, and for *any* function that shortens
names.  `SlugsOwned` is the centre: a signup at work has its row, a row is the
only one of its slug, so only a signup for another slug of the same database
name can meet its database by a cleanup or by CREATE DATABASE.  `OwnDatabase` is
that step; `OnCourse` says what holds of the tables in any case, and of the
database unless its name is shared.  Nothing is assumed about names: a tenant
that shares one keeps its row and its admin (SignupsUsable), and what a failed
signup leaves then is said as well (FailuresClean, the lost answer to the INSERT
included).  `StaffSound` says that what an open
transaction found is still there (its lock blocks the cleanup's DELETE), and
`RunnerSound` what the migration command knows of the tenants it is done with.
`SignupMove`, `StaffMove` and `RunnerMove` carry the argument for the three
kinds of processes.

`MobileAttendanceProofs` proves the safety properties of MCMobileAttendance for
any number of people, shifts, taps and calls in flight.  Numbers of actions and
the word "oldest" come first: `Numbered` says that no two actions share a place
and `OldestIs` that the loop's next action exists.  In `IInv`, `LoopSound` says
that what the loop has not sent yet is older than anything else in the queue,
whatever taps append to it, and that the call it waits for is about the oldest;
`AnswersTrue`, that what was answered with success has happened and stays so.
CheckInFirst survives SyncSend because a check-in older than the check-out that
is sent cannot be queued any more, so that NothingForgotten says what became of
it.  `Posted`, `Enqueued`, `SettleInv` and `ServerEffect` carry the argument.
The server in it is the ledger that `ServiceImplementsLedger` shows the service
to implement: the two theorems reach from a tap to the rows of the tenant, as
far as each user is linked to one employee.

`CrossServiceProofs` is about the services that own no table.  It takes IInv of
AttendanceProofs and its lemmas, as every step of Attendance is one of Reports
and of DemoSeed.

* Reports.  `ViewExact` and `StatsOfOneEmployee` speak of finished reports, so
  `ReportsInv` says what each read has established.  `ViewSound`: for a shift
  that is not in `touched`, what was read of it so far is what the tables say
  now, `RowShown` from the second read on.  It survives the others' steps
  (`ViewOutlives`) because a step that changes a shift or a record linked to it
  puts the shift into `touched`; its owner has a row by IInv, so that the third
  read finds the name.  `StatsSound`: records never
  change hands and owners of published shifts stay in `publishedTo`, so the hours
  and the on-time rate are one employee's although the login is resolved three
  times; and unless `relinked`, every resolution finds the first employee, so
  that listed shifts nobody touched are theirs.  `LinksLive` is needed for it: a
  deleted row carries no login.
* DemoSeed.  `SeedInv` has, for each call, `SeedSound`: after the deletion no
  shift of `before` carries the note (an id is never used again, so none
  can come back, and who is given the note anew is taken out of `before`); and
  between the two DELETEs a record on a shift of the call's list is younger than
  the first of them.  For that the clock must not stand still while a row is
  written: `RowsAge`, proved once for every step of Attendance.  No call is
  assumed to be without others.  The finite number of live employees is part
  of the invariant since the seeder counts them.
* Attendance beside the seeder.  IInv does not hold there: a record a request
  has read may be gone at its UPDATE, and a success reported for it describes
  nothing any more (TLC finds RepliesDescribeOneRow, CheckedOutForGood and
  AttributionFixed violated beside the seeder, as they must be where rows are
  deleted).  `SeededRowsSound` says what is left: StampsMatchStatus,
  AttendanceOnOwnShift and HistoryKeepsEmployee hold whatever the seeder's calls
  do between the statements of phones and managers.  Its invariant `SeedTables`
  relies on no read of a record, only on what the statements check themselves
  (`RowFits`), on validated shifts (`Validated`), and on the shift a seeding has
  just created, which may be deleted but not unpublished before its record is
  written (`Placing`).

`DirectoryProofs` proves every property of MCDirectory for any number of rows
and names, and any folding of names.  `DbInv` is RowsConsistent with the shape
of the tables, and `AnswerInv` the answer.  `DbChange` says what one statement
can do to the database: nothing, store a row that `Fits`, or drop one that
nothing restricts; all 30 operations are shown to be one of these, and that
these keep the references is shown once.  `ReferencesOutlive` is a consequence
of DbChange, since `Fits` requires of an amended row that COALESCE cleared
nothing.  What is assumed of the constants: NULL is not an id, a number or a row
(`DirectoryAssumption`, `NoneAssumption`), and `MaxInt32` is a natural number:
it stands for 2^31 - 1 and is a parameter, since no prover here knows powers.

Only model-checked: the liveness properties QueueDrains, SignupAnswered and
CallsEnd, which need fairness and ENABLED; and the two violated properties, which no
theorem can state.  Every other property of the runs is a theorem.  The lemmas
and the additional invariants (`Booked`, `SeedTables`) were checked by TLC on
the instances of MCLeave and MCDemoSeed before they were proved.

## 5. Not modelled, and why

* Formatting, coordinates, photos, notes and free text: no decision reads them.
* The status `missed`: only the seeder can write it, and it does not.
* Token expiry is an event, not a clock.  Tenants do not interact in these
  modules: each has its own database.
* Isolation levels: PostgreSQL runs each statement in its own transaction at
  READ COMMITTED.  An UPDATE by key re-checks its WHERE after waiting for a row
  lock, which is what one atomic step per statement says.
* ListMyLeave, leave's List, CurrentUser and the platform's lists: reads of one
  statement that nothing joins.
* Subscriptions: no code inserts one, and their update has the shape of the two
  that are modelled.
* CORS, panic recovery and logging wrap every call; a panic is one of the
  reasons for the 500 a handler may always give.
* The platform-user command (one insert), the provision command (the same
  Create by hand), the web console and the app's screens: they keep no state
  that the server does not check again.
* Server and ControlPlane are not composed: tenants are there from the start in
  Server, and a pool that is cached while its signup fails is one of the
  reasons for which DROP DATABASE may fail in ControlPlane.
* A DROP DATABASE that reaches the server after the call has given up on it:
  statements that lost their answer have taken effect by then.

## 6. Plan

In this order:

1. Theorems that join components: a reported report after a phone's check-in
   (Reports above MobileAttendance, by ServiceImplementsLedger).
2. **TenantDirectory**, the abstract specification of ControlPlane: a signup
   succeeds or leaves no trace; ControlPlane implements it as far as it does.
3. The composition of Server with ControlPlane, for pools cached during a signup.
