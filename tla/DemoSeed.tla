------------------------------ MODULE DemoSeed ------------------------------
(***************************************************************************)
(* The demo seeder, beside everything Attendance has: it replaces the      *)
(* shifts that carry its note, and their attendance, by fresh ones.  A     *)
(* call runs a statement at a time and no transaction holds them together, *)
(* so that phones, managers and other calls of the seeder act in between,  *)
(* and a call that fails leaves what it has done so far.                   *)
(*                                                                         *)
(* A manager may edit the note away, delete such a shift or write the note *)
(* on any other one.  The ids the seeder draws are its own.  Fabricated    *)
(* times keep their order, which is all that is told apart.                *)
(***************************************************************************)
EXTENDS Attendance, FiniteSets

CONSTANTS Seed,         \* the calls of SeedLiveViewDemoData
          SeedClient    \* the client_ids the seeder draws

ASSUME SeedAssumption == SeedClient \subseteq ClientId

VARIABLES tagged,       \* the shifts whose note is the seeder's; history of those once more
          seeds

seedVars == <<employees, shifts, publishedTo, records, requests, now, tagged, seeds>>

(* "todo" are the employees without a fresh shift, "next" the index of the  *)
(* next one among "count", "shift" the one just created and "owner" whose   *)
(* it is.  Two fields are history: the shifts that have carried the note    *)
(* since before the call came, and when it deleted the old attendance.      *)
SeedState ==
  [pc     : {"gate", "employees", "ids", "attendance", "shifts", "create", "record", "done"},
   todo   : SUBSET Employee,
   count  : Nat,
   next   : Nat,
   old    : SUBSET Shift,
   shift  : Shift \cup {NoShift},
   owner  : Employee \cup {NoEmployee},
   code   : {0, 200, 403, 500},
   before : SUBSET Shift,
   purged : Nat]

NewSeed == [pc |-> "gate", todo |-> {}, count |-> 0, next |-> 0, old |-> {},
            shift |-> NoShift, owner |-> NoEmployee, code |-> 0, before |-> {}, purged |-> 0]

SeedTypeOK ==
  /\ TypeOK
  /\ tagged \in [now : SUBSET Shift, ever : SUBSET Shift]
  /\ seeds \in [Seed -> SeedState]

SeedInit ==
  /\ Init
  /\ tagged = [now |-> {}, ever |-> {}]
  /\ seeds = [g \in Seed |-> NewSeed]

Running(g) == seeds[g].pc \notin {"gate", "done"}

(* SELECT id FROM shifts WHERE notes = the seeder's. *)
Tagged == {s \in tagged.now : Exists(s)}

-----------------------------------------------------------------------------
(* Control flow of a call. *)

Ended(q, code) == [NewSeed EXCEPT !.pc = "done", !.code = code, !.before = q.before]

(* One statement of g, after which it is in state "to", or has failed.      *)
Advance(g, from, to) ==
  /\ seeds[g].pc = from
  /\ \/ seeds' = [seeds EXCEPT ![g] = to]
     \/ seeds' = [seeds EXCEPT ![g] = Ended(@, 500)]

(* A statement fails, and has changed nothing.                              *)
SeedFails(g) ==
  /\ Running(g)
  /\ seeds' = [seeds EXCEPT ![g] = Ended(@, 500)]
  /\ UNCHANGED <<vars, tagged>>

(* The handler: the endpoint may be disabled, or the caller's tenant not be *)
(* the demo tenant, or its look-up fail.                                    *)
Admit(g) ==
  /\ seeds[g].pc = "gate"
  /\ \/ seeds' = [seeds EXCEPT ![g] = [@ EXCEPT !.pc = "employees", !.before = Tagged]]
     \/ \E code \in {403, 500} : seeds' = [seeds EXCEPT ![g] = Ended(@, code)]
  /\ UNCHANGED <<vars, tagged>>

(* The active employees; without any there is nothing to seed.  The lists   *)
(* of locations and tours that follow only add references to the shifts.    *)
ListActive(g) ==
  /\ \E active \in SUBSET {e \in Employee : Live(e)} :
       IF active = {} THEN Advance(g, "employees", Ended(seeds[g], 500))
       ELSE Advance(g, "employees", [seeds[g] EXCEPT
              !.pc = "ids", !.todo = active, !.count = Cardinality(active)])
  /\ UNCHANGED <<vars, tagged>>

ShiftIDsByNote(g) ==
  /\ Advance(g, "ids", [seeds[g] EXCEPT !.pc = "attendance", !.old = Tagged])
  /\ UNCHANGED <<vars, tagged>>

(* A bug SeedReplacesOwnData must catch: the attendance is left to the      *)
(* deletion of the shifts.                                                  *)
DeleteNoAttendance(g) ==
  /\ Advance(g, "attendance", [seeds[g] EXCEPT !.pc = "shifts", !.purged = now])
  /\ UNCHANGED <<vars, tagged>>

DeleteByShiftIDs(g) ==
  /\ Advance(g, "attendance", [seeds[g] EXCEPT !.pc = "shifts", !.purged = now])
  /\ records' = [c \in ClientId |-> IF records[c].shift \in seeds[g].old THEN NoRow
                                                                       ELSE records[c]]
  /\ UNCHANGED <<employees, shifts, publishedTo, requests, now, tagged>>

(* A bug SeededAnswerTrue must catch: only the shifts listed a moment ago   *)
(* and still without attendance are deleted.                                *)
DeleteUnattendedShifts(g) ==
  LET gone == {s \in Tagged : \A c \in ClientId : records[c].shift # s} IN
  /\ Advance(g, "shifts", [seeds[g] EXCEPT !.pc = "create", !.old = {}, !.purged = 0])
  /\ shifts' = [s \in Shift |-> IF s \in gone
                                THEN [status |-> "deleted", owner |-> NoEmployee] ELSE shifts[s]]
  /\ UNCHANGED <<employees, publishedTo, records, requests, now, tagged>>

(* Whatever carries the note by now, listed before or not. *)
DeleteShiftsByNote(g) ==
  /\ Advance(g, "shifts", [seeds[g] EXCEPT !.pc = "create", !.old = {}, !.purged = 0])
  /\ shifts' = [s \in Shift |-> IF s \in Tagged
                                THEN [status |-> "deleted", owner |-> NoEmployee] ELSE shifts[s]]
  /\ records' = [c \in ClientId |-> IF records[c].shift \in Tagged
                                    THEN [records[c] EXCEPT !.shift = NoShift] ELSE records[c]]
  /\ UNCHANGED <<employees, publishedTo, requests, now, tagged>>

(* Rows 0 to 2*third - 1 have started; the first five of them get a record. *)
Third(n) == (n + 2) \div 3
Started(i, n) == i < 2 * Third(n)
Attended(i, n) == i <= 4 /\ Started(i, n)

(* A loop that has served everybody ends with the answer.                   *)
LoopOn(q) ==
  IF q.todo = {} THEN Ended(q, 200)
  ELSE [q EXCEPT !.pc = "create", !.next = @ + 1, !.shift = NoShift, !.owner = NoEmployee]

(* The i-th employee gets a published shift; one who is gone by now is a    *)
(* failure.                                                                 *)
CreatePublishedShift(g) ==
  LET q == seeds[g] IN
  \E e \in q.todo, s \in Shift :
    LET created == [q EXCEPT !.todo = @ \ {e}, !.shift = s, !.owner = e] IN
    /\ shifts[s].status = "none" /\ Live(e)
    /\ Advance(g, "create", IF Attended(q.next, q.count) THEN [created EXCEPT !.pc = "record"]
                                                        ELSE LoopOn(created))
    /\ shifts' = [shifts EXCEPT ![s] = [status |-> "published", owner |-> e]]
    /\ publishedTo' = [publishedTo EXCEPT ![s] = @ \cup {e}]
    /\ tagged' = [now |-> tagged.now \cup {s}, ever |-> tagged.ever \cup {s}]
    /\ UNCHANGED <<employees, records, requests, now>>

(* 0 -> checked out, 1 -> on break, 2..4 -> checked in. *)
DemoRecord(i, e, s) ==
  [status |-> CASE i = 0 -> "checked_out" [] i = 1 -> "on_break" [] OTHER -> "checked_in",
   employee |-> e, shift |-> s, checkInAt |-> now + 1,
   checkOutAt |-> IF i = 0 THEN now + 2 ELSE 0,
   breakStartedAt |-> IF i = 1 THEN now + 2 ELSE 0]

(* Both foreign keys hold, or the statement fails.                          *)
SeedDemoRecord(g) ==
  LET q == seeds[g] IN
  \E c \in SeedClient :
    /\ ~Recorded(c) /\ ReferencesHold(q.owner, q.shift)
    /\ Advance(g, "record", LoopOn(q))
    /\ records' = [records EXCEPT ![c] = DemoRecord(q.next, q.owner, q.shift)]
    /\ now' = now + 2
    /\ UNCHANGED <<employees, shifts, publishedTo, requests, tagged>>

(* A manager edits the seeder's note away. *)
EditNote(s) ==
  /\ s \in Tagged
  /\ tagged' = [tagged EXCEPT !.now = @ \ {s}]
  /\ UNCHANGED <<vars, seeds>>

(* A manager writes the very note, on a new shift or an old one.            *)
WriteNote(s) ==
  /\ Exists(s) /\ s \notin Tagged
  /\ tagged' = [now |-> tagged.now \cup {s}, ever |-> tagged.ever \cup {s}]
  /\ seeds' = [g \in Seed |-> [seeds[g] EXCEPT !.before = @ \ {s}]]
  /\ UNCHANGED vars

(* Phones, which know only their own client_ids, and managers. *)
Others ==
  /\ Next
  /\ \A r \in Request : requests'[r].client \notin SeedClient
  /\ UNCHANGED <<tagged, seeds>>

SeedStep(g) ==
  \/ Admit(g) \/ ListActive(g) \/ ShiftIDsByNote(g) \/ DeleteByShiftIDs(g)
  \/ DeleteShiftsByNote(g) \/ CreatePublishedShift(g) \/ SeedDemoRecord(g) \/ SeedFails(g)

SeedNext ==
  \/ Others
  \/ \E g \in Seed : SeedStep(g)
  \/ \E s \in Shift : EditNote(s) \/ WriteNote(s)

SeedSpec == SeedInit /\ [][SeedNext]_seedVars

-----------------------------------------------------------------------------
(* "re-seeding replaces only shifts carrying this exact note": a record     *)
(* that disappears was on a shift that had it.  And "attendance first":     *)
(* when a call deletes the shifts, no record is left without its shift,     *)
(* the seeder's or a phone's, unless it was made, or the shift was given    *)
(* the note, after the call's own look at it                                *)
(* (demoseed/service.go 22-24, 87-99).                                      *)
SeedReplacesOwnData ==
  [][/\ \A c \in ClientId :
          Recorded(c) /\ records'[c].status = "none" => records[c].shift \in tagged.ever
     /\ \A g \in Seed : seeds[g].pc = "shifts" /\ seeds'[g].pc # "shifts" =>
          \A c \in ClientId :
            records[c].shift \in seeds[g].old /\ records[c].checkInAt <= seeds[g].purged =>
              records'[c].shift = records[c].shift]_seedVars

(* A seeding that is answered 200 has replaced what was there: no shift that *)
(* has carried the note since before the call is left, whatever check-ins,  *)
(* edits and other calls came between its statements                        *)
(* (demoseed/service.go 62-69).                                             *)
SeededAnswerTrue ==
  \A g \in Seed : seeds[g].code = 200 => seeds[g].before \cap Tagged = {}
=============================================================================
