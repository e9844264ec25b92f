-------------------------- MODULE MobileAttendance --------------------------
(***************************************************************************)
(* The field app of one phone: AttendanceService and its OfflineQueue, in  *)
(* front of the backend's attendance service, which is taken here as the   *)
(* atomic ledger it implements (AttendanceLedger).                         *)
(*                                                                         *)
(* The app is one Dart isolate.  An asynchronous method runs without       *)
(* interruption up to an await on the platform or the network, so each     *)
(* action is what happens between two such awaits; taps (the buttons of    *)
(* the check-in flow are not disabled while their work is going on), the   *)
(* sync loop, the death of the app and the steps of the server interleave  *)
(* between them.  shared_preferences holds the queue and the active map,   *)
(* and survives the app.                                                   *)
(*                                                                         *)
(* Histories, which the program does not keep: "accepted", every action    *)
(* that was put into the queue, and "refused", those that were removed on  *)
(* a 4xx answer.                                                           *)
(***************************************************************************)
EXTENDS Naturals

CONSTANTS User,         \* people who sign in on this phone, linked one to one to employees
          NoUser,
          ClientId,     \* what _uuid.v4() returns
          NoClient,
          Slot,         \* keys of the active map: shift ids, or "unscheduled"
          Tap,          \* taps on the check-in, check-out and break buttons in one behaviour
          Request,      \* HTTP calls in flight at one time
          NoRequest

ASSUME MobileAssumption ==
  /\ NoUser \notin User /\ NoClient \notin ClientId /\ NoRequest \notin Request
  /\ Slot # {}

VARIABLES session,      \* AuthStore: who is signed in, and whether the token is still good
          shell,        \* whether the signed-in screens are on display
          active,       \* shiftKey -> client id of the open attendance
          queue,        \* OfflineQueue
          appended,     \* number of actions appended so far
          taps,         \* the asynchronous work each tap has started
          sync,         \* the sync loop
          ledger, calls,
          accepted, refused

storeVars == <<active, queue, appended, accepted, refused>>
serverVars == <<ledger, calls>>
vars == <<session, shell, active, queue, appended, taps, sync,
          ledger, calls, accepted, refused>>

Server == INSTANCE AttendanceLedger WITH Employee <- User, NoEmployee <- NoUser

(* "place" is an action's place in the list and stands for its local id.   *)
Action == [place : Nat, op : {"checkIn", "checkOut"}, client : ClientId]

Entry == [phase : {"absent", "working", "resting", "left"}, employee : User \cup {NoUser}]

Code == {0, 200, 201, 400, 404, 409, 500}

HttpCall == [op       : {"none", "checkIn", "checkOut", "breakOn", "breakOff"},
             client   : ClientId \cup {NoClient},
             employee : User \cup {NoUser},
             code     : Code]

ActiveMap == [Slot -> ClientId \cup {NoClient}]

TapState == [pc   : {"idle", "enqueue", "clear", "kick", "done"},
             slot : Slot, client : ClientId \cup {NoClient}, map  : ActiveMap]

(* "rest" is what the loop still has of the snapshot it works on, "sent" the *)
(* connection that carries the call it waits for.                           *)
SyncState == [on : BOOLEAN, rest : SUBSET Action, sent : Request \cup {NoRequest}]

NothingActive == [s \in Slot |-> NoClient]
NewTap == [pc |-> "idle", slot |-> CHOOSE s \in Slot : TRUE, client |-> NoClient,
           map |-> NothingActive]
Idle == [on |-> FALSE, rest |-> {}, sent |-> NoRequest]

TypeOK ==
  /\ session \in [user : User \cup {NoUser}, valid : BOOLEAN]
  /\ shell \in BOOLEAN
  /\ active \in ActiveMap
  /\ queue \subseteq Action
  /\ appended \in Nat
  /\ taps \in [Tap -> TapState]
  /\ sync \in SyncState
  /\ ledger \in [ClientId -> Entry]
  /\ calls \in [Request -> HttpCall]
  /\ accepted \subseteq Action /\ refused \subseteq Action

Init ==
  /\ session = [user |-> NoUser, valid |-> FALSE]
  /\ shell = FALSE
  /\ active = NothingActive
  /\ queue = {}
  /\ appended = 0
  /\ taps = [t \in Tap |-> NewTap]
  /\ sync = Idle
  /\ accepted = {} /\ refused = {}
  /\ Server!Init

-----------------------------------------------------------------------------
(* A bug ReplayFaithful must catch: last in, first out. *)
Newest(actions) == CHOOSE a \in actions : \A b \in actions : a.place >= b.place

Oldest(actions) == CHOOSE a \in actions : \A b \in actions : a.place <= b.place

(* queue.add *)
Enqueue(op, client) ==
  LET a == [place |-> appended + 1, op |-> op, client |-> client] IN
  /\ queue' = queue \cup {a}
  /\ accepted' = accepted \cup {a}
  /\ appended' = appended + 1
  /\ UNCHANGED refused

Authorized == session.user # NoUser /\ session.valid

(* A connection that is not carrying a call somebody waits for. *)
Free(r) == \/ calls[r].op = "none"
           \/ calls[r].code # 0 /\ sync.sent # r

Post(r, op, client) ==
  /\ Authorized
  /\ Free(r)
  /\ \E code \in {0, 400} :       \* 400 at once: the login is not linked
       calls' = [calls EXCEPT ![r] = [op |-> op, client |-> client,
                                      employee |-> session.user, code |-> code]]
  /\ UNCHANGED ledger

(* sync() returns at once while a loop is running, or when there is nothing *)
(* to send.                                                                 *)
StartSync ==
  sync' = IF sync.on \/ queue = {} THEN sync ELSE [Idle EXCEPT !.on = TRUE, !.rest = queue]

-----------------------------------------------------------------------------
(* Session and screens. *)

SignIn(u) ==
  /\ session.user = NoUser
  /\ session' = [user |-> u, valid |-> TRUE]
  /\ UNCHANGED <<shell, taps, sync, storeVars, serverVars>>

TokenExpires ==
  /\ session.valid
  /\ session' = [session EXCEPT !.valid = FALSE]
  /\ UNCHANGED <<shell, taps, sync, storeVars, serverVars>>

(* The queue and the active map stay. *)
SignOut ==
  /\ shell
  /\ session' = [user |-> NoUser, valid |-> FALSE]
  /\ shell' = FALSE
  /\ UNCHANGED <<taps, sync, storeVars, serverVars>>

OpenShell ==
  /\ session.user # NoUser /\ ~ shell
  /\ shell' = TRUE
  /\ StartSync
  /\ UNCHANGED <<session, taps, storeVars, serverVars>>

(* FieldData.load reads shifts and locations, and the shell signs out when *)
(* the answer is 401.  Nothing else that this module sees changes.          *)
PullToRefresh ==
  IF session.valid THEN UNCHANGED vars ELSE SignOut

(* The app dies with whatever it was doing; what was saved stays. *)
Kill ==
  /\ shell' = FALSE
  /\ taps' = [t \in Tap |-> IF taps[t].pc = "idle" THEN taps[t]
                                                   ELSE [NewTap EXCEPT !.pc = "done"]]
  /\ sync' = Idle
  /\ UNCHANGED <<session, storeVars, serverVars>>

-----------------------------------------------------------------------------
(* checkIn and checkOut. *)

Used(c) == \/ \E s \in Slot : active[s] = c
           \/ \E t \in Tap : taps[t].client = c
           \/ \E a \in accepted : a.client = c

TapCheckIn(t, s, c) ==
  /\ shell /\ taps[t].pc = "idle"
  /\ ~ Used(c)
  /\ active' = [active EXCEPT ![s] = c]
  /\ taps' = [taps EXCEPT ![t] = [NewTap EXCEPT !.pc = "enqueue", !.slot = s, !.client = c]]
  /\ UNCHANGED <<session, shell, queue, appended, sync, serverVars, accepted, refused>>

EnqueueCheckIn(t) ==
  /\ taps[t].pc = "enqueue"
  /\ Enqueue("checkIn", taps[t].client)
  /\ taps' = [taps EXCEPT ![t].pc = "kick"]
  /\ UNCHANGED <<session, shell, active, sync, serverVars>>

(* The map read here is the one written back below. *)
TapCheckOut(t, s) ==
  /\ shell /\ taps[t].pc = "idle"
  /\ active[s] # NoClient
  /\ Enqueue("checkOut", active[s])
  /\ taps' = [taps EXCEPT ![t] = [NewTap EXCEPT !.pc = "clear", !.slot = s, !.client = active[s],
                                                !.map = active]]
  /\ UNCHANGED <<session, shell, active, sync, serverVars>>

(* A bug TypeOK must catch: the shift itself leaves the map. *)
ForgetSlot(t) ==
  /\ taps[t].pc = "clear"
  /\ active' = [s \in Slot \ {taps[t].slot} |-> taps[t].map[s]]
  /\ taps' = [taps EXCEPT ![t].pc = "kick"]
  /\ UNCHANGED <<session, shell, queue, appended, sync, serverVars, accepted, refused>>

ClearActive(t) ==
  /\ taps[t].pc = "clear"
  /\ active' = [taps[t].map EXCEPT ![taps[t].slot] = NoClient]
  /\ taps' = [taps EXCEPT ![t].pc = "kick"]
  /\ UNCHANGED <<session, shell, queue, appended, sync, serverVars, accepted, refused>>

KickSync(t) ==
  /\ taps[t].pc = "kick"
  /\ StartSync
  /\ taps' = [taps EXCEPT ![t] = [NewTap EXCEPT !.pc = "done"]]
  /\ UNCHANGED <<session, shell, storeVars, serverVars>>

(* Breaks are not queued: the call is made at once or not at all. *)
SetBreak(t, s, op) ==
  /\ shell /\ taps[t].pc = "idle"
  /\ active[s] # NoClient
  /\ \E r \in Request : Post(r, op, active[s])
  /\ taps' = [taps EXCEPT ![t].pc = "done"]
  /\ UNCHANGED <<session, shell, sync, storeVars>>

-----------------------------------------------------------------------------
(* The sync loop. *)

Succeeded(code) == code \in {200, 201}

(* A bug QueueDrains must catch: a validation error is retried for ever. *)
TerminalButValidation(code) == code \in 401..499

Terminal(code) == code \in 400..499

(* The action at hand leaves the queue and the loop goes on to the next. *)
Settle(a, wasRefused) ==
  /\ queue' = queue \ {a}
  /\ sync' = [sync EXCEPT !.rest = @ \ {a}, !.sent = NoRequest]
  /\ refused' = IF wasRefused THEN refused \cup {a} ELSE refused
  /\ UNCHANGED <<active, appended, accepted>>

SyncSend ==
  LET a == Oldest(sync.rest) IN
  /\ sync.on /\ sync.rest # {} /\ sync.sent = NoRequest
  /\ \E r \in Request : Post(r, a.op, a.client) /\ sync' = [sync EXCEPT !.sent = r]
  /\ UNCHANGED <<session, shell, taps, storeVars>>

(* Without a good token the API answers 401 before it looks at the call. *)
SyncUnauthorized ==
  /\ sync.on /\ sync.rest # {} /\ sync.sent = NoRequest
  /\ ~ Authorized
  /\ Settle(Oldest(sync.rest), TRUE)
  /\ UNCHANGED <<session, shell, taps, serverVars>>

SyncAnswered ==
  /\ sync.on /\ sync.sent # NoRequest
  /\ LET code == calls[sync.sent].code IN
       /\ Succeeded(code) \/ Terminal(code)
       /\ Settle(Oldest(sync.rest), Terminal(code))
  /\ UNCHANGED <<session, shell, taps, serverVars>>

(* 5xx: the rest waits for the next sync. *)
SyncServerError ==
  /\ sync.on /\ sync.sent # NoRequest /\ calls[sync.sent].code = 500
  /\ sync' = Idle
  /\ UNCHANGED <<session, shell, taps, storeVars, serverVars>>

(* A bug NothingForgotten must catch: the action at hand is given up. *)
SyncGivesUp ==
  /\ sync.on /\ sync.rest # {}
  /\ sync' = Idle
  /\ queue' = queue \ {Oldest(sync.rest)}
  /\ UNCHANGED <<session, shell, active, appended, taps, serverVars, accepted, refused>>

(* So it does when there is no network, or an answer is lost.  A call that  *)
(* was made may still reach the server.                                     *)
SyncBreaks ==
  /\ sync.on /\ sync.rest # {}
  /\ sync' = Idle
  /\ UNCHANGED <<session, shell, taps, storeVars, serverVars>>

SyncEnds ==
  /\ sync.on /\ sync.rest = {}
  /\ sync' = Idle
  /\ UNCHANGED <<session, shell, taps, storeVars, serverVars>>

-----------------------------------------------------------------------------
ServerStep(r) ==
  /\ \/ Server!Open(r) \/ Server!Close(r) \/ Server!Toggle(r) \/ Server!Replay(r)
     \/ \E code \in {400, 404, 409, 500} : Server!Refuse(r, code)
  /\ UNCHANGED <<session, shell, taps, sync, storeVars>>

Next ==
  \/ \E u \in User : SignIn(u)
  \/ TokenExpires \/ SignOut \/ OpenShell \/ PullToRefresh \/ Kill
  \/ \E t \in Tap, s \in Slot :
       \/ \E c \in ClientId : TapCheckIn(t, s, c)
       \/ TapCheckOut(t, s)
       \/ SetBreak(t, s, "breakOn") \/ SetBreak(t, s, "breakOff")
  \/ \E t \in Tap : EnqueueCheckIn(t) \/ ClearActive(t) \/ KickSync(t)
  \/ SyncSend \/ SyncUnauthorized \/ SyncAnswered \/ SyncServerError \/ SyncBreaks
  \/ SyncEnds
  \/ \E r \in Request : ServerStep(r)

Spec == Init /\ [][Next]_vars

(* The isolate runs what it has started, and the server answers what        *)
(* reaches it.  The network is bad at times, not for ever: if calls are     *)
(* made again and again, again and again one gets through to a server that  *)
(* does not fail, and its answer comes back.  Nobody is obliged to sign in, *)
(* tap, refresh or open the app.                                            *)
GetsThrough == \E r \in Request : sync.sent = r /\ ServerStep(r) /\ calls'[r].code # 500

Fairness ==
  /\ \A t \in Tap : WF_vars(EnqueueCheckIn(t) \/ ClearActive(t) \/ KickSync(t))
  /\ WF_vars(SyncServerError \/ SyncEnds)
  /\ \A r \in Request : WF_vars(ServerStep(r))
  /\ SF_vars(SyncSend \/ SyncUnauthorized)
  /\ SF_vars(GetsThrough)
  /\ SF_vars(SyncAnswered)

FairSpec == Spec /\ Fairness

-----------------------------------------------------------------------------
(* What the server shows of an action that got there. *)
TookEffect(a) ==
  IF a.op = "checkIn" THEN ledger[a.client].phase # "absent"
                      ELSE ledger[a.client].phase = "left"

(* Whatever the network loses and whenever the app dies, a queued action   *)
(* is still queued, or has taken effect, or was answered 4xx.               *)
NothingForgotten ==
  \A a \in accepted : a \in queue \/ TookEffect(a) \/ a \in refused

(* The queue keeps its order on the wire: a check-out that was queued after *)
(* its check-in is sent when that has taken effect or was turned down.      *)
CheckInFirst ==
  \A r \in Request, a, b \in accepted :
    /\ a.op = "checkIn" /\ b.op = "checkOut" /\ a.place < b.place
    /\ a.client = b.client /\ calls[r].op = "checkOut" /\ calls[r].client = b.client
    => \/ a \in refused \/ TookEffect(a)
       \/ \E x \in accepted : x.op = "checkOut" /\ x.client = a.client /\ x.place < a.place

(* Calls that arrive late or twice make nothing up: what the ledger shows   *)
(* was queued.                                                              *)
NothingInvented ==
  \A c \in ClientId :
    /\ ledger[c].phase # "absent" => \E a \in accepted : a.op = "checkIn" /\ a.client = c
    /\ ledger[c].phase = "left" => \E a \in accepted : a.op = "checkOut" /\ a.client = c

(* The server is told what the phone queued, in the order it was queued,    *)
(* whatever is lost, repeated or interrupted on the way.                    *)
ReplayFaithful == CheckInFirst /\ NothingInvented

(* As long as sync is started again and again, the queue is drained. *)
QueueDrains == []<>(sync.on) => []<>(queue = {})
=============================================================================
