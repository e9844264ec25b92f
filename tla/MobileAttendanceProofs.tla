----------------------- MODULE MobileAttendanceProofs -----------------------
(***************************************************************************)
(* Theorems about the field app's offline queue, for any number of taps,   *)
(* shifts, people and calls in flight.                                     *)
(***************************************************************************)
EXTENDS MobileAttendance, WellFoundedInduction, TLAPS

-----------------------------------------------------------------------------
(* The inductive invariant.                                                 *)

(* Actions are numbered as they were queued.                                *)
Numbered ==
  /\ queue \subseteq accepted
  /\ \A a \in accepted : a.place <= appended
  /\ \A a, b \in accepted : a.place = b.place => a = b

(* A tap that is about to queue a check-in has made its client id, and a    *)
(* call names whose attendance it is about.                                 *)
ClientsKnown ==
  /\ \A t \in Tap : taps[t].pc = "enqueue" => taps[t].client \in ClientId
  /\ \A r \in Request : calls[r].op # "none" => calls[r].client \in ClientId

(* What the loop still has to send is older than anything else that is      *)
(* queued, and the call it waits for is about the oldest of it.             *)
LoopSound ==
  /\ sync.rest \subseteq queue
  /\ \A a \in sync.rest, b \in queue \ sync.rest : a.place < b.place
  /\ sync.sent # NoRequest =>
       /\ sync.rest # {}
       /\ calls[sync.sent].op = Oldest(sync.rest).op
       /\ calls[sync.sent].client = Oldest(sync.rest).client

(* Calls about the queue stem from it.                                      *)
CallsQueued ==
  \A r \in Request : calls[r].op \in {"checkIn", "checkOut"} =>
    \E a \in accepted : a.op = calls[r].op /\ a.client = calls[r].client

(* What was answered with success has happened and stays so.                *)
AnswersTrue ==
  \A r \in Request : Succeeded(calls[r].code) =>
    /\ calls[r].op = "checkIn" => ledger[calls[r].client].phase # "absent"
    /\ calls[r].op = "checkOut" => ledger[calls[r].client].phase = "left"

IInv ==
  /\ TypeOK /\ Numbered /\ ClientsKnown /\ LoopSound /\ CallsQueued /\ AnswersTrue
  /\ NothingForgotten /\ CheckInFirst /\ NothingInvented

-----------------------------------------------------------------------------
(* The oldest of some actions. *)

LEMMA Least == ASSUME NEW S \in SUBSET Nat, S # {} PROVE \E n \in S : \A m \in S : n <= m
<1> DEFINE R == {ss \in Nat \X Nat : ss[1] < ss[2]}
<1>1. R = OpToRel(<, Nat)
  BY Zenon DEF OpToRel
<1>2. IsWellFoundedOn(R, Nat)
  BY <1>1, NatLessThanWellFounded, Zenon
<1> HIDE DEF R
<1>3. PICK n \in S : \A m \in S : ~(<<m, n>> \in R)
  BY <1>2, WFMin, Zenon
<1>4. ASSUME NEW m \in S PROVE n <= m
  <2>1. m \in Nat /\ n \in Nat /\ <<m, n>> \in Nat \X Nat
    OBVIOUS
  <2>2. m < n => <<m, n>> \in R
    BY <2>1 DEF R
  <2> QED
    BY <1>3, <2>1, <2>2
<1> QED
  BY <1>4

LEMMA OldestIs ==
  ASSUME NEW S \in SUBSET Action, S # {}
  PROVE  Oldest(S) \in S /\ \A b \in S : Oldest(S).place <= b.place
<1>1. {a.place : a \in S} \in SUBSET Nat /\ {a.place : a \in S} # {}
  BY DEF Action
<1>2. PICK n \in {a.place : a \in S} : \A m \in {a.place : a \in S} : n <= m
  BY <1>1, Least
<1>3. \E a \in S : \A b \in S : a.place <= b.place
  BY <1>2
<1> QED
  BY <1>3 DEF Oldest

-----------------------------------------------------------------------------
LEMMA Values ==
  /\ NewTap \in TapState /\ NothingActive \in ActiveMap
  /\ NewTap.pc = "idle" /\ Idle.rest = {} /\ Idle.sent = NoRequest
  /\ Idle \in SyncState
<1>1. NothingActive \in ActiveMap
  BY DEF NothingActive, ActiveMap
<1>2. (CHOOSE s \in Slot : TRUE) \in Slot
  BY MobileAssumption DEF MobileAssumption
<1> QED
  BY <1>1, <1>2 DEF NewTap, TapState, Idle, SyncState

LEMMA InitInv == Init => IInv
<1> SUFFICES ASSUME Init PROVE IInv
  OBVIOUS
<1>1. /\ ledger = [c \in ClientId |-> [phase |-> "absent", employee |-> NoUser]]
      /\ calls = [r \in Request |-> [op |-> "none", client |-> NoClient,
                                     employee |-> NoUser, code |-> 0]]
  BY DEF Init, Server!Init, Server!Absent
<1>2. 0 \in Code /\ ~Succeeded(0)
  BY DEF Code, Succeeded
<1>3. calls \in [Request -> HttpCall]
  BY <1>1, <1>2 DEF HttpCall
<1>4. ledger \in [ClientId -> Entry]
  BY <1>1 DEF Entry
<1>5. TypeOK
  BY <1>3, <1>4, Values DEF Init, TypeOK
<1>6. accepted = {} /\ queue = {} /\ sync.rest = {} /\ sync.sent = NoRequest
  BY Values DEF Init
<1>7. \A t \in Tap : taps[t].pc = "idle"
  BY Values DEF Init
<1>8. \A r \in Request : calls[r].op = "none" /\ ~Succeeded(calls[r].code)
  BY <1>1, <1>2
<1>9. \A c \in ClientId : ledger[c].phase = "absent"
  BY <1>1
<1>10. Numbered /\ ClientsKnown /\ LoopSound /\ NothingForgotten
  BY <1>6, <1>7, <1>8 DEF Numbered, ClientsKnown, LoopSound, NothingForgotten
<1>11. CallsQueued /\ AnswersTrue /\ CheckInFirst /\ NothingInvented
  BY <1>6, <1>8, <1>9 DEF CallsQueued, AnswersTrue, CheckInFirst, NothingInvented
<1> QED
  BY <1>5, <1>10, <1>11 DEF IInv

-----------------------------------------------------------------------------
(* What a step leaves alone. *)

LEMMA RestKept ==
  ASSUME IInv, UNCHANGED <<queue, appended, accepted, refused, ledger, calls>>,
         TypeOK', ClientsKnown', LoopSound'
  PROVE  IInv'
<1>1. Numbered' /\ CallsQueued' /\ AnswersTrue'
  BY DEF IInv, Numbered, CallsQueued, AnswersTrue
<1>2. NothingForgotten' /\ NothingInvented'
  BY DEF IInv, NothingForgotten, NothingInvented, TookEffect
<1>3. CheckInFirst'
  BY DEF IInv, CheckInFirst, TookEffect
<1> QED
  BY <1>1, <1>2, <1>3 DEF IInv

LEMMA TapsKept ==
  ASSUME IInv, UNCHANGED <<queue, appended, accepted, refused, ledger, calls, taps>>,
         TypeOK', LoopSound'
  PROVE  IInv'
<1>1. ClientsKnown'
  BY DEF IInv, ClientsKnown
<1> QED
  BY <1>1, RestKept

LEMMA LoopKept ==
  ASSUME LoopSound, UNCHANGED <<queue, calls, sync>>
  PROVE  LoopSound'
BY DEF LoopSound

LEMMA StartSyncSound ==
  ASSUME TypeOK, LoopSound, StartSync, UNCHANGED <<queue, calls>>
  PROVE  LoopSound' /\ sync' \in SyncState
<1>1. CASE sync' = sync
  BY <1>1 DEF TypeOK, LoopSound
<1>2. CASE sync' = [Idle EXCEPT !.on = TRUE, !.rest = queue]
  <2>1. sync'.rest = queue /\ sync'.sent = NoRequest /\ sync' \in SyncState
    BY <1>2 DEF Idle, SyncState, TypeOK
  <2> QED
    BY <2>1 DEF LoopSound
<1> QED
  BY <1>1, <1>2 DEF StartSync

LEMMA IdleSound ==
  ASSUME sync' = Idle
  PROVE  sync' \in SyncState /\ (queue' = queue => LoopSound')
<1>1. sync' \in SyncState /\ sync'.rest = {} /\ sync'.sent = NoRequest
  BY Values
<1> QED
  BY <1>1 DEF LoopSound

-----------------------------------------------------------------------------
(* Session and screens. *)

LEMMA SessionInv ==
  ASSUME IInv,
         \/ \E u \in User : SignIn(u)
         \/ TokenExpires \/ SignOut
  PROVE  IInv'
<1>1. UNCHANGED <<queue, appended, accepted, refused, ledger, calls, taps, sync, active>>
  BY DEF SignIn, TokenExpires, SignOut, storeVars, serverVars
<1>0. session \in [user : User \cup {NoUser}, valid : BOOLEAN] /\ shell \in BOOLEAN
  BY DEF IInv, TypeOK
<1>2. session' \in [user : User \cup {NoUser}, valid : BOOLEAN] /\ shell' \in BOOLEAN
  <2>1. ASSUME NEW u \in User, SignIn(u) PROVE session' \in [user : User \cup {NoUser}, valid : BOOLEAN] /\ shell' \in BOOLEAN
    BY <1>0, <2>1 DEF SignIn
  <2>2. ASSUME TokenExpires PROVE session' \in [user : User \cup {NoUser}, valid : BOOLEAN] /\ shell' \in BOOLEAN
    BY <1>0, <2>2 DEF TokenExpires
  <2>3. ASSUME SignOut PROVE session' \in [user : User \cup {NoUser}, valid : BOOLEAN] /\ shell' \in BOOLEAN
    BY <2>3 DEF SignOut
  <2> QED
    BY <2>1, <2>2, <2>3
<1>3. TypeOK'
  BY <1>1, <1>2 DEF IInv, TypeOK
<1>4. LoopSound'
  BY <1>1, LoopKept DEF IInv
<1> QED
  BY <1>1, <1>3, <1>4, TapsKept

LEMMA OpenShellInv == ASSUME IInv, OpenShell PROVE IInv'
<1>1. UNCHANGED <<queue, appended, accepted, refused, ledger, calls, taps, active, session>>
  BY DEF OpenShell, storeVars, serverVars
<1>2. LoopSound' /\ sync' \in SyncState
  BY <1>1, StartSyncSound DEF IInv, OpenShell
<1>3. TypeOK'
  BY <1>1, <1>2 DEF IInv, TypeOK, OpenShell
<1> QED
  BY <1>1, <1>2, <1>3, TapsKept

LEMMA KillInv == ASSUME IInv, Kill PROVE IInv'
<1>1. UNCHANGED <<queue, appended, accepted, refused, ledger, calls, active, session>>
  BY DEF Kill, storeVars, serverVars
<1>2. LoopSound' /\ sync' \in SyncState
  BY <1>1, IdleSound DEF Kill
<1>3. /\ [NewTap EXCEPT !.pc = "done"] \in TapState
      /\ [NewTap EXCEPT !.pc = "done"].pc = "done"
  BY Values DEF TapState
<1>4. taps' = [t \in Tap |-> IF taps[t].pc = "idle" THEN taps[t]
                                                  ELSE [NewTap EXCEPT !.pc = "done"]]
  BY DEF Kill
<1>5. taps' \in [Tap -> TapState] /\ \A t \in Tap : taps'[t].pc # "enqueue"
  BY <1>3, <1>4 DEF IInv, TypeOK
<1>6. TypeOK'
  BY <1>1, <1>2, <1>5 DEF IInv, TypeOK, Kill
<1>7. ClientsKnown'
  BY <1>1, <1>5 DEF IInv, ClientsKnown
<1> QED
  BY <1>1, <1>2, <1>6, <1>7, RestKept

-----------------------------------------------------------------------------
(* The steps of a tap.                                                      *)

LEMMA TapFields ==
  ASSUME TypeOK, NEW t \in Tap, NEW to \in TapState, taps' = [taps EXCEPT ![t] = to]
  PROVE  taps' \in [Tap -> TapState] /\ taps'[t] = to /\ \A u \in Tap \ {t} : taps'[u] = taps[u]
BY DEF TypeOK

LEMMA ToPc ==
  ASSUME TypeOK, NEW t \in Tap, NEW pc \in {"kick", "done"},
         taps' = [taps EXCEPT ![t].pc = pc]
  PROVE  taps' = [taps EXCEPT ![t] = [taps[t] EXCEPT !.pc = pc]]
         /\ [taps[t] EXCEPT !.pc = pc] \in TapState
         /\ [taps[t] EXCEPT !.pc = pc].pc = pc
<1>1. taps[t] \in TapState /\ taps \in [Tap -> TapState]
  BY DEF TypeOK
<1> QED
  BY <1>1 DEF TapState

LEMMA TapClientsKnown ==
  ASSUME TypeOK, ClientsKnown, NEW t \in Tap, NEW to \in TapState,
         taps' = [taps EXCEPT ![t] = to],
         to.pc = "enqueue" => to.client \in ClientId, UNCHANGED calls
  PROVE  ClientsKnown'
BY TapFields DEF ClientsKnown

LEMMA TapCheckInInv ==
  ASSUME IInv, NEW t \in Tap, NEW s \in Slot, NEW c \in ClientId, TapCheckIn(t, s, c)
  PROVE  IInv'
<1> DEFINE to == [NewTap EXCEPT !.pc = "enqueue", !.slot = s, !.client = c]
<1>1. UNCHANGED <<queue, appended, accepted, refused, ledger, calls, sync, session, shell>>
  BY DEF TapCheckIn, serverVars
<1>2. to \in TapState /\ to.client = c
  BY Values DEF TapState
<1>3. taps' = [taps EXCEPT ![t] = to]
  BY DEF TapCheckIn
<1> HIDE DEF to
<1>4. taps' \in [Tap -> TapState] /\ ClientsKnown'
  BY <1>1, <1>2, <1>3, TapFields, TapClientsKnown DEF IInv
<1>5. active' \in ActiveMap
  BY DEF TapCheckIn, IInv, TypeOK, ActiveMap
<1>6. TypeOK'
  BY <1>1, <1>4, <1>5 DEF IInv, TypeOK
<1>7. LoopSound'
  BY <1>1, LoopKept DEF IInv
<1> QED
  BY <1>1, <1>4, <1>6, <1>7, RestKept

LEMMA ClearActiveInv == ASSUME IInv, NEW t \in Tap, ClearActive(t) PROVE IInv'
<1>1. UNCHANGED <<queue, appended, accepted, refused, ledger, calls, sync, session, shell>>
  BY DEF ClearActive, serverVars
<1>2. taps' \in [Tap -> TapState] /\ ClientsKnown'
  BY <1>1, ToPc, TapFields, TapClientsKnown DEF IInv, ClearActive
<1>3. taps[t].map \in ActiveMap /\ taps[t].slot \in Slot
  BY DEF IInv, TypeOK, TapState
<1>4. active' \in ActiveMap
  BY <1>3 DEF ClearActive, ActiveMap
<1>5. TypeOK'
  BY <1>1, <1>2, <1>4 DEF IInv, TypeOK
<1>6. LoopSound'
  BY <1>1, LoopKept DEF IInv
<1> QED
  BY <1>1, <1>2, <1>5, <1>6, RestKept

LEMMA KickSyncInv == ASSUME IInv, NEW t \in Tap, KickSync(t) PROVE IInv'
<1> DEFINE to == [NewTap EXCEPT !.pc = "done"]
<1>1. UNCHANGED <<queue, appended, accepted, refused, ledger, calls, active, session, shell>>
  BY DEF KickSync, serverVars, storeVars
<1>2. LoopSound' /\ sync' \in SyncState
  BY <1>1, StartSyncSound DEF IInv, KickSync
<1>3. to \in TapState /\ to.pc = "done"
  BY Values DEF TapState
<1>4. taps' = [taps EXCEPT ![t] = to]
  BY DEF KickSync
<1> HIDE DEF to
<1>5. taps' \in [Tap -> TapState] /\ ClientsKnown'
  BY <1>1, <1>3, <1>4, TapFields, TapClientsKnown DEF IInv
<1>6. TypeOK'
  BY <1>1, <1>2, <1>5 DEF IInv, TypeOK
<1> QED
  BY <1>1, <1>2, <1>5, <1>6, RestKept

-----------------------------------------------------------------------------
(* An action joins the queue, as the youngest of all.                       *)

LEMMA Enqueued ==
  ASSUME IInv, NEW op \in {"checkIn", "checkOut"}, NEW client \in ClientId,
         Enqueue(op, client), UNCHANGED <<sync, ledger, calls>>
  PROVE  /\ Numbered' /\ LoopSound' /\ CallsQueued' /\ AnswersTrue'
         /\ NothingForgotten' /\ CheckInFirst' /\ NothingInvented'
         /\ queue' \subseteq Action /\ accepted' \subseteq Action /\ appended' \in Nat
         /\ UNCHANGED refused
<1> DEFINE new == [place |-> appended + 1, op |-> op, client |-> client]
<1>1. /\ queue' = queue \cup {new} /\ accepted' = accepted \cup {new}
      /\ appended' = appended + 1 /\ UNCHANGED refused
  BY DEF Enqueue
<1>2. appended \in Nat /\ queue \subseteq Action /\ accepted \subseteq Action
  BY DEF IInv, TypeOK
<1>3. new \in Action /\ new.op = op /\ new.client = client /\ new.place = appended + 1
  BY <1>2 DEF Action
<1> HIDE DEF new
<1>4. \A a \in accepted : a.place \in Nat /\ a.place < new.place
  BY <1>2, <1>3 DEF IInv, Numbered, Action
<1>5. new \notin accepted /\ queue \subseteq accepted
  BY <1>4 DEF IInv, Numbered
<1>6. Numbered'
  <2>1. \A a \in accepted' : a.place <= appended'
    BY <1>1, <1>2, <1>3, <1>4
  <2>2. \A a, b \in accepted' : a.place = b.place => a = b
    BY <1>1, <1>2, <1>3, <1>4 DEF IInv, Numbered
  <2> QED
    BY <1>1, <1>5, <2>1, <2>2 DEF Numbered
<1>7. LoopSound'
  <2>1. sync.rest \subseteq queue /\ \A a \in sync.rest, b \in queue \ sync.rest : a.place < b.place
    BY DEF IInv, LoopSound
  <2>2. \A a \in sync.rest, b \in queue' \ sync.rest : a.place < b.place
    BY <2>1, <1>1, <1>4, <1>5
  <2> QED
    BY <2>1, <2>2, <1>1 DEF IInv, LoopSound
<1>8. CallsQueued' /\ AnswersTrue' /\ NothingInvented'
  BY <1>1 DEF IInv, CallsQueued, AnswersTrue, NothingInvented
<1>9. NothingForgotten'
  BY <1>1 DEF IInv, NothingForgotten, TookEffect
<1>10. CheckInFirst'
  <2> SUFFICES ASSUME NEW r \in Request, NEW a \in accepted', NEW b \in accepted',
                      a.op = "checkIn", b.op = "checkOut", a.place < b.place,
                      a.client = b.client, calls[r].op = "checkOut",
                      calls[r].client = b.client
               PROVE  \/ a \in refused \/ TookEffect(a)
                      \/ \E x \in accepted' : /\ x.op = "checkOut" /\ x.client = a.client
                                              /\ x.place < a.place
    BY <1>1 DEF CheckInFirst, TookEffect
  <2>1. accepted \subseteq accepted'
    BY <1>1
  <2>2. PICK x \in accepted : x.op = "checkOut" /\ x.client = a.client
    BY DEF IInv, CallsQueued
  <2>3. a \in accepted
    <3>1. CASE b = new
      BY <3>1, <1>1
    <3>2. CASE b \in accepted /\ a = new
      BY <3>2, <1>2, <1>3, <1>4
    <3> QED
      BY <3>1, <3>2, <1>1
  <2>4. a.place \in Nat /\ x.place \in Nat /\ x # a
    BY <2>2, <2>3, <1>4
  <2>5. CASE x.place < a.place
    BY <2>5, <2>1, <2>2
  <2>6. CASE a.place < x.place
    BY <2>6, <2>1, <2>2, <2>3 DEF IInv, CheckInFirst
  <2>7. x.place # a.place
    BY <2>2, <2>3, <2>4 DEF IInv, Numbered
  <2> QED
    BY <2>4, <2>5, <2>6, <2>7
<1> QED
  BY <1>1, <1>2, <1>3, <1>6, <1>7, <1>8, <1>9, <1>10

LEMMA EnqueueCheckInInv == ASSUME IInv, NEW t \in Tap, EnqueueCheckIn(t) PROVE IInv'
<1>1. UNCHANGED <<sync, ledger, calls, session, shell, active>>
  BY DEF EnqueueCheckIn, serverVars
<1>2. taps[t].client \in ClientId
  BY DEF IInv, ClientsKnown, EnqueueCheckIn
<1>3. Enqueue("checkIn", taps[t].client)
  BY DEF EnqueueCheckIn
<1>4. taps' \in [Tap -> TapState] /\ ClientsKnown'
  BY <1>1, ToPc, TapFields, TapClientsKnown DEF IInv, EnqueueCheckIn
<1>5. TypeOK'
  BY <1>1, <1>2, <1>3, <1>4, Enqueued DEF IInv, TypeOK
<1> QED
  BY <1>1, <1>2, <1>3, <1>4, <1>5, Enqueued DEF IInv

LEMMA TapCheckOutInv ==
  ASSUME IInv, NEW t \in Tap, NEW s \in Slot, TapCheckOut(t, s)
  PROVE  IInv'
<1> DEFINE to == [NewTap EXCEPT !.pc = "clear", !.slot = s, !.client = active[s],
                                !.map = active]
<1>1. UNCHANGED <<sync, ledger, calls, session, shell, active>>
  BY DEF TapCheckOut, serverVars
<1>2. active \in ActiveMap /\ active[s] \in ClientId
  BY DEF IInv, TypeOK, ActiveMap, TapCheckOut
<1>3. Enqueue("checkOut", active[s])
  BY DEF TapCheckOut
<1>4. to \in TapState /\ to.pc = "clear"
  BY <1>2, Values DEF TapState
<1>5. taps' = [taps EXCEPT ![t] = to]
  BY DEF TapCheckOut
<1> HIDE DEF to
<1>6. taps' \in [Tap -> TapState] /\ ClientsKnown'
  BY <1>1, <1>4, <1>5, TapFields, TapClientsKnown DEF IInv
<1>7. TypeOK'
  BY <1>1, <1>2, <1>3, <1>6, Enqueued DEF IInv, TypeOK
<1> QED
  BY <1>1, <1>2, <1>3, <1>6, <1>7, Enqueued DEF IInv

-----------------------------------------------------------------------------
(* A call is made.                                                          *)

LEMMA Posted ==
  ASSUME IInv, NEW r \in Request, NEW op \in {"checkIn", "checkOut", "breakOn", "breakOff"},
         NEW client \in ClientId, Post(r, op, client)
  PROVE  /\ calls' \in [Request -> HttpCall] /\ UNCHANGED ledger
         /\ calls'[r].op = op /\ calls'[r].client = client /\ ~Succeeded(calls'[r].code)
         /\ \A q \in Request \ {r} : calls'[q] = calls[q]
         /\ sync.sent # r
<1>1. PICK code \in {0, 400} :
        calls' = [calls EXCEPT ![r] = [op |-> op, client |-> client,
                                       employee |-> session.user, code |-> code]]
  BY DEF Post
<1>2. code \in Code /\ ~Succeeded(code)
  BY <1>1 DEF Code, Succeeded
<1> DEFINE call == [op |-> op, client |-> client, employee |-> session.user, code |-> code]
<1>3. session.user \in User \cup {NoUser}
  BY DEF IInv, TypeOK
<1>4. call \in HttpCall /\ call.op = op /\ call.client = client /\ call.code = code
  BY <1>2, <1>3 DEF HttpCall
<1>5. calls' = [calls EXCEPT ![r] = call] /\ calls \in [Request -> HttpCall]
  BY <1>1 DEF IInv, TypeOK
<1> HIDE DEF call
<1>6. sync.sent # r
  <2> SUFFICES ASSUME sync.sent = r PROVE FALSE
    OBVIOUS
  <2>1. r # NoRequest
    BY MobileAssumption DEF MobileAssumption
  <2>2. sync.rest \in SUBSET Action /\ sync.rest # {} /\ calls[r].op = Oldest(sync.rest).op
    BY <2>1 DEF IInv, TypeOK, LoopSound, SyncState
  <2>3. Oldest(sync.rest).op \in {"checkIn", "checkOut"}
    BY <2>2, OldestIs DEF Action
  <2> QED
    BY <2>2, <2>3 DEF Post, Free
<1> QED
  BY <1>2, <1>4, <1>5, <1>6 DEF Post

LEMMA CallKept ==
  ASSUME IInv, NEW r \in Request, NEW op, NEW client \in ClientId,
         UNCHANGED <<queue, accepted, appended, refused, ledger>>,
         calls'[r].op = op, calls'[r].client = client, ~Succeeded(calls'[r].code),
         \A q \in Request \ {r} : calls'[q] = calls[q]
  PROVE  /\ Numbered' /\ AnswersTrue' /\ NothingForgotten' /\ NothingInvented'
         /\ UNCHANGED taps => ClientsKnown'
<1>1. Numbered' /\ NothingForgotten' /\ NothingInvented'
  BY DEF IInv, Numbered, NothingForgotten, NothingInvented, TookEffect
<1>2. AnswersTrue'
  BY DEF IInv, AnswersTrue
<1>3. UNCHANGED taps => ClientsKnown'
  BY DEF IInv, ClientsKnown
<1> QED
  BY <1>1, <1>2, <1>3

LEMMA SetBreakInv ==
  ASSUME IInv, NEW t \in Tap, NEW s \in Slot, NEW op \in {"breakOn", "breakOff"},
         SetBreak(t, s, op)
  PROVE  IInv'
<1>1. UNCHANGED <<sync, queue, accepted, appended, refused, session, shell, active>>
  BY DEF SetBreak, storeVars
<1>2. active[s] \in ClientId
  BY DEF IInv, TypeOK, ActiveMap, SetBreak
<1>3. PICK r \in Request : Post(r, op, active[s])
  BY DEF SetBreak
<1>4. /\ calls' \in [Request -> HttpCall] /\ UNCHANGED ledger
      /\ calls'[r].op = op /\ calls'[r].client = active[s] /\ ~Succeeded(calls'[r].code)
      /\ \A q \in Request \ {r} : calls'[q] = calls[q]
      /\ sync.sent # r
  BY <1>2, <1>3, Posted
<1>5. Numbered' /\ AnswersTrue' /\ NothingForgotten' /\ NothingInvented'
  BY <1>1, <1>2, <1>4, CallKept
<1>6. /\ taps' \in [Tap -> TapState]
      /\ \A u \in Tap : taps'[u].pc = "enqueue" => taps'[u] = taps[u]
  BY ToPc, TapFields DEF IInv, SetBreak
<1>7. ClientsKnown'
  BY <1>2, <1>4, <1>6 DEF IInv, ClientsKnown
<1>8. LoopSound'
  <2>1. sync.sent # NoRequest => sync.sent \in Request \ {r}
    BY <1>4 DEF IInv, TypeOK, SyncState
  <2> QED
    BY <1>1, <1>4, <2>1 DEF IInv, LoopSound
<1>9. CallsQueued'
  BY <1>1, <1>4 DEF IInv, CallsQueued
<1>10. CheckInFirst'
  BY <1>1, <1>4 DEF IInv, CheckInFirst, TookEffect
<1>11. TypeOK'
  BY <1>1, <1>4, <1>6 DEF IInv, TypeOK
<1> QED
  BY <1>5, <1>7, <1>8, <1>9, <1>10, <1>11 DEF IInv

-----------------------------------------------------------------------------
(* The sync loop.                                                           *)

(* The action at hand.                                                      *)
LEMMA AtHand ==
  ASSUME IInv, sync.rest # {}
  PROVE  LET a == Oldest(sync.rest) IN
         /\ a \in sync.rest /\ a \in queue /\ a \in accepted /\ a \in Action
         /\ \A b \in queue : b # a => a.place < b.place
<1> DEFINE a == Oldest(sync.rest)
<1>1. sync.rest \in SUBSET Action /\ sync.rest \subseteq queue /\ queue \subseteq accepted
  BY DEF IInv, TypeOK, SyncState, LoopSound, Numbered
<1>2. a \in sync.rest /\ \A b \in sync.rest : a.place <= b.place
  BY <1>1, OldestIs
<1> HIDE DEF a
<1>3. ASSUME NEW b \in queue, b # a PROVE a.place < b.place
  <2>1. a \in accepted /\ b \in accepted /\ a.place \in Nat /\ b.place \in Nat
    BY <1>1, <1>2 DEF IInv, TypeOK, Action
  <2>2. a.place # b.place
    BY <1>3, <2>1 DEF IInv, Numbered
  <2>3. CASE b \in sync.rest
    BY <1>2, <2>1, <2>2, <2>3
  <2>4. CASE b \in queue \ sync.rest
    BY <1>2, <2>4 DEF IInv, LoopSound
  <2> QED
    BY <2>3, <2>4
<1> QED
  BY <1>1, <1>2, <1>3 DEF a

LEMMA SyncSendInv == ASSUME IInv, SyncSend PROVE IInv'
<1> DEFINE b0 == Oldest(sync.rest)
<1>1. UNCHANGED <<session, shell, taps, queue, accepted, appended, refused, active>>
  BY DEF SyncSend, storeVars
<1>2. /\ b0 \in sync.rest /\ b0 \in queue /\ b0 \in accepted /\ b0 \in Action
      /\ \A b \in queue : b # b0 => b0.place < b.place
  BY AtHand DEF SyncSend
<1>3. PICK r \in Request : Post(r, b0.op, b0.client) /\ sync' = [sync EXCEPT !.sent = r]
  BY DEF SyncSend
<1>4. b0.op \in {"checkIn", "checkOut"} /\ b0.client \in ClientId
  BY <1>2 DEF Action
<1>5. /\ calls' \in [Request -> HttpCall] /\ UNCHANGED ledger
      /\ calls'[r].op = b0.op /\ calls'[r].client = b0.client /\ ~Succeeded(calls'[r].code)
      /\ \A q \in Request \ {r} : calls'[q] = calls[q]
  BY <1>3, <1>4, Posted
<1>6. sync' \in SyncState /\ sync'.rest = sync.rest /\ sync'.sent = r
  <2>1. sync \in SyncState
    BY DEF IInv, TypeOK
  <2> QED
    BY <1>3, <2>1 DEF SyncState
<1>7. LoopSound'
  <2>1. sync'.rest # {} /\ calls'[sync'.sent].op = Oldest(sync'.rest).op
        /\ calls'[sync'.sent].client = Oldest(sync'.rest).client
    BY <1>2, <1>5, <1>6
  <2> QED
    BY <1>1, <1>6, <2>1 DEF IInv, LoopSound
<1> HIDE DEF b0
<1>8. Numbered' /\ AnswersTrue' /\ NothingForgotten' /\ NothingInvented' /\ ClientsKnown'
  BY <1>1, <1>4, <1>5, CallKept
<1>9. CallsQueued'
  BY <1>1, <1>2, <1>5 DEF IInv, CallsQueued
<1>10. TypeOK'
  BY <1>1, <1>5, <1>6 DEF IInv, TypeOK
<1>11. CheckInFirst'
  <2> SUFFICES ASSUME NEW q \in Request, NEW a \in accepted, NEW b \in accepted,
                      a.op = "checkIn", b.op = "checkOut", a.place < b.place,
                      a.client = b.client, calls'[q].op = "checkOut",
                      calls'[q].client = b.client
               PROVE  \/ a \in refused \/ TookEffect(a)
                      \/ \E x \in accepted : /\ x.op = "checkOut" /\ x.client = a.client
                                             /\ x.place < a.place
    BY <1>1, <1>5 DEF CheckInFirst, TookEffect
  <2>1. CASE q # r
    BY <2>1, <1>5 DEF IInv, CheckInFirst
  <2>2. CASE q = r
    <3>1. b0.op = "checkOut" /\ b0.client = a.client
      BY <2>2, <1>5
    <3>2. a.place \in Nat /\ b0.place \in Nat
      BY <1>2 DEF IInv, TypeOK, Action
    <3>3. CASE b0.place < a.place
      BY <3>1, <3>3, <1>2
    <3>4. CASE ~(b0.place < a.place)
      <4>1. a \notin queue
        BY <1>2, <3>1, <3>4
      <4> QED
        BY <4>1 DEF IInv, NothingForgotten
    <3> QED
      BY <3>3, <3>4
  <2> QED
    BY <2>1, <2>2
<1> QED
  BY <1>7, <1>8, <1>9, <1>10, <1>11 DEF IInv

LEMMA SettleInv ==
  ASSUME IInv, sync.rest # {}, NEW wasRefused \in BOOLEAN,
         Settle(Oldest(sync.rest), wasRefused),
         ~wasRefused => TookEffect(Oldest(sync.rest)),
         UNCHANGED <<session, shell, taps, serverVars>>
  PROVE  IInv'
<1> DEFINE a == Oldest(sync.rest)
<1>1. UNCHANGED <<session, shell, taps, ledger, calls, active, appended, accepted>>
  BY DEF Settle, serverVars
<1>2. a \in sync.rest /\ a \in queue /\ a \in accepted /\ a \in Action
  BY AtHand
<1>3. /\ queue' = queue \ {a}
      /\ sync' = [sync EXCEPT !.rest = @ \ {a}, !.sent = NoRequest]
      /\ refused' = IF wasRefused THEN refused \cup {a} ELSE refused
      /\ ~wasRefused => TookEffect(a)
  BY DEF Settle
<1> HIDE DEF a
<1>4. sync \in SyncState /\ refused \subseteq Action /\ queue \subseteq Action
  BY DEF IInv, TypeOK
<1>5. sync' \in SyncState /\ sync'.rest = sync.rest \ {a} /\ sync'.sent = NoRequest
  BY <1>3, <1>4 DEF SyncState
<1>6. refused' \subseteq Action /\ refused \subseteq refused'
  BY <1>2, <1>3, <1>4
<1>7. TypeOK'
  BY <1>1, <1>3, <1>5, <1>6 DEF IInv, TypeOK
<1>8. LoopSound'
  BY <1>3, <1>5 DEF IInv, LoopSound
<1>9. NothingForgotten'
  BY <1>1, <1>3, <1>6 DEF IInv, NothingForgotten, TookEffect
<1>10. Numbered' /\ ClientsKnown' /\ CallsQueued' /\ AnswersTrue' /\ NothingInvented'
  BY <1>1, <1>3 DEF IInv, Numbered, ClientsKnown, CallsQueued, AnswersTrue, NothingInvented
<1>11. CheckInFirst'
  BY <1>1, <1>6 DEF IInv, CheckInFirst, TookEffect
<1> QED
  BY <1>7, <1>8, <1>9, <1>10, <1>11 DEF IInv

LEMMA SyncAnsweredInv == ASSUME IInv, SyncAnswered PROVE IInv'
<1> DEFINE code == calls[sync.sent].code
           a == Oldest(sync.rest)
<1>1. /\ sync.sent # NoRequest /\ UNCHANGED <<session, shell, taps, serverVars>>
      /\ Succeeded(code) \/ Terminal(code)
      /\ Settle(a, Terminal(code))
  BY DEF SyncAnswered
<1>2. /\ sync.rest # {} /\ sync.sent \in Request
      /\ calls[sync.sent].op = a.op /\ calls[sync.sent].client = a.client
  BY <1>1 DEF IInv, TypeOK, LoopSound, SyncState
<1>3. a.op \in {"checkIn", "checkOut"}
  BY <1>2, AtHand DEF Action
<1>4. Succeeded(code) => TookEffect(a)
  BY <1>2, <1>3 DEF IInv, AnswersTrue, TookEffect
<1>5. Terminal(code) \in BOOLEAN
  BY DEF Terminal
<1> HIDE DEF code, a
<1>6. ~Terminal(code) => TookEffect(a)
  BY <1>1, <1>4
<1> QED
  BY <1>1, <1>2, <1>5, <1>6, SettleInv DEF a

LEMMA SyncUnauthorizedInv == ASSUME IInv, SyncUnauthorized PROVE IInv'
BY SettleInv DEF SyncUnauthorized

LEMMA SyncStopsInv ==
  ASSUME IInv, SyncServerError \/ SyncBreaks \/ SyncEnds
  PROVE  IInv'
<1>1. UNCHANGED <<queue, appended, accepted, refused, ledger, calls, taps, active,
                  session, shell>>
  BY DEF SyncServerError, SyncBreaks, SyncEnds, storeVars, serverVars
<1>2. sync' \in SyncState /\ LoopSound'
  BY <1>1, IdleSound DEF SyncServerError, SyncBreaks, SyncEnds
<1>3. TypeOK'
  BY <1>1, <1>2 DEF IInv, TypeOK
<1> QED
  BY <1>1, <1>2, <1>3, TapsKept

-----------------------------------------------------------------------------
(* The server.                                                              *)

(* What one of its steps does to the call and to the entry it is about.     *)
LEMMA ServerEffect ==
  ASSUME IInv, NEW r \in Request, ServerStep(r)
  PROVE  /\ calls[r].op # "none" /\ calls[r].client \in ClientId
         /\ \E code \in Code : calls' = [calls EXCEPT ![r].code = code]
         /\ \/ UNCHANGED ledger
            \/ \E entry \in Entry : ledger' = [ledger EXCEPT ![calls[r].client] = entry]
         /\ LET was == ledger[calls[r].client].phase
                is  == ledger'[calls[r].client].phase
            IN /\ was # "absent" => is # "absent"
               /\ was = "left" => is = "left"
               /\ is # "absent" => was # "absent" \/ calls[r].op = "checkIn"
               /\ is = "left" => was = "left" \/ calls[r].op = "checkOut"
               /\ Succeeded(calls'[r].code) =>
                    /\ calls[r].op = "checkIn" => is # "absent"
                    /\ calls[r].op = "checkOut" => is = "left"
<1> DEFINE c == calls[r].client
<1>1. ledger \in [ClientId -> Entry] /\ calls \in [Request -> HttpCall]
  BY DEF IInv, TypeOK
<1>2. calls[r].op # "none"
  BY DEF ServerStep, Server!Open, Server!Close, Server!Toggle, Server!Replay, Server!Refuse,
         Server!Pending
<1>3. c \in ClientId /\ ledger[c] \in Entry
  BY <1>1, <1>2 DEF IInv, ClientsKnown
<1>4. calls[r] \in HttpCall /\ calls[r].employee \in User \cup {NoUser}
  BY <1>1 DEF HttpCall
<1>5. {200, 201, 500} \subseteq Code /\ {400, 404, 409, 500} \subseteq Code
  BY DEF Code
<1>6. \A code : [calls EXCEPT ![r].code = code][r].code = code
  BY <1>1, <1>4 DEF HttpCall
<1>7. CASE Server!Open(r)
  <2> DEFINE entry == [phase |-> "working", employee |-> calls[r].employee]
  <2>1. entry \in Entry /\ entry.phase = "working"
    BY <1>4 DEF Entry
  <2>2. ledger' = [ledger EXCEPT ![c] = entry]
    BY <1>7 DEF Server!Open, Server!Enter
  <2>3. calls[r].op = "checkIn"
    BY <1>7 DEF Server!Open
  <2>4. \E code \in Code : calls' = [calls EXCEPT ![r].code = code]
    <3>1. PICK code \in {201, 500} : Server!Return(r, code)
      BY <1>7 DEF Server!Open
    <3>2. code \in Code
      BY <1>5
    <3> QED
      BY <3>1, <3>2, Zenon DEF Server!Return
  <2> HIDE DEF entry
  <2>5. ledger'[c].phase = "working" /\ ledger[c].phase = "absent"
    BY <1>1, <1>3, <1>7, <2>1, <2>2 DEF Server!Open, Server!Entry
  <2> QED
    BY <1>2, <1>3, <2>1, <2>2, <2>3, <2>4, <2>5
<1>8. CASE Server!Close(r)
  <2> DEFINE entry == [ledger[c] EXCEPT !.phase = "left"]
  <2>1. entry \in Entry /\ entry.phase = "left"
    BY <1>3 DEF Entry
  <2>2. ledger' = [ledger EXCEPT ![c] = entry]
    BY <1>8 DEF Server!Close, Server!Enter, Server!Entry
  <2>3. calls[r].op = "checkOut"
    BY <1>8 DEF Server!Close
  <2>4. \E code \in Code : calls' = [calls EXCEPT ![r].code = code]
    <3>1. PICK code \in {200, 500} : Server!Return(r, code)
      BY <1>8 DEF Server!Close
    <3>2. code \in Code
      BY <1>5
    <3> QED
      BY <3>1, <3>2, Zenon DEF Server!Return
  <2> HIDE DEF entry
  <2>5. ledger'[c].phase = "left" /\ ledger[c].phase # "absent"
    BY <1>1, <1>3, <1>8, <2>1, <2>2 DEF Server!Close, Server!Mine, Server!Entry
  <2> QED
    BY <1>2, <1>3, <2>1, <2>2, <2>3, <2>4, <2>5
<1>9. CASE Server!Toggle(r)
  <2> DEFINE entry == [ledger[c] EXCEPT !.phase =
                         IF calls[r].op = "breakOn" THEN "resting" ELSE "working"]
  <2>1. entry \in Entry /\ entry.phase \in {"working", "resting"}
    BY <1>3 DEF Entry
  <2>2. ledger' = [ledger EXCEPT ![c] = entry]
    BY <1>9 DEF Server!Toggle, Server!Enter, Server!Entry
  <2>3. calls[r].op \in {"breakOn", "breakOff"}
    BY <1>9 DEF Server!Toggle
  <2>4. \E code \in Code : calls' = [calls EXCEPT ![r].code = code]
    <3>1. PICK code \in {200, 500} : Server!Return(r, code)
      BY <1>9 DEF Server!Toggle
    <3>2. code \in Code
      BY <1>5
    <3> QED
      BY <3>1, <3>2, Zenon DEF Server!Return
  <2> HIDE DEF entry
  <2>5. ledger'[c].phase \in {"working", "resting"} /\ ledger[c].phase \in {"working", "resting"}
    BY <1>1, <1>3, <1>9, <2>1, <2>2 DEF Server!Toggle, Server!Mine, Server!Entry
  <2> QED
    BY <1>2, <1>3, <2>1, <2>2, <2>3, <2>4, <2>5
<1>10. CASE Server!Replay(r)
  <2>1. UNCHANGED ledger /\ calls[r].op = "checkIn" /\ ledger[c].phase # "absent"
    BY <1>10 DEF Server!Replay, Server!Mine, Server!Entry
  <2>2. \E code \in Code : calls' = [calls EXCEPT ![r].code = code]
    <3>1. PICK code \in {200, 500} : Server!Return(r, code)
      BY <1>10 DEF Server!Replay
    <3>2. code \in Code
      BY <1>5
    <3> QED
      BY <3>1, <3>2, Zenon DEF Server!Return
  <2> QED
    BY <1>2, <1>3, <2>1, <2>2
<1>11. ASSUME NEW code \in {400, 404, 409, 500}, Server!Refuse(r, code)
       PROVE  /\ UNCHANGED ledger /\ ~Succeeded(calls'[r].code)
              /\ \E k \in Code : calls' = [calls EXCEPT ![r].code = k]
  <2>1. calls' = [calls EXCEPT ![r].code = code] /\ UNCHANGED ledger
    BY <1>11 DEF Server!Refuse, Server!Return
  <2>2. ~Succeeded(code)
    BY DEF Succeeded
  <2>3. calls'[r].code = code /\ code \in Code
    BY <1>5, <1>6, <2>1
  <2>4. ~Succeeded(calls'[r].code)
    BY <2>2, <2>3
  <2> QED
    BY <2>1, <2>3, <2>4, Zenon
<1>12. CASE \E code \in {400, 404, 409, 500} : Server!Refuse(r, code)
  <2>1. PICK code \in {400, 404, 409, 500} : Server!Refuse(r, code)
    BY <1>12, Zenon
  <2>2. /\ UNCHANGED ledger /\ ~Succeeded(calls'[r].code)
        /\ \E k \in Code : calls' = [calls EXCEPT ![r].code = k]
    BY <1>11, <2>1
  <2> QED
    BY <1>2, <1>3, <2>2
<1> QED
  BY <1>7, <1>8, <1>9, <1>10, <1>12 DEF ServerStep

LEMMA ServerStepInv == ASSUME IInv, NEW r \in Request, ServerStep(r) PROVE IInv'
<1> DEFINE c == calls[r].client
<1>1. UNCHANGED <<session, shell, taps, sync, active, queue, appended, accepted, refused>>
  BY DEF ServerStep, storeVars
<1>2. ledger \in [ClientId -> Entry] /\ calls \in [Request -> HttpCall]
  BY DEF IInv, TypeOK
<1>3. /\ calls[r].op # "none" /\ c \in ClientId
      /\ ledger[c].phase # "absent" => ledger'[c].phase # "absent"
      /\ ledger[c].phase = "left" => ledger'[c].phase = "left"
      /\ ledger'[c].phase # "absent" => ledger[c].phase # "absent" \/ calls[r].op = "checkIn"
      /\ ledger'[c].phase = "left" => ledger[c].phase = "left" \/ calls[r].op = "checkOut"
      /\ Succeeded(calls'[r].code) =>
           /\ calls[r].op = "checkIn" => ledger'[c].phase # "absent"
           /\ calls[r].op = "checkOut" => ledger'[c].phase = "left"
  BY ServerEffect
<1>4. ledger' \in [ClientId -> Entry] /\ \A d \in ClientId \ {c} : ledger'[d] = ledger[d]
  <2>1. \/ UNCHANGED ledger
        \/ \E entry \in Entry : ledger' = [ledger EXCEPT ![c] = entry]
    BY ServerEffect
  <2> QED
    BY <1>2, <1>3, <2>1
<1>5. PICK code \in Code : calls' = [calls EXCEPT ![r].code = code]
  BY ServerEffect
<1>6. /\ calls' \in [Request -> HttpCall]
      /\ \A q \in Request : calls'[q].op = calls[q].op /\ calls'[q].client = calls[q].client
      /\ \A q \in Request \ {r} : calls'[q] = calls[q]
  <2>1. [calls[r] EXCEPT !.code = code] \in HttpCall
        /\ [calls[r] EXCEPT !.code = code].op = calls[r].op
        /\ [calls[r] EXCEPT !.code = code].client = calls[r].client
    BY <1>2 DEF HttpCall
  <2>2. calls' = [calls EXCEPT ![r] = [calls[r] EXCEPT !.code = code]]
    BY <1>2, <1>5
  <2> QED
    BY <1>2, <2>1, <2>2
<1> HIDE DEF c
<1>7. /\ \A d \in ClientId : ledger[d].phase # "absent" => ledger'[d].phase # "absent"
      /\ \A d \in ClientId : ledger[d].phase = "left" => ledger'[d].phase = "left"
  BY <1>3, <1>4
<1>8. \A a \in accepted : TookEffect(a) => TookEffect(a)'
  <2>1. \A a \in accepted : a.client \in ClientId
    BY DEF IInv, TypeOK, Action
  <2> QED
    BY <1>7, <2>1 DEF TookEffect
<1>9. TypeOK'
  BY <1>1, <1>4, <1>6 DEF IInv, TypeOK
<1>10. Numbered' /\ ClientsKnown'
  BY <1>1, <1>6 DEF IInv, Numbered, ClientsKnown
<1>11. LoopSound'
  <2>1. sync.sent # NoRequest => sync.sent \in Request
    BY DEF IInv, TypeOK, SyncState
  <2> QED
    BY <1>1, <1>6, <2>1 DEF IInv, LoopSound
<1>12. CallsQueued'
  BY <1>1, <1>6 DEF IInv, CallsQueued
<1>13. AnswersTrue'
  <2> SUFFICES ASSUME NEW q \in Request, Succeeded(calls'[q].code)
               PROVE  /\ calls[q].op = "checkIn" => ledger'[calls[q].client].phase # "absent"
                      /\ calls[q].op = "checkOut" => ledger'[calls[q].client].phase = "left"
    BY <1>6 DEF AnswersTrue
  <2>1. CASE q = r
    BY <2>1, <1>3 DEF c
  <2>2. CASE q # r
    <3>1. Succeeded(calls[q].code)
      BY <2>2, <1>6
    <3>2. calls[q].op \in {"checkIn", "checkOut"} => calls[q].client \in ClientId
      BY DEF IInv, ClientsKnown
    <3> QED
      BY <3>1, <3>2, <1>7 DEF IInv, AnswersTrue
  <2> QED
    BY <2>1, <2>2
<1>14. NothingForgotten'
  BY <1>1, <1>8 DEF IInv, NothingForgotten
<1>15. CheckInFirst'
  BY <1>1, <1>6, <1>8 DEF IInv, CheckInFirst
<1>16. NothingInvented'
  <2>1. calls[r].op \in {"checkIn", "checkOut"} =>
          \E a \in accepted : a.op = calls[r].op /\ a.client = c
    BY DEF IInv, CallsQueued, c
  <2>2. /\ ledger'[c].phase # "absent" => \E a \in accepted : a.op = "checkIn" /\ a.client = c
        /\ ledger'[c].phase = "left" => \E a \in accepted : a.op = "checkOut" /\ a.client = c
    BY <2>1, <1>3 DEF IInv, NothingInvented
  <2> QED
    BY <1>1, <1>4, <2>2 DEF IInv, NothingInvented
<1> QED
  BY <1>9, <1>10, <1>11, <1>12, <1>13, <1>14, <1>15, <1>16 DEF IInv

-----------------------------------------------------------------------------
LEMMA NextInv == ASSUME IInv, [Next]_vars PROVE IInv'
<1>1. CASE UNCHANGED vars
  <2>1. UNCHANGED <<session, shell, active, queue, appended, taps, sync, ledger, calls,
                    accepted, refused>>
    BY <1>1 DEF vars
  <2>2. TypeOK' /\ LoopSound'
    BY <2>1, LoopKept DEF IInv, TypeOK
  <2> QED
    BY <2>1, <2>2, TapsKept
<1>2. CASE Next
  <2>1. CASE \/ \E u \in User : SignIn(u)
             \/ TokenExpires \/ SignOut
    BY <2>1, SessionInv
  <2>2. CASE OpenShell
    BY <2>2, OpenShellInv
  <2>3. CASE PullToRefresh
    BY <2>3, <1>1, SessionInv DEF PullToRefresh
  <2>4. CASE Kill
    BY <2>4, KillInv
  <2>5. CASE \E t \in Tap, s \in Slot, c \in ClientId : TapCheckIn(t, s, c)
    BY <2>5, TapCheckInInv
  <2>6. CASE \E t \in Tap, s \in Slot : TapCheckOut(t, s)
    BY <2>6, TapCheckOutInv
  <2>7. CASE \E t \in Tap, s \in Slot : SetBreak(t, s, "breakOn") \/ SetBreak(t, s, "breakOff")
    BY <2>7, SetBreakInv
  <2>8. CASE \E t \in Tap : EnqueueCheckIn(t) \/ ClearActive(t) \/ KickSync(t)
    BY <2>8, EnqueueCheckInInv, ClearActiveInv, KickSyncInv
  <2>9. CASE SyncSend \/ SyncUnauthorized \/ SyncAnswered
    BY <2>9, SyncSendInv, SyncUnauthorizedInv, SyncAnsweredInv
  <2>10. CASE SyncServerError \/ SyncBreaks \/ SyncEnds
    BY <2>10, SyncStopsInv
  <2>11. CASE \E r \in Request : ServerStep(r)
    BY <2>11, ServerStepInv
  <2> QED
    BY <1>2, <2>1, <2>2, <2>3, <2>4, <2>5, <2>6, <2>7, <2>8, <2>9, <2>10, <2>11 DEF Next
<1> QED
  BY <1>1, <1>2

(* Every reachable state of the phone and its server satisfies IInv.        *)
THEOREM Invariance == Spec => []IInv
<1>1. Init => IInv
  BY InitInv
<1>2. IInv /\ [Next]_vars => IInv'
  BY NextInv
<1> QED
  BY <1>1, <1>2, PTL DEF Spec

(* The active map, the queue, the taps and the calls keep their shape,      *)
(* whatever the taps, the loop, the server and the death of the app write   *)
(* into them (attendance_service.dart, offline_queue.dart).                 *)
THEOREM TypeCorrect == Spec => []TypeOK
<1>1. IInv => TypeOK
  BY DEF IInv
<1> QED
  BY <1>1, Invariance, PTL

(* A check-in or check-out that was put into the offline queue stays there  *)
(* until it has taken effect on the server or was answered 4xx, whatever    *)
(* the network loses and whenever the app dies (the loop of sync()).        *)
THEOREM QueueKept == Spec => []NothingForgotten
<1>1. IInv => NothingForgotten
  BY DEF IInv
<1> QED
  BY <1>1, Invariance, PTL

(* A check-out goes out after the check-in it ends has taken effect or was  *)
(* turned down, and the server's ledger shows nothing the phone never       *)
(* queued, although calls arrive late and twice (the snapshot sync() works  *)
(* through in order, and the ledger's answers to replays).                  *)
THEOREM ReplayInOrder == Spec => []ReplayFaithful
<1>1. IInv => ReplayFaithful
  BY DEF IInv, ReplayFaithful
<1> QED
  BY <1>1, Invariance, PTL
=============================================================================
