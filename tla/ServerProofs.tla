---------------------------- MODULE ServerProofs ----------------------------
(***************************************************************************)
(* Theorems about the API process, for any tenants, accounts, numbers of   *)
(* concurrent calls and operations each may call.                          *)
(*                                                                         *)
(* The inductive invariant has one part per concern, so that a step is     *)
(* looked at only where it can disturb something: Gated (what a call has   *)
(* passed when it gets anywhere), PoolsSound (the resolver's cache and     *)
(* lock), UploadsSound and LoginsSound.                                    *)
(***************************************************************************)
EXTENDS Server, TLAPS

-----------------------------------------------------------------------------
(* The route tables.                                                        *)

LEMMA GroupFields ==
  ASSUME NEW path, NEW scope, NEW plain, NEW bound,
         NEW o \in Group(path, scope, plain, bound)
  PROVE  /\ o.path = path /\ o.scope = scope
         /\ o.op \in plain \cup bound
BY DEF Group

(* The generated table, main()'s prefixes and the composite handler agree   *)
(* about every secured operation: the service that answers takes a tenant   *)
(* pool exactly when the path is on the list (cmd/api/main.go 118-135).     *)
THEOREM RoutesAgree ==
  \A o \in Operation : Secured(o) => (NeedsPool(o) <=> IsTenantRoute(o))
<1> USE GroupFields DEF Secured, NeedsPool, ControlPlaneOps, IsTenantRoute, TenantRoutePrefixes
<1>1. \A o \in AttendanceRoutes \cup DemoRoutes \cup DepartmentRoutes \cup EmployeeRoutes :
        NeedsPool(o) /\ IsTenantRoute(o)
  BY DEF AttendanceRoutes, DemoRoutes, DepartmentRoutes, EmployeeRoutes
<1>2. \A o \in EmployeeLoginRoutes \cup LeaveRoutes \cup LiveRoutes \cup LocationRoutes :
        NeedsPool(o) /\ IsTenantRoute(o)
  BY DEF EmployeeLoginRoutes, LeaveRoutes, LiveRoutes, LocationRoutes
<1>3. \A o \in MyRoutes \cup RoleRoutes \cup ShiftRoutes \cup TourRoutes :
        NeedsPool(o) /\ IsTenantRoute(o)
  BY DEF MyRoutes, RoleRoutes, ShiftRoutes, TourRoutes
<1>4. \A o \in AuthRoutes \cup MediaRoutes \cup StaffRoutes \cup HealthRoutes :
        ~NeedsPool(o) /\ ~IsTenantRoute(o)
  BY DEF AuthRoutes, MediaRoutes, StaffRoutes, HealthRoutes
<1>5. \A o \in SubscriptionRoutes \cup TenantAdminRoutes \cup UserAdminRoutes :
        ~NeedsPool(o) /\ ~IsTenantRoute(o)
  BY DEF SubscriptionRoutes, TenantAdminRoutes, UserAdminRoutes
<1> HIDE GroupFields DEF Secured, NeedsPool, ControlPlaneOps, IsTenantRoute, TenantRoutePrefixes
<1> QED
  BY <1>1, <1>2, <1>3, <1>4, <1>5 DEF Operation

(* Uploads are secured and not the staff's. *)
LEMMA UploadRoute ==
  \A o \in Operation : o.op = "UploadMedia" => Secured(o) /\ ~IsPlatformRoute(o)
<1> USE GroupFields
<1>1. \A o \in AttendanceRoutes \cup AuthRoutes \cup DemoRoutes \cup DepartmentRoutes
              \cup EmployeeRoutes \cup EmployeeLoginRoutes \cup LeaveRoutes \cup LiveRoutes
              \cup LocationRoutes :
        o.op # "UploadMedia"
  BY DEF AttendanceRoutes, AuthRoutes, DemoRoutes, DepartmentRoutes, EmployeeRoutes,
         EmployeeLoginRoutes, LeaveRoutes, LiveRoutes, LocationRoutes
<1>2. \A o \in MyRoutes \cup StaffRoutes \cup SubscriptionRoutes \cup TenantAdminRoutes
              \cup UserAdminRoutes \cup RoleRoutes \cup ShiftRoutes \cup TourRoutes
              \cup HealthRoutes :
        o.op # "UploadMedia"
  BY DEF MyRoutes, StaffRoutes, SubscriptionRoutes, TenantAdminRoutes, UserAdminRoutes,
         RoleRoutes, ShiftRoutes, TourRoutes, HealthRoutes
<1>3. \A o \in MediaRoutes : Secured(o) /\ ~IsPlatformRoute(o)
  BY DEF MediaRoutes, Secured, IsPlatformRoute
<1> HIDE GroupFields
<1> QED
  BY <1>1, <1>2, <1>3 DEF Operation

LEMMA TenantRouteNotPlatform == \A o : IsTenantRoute(o) => ~IsPlatformRoute(o)
BY DEF IsTenantRoute, IsPlatformRoute, TenantRoutePrefixes

LEMMA TokenFields ==
  \A tk \in Token : /\ tk.account \in Account
                    /\ tk.tenant = Home[tk.account] /\ tk.role = RoleOf[tk.account]
                    /\ tk.tenant \in Tenant \cup {NoTenant}
BY ServerAssumption DEF Token, TokenFor

-----------------------------------------------------------------------------
(* Types.                                                                   *)

LEMMA NoOperationOpen == ~Secured(NoOperation) /\ ~Login(NoOperation)
BY DEF Secured, Login, NoOperation

LEMMA NewRequestType == NewRequest \in RequestState
BY DEF NewRequest, RequestState, Code

LEMMA Codes == 0 \in Code /\ {200, 201, 400, 401, 403, 500, 503} \subseteq Code
BY DEF Code

LEMMA CallTypes ==
  ASSUME NEW q \in RequestState
  PROVE  /\ \A code \in Code : Answer(q, code) \in RequestState
         /\ \A code \in Code : Deliver(q, code) \in RequestState
         /\ \A label \in {"authn", "registry", "pool", "lock", "ping", "handler", "statement", "url",
                           "user"} :
              Goto(q, label) \in RequestState
         /\ \A p \in Request : Got(q, p) \in RequestState
         /\ \A o \in Operation, tk \in Token \cup {NoToken} :
              [q EXCEPT !.op = o, !.token = tk] \in RequestState
         /\ \A tk \in Token : [q EXCEPT !.token = tk] \in RequestState
<1>1. ASSUME NEW code \in Code PROVE Answer(q, code) \in RequestState
  BY NewRequestType DEF Answer, RequestState
<1>2. ASSUME NEW code \in Code PROVE Deliver(q, code) \in RequestState
  BY DEF Deliver, RequestState
<1>3. ASSUME NEW label \in {"authn", "registry", "pool", "lock", "ping", "handler", "statement", "url",
                           "user"}
      PROVE  Goto(q, label) \in RequestState
  BY DEF Goto, RequestState
<1>4. ASSUME NEW p \in Request PROVE Got(q, p) \in RequestState
  BY DEF Got, RequestState
<1>5. ASSUME NEW o \in Operation, NEW tk \in Token \cup {NoToken}
      PROVE  [q EXCEPT !.op = o, !.token = tk] \in RequestState
  BY DEF RequestState
<1>6. ASSUME NEW tk \in Token PROVE [q EXCEPT !.token = tk] \in RequestState
  BY DEF RequestState
<1> QED
  BY <1>1, <1>2, <1>3, <1>4, <1>5, <1>6

(* The answers the handlers and middlewares give.                           *)
LEMMA AnswerTypes ==
  ASSUME NEW q \in RequestState
  PROVE  /\ Answer(q, 400) \in RequestState /\ Answer(q, 500) \in RequestState
         /\ Answer(q, 503) \in RequestState
         /\ Deliver(q, 200) \in RequestState /\ Deliver(q, 201) \in RequestState
<1>1. \A code \in Code : Answer(q, code) \in RequestState
  BY CallTypes
<1>2. \A code \in Code : Deliver(q, code) \in RequestState
  BY CallTypes
<1>3. 400 \in Code /\ 500 \in Code /\ 503 \in Code /\ 200 \in Code /\ 201 \in Code
  BY Codes
<1>4. Answer(q, 400) \in RequestState /\ Answer(q, 500) \in RequestState
  BY <1>1, <1>3
<1>5. Answer(q, 503) \in RequestState
  BY <1>1, <1>3
<1>6. Deliver(q, 200) \in RequestState /\ Deliver(q, 201) \in RequestState
  BY <1>2, <1>3
<1> QED
  BY <1>4, <1>5, <1>6

(* What a step of one call does to the record of calls. *)
LEMMA StepChanges ==
  ASSUME TypeOK, NEW r \in Request, NEW from, NEW to \in RequestState, Step(r, from, to)
  PROVE  /\ requests[r].pc = from /\ phase # "exited"
         /\ requests' \in [Request -> RequestState]
         /\ requests'[r] = to
         /\ \A s \in Request \ {r} : requests'[s] = requests[s]
BY DEF TypeOK, Step

(* The credentials of a login. *)
Body(q, a, label) ==
  [q EXCEPT !.pc = label, !.slug = Home[a], !.email = {EmailOf[a]}, !.late = a \notin active]

LEMMA BodyType ==
  ASSUME NEW q \in RequestState, NEW a \in Account, NEW label \in {"tenant", "user"}
  PROVE  Body(q, a, label) \in RequestState
<1>1. {EmailOf[a]} \in SUBSET Email
  BY DEF Email
<1>2. Home[a] \in Tenant \cup {NoTenant}
  BY ServerAssumption
<1>3. (a \notin active) \in BOOLEAN
  OBVIOUS
<1> QED
  BY <1>1, <1>2, <1>3 DEF Body, RequestState

LEMMA InitType == Init => TypeOK
BY NewRequestType DEF Init, TypeOK, Phase

(* The outcomes of each step of a call, as changes of its record: the other *)
(* lemmas about the steps start from here.                                  *)
Arrived(r, o, tk, a, to) ==
  LET q == [requests[r] EXCEPT !.op = o, !.token = tk] IN
  /\ Step(r, "new", to) /\ phase = "serving"
  /\ UNCHANGED <<phase, active, poolVars, stored>>
  /\ \/ to = Answer(q, 400)
     \/ Secured(o) /\ to = Goto(q, "authn")
     \/ ~Secured(o) /\ ~Login(o) /\ to = Goto(q, "handler")
     \/ Login(o) /\ \E label \in {"tenant", "user"} : to = Body(q, a, label)

LEMMA ArriveOutcomes ==
  ASSUME TypeOK, NEW r \in Request, Arrive(r)
  PROVE  \E to \in RequestState, o \in Operation, tk \in Token \cup {NoToken}, a \in Account :
           Arrived(r, o, tk, a, to)
<1>1. PICK o \in Offered[r], tk \in Token \cup {NoToken}, a \in Account :
        LET q == [requests[r] EXCEPT !.op = o, !.token = tk]
            body == [q EXCEPT !.pc = IF o.op = "Login" THEN "tenant" ELSE "user",
                              !.slug = Home[a], !.email = {EmailOf[a]},
                              !.late = a \notin active]
        IN \/ o.bound /\ Step(r, "new", Answer(q, 400))
           \/ Secured(o) /\ Step(r, "new", Goto(q, "authn"))
           \/ ~Secured(o) /\ ~Login(o) /\ Step(r, "new", Goto(q, "handler"))
           \/ /\ Login(o) /\ (Home[a] = NoTenant <=> o.op = "PlatformLogin")
              /\ Step(r, "new", body)
           \/ Login(o) /\ Step(r, "new", Answer(q, 400))
  BY DEF Arrive
<1> DEFINE q == [requests[r] EXCEPT !.op = o, !.token = tk]
           label == IF o.op = "Login" THEN "tenant" ELSE "user"
<1>2. o \in Operation
  BY ServerAssumption
<1>3. requests[r] \in RequestState
  BY DEF TypeOK
<1>4. q \in RequestState
  BY <1>2, <1>3, CallTypes
<1>5. /\ Answer(q, 400) \in RequestState /\ Goto(q, "authn") \in RequestState
      /\ Goto(q, "handler") \in RequestState
  <2> HIDE DEF q
  <2>1. Goto(q, "authn") \in RequestState /\ Goto(q, "handler") \in RequestState
    BY <1>4, CallTypes
  <2> QED
    BY <1>4, <2>1, AnswerTypes
<1>6. label \in {"tenant", "user"} /\ Body(q, a, label) \in RequestState
  BY <1>4, BodyType
<1>7. /\ phase = "serving"
      /\ UNCHANGED <<phase, active, poolVars, stored>>
  BY DEF Arrive
<1> HIDE DEF q, label
<1>8. \/ Step(r, "new", Answer(q, 400))
      \/ Secured(o) /\ Step(r, "new", Goto(q, "authn"))
      \/ ~Secured(o) /\ ~Login(o) /\ Step(r, "new", Goto(q, "handler"))
      \/ Login(o) /\ Step(r, "new", Body(q, a, label))
  BY <1>1 DEF q, label, Body
<1> DEFINE Outcome(to) == \/ to = Answer(q, 400)
                          \/ Secured(o) /\ to = Goto(q, "authn")
                          \/ ~Secured(o) /\ ~Login(o) /\ to = Goto(q, "handler")
                          \/ Login(o) /\ \E where \in {"tenant", "user"} : to = Body(q, a, where)
<1>9. PICK to \in RequestState : Step(r, "new", to) /\ Outcome(to)
  <2>1. CASE Step(r, "new", Answer(q, 400))
    BY <1>5, <2>1
  <2>2. CASE Secured(o) /\ Step(r, "new", Goto(q, "authn"))
    BY <1>5, <2>2
  <2>3. CASE ~Secured(o) /\ ~Login(o) /\ Step(r, "new", Goto(q, "handler"))
    BY <1>5, <2>3
  <2>4. CASE Login(o) /\ Step(r, "new", Body(q, a, label))
    BY <1>6, <2>4
  <2> QED
    BY <1>8, <2>1, <2>2, <2>3, <2>4
<1>10. Arrived(r, o, tk, a, to)
  BY <1>7, <1>9 DEF Arrived, q
<1> QED
  BY <1>2, <1>10

-----------------------------------------------------------------------------
(* The inductive invariant.                                                 *)

Admitted(q) == Accepted(q) /\ RoleSatisfies(q.token.role, q.op.scope)

Waiting == {"registry", "pool", "lock", "ping"}

(* What a call has passed when it gets to a label. *)
Gated(q) ==
  /\ q.pc # "done" => q.code = 0
  /\ q.pc = "authn" => Secured(q.op)
  /\ q.pc \in Waiting => Secured(q.op) /\ Admitted(q) /\ IsTenantRoute(q.op)
  /\ q.pc \in {"handler", "statement", "url"} /\ Secured(q.op) =>
       Admitted(q) /\ (IsTenantRoute(q.op) <=> q.pool # NoRequest)

(* A call opens its pool while it holds the lock, and uses one that was     *)
(* opened for the tenant of its token.                                      *)
Pooled(r, q) ==
  /\ q.pc \notin {"handler", "statement", "url", "done"} => q.pool = NoRequest
  /\ q.pc \in {"new", "authn", "registry", "pool", "lock"} => pools[r].state = "unused"
  /\ q.pc = "ping" <=> lock = r
  /\ q.pc = "ping" => pools[r] = [state |-> "dialing", tenant |-> q.token.tenant]
  /\ q.pool # NoRequest => /\ pools[q.pool].state \in {"open", "closed"}
                           /\ pools[q.pool].tenant = q.token.tenant

Uploaded(r, q) ==
  /\ q.pc = "url" => q.op.op = "UploadMedia"
  /\ q.pc = "url" \/ q.code = 201 => q.token \in Token /\ <<r, q.token.tenant>> \in stored

LoggedIn(q) ==
  /\ q.pc \in {"tenant", "user"} => Login(q.op) /\ (q.late => Named(q) \cap active = {})
  /\ Login(q.op) /\ q.code = 200 =>
       q.token \in Token /\ q.token.account \in Named(q) /\ ~q.late

CallSound(r, q) == Gated(q) /\ Pooled(r, q) /\ Uploaded(r, q) /\ LoggedIn(q)

(* The cache holds the open pools, by tenant, and none of a tenant that is  *)
(* being dialled for; while run() closes them it holds closed ones too, and *)
(* nobody has the lock.                                                     *)
PoolsSound ==
  /\ \A t \in Tenant : cached[t] # NoRequest =>
       /\ pools[cached[t]].tenant = t
       /\ pools[cached[t]].state = "open" \/ (phase = "draining" /\ pools[cached[t]].state = "closed")
  /\ \A p \in Request : pools[p].state = "open" =>
       pools[p].tenant \in Tenant /\ cached[pools[p].tenant] = p
  /\ \A p \in Request : pools[p].state = "dialing" =>
       lock = p /\ pools[p].tenant \in Tenant /\ cached[pools[p].tenant] = NoRequest
  /\ phase = "draining" => lock = NoRequest

IInv == TypeOK /\ (\A r \in Request : CallSound(r, requests[r])) /\ PoolsSound

LEMMA InitInv == Init => IInv
<1> SUFFICES ASSUME Init PROVE IInv
  OBVIOUS
<1>1. TypeOK
  BY InitType
<1>2. PoolsSound
  BY DEF Init, PoolsSound
<1>3. ASSUME NEW r \in Request PROVE CallSound(r, requests[r])
  <2>1. requests[r] = NewRequest /\ lock = NoRequest /\ pools[r].state = "unused"
    BY DEF Init
  <2>2. /\ NewRequest.pc = "new" /\ NewRequest.op = NoOperation
        /\ NewRequest.pool = NoRequest /\ NewRequest.code = 0
    BY DEF NewRequest
  <2>3. NoRequest # r
    BY ServerAssumption
  <2> QED
    BY <2>1, <2>2, <2>3 DEF CallSound, Gated, Pooled, Uploaded, LoggedIn, Waiting
<1> QED
  BY <1>1, <1>2, <1>3 DEF IInv

(* A step that changes nothing but its call keeps the invariant when the    *)
(* call it leaves is sound.                                                 *)
LEMMA CallStep ==
  ASSUME IInv, NEW r \in Request, NEW from, NEW to \in RequestState, Step(r, from, to),
         UNCHANGED <<phase, active, poolVars, stored>>, CallSound(r, to)
  PROVE  IInv'
<1>1. /\ requests' \in [Request -> RequestState] /\ requests'[r] = to
      /\ \A s \in Request \ {r} : requests'[s] = requests[s]
  BY StepChanges DEF IInv
<1>2. TypeOK'
  BY <1>1 DEF IInv, TypeOK, poolVars
<1>3. PoolsSound'
  BY DEF IInv, PoolsSound, poolVars
<1>4. ASSUME NEW s \in Request PROVE CallSound(s, requests[s])'
  <2>1. CallSound(s, requests'[s])
    BY <1>1 DEF IInv
  <2>2. /\ Gated(requests'[s]) /\ Pooled(s, requests'[s])
        /\ Uploaded(s, requests'[s]) /\ LoggedIn(requests'[s])
    BY <2>1 DEF CallSound
  <2>3. Gated(requests[s])'
    BY <2>2 DEF Gated, Admitted, Accepted
  <2>4. Pooled(s, requests[s])'
    BY <2>2 DEF Pooled, poolVars
  <2>5. Uploaded(s, requests[s])'
    BY <2>2 DEF Uploaded
  <2>6. LoggedIn(requests[s])'
    BY <2>2 DEF LoggedIn, Named
  <2> QED
    BY <2>3, <2>4, <2>5, <2>6 DEF CallSound
<1> QED
  BY <1>2, <1>3, <1>4 DEF IInv

LEMMA Current ==
  ASSUME IInv, NEW r \in Request
  PROVE  /\ TypeOK /\ requests[r] \in RequestState /\ CallSound(r, requests[r])
         /\ Gated(requests[r]) /\ Pooled(r, requests[r])
         /\ Uploaded(r, requests[r]) /\ LoggedIn(requests[r])
         /\ requests[r].pc # "ping" => lock # r
BY DEF IInv, TypeOK, CallSound, Pooled

(* The answers without content: they end a call soundly, unless it holds    *)
(* the lock.                                                                *)
Plain == Code \ {201}

LEMMA PlainCodes ==
  /\ Plain \subseteq Code
  /\ 200 \in Plain /\ 400 \in Plain /\ 401 \in Plain /\ 403 \in Plain
  /\ 500 \in Plain /\ 503 \in Plain
BY DEF Plain, Code

LEMMA AnswerSound ==
  ASSUME NEW r \in Request, lock # r, NEW q, NEW code \in Plain
  PROVE  CallSound(r, Answer(q, code))
<1>1. /\ Answer(q, code).pc = "done" /\ Answer(q, code).op = NoOperation
      /\ Answer(q, code).pool = NoRequest /\ Answer(q, code).code = code
  BY DEF Answer, NewRequest
<1>2. code # 201
  BY DEF Plain
<1> QED
  BY <1>1, <1>2, NoOperationOpen DEF CallSound, Gated, Pooled, Uploaded, LoggedIn, Waiting

LEMMA AnswerKeeps ==
  ASSUME IInv, NEW r \in Request, NEW from, from # "ping", NEW code \in Plain,
         Step(r, from, Answer(requests[r], code)),
         UNCHANGED <<phase, active, poolVars, stored>>
  PROVE  IInv'
<1> DEFINE to == Answer(requests[r], code)
<1>1. requests[r] \in RequestState /\ lock # r
  BY Current DEF Step
<1>2. to \in RequestState
  BY <1>1, CallTypes, PlainCodes
<1>3. CallSound(r, to)
  BY <1>1, AnswerSound
<1> HIDE DEF to
<1> QED
  BY <1>2, <1>3, CallStep DEF to

LEMMA RefusalKeeps ==
  ASSUME IInv, NEW r \in Request, NEW from, from # "ping",
         \/ Step(r, from, Answer(requests[r], 400)) \/ Step(r, from, Answer(requests[r], 401))
         \/ Step(r, from, Answer(requests[r], 403)) \/ Step(r, from, Answer(requests[r], 500))
         \/ Step(r, from, Answer(requests[r], 503)),
         UNCHANGED <<phase, active, poolVars, stored>>
  PROVE  IInv'
<1> DEFINE Ends(code) == Step(r, from, Answer(requests[r], code))
<1>1. \A code \in Plain : Ends(code) => IInv'
  BY AnswerKeeps
<1>2. Ends(400) \/ Ends(401) \/ Ends(403) \/ Ends(500) \/ Ends(503)
  OBVIOUS
<1> HIDE DEF Ends
<1> QED
  BY <1>1, <1>2, PlainCodes

-----------------------------------------------------------------------------
(* The steps of a call that change nothing but the call.                    *)

LEMMA ArriveKeeps == ASSUME IInv, NEW r \in Request, Arrive(r) PROVE IInv'
<1>0. TypeOK
  BY DEF IInv
<1>1. PICK to \in RequestState, o \in Operation, tk \in Token \cup {NoToken}, a \in Account :
        LET q == [requests[r] EXCEPT !.op = o, !.token = tk] IN
        /\ Step(r, "new", to) /\ phase = "serving"
        /\ UNCHANGED <<phase, active, poolVars, stored>>
        /\ \/ to = Answer(q, 400)
           \/ Secured(o) /\ to = Goto(q, "authn")
           \/ ~Secured(o) /\ ~Login(o) /\ to = Goto(q, "handler")
           \/ Login(o) /\ \E label \in {"tenant", "user"} : to = Body(q, a, label)
  BY <1>0, ArriveOutcomes DEF Arrived
<1> DEFINE q == [requests[r] EXCEPT !.op = o, !.token = tk]
<1>2. requests[r].pc = "new"
  BY <1>0, <1>1, StepChanges
<1>3. /\ q \in RequestState /\ q.op = o /\ q.pc = "new" /\ q.pool = NoRequest /\ q.code = 0
      /\ lock # r /\ pools[r].state = "unused"
  <2>1. /\ requests[r] \in RequestState /\ lock # r /\ pools[r].state = "unused"
        /\ requests[r].pool = NoRequest /\ requests[r].code = 0
    BY <1>2, Current DEF Gated, Pooled
  <2>2. q \in RequestState
    BY <2>1, CallTypes
  <2>3. q.op = o /\ q.pc = "new" /\ q.pool = NoRequest /\ q.code = 0
    BY <1>2, <2>1 DEF RequestState
  <2> QED
    BY <2>1, <2>2, <2>3
<1> HIDE DEF q
<1>4. CallSound(r, to)
  <2>1. CASE to = Answer(q, 400)
    BY <2>1, <1>3, AnswerSound, PlainCodes
  <2>2. CASE Secured(o) /\ to = Goto(q, "authn")
    <3>1. to.pc = "authn" /\ to.op = o /\ to.pool = NoRequest /\ to.code = 0
      BY <2>2, <1>3 DEF Goto, RequestState
    <3> QED
      BY <3>1, <2>2, <1>3 DEF CallSound, Gated, Pooled, Uploaded, LoggedIn, Waiting
  <2>3. CASE ~Secured(o) /\ ~Login(o) /\ to = Goto(q, "handler")
    <3>1. to.pc = "handler" /\ to.op = o /\ to.pool = NoRequest /\ to.code = 0
      BY <2>3, <1>3 DEF Goto, RequestState
    <3> QED
      BY <3>1, <2>3, <1>3 DEF CallSound, Gated, Pooled, Uploaded, LoggedIn, Waiting
  <2>4. ASSUME Login(o), NEW label \in {"tenant", "user"}, to = Body(q, a, label)
        PROVE  CallSound(r, to)
    <3>1. /\ to.pc = label /\ to.op = o /\ to.pool = NoRequest /\ to.code = 0
          /\ to.slug = Home[a] /\ to.email = {EmailOf[a]} /\ to.late = (a \notin active)
      BY <2>4, <1>3 DEF Body, RequestState
    <3>2. Named(to) = {a}
      BY <3>1, ServerAssumption DEF Named
    <3>3. to.late => Named(to) \cap active = {}
      BY <3>1, <3>2
    <3>4. to.code # 200
      BY <3>1
    <3>5. LoggedIn(to)
      BY <3>1, <3>3, <3>4, <2>4 DEF LoggedIn
    <3> QED
      BY <3>1, <3>5, <1>3 DEF CallSound, Gated, Pooled, Uploaded, Waiting
  <2> QED
    BY <1>1, <2>1, <2>2, <2>3, <2>4 DEF q
<1> QED
  BY <1>1, <1>4, CallStep

(* A call that goes on keeps everything but its label. *)
LEMMA GotoFields ==
  ASSUME NEW q \in RequestState,
         NEW label \in {"authn", "registry", "pool", "lock", "ping", "handler", "statement", "url",
                           "user"}
  PROVE  LET to == Goto(q, label) IN
         /\ to \in RequestState /\ to.pc = label
         /\ to.op = q.op /\ to.token = q.token /\ to.pool = q.pool
         /\ to.slug = q.slug /\ to.email = q.email /\ to.code = q.code /\ to.late = q.late
<1>1. Goto(q, label) \in RequestState
  BY CallTypes
<1> QED
  BY <1>1 DEF Goto, RequestState

LEMMA AuthenticateKeeps == ASSUME IInv, NEW r \in Request, Authenticate(r) PROVE IInv'
<1> DEFINE q == requests[r]
           next == IF IsTenantRoute(q.op) THEN "registry" ELSE "handler"
<1>1. UNCHANGED <<phase, active, poolVars, stored>>
  BY DEF Authenticate
<1>2. /\ q.pc = "authn" => lock # r
      /\ q \in RequestState /\ Gated(q) /\ Pooled(r, q)
  BY Current
<1>3. ASSUME NEW code \in Plain, Step(r, "authn", Answer(q, code))
      PROVE  IInv'
  BY <1>1, <1>3, AnswerKeeps
<1>4. ASSUME Accepted(q), RoleSatisfies(q.token.role, q.op.scope), Step(r, "authn", Goto(q, next))
      PROVE  IInv'
  <2>1. q.pc = "authn"
    BY <1>4 DEF Step
  <2>2. next \in {"registry", "handler"}
    OBVIOUS
  <2> DEFINE to == Goto(q, next)
  <2>3. /\ to \in RequestState /\ to.pc = next
        /\ to.op = q.op /\ to.token = q.token /\ to.pool = q.pool /\ to.code = q.code
    BY <1>2, <2>2, GotoFields
  <2>4. Admitted(to)
    BY <1>4, <2>3 DEF Admitted, Accepted
  <2>5. Secured(q.op) /\ q.code = 0 /\ q.pool = NoRequest /\ lock # r /\ pools[r].state = "unused"
    BY <1>2, <2>1 DEF Gated, Pooled
  <2> HIDE DEF to, q
  <2>6. CallSound(r, to)
    BY <2>2, <2>3, <2>4, <2>5 DEF CallSound, Gated, Pooled, Uploaded, LoggedIn, Waiting
  <2> QED
    BY <1>1, <1>4, <2>3, <2>6, CallStep DEF to
<1> HIDE DEF q, next
<1>5. \/ Step(r, "authn", Answer(q, 401))
      \/ Step(r, "authn", Answer(q, 403))
      \/ /\ Accepted(q) /\ RoleSatisfies(q.token.role, q.op.scope)
         /\ Step(r, "authn", Goto(q, next))
  BY DEF Authenticate, q, next
<1> QED
  BY <1>3, <1>4, <1>5, PlainCodes

LEMMA TenantDBNameKeeps == ASSUME IInv, NEW r \in Request, TenantDBName(r) PROVE IInv'
<1> DEFINE q == requests[r]
           to == Goto(q, "pool")
<1>1. /\ UNCHANGED <<phase, active, poolVars, stored>>
      /\ Step(r, "registry", to) \/ Step(r, "registry", Answer(q, 503))
  BY DEF TenantDBName
<1>2. q.pc = "registry"
  BY <1>1 DEF Step
<1>3. CASE Step(r, "registry", Answer(q, 503))
  <2>1. PICK code \in Plain : Step(r, "registry", Answer(q, code))
    BY <1>3, PlainCodes
  <2> QED
    BY <1>1, <2>1, AnswerKeeps
<1>4. CASE Step(r, "registry", to)
  <2>1. /\ to \in RequestState /\ to.pc = "pool" /\ to.op = q.op /\ to.token = q.token
        /\ to.pool = q.pool /\ to.code = q.code
    BY Current, GotoFields
  <2>2. /\ Secured(q.op) /\ Admitted(q) /\ IsTenantRoute(q.op) /\ q.code = 0
        /\ q.pool = NoRequest /\ lock # r /\ pools[r].state = "unused"
    BY <1>2, Current DEF Gated, Pooled, Waiting
  <2>3. Admitted(to)
    BY <2>1, <2>2 DEF Admitted, Accepted
  <2> HIDE DEF to, q
  <2>4. CallSound(r, to)
    BY <2>1, <2>2, <2>3 DEF CallSound, Gated, Pooled, Uploaded, LoggedIn, Waiting
  <2> QED
    BY <1>1, <1>4, <2>1, <2>4, CallStep
<1> QED
  BY <1>1, <1>3, <1>4

LEMMA GotFields ==
  ASSUME NEW q \in RequestState, NEW p \in Request
  PROVE  LET to == Got(q, p) IN
         /\ to \in RequestState /\ to.pc = "handler" /\ to.pool = p
         /\ to.op = q.op /\ to.token = q.token /\ to.code = q.code
<1>1. Got(q, p) \in RequestState
  BY CallTypes
<1> QED
  BY <1>1 DEF Got, RequestState

(* What is known of a call that asks the resolver for its pool: its tenant  *)
(* is one, and a cached pool it finds is good for it.                       *)
LEMMA AtResolver ==
  ASSUME IInv, NEW r \in Request, requests[r].pc \in {"pool", "lock", "ping"}
  PROVE  LET q == requests[r] IN
         /\ q \in RequestState /\ q.code = 0 /\ q.pool = NoRequest
         /\ Secured(q.op) /\ Admitted(q) /\ IsTenantRoute(q.op)
         /\ q.token \in Token /\ q.token.tenant \in Tenant
         /\ CachedFor(q) = cached[q.token.tenant]
         /\ CachedFor(q) # NoRequest =>
              /\ CachedFor(q) \in Request /\ pools[CachedFor(q)].tenant = q.token.tenant
              /\ phase # "draining" => pools[CachedFor(q)].state = "open"
         /\ q.pc # "ping" => lock # r /\ pools[r].state = "unused"
<1> DEFINE q == requests[r]
<1>1. /\ q \in RequestState /\ q.code = 0 /\ q.pool = NoRequest
      /\ Secured(q.op) /\ Admitted(q) /\ IsTenantRoute(q.op)
      /\ q.pc # "ping" => lock # r /\ pools[r].state = "unused"
  BY Current DEF Gated, Pooled, Waiting
<1>2. q.token \in Token /\ q.token.tenant # NoTenant
  BY <1>1, TenantRouteNotPlatform DEF Admitted, Accepted
<1>3. q.token.tenant \in Tenant
  BY <1>2, TokenFields
<1>4. CachedFor(q) = cached[q.token.tenant]
  BY <1>3 DEF CachedFor
<1>5. cached[q.token.tenant] \in Request \cup {NoRequest}
  BY <1>3 DEF IInv, TypeOK
<1> HIDE DEF q
<1>6. cached[q.token.tenant] # NoRequest =>
        /\ phase # "draining" => pools[cached[q.token.tenant]].state = "open"
        /\ pools[cached[q.token.tenant]].tenant = q.token.tenant
  BY <1>3 DEF IInv, PoolsSound
<1> QED
  BY <1>1, <1>2, <1>3, <1>4, <1>5, <1>6 DEF q

(* A call that got a pool of its tenant is sound.                           *)
LEMMA GotSound ==
  ASSUME NEW r \in Request, lock # r, NEW q \in RequestState, NEW p \in Request,
         q.code = 0, Secured(q.op), Admitted(q), IsTenantRoute(q.op),
         pools[p].state = "open", pools[p].tenant = q.token.tenant
  PROVE  CallSound(r, Got(q, p))
<1> DEFINE to == Got(q, p)
<1>1. /\ to.pc = "handler" /\ to.pool = p
      /\ to.op = q.op /\ to.token = q.token /\ to.code = 0
  BY GotFields
<1> HIDE DEF to
<1>2. Admitted(to)
  BY <1>1 DEF Admitted, Accepted
<1>3. p # NoRequest
  BY ServerAssumption
<1>4. CallSound(r, to)
  BY <1>1, <1>2, <1>3 DEF CallSound, Gated, Pooled, Uploaded, LoggedIn, Waiting
<1> QED
  BY <1>4 DEF to

LEMMA FindPoolKeeps == ASSUME IInv, NEW r \in Request, FindPool(r) PROVE IInv'
<1> DEFINE q == requests[r]
           p == CachedFor(q)
<1>1. /\ UNCHANGED <<phase, active, poolVars, stored>> /\ phase # "draining"
      /\ \/ p # NoRequest /\ Step(r, "pool", Got(q, p))
         \/ Step(r, "pool", Goto(q, "lock"))
  BY DEF FindPool, Unlocked
<1>2. q.pc = "pool"
  BY <1>1 DEF Step
<1>3. /\ q \in RequestState /\ q.code = 0 /\ q.pool = NoRequest
      /\ Secured(q.op) /\ Admitted(q) /\ IsTenantRoute(q.op)
      /\ p # NoRequest => /\ p \in Request /\ pools[p].state = "open"
                         /\ pools[p].tenant = q.token.tenant
      /\ lock # r /\ pools[r].state = "unused"
  BY <1>1, <1>2, AtResolver
<1> HIDE DEF q, p
<1>4. CASE p # NoRequest /\ Step(r, "pool", Got(q, p))
  BY <1>1, <1>3, <1>4, GotFields, GotSound, CallStep
<1>5. CASE Step(r, "pool", Goto(q, "lock"))
  <2> DEFINE to == Goto(q, "lock")
  <2>1. /\ to \in RequestState /\ to.pc = "lock" /\ to.op = q.op /\ to.token = q.token
        /\ to.pool = q.pool /\ to.code = q.code
    BY <1>3, GotoFields
  <2>2. Admitted(to)
    BY <1>3, <2>1 DEF Admitted, Accepted
  <2> HIDE DEF to
  <2>3. CallSound(r, to)
    BY <1>3, <2>1, <2>2 DEF CallSound, Gated, Pooled, Uploaded, LoggedIn, Waiting
  <2> QED
    BY <1>1, <1>5, <2>1, <2>3, CallStep DEF to
<1> QED
  BY <1>1, <1>4, <1>5

LEMMA HandleKeeps == ASSUME IInv, NEW r \in Request, Handle(r) PROVE IInv'
<1> DEFINE q == requests[r]
           to == Goto(q, "statement")
<1>1. /\ UNCHANGED <<phase, active, poolVars, stored>> /\ q.op.op # "UploadMedia"
      /\ \/ \E code \in {200, 500, 503} : Step(r, "handler", Answer(q, code))
         \/ PoolUsable(q) /\ Step(r, "handler", to)
  BY DEF Handle
<1>2. q.pc = "handler"
  BY <1>1 DEF Step
<1>3. CASE \E code \in {200, 500, 503} : Step(r, "handler", Answer(q, code))
  <2>1. PICK code \in Plain : Step(r, "handler", Answer(q, code))
    BY <1>3, PlainCodes
  <2> QED
    BY <1>1, <2>1, AnswerKeeps
<1>4. CASE PoolUsable(q) /\ Step(r, "handler", to)
  <2>1. q \in RequestState /\ Gated(q) /\ Pooled(r, q) /\ Uploaded(r, q) /\ LoggedIn(q)
    BY Current
  <2>2. /\ to \in RequestState /\ to.pc = "statement" /\ to.op = q.op /\ to.token = q.token
        /\ to.pool = q.pool /\ to.code = q.code /\ to.late = q.late
    BY <2>1, GotoFields
  <2>3. Admitted(q) => Admitted(to)
    BY <2>2 DEF Admitted, Accepted
  <2> HIDE DEF to, q
  <2>4. Gated(to)
    BY <1>2, <2>1, <2>2, <2>3 DEF Gated, Waiting
  <2>5. Pooled(r, to)
    BY <1>2, <2>1, <2>2 DEF Pooled
  <2>6. to.code # 201 /\ to.code # 200
    BY <1>2, <2>1, <2>2 DEF Gated
  <2>7. CallSound(r, to)
    BY <2>2, <2>4, <2>5, <2>6 DEF CallSound, Uploaded, LoggedIn
  <2> QED
    BY <1>1, <1>4, <2>2, <2>7, CallStep
<1> QED
  BY <1>1, <1>3, <1>4

LEMMA StatementEndsKeeps == ASSUME IInv, NEW r \in Request, StatementEnds(r) PROVE IInv'
<1>1. /\ UNCHANGED <<phase, active, poolVars, stored>>
      /\ \E code \in {200, 500} : Step(r, "statement", Answer(requests[r], code))
  BY DEF StatementEnds
<1>2. PICK code \in Plain : Step(r, "statement", Answer(requests[r], code))
  BY <1>1, PlainCodes
<1> QED
  BY <1>1, <1>2, AnswerKeeps

LEMMA LoginTenantKeeps == ASSUME IInv, NEW r \in Request, LoginTenant(r) PROVE IInv'
<1> DEFINE q == requests[r]
           to == Goto(q, "user")
<1>1. /\ UNCHANGED <<phase, active, poolVars, stored>>
      /\ \/ Step(r, "tenant", to)
         \/ Step(r, "tenant", Answer(q, 401)) \/ Step(r, "tenant", Answer(q, 500))
  BY DEF LoginTenant
<1>2. q.pc = "tenant"
  BY <1>1 DEF Step
<1>3. CASE Step(r, "tenant", Answer(q, 401)) \/ Step(r, "tenant", Answer(q, 500))
  <2>1. PICK code \in Plain : Step(r, "tenant", Answer(q, code))
    BY <1>3, PlainCodes
  <2> QED
    BY <1>1, <2>1, AnswerKeeps
<1>4. CASE Step(r, "tenant", to)
  <2>1. /\ to \in RequestState /\ to.pc = "user" /\ to.op = q.op /\ to.late = q.late
        /\ to.slug = q.slug /\ to.email = q.email /\ to.pool = q.pool /\ to.code = q.code
    BY Current, GotoFields
  <2>2. /\ Login(q.op) /\ (q.late => Named(q) \cap active = {})
        /\ q.code = 0 /\ q.pool = NoRequest /\ lock # r
    BY <1>2, Current DEF Gated, Pooled, LoggedIn
  <2>3. Named(to) = Named(q)
    BY <2>1 DEF Named
  <2> HIDE DEF to, q
  <2>4. CallSound(r, to)
    BY <1>2, <2>1, <2>2, <2>3 DEF CallSound, Gated, Pooled, Uploaded, LoggedIn, Waiting
  <2> QED
    BY <1>1, <1>4, <2>1, <2>4, CallStep
<1> QED
  BY <1>1, <1>3, <1>4

LEMMA IssueKeeps == ASSUME IInv, NEW r \in Request, Issue(r) PROVE IInv'
<1> DEFINE q == requests[r]
<1>1. /\ UNCHANGED <<phase, active, poolVars, stored>>
      /\ \/ Step(r, "user", Answer(q, 401)) \/ Step(r, "user", Answer(q, 500))
         \/ \E a \in Named(q) \cap active :
              Step(r, "user", [Deliver(q, 200) EXCEPT !.token = TokenFor(a)])
  BY DEF Issue
<1>2. q.pc = "user"
  BY <1>1 DEF Step
<1>3. CASE Step(r, "user", Answer(q, 401)) \/ Step(r, "user", Answer(q, 500))
  <2>1. PICK code \in Plain : Step(r, "user", Answer(q, code))
    BY <1>3, PlainCodes
  <2> QED
    BY <1>1, <2>1, AnswerKeeps
<1>4. ASSUME NEW a \in Named(q) \cap active,
             Step(r, "user", [Deliver(q, 200) EXCEPT !.token = TokenFor(a)])
      PROVE  IInv'
  <2> DEFINE given == Deliver(q, 200)
             to == [given EXCEPT !.token = TokenFor(a)]
  <2>1. a \in Account /\ TokenFor(a) \in Token /\ TokenFor(a).account = a
    BY DEF Named, Token, TokenFor
  <2>2. /\ q \in RequestState /\ q.pool = NoRequest /\ lock # r
        /\ q.late => Named(q) \cap active = {}
    BY <1>2, Current DEF Pooled, LoggedIn
  <2>3. given \in RequestState
    BY <2>2, AnswerTypes
  <2>4. given.pc = "done" /\ given.code = 200
    BY <2>2 DEF Deliver, RequestState
  <2>5. /\ given.op = q.op /\ given.pool = q.pool /\ given.late = q.late
        /\ given.slug = q.slug /\ given.email = q.email
    BY <2>2 DEF Deliver, RequestState
  <2> HIDE DEF given
  <2>6. to \in RequestState
    BY <2>1, <2>3, CallTypes
  <2>7. /\ to.pc = given.pc /\ to.code = given.code /\ to.op = given.op /\ to.pool = given.pool
        /\ to.late = given.late /\ to.slug = given.slug /\ to.email = given.email
        /\ to.token = TokenFor(a)
    BY <2>3 DEF RequestState
  <2> HIDE DEF to
  <2>8. Named(to) = Named(q)
    BY <2>5, <2>7 DEF Named
  <2>9. ~to.late
    BY <2>2, <2>5, <2>7
  <2>10. to.code # 201 /\ to.pool = NoRequest /\ to.pc = "done"
    BY <2>2, <2>4, <2>5, <2>7
  <2>11. LoggedIn(to)
    BY <2>1, <2>7, <2>8, <2>9, <2>10 DEF LoggedIn
  <2>12. CallSound(r, to)
    BY <2>2, <2>10, <2>11 DEF CallSound, Gated, Pooled, Uploaded, Waiting
  <2> QED
    BY <1>1, <1>4, <2>6, <2>12, CallStep DEF to, given
<1> QED
  BY <1>1, <1>3, <1>4

LEMMA ObjectURLKeeps == ASSUME IInv, NEW r \in Request, ObjectURL(r) PROVE IInv'
<1> DEFINE q == requests[r]
           to == Deliver(q, 201)
<1>1. /\ UNCHANGED <<phase, active, poolVars, stored>>
      /\ Step(r, "url", to) \/ Step(r, "url", Answer(q, 500))
  BY DEF ObjectURL
<1>2. q.pc = "url"
  BY <1>1 DEF Step
<1>3. CASE Step(r, "url", Answer(q, 500))
  BY <1>1, <1>3, RefusalKeeps
<1>4. CASE Step(r, "url", to)
  <2>1. /\ q \in RequestState /\ lock # r /\ Pooled(r, q)
        /\ q.op.op = "UploadMedia" /\ q.token \in Token /\ <<r, q.token.tenant>> \in stored
    BY <1>2, Current DEF Uploaded
  <2>2. to \in RequestState
    BY <2>1, AnswerTypes
  <2>3. to.pc = "done" /\ to.code = 201
    BY <2>1 DEF Deliver, RequestState
  <2>4. to.op = q.op /\ to.token = q.token /\ to.pool = q.pool
    BY <2>1 DEF Deliver, RequestState
  <2> HIDE DEF to, q
  <2>5. ~Login(to.op)
    BY <2>1, <2>4 DEF Login
  <2>6. Pooled(r, to)
    BY <2>1, <2>3, <2>4 DEF Pooled
  <2>7. CallSound(r, to)
    BY <2>1, <2>3, <2>4, <2>5, <2>6 DEF CallSound, Gated, Uploaded, LoggedIn, Waiting
  <2> QED
    BY <1>1, <1>4, <2>2, <2>7, CallStep
<1> QED
  BY <1>1, <1>3, <1>4

-----------------------------------------------------------------------------
(* The steps that change what calls share.                                  *)

(* A step of a call that leaves it sound, the others' pools and the cache   *)
(* as they should be, and no object removed.                                *)
LEMMA SharedStep ==
  ASSUME IInv, NEW r \in Request, NEW from, NEW to \in RequestState, Step(r, from, to),
         UNCHANGED <<phase, active>>, stored \subseteq stored',
         TypeOK', PoolsSound', Gated(to), LoggedIn(to), Uploaded(r, to)', Pooled(r, to)',
         \A s \in Request \ {r} : Pooled(s, requests[s])'
  PROVE  IInv'
<1>1. requests'[r] = to /\ \A s \in Request \ {r} : requests'[s] = requests[s]
  BY StepChanges DEF IInv
<1>2. CallSound(r, requests[r])'
  <2>1. Gated(requests[r])'
    BY <1>1 DEF Gated, Admitted, Accepted
  <2>2. LoggedIn(requests[r])'
    BY <1>1 DEF LoggedIn, Named
  <2>3. Uploaded(r, requests[r])' /\ Pooled(r, requests[r])'
    BY <1>1 DEF Uploaded, Pooled
  <2> QED
    BY <2>1, <2>2, <2>3 DEF CallSound
<1>3. ASSUME NEW s \in Request \ {r} PROVE CallSound(s, requests[s])'
  <2>1. Gated(requests'[s]) /\ LoggedIn(requests'[s]) /\ Uploaded(s, requests'[s])
    BY <1>1, <1>3 DEF IInv, CallSound
  <2>2. Gated(requests[s])'
    BY <2>1 DEF Gated, Admitted, Accepted
  <2>3. LoggedIn(requests[s])'
    BY <2>1 DEF LoggedIn, Named
  <2>4. Uploaded(s, requests[s])'
    BY <2>1 DEF Uploaded
  <2> QED
    BY <1>3, <2>2, <2>3, <2>4 DEF CallSound
<1> QED
  BY <1>2, <1>3 DEF IInv

LEMMA UploadKeeps == ASSUME IInv, NEW r \in Request, Upload(r) PROVE IInv'
<1> DEFINE q == requests[r]
           to == Goto(q, "url")
           with == stored \cup {<<r, q.token.tenant>>}
<1>1. /\ UNCHANGED <<phase, active, poolVars>> /\ q.op.op = "UploadMedia"
      /\ \/ q.token.tenant = NoTenant /\ Step(r, "handler", Answer(q, 401)) /\ UNCHANGED stored
         \/ Step(r, "handler", Answer(q, 400)) /\ UNCHANGED stored
         \/ Step(r, "handler", Answer(q, 500)) /\ stored' \in {stored, with}
         \/ Step(r, "handler", to) /\ stored' = with
  BY DEF Upload
<1>2. q.pc = "handler"
  BY <1>1 DEF Step
<1>3. /\ q \in RequestState /\ Gated(q) /\ Pooled(r, q) /\ lock # r
      /\ TypeOK
  BY <1>2, Current
<1>4. Secured(q.op) /\ ~IsPlatformRoute(q.op)
  <2>1. q.op \in Operation \cup {NoOperation}
    BY <1>3 DEF RequestState
  <2> QED
    BY <2>1, <1>1, UploadRoute DEF NoOperation
<1>5. q.token \in Token /\ q.token.tenant \in Tenant /\ q.code = 0
  BY <1>2, <1>3, <1>4, TokenFields DEF Gated, Admitted, Accepted
<1>6. CASE /\ UNCHANGED stored
           /\ Step(r, "handler", Answer(q, 401)) \/ Step(r, "handler", Answer(q, 400))
                \/ Step(r, "handler", Answer(q, 500))
  BY <1>1, <1>6, RefusalKeeps
<1>7. ASSUME NEW next \in RequestState, Step(r, "handler", next), stored' = with,
             Gated(next), LoggedIn(next), Pooled(r, next),
             next.pc = "url" => next.op.op = "UploadMedia",
             next.pc = "url" \/ next.code = 201 =>
               next.token = q.token
      PROVE  IInv'
  <2>1. requests' \in [Request -> RequestState]
        /\ \A s \in Request \ {r} : requests'[s] = requests[s]
    BY <1>3, <1>7, StepChanges
  <2>2. with \subseteq Request \X Tenant
    BY <1>3, <1>5 DEF TypeOK
  <2>3. Pooled(r, next)'
    BY <1>1, <1>7 DEF Pooled, poolVars
  <2>4. <<r, q.token.tenant>> \in stored'
    BY <1>7
  <2> HIDE DEF q
  <2>5. Uploaded(r, next)'
    BY <1>5, <1>7, <2>4 DEF Uploaded
  <2>6. stored \subseteq stored'
    BY <1>7
  <2> HIDE DEF with
  <2>7. TypeOK'
    BY <1>1, <1>3, <1>7, <2>1, <2>2 DEF TypeOK, poolVars
  <2>8. PoolsSound'
    BY <1>1 DEF IInv, PoolsSound, poolVars
  <2>9. ASSUME NEW s \in Request \ {r} PROVE Pooled(s, requests[s])'
    <3>1. Pooled(s, requests'[s])
      BY <2>1, Current
    <3> QED
      BY <1>1, <3>1 DEF Pooled, poolVars
  <2> QED
    BY <1>1, <1>7, <2>7, <2>8, <2>9, <2>3, <2>5, <2>6, SharedStep
<1>8. CASE Step(r, "handler", Answer(q, 500)) /\ stored' = with
  <2> DEFINE end == Answer(q, 500)
  <2>1. end \in RequestState
    BY <1>3, AnswerTypes
  <2>2. CallSound(r, end)
    BY <1>3, AnswerSound, PlainCodes
  <2>3. end.pc = "done" /\ end.code = 500
    BY DEF Answer, NewRequest
  <2> HIDE DEF end
  <2> HIDE DEF with, q
  <2>4. Step(r, "handler", end)
    BY <1>8 DEF end
  <2>5. end.pc # "url" /\ end.code # 201
    BY <2>3
  <2> QED
    BY <1>7, <1>8, <2>1, <2>2, <2>4, <2>5 DEF CallSound
<1>9. CASE Step(r, "handler", to) /\ stored' = with
  <2>1. /\ to \in RequestState /\ to.pc = "url" /\ to.op = q.op /\ to.token = q.token
        /\ to.pool = q.pool /\ to.code = q.code
    BY <1>3, GotoFields
  <2>2. Admitted(q) /\ (IsTenantRoute(q.op) <=> q.pool # NoRequest)
    BY <1>2, <1>3, <1>4 DEF Gated
  <2>3. Admitted(to)
    BY <2>1, <2>2 DEF Admitted, Accepted
  <2> HIDE DEF to
  <2>4. Gated(to)
    BY <1>5, <2>1, <2>2, <2>3 DEF Gated, Waiting
  <2>5. LoggedIn(to)
    BY <1>5, <2>1 DEF LoggedIn
  <2>6. Pooled(r, to)
    BY <1>2, <1>3, <2>1 DEF Pooled
  <2> HIDE DEF with, q
  <2> QED
    BY <1>1, <1>7, <1>9, <2>1, <2>4, <2>5, <2>6
<1> HIDE DEF q, to, with
<1> QED
  BY <1>1, <1>6, <1>7, <1>8, <1>9

LEMMA DialKeeps == ASSUME IInv, NEW r \in Request, Dial(r) PROVE IInv'
<1> DEFINE q == requests[r]
           p == CachedFor(q)
<1>1. /\ lock = NoRequest /\ phase # "draining" /\ UNCHANGED <<phase, active, stored>>
      /\ \/ p # NoRequest /\ Step(r, "lock", Got(q, p)) /\ UNCHANGED poolVars
         \/ /\ p = NoRequest /\ Step(r, "lock", Goto(q, "ping"))
            /\ lock' = r /\ UNCHANGED cached
            /\ pools' = [pools EXCEPT ![r] = [state |-> "dialing", tenant |-> q.token.tenant]]
  BY DEF Dial, Unlocked
<1>2. q.pc = "lock" /\ TypeOK
  BY <1>1, Current DEF Step
<1>3. /\ q \in RequestState /\ q.code = 0 /\ q.pool = NoRequest
      /\ Secured(q.op) /\ Admitted(q) /\ IsTenantRoute(q.op)
      /\ q.token.tenant \in Tenant /\ p = cached[q.token.tenant]
      /\ p # NoRequest => /\ p \in Request /\ pools[p].state = "open"
                         /\ pools[p].tenant = q.token.tenant
      /\ lock # r /\ pools[r].state = "unused"
  BY <1>1, <1>2, AtResolver
<1>4. r # NoRequest
  BY ServerAssumption
<1> HIDE DEF p
<1>5. CASE p # NoRequest /\ Step(r, "lock", Got(q, p)) /\ UNCHANGED poolVars
  <2> HIDE DEF q
  <2> QED
    BY <1>1, <1>3, <1>5, GotFields, GotSound, CallStep
<1>6. CASE /\ p = NoRequest /\ Step(r, "lock", Goto(q, "ping"))
           /\ lock' = r /\ UNCHANGED cached
           /\ pools' = [pools EXCEPT ![r] = [state |-> "dialing", tenant |-> q.token.tenant]]
  <2>1. PICK to \in RequestState :
          /\ to = Goto(q, "ping") /\ to.pc = "ping" /\ to.op = q.op /\ to.token = q.token
          /\ to.pool = q.pool /\ to.code = q.code
    BY <1>3, GotoFields
  <2>2. Admitted(to)
    BY <1>3, <2>1 DEF Admitted, Accepted
  <2>3. /\ requests' \in [Request -> RequestState]
        /\ \A s \in Request \ {r} : requests'[s] = requests[s]
    BY <1>2, <1>6, <2>1, StepChanges
  <2>4. /\ pools'[r].state = "dialing" /\ pools'[r].tenant = q.token.tenant
        /\ pools'[r] = [state |-> "dialing", tenant |-> q.token.tenant]
        /\ lock' = r /\ cached' = cached /\ cached[q.token.tenant] = NoRequest
        /\ \A s \in Request \ {r} : pools'[s] = pools[s]
    BY <1>2, <1>3, <1>6 DEF TypeOK
  <2>5. [state |-> "dialing", tenant |-> q.token.tenant]
           \in [state : {"unused", "dialing", "open", "closed"}, tenant : Tenant \cup {NoTenant}]
    BY <1>3
  <2> HIDE DEF q
  <2>6. TypeOK'
    BY <1>1, <1>2, <1>6, <2>3, <2>5 DEF TypeOK
  <2>7. PoolsSound'
    <3>1. \A t \in Tenant : cached[t] # NoRequest =>
            /\ cached[t] \in Request \ {r}
            /\ pools[cached[t]].state = "open" /\ pools[cached[t]].tenant = t
      BY <1>1, <1>2, <1>3 DEF IInv, PoolsSound, TypeOK
    <3>2. \A s \in Request : pools[s].state # "dialing"
      BY <1>1, <1>4, ServerAssumption DEF IInv, PoolsSound
    <3>3. \A s \in Request : pools[s].state = "open" =>
            pools[s].tenant \in Tenant /\ cached[pools[s].tenant] = s
      BY DEF IInv, PoolsSound
    <3>4. ASSUME NEW t \in Tenant, cached'[t] # NoRequest
          PROVE  pools'[cached'[t]].state = "open" /\ pools'[cached'[t]].tenant = t
      BY <1>6, <2>4, <3>1, <3>4
    <3>5. ASSUME NEW s \in Request \ {r}
          PROVE  /\ pools'[s].state # "dialing"
                 /\ pools'[s].state = "open" =>
                      pools'[s].tenant \in Tenant /\ cached'[pools'[s].tenant] = s
      BY <1>6, <2>4, <3>2, <3>3
    <3>6. /\ pools'[r].state = "dialing" /\ lock' = r
          /\ pools'[r].tenant \in Tenant /\ cached'[pools'[r].tenant] = NoRequest
      BY <1>3, <2>4
    <3>7. \A s \in Request : pools'[s].state = "open" =>
            pools'[s].tenant \in Tenant /\ cached'[pools'[s].tenant] = s
      BY <3>5, <3>6
    <3>8. \A s \in Request : pools'[s].state = "dialing" =>
            lock' = s /\ pools'[s].tenant \in Tenant /\ cached'[pools'[s].tenant] = NoRequest
      BY <3>5, <3>6
    <3> QED
      BY <1>1, <3>4, <3>7, <3>8 DEF PoolsSound
  <2>8. Pooled(r, to)'
    BY <1>3, <1>6, <2>1, <2>4 DEF Pooled
  <2>9. ASSUME NEW s \in Request \ {r} PROVE Pooled(s, requests[s])'
    <3>1. Pooled(s, requests[s]) /\ requests[s].pool \in Request \cup {NoRequest}
      BY Current DEF RequestState
    <3>2. requests[s].pc # "ping" /\ requests[s].pool # r
      BY <1>1, <1>3, <1>4, <3>1, ServerAssumption DEF Pooled
    <3> QED
      BY <1>6, <2>3, <2>4, <3>1, <3>2 DEF Pooled
  <2>10. Gated(to) /\ LoggedIn(to)
    BY <1>3, <2>1, <2>2 DEF Gated, LoggedIn, Waiting
  <2>11. Uploaded(r, to)'
    BY <1>3, <2>1 DEF Uploaded
  <2> QED
    BY <1>1, <1>6, <2>1, <2>6, <2>7, <2>8, <2>9, <2>10, <2>11, SharedStep
<1> HIDE DEF q
<1> QED
  BY <1>1, <1>5, <1>6

(* While a call holds the lock it is the one that dials, for its tenant, of *)
(* which nothing is cached, and no other call uses its pool.                *)
LEMMA AtPing ==
  ASSUME IInv, NEW r \in Request, requests[r].pc = "ping"
  PROVE  /\ lock = r /\ pools[r] = [state |-> "dialing", tenant |-> requests[r].token.tenant]
         /\ cached[requests[r].token.tenant] = NoRequest
         /\ \A t \in Tenant : cached[t] # r
         /\ phase # "draining"
         /\ \A s \in Request \ {r} :
              /\ requests[s].pc # "ping" /\ requests[s].pool # r
              /\ pools[s].state # "dialing"
<1>1. /\ lock = r /\ pools[r] = [state |-> "dialing", tenant |-> requests[r].token.tenant]
  BY Current DEF Pooled
<1>2. pools[r].state = "dialing" /\ pools[r].tenant = requests[r].token.tenant
  BY <1>1
<1>3. cached[requests[r].token.tenant] = NoRequest
  BY <1>2 DEF IInv, PoolsSound
<1>4. \A t \in Tenant : cached[t] # r
  BY <1>2, ServerAssumption DEF IInv, PoolsSound
<1>5. ASSUME NEW s \in Request \ {r}
      PROVE  /\ requests[s].pc # "ping" /\ requests[s].pool # r
             /\ pools[s].state # "dialing"
  <2>1. Pooled(s, requests[s]) /\ s # r
    BY Current
  <2>2. requests[s].pc # "ping"
    BY <1>1, <2>1 DEF Pooled
  <2>3. requests[s].pool # r
    BY <1>2, <2>1, ServerAssumption DEF Pooled
  <2>4. pools[s].state # "dialing"
    BY <1>1, <2>1 DEF IInv, PoolsSound
  <2> QED
    BY <2>2, <2>3, <2>4
<1>6. phase # "draining"
  BY <1>1, ServerAssumption DEF IInv, PoolsSound
<1> QED
  BY <1>1, <1>3, <1>4, <1>5, <1>6

(* The end of a dial, whatever it is, disturbs no other call.               *)
LEMMA PingEnds ==
  ASSUME IInv, NEW r \in Request, NEW to \in RequestState, Step(r, "ping", to),
         NEW state \in {"open", "closed"}, pools' = [pools EXCEPT ![r].state = state],
         lock' = NoRequest
  PROVE  /\ requests' \in [Request -> RequestState]
         /\ pools' \in [Request -> [state : {"unused", "dialing", "open", "closed"},
                                    tenant : Tenant \cup {NoTenant}]]
         /\ pools'[r].state = state /\ pools'[r].tenant = requests[r].token.tenant
         /\ \A s \in Request \ {r} : pools'[s] = pools[s] /\ Pooled(s, requests[s])'
<1>1. /\ requests[r].pc = "ping" /\ requests' \in [Request -> RequestState]
      /\ \A s \in Request \ {r} : requests'[s] = requests[s]
  BY StepChanges DEF IInv
<1>2. pools[r].tenant = requests[r].token.tenant
  <2>1. pools[r] = [state |-> "dialing", tenant |-> requests[r].token.tenant]
    BY <1>1, AtPing
  <2> QED
    BY <2>1
<1>3. /\ pools' \in [Request -> [state : {"unused", "dialing", "open", "closed"},
                                 tenant : Tenant \cup {NoTenant}]]
      /\ pools'[r].state = state /\ pools'[r].tenant = pools[r].tenant
      /\ \A s \in Request \ {r} : pools'[s] = pools[s]
  BY DEF IInv, TypeOK
<1>4. ASSUME NEW s \in Request \ {r} PROVE Pooled(s, requests[s])'
  <2>1. /\ Pooled(s, requests[s]) /\ requests[s].pool \in Request \cup {NoRequest}
        /\ requests[s].pc # "ping" /\ requests[s].pool # r
    <3>1. Pooled(s, requests[s]) /\ requests[s] \in RequestState
      BY Current
    <3>2. requests[s].pc # "ping" /\ requests[s].pool # r
      BY <1>1, AtPing
    <3> QED
      BY <3>1, <3>2 DEF RequestState
  <2>2. s # NoRequest
    BY ServerAssumption
  <2> QED
    BY <1>1, <1>3, <2>1, <2>2 DEF Pooled
<1> QED
  BY <1>1, <1>2, <1>3, <1>4

LEMMA PingFailsKeeps == ASSUME IInv, NEW r \in Request, PingFails(r) PROVE IInv'
<1>1. /\ Step(r, "ping", Answer(requests[r], 503)) /\ requests[r].pc = "ping"
      /\ pools' = [pools EXCEPT ![r].state = "closed"] /\ lock' = NoRequest
      /\ UNCHANGED <<phase, active, cached, stored>>
  BY DEF PingFails, Step
<1>2. PICK to \in RequestState : to = Answer(requests[r], 503)
  BY Current, AnswerTypes
<1>3. /\ to.pc = "done" /\ to.op = NoOperation /\ to.pool = NoRequest
      /\ to.code # 201
  BY <1>2 DEF Answer, NewRequest
<1>4. Step(r, "ping", to)
  BY <1>1, <1>2
<1>5. /\ requests' \in [Request -> RequestState]
      /\ pools' \in [Request -> [state : {"unused", "dialing", "open", "closed"},
                                 tenant : Tenant \cup {NoTenant}]]
      /\ pools'[r].state = "closed"
      /\ \A s \in Request \ {r} : pools'[s] = pools[s] /\ Pooled(s, requests[s])'
  BY <1>1, <1>4, PingEnds
<1>6. TypeOK'
  BY <1>1, <1>5 DEF IInv, TypeOK
<1>7. PoolsSound'
  <2>1. \A t \in Tenant : cached[t] # NoRequest => cached[t] \in Request \ {r}
    BY <1>1, AtPing DEF IInv, TypeOK
  <2>2. phase # "draining" /\ \A s \in Request \ {r} : pools[s].state # "dialing"
    BY <1>1, AtPing
  <2> QED
    BY <1>1, <1>5, <2>1, <2>2 DEF IInv, PoolsSound
<1>8. Pooled(r, to)' /\ Uploaded(r, to)'
  BY <1>1, <1>3, ServerAssumption DEF Pooled, Uploaded
<1>9. Gated(to) /\ LoggedIn(to)
  BY <1>3, NoOperationOpen DEF Gated, LoggedIn, Waiting
<1> QED
  BY <1>1, <1>4, <1>5, <1>6, <1>7, <1>8, <1>9, SharedStep

LEMMA PingSucceedsKeeps == ASSUME IInv, NEW r \in Request, PingSucceeds(r) PROVE IInv'
<1> DEFINE q == requests[r]
<1>1. /\ Step(r, "ping", Got(q, r)) /\ q.pc = "ping"
      /\ pools' = [pools EXCEPT ![r].state = "open"] /\ lock' = NoRequest
      /\ cached' = [cached EXCEPT ![q.token.tenant] = r]
      /\ UNCHANGED <<phase, active, stored>>
  BY DEF PingSucceeds, Step
<1>2. /\ q \in RequestState /\ q.code = 0 /\ Secured(q.op) /\ Admitted(q)
      /\ IsTenantRoute(q.op) /\ q.token.tenant \in Tenant
  BY <1>1, AtResolver
<1>3. PICK to \in RequestState :
        /\ to = Got(q, r) /\ to.pc = "handler" /\ to.pool = r
        /\ to.op = q.op /\ to.token = q.token /\ to.code = q.code
  BY <1>2, GotFields
<1>4. Step(r, "ping", to)
  BY <1>1, <1>3
<1>5. /\ requests' \in [Request -> RequestState]
      /\ pools' \in [Request -> [state : {"unused", "dialing", "open", "closed"},
                                 tenant : Tenant \cup {NoTenant}]]
      /\ pools'[r].state = "open" /\ pools'[r].tenant = q.token.tenant
      /\ \A s \in Request \ {r} : pools'[s] = pools[s] /\ Pooled(s, requests[s])'
  BY <1>1, <1>4, PingEnds
<1>6. /\ cached' \in [Tenant -> Request \cup {NoRequest}] /\ cached'[q.token.tenant] = r
      /\ \A t \in Tenant \ {q.token.tenant} : cached'[t] = cached[t]
  BY <1>1, <1>2 DEF IInv, TypeOK
<1>7. /\ cached[q.token.tenant] = NoRequest /\ phase # "draining"
      /\ \A t \in Tenant : cached[t] # r
      /\ \A s \in Request \ {r} : pools[s].state # "dialing"
  BY <1>1, AtPing
<1> HIDE DEF q
<1>8. TypeOK'
  BY <1>1, <1>5, <1>6 DEF IInv, TypeOK
<1>9. PoolsSound'
  <2>1. ASSUME NEW t \in Tenant, cached'[t] # NoRequest
        PROVE  pools'[cached'[t]].state = "open" /\ pools'[cached'[t]].tenant = t
    <3>1. CASE t = q.token.tenant
      BY <3>1, <1>5, <1>6
    <3>2. CASE t # q.token.tenant
      <4>1. cached'[t] = cached[t] /\ cached[t] \in Request \ {r}
        BY <3>2, <2>1, <1>6, <1>7 DEF IInv, TypeOK
      <4>2. pools[cached[t]].state = "open" /\ pools[cached[t]].tenant = t
        BY <1>7, <2>1, <4>1 DEF IInv, PoolsSound
      <4> QED
        BY <1>5, <4>1, <4>2
    <3> QED
      BY <3>1, <3>2
  <2>2. ASSUME NEW s \in Request, pools'[s].state = "open"
        PROVE  pools'[s].tenant \in Tenant /\ cached'[pools'[s].tenant] = s
    <3>1. CASE s = r
      BY <3>1, <1>2, <1>5, <1>6
    <3>2. CASE s # r
      <4>1. pools'[s] = pools[s] /\ pools[s].tenant \in Tenant /\ cached[pools[s].tenant] = s
        BY <3>2, <2>2, <1>5 DEF IInv, PoolsSound
      <4>2. pools[s].tenant # q.token.tenant
        BY <4>1, <1>7, ServerAssumption
      <4> QED
        BY <1>6, <4>1, <4>2
    <3> QED
      BY <3>1, <3>2
  <2>3. ASSUME NEW s \in Request PROVE pools'[s].state # "dialing"
    BY <1>5, <1>7
  <2> QED
    BY <1>1, <1>7, <2>1, <2>2, <2>3 DEF PoolsSound
<1>10. Pooled(r, to)' /\ Uploaded(r, to)'
  BY <1>1, <1>2, <1>3, <1>5, ServerAssumption DEF Pooled, Uploaded
<1>11. Gated(to) /\ LoggedIn(to)
  <2>1. Admitted(to)
    BY <1>2, <1>3 DEF Admitted, Accepted
  <2>2. r # NoRequest
    BY ServerAssumption
  <2> QED
    BY <1>2, <1>3, <2>1, <2>2 DEF Gated, LoggedIn, Waiting
<1> QED
  BY <1>1, <1>4, <1>5, <1>8, <1>9, <1>10, <1>11, SharedStep

-----------------------------------------------------------------------------
(* The steps of the process and of the staff.                               *)

(* A step that leaves the calls alone.                                      *)
LEMMA PhaseStep ==
  ASSUME IInv, UNCHANGED <<active, poolVars, stored, requests>>, phase' \in Phase,
         phase # "draining" \/ phase' = phase, phase' = "draining" => lock = NoRequest
  PROVE  IInv'
<1>1. TypeOK'
  BY DEF IInv, TypeOK, poolVars
<1>2. PoolsSound'
  BY DEF IInv, PoolsSound, poolVars
<1>3. ASSUME NEW r \in Request PROVE CallSound(r, requests[r])'
  BY DEF IInv, CallSound, Gated, Admitted, Accepted, Pooled, Uploaded, LoggedIn, Named, poolVars
<1> QED
  BY <1>1, <1>2, <1>3 DEF IInv

LEMMA RunKeeps ==
  ASSUME IInv, LoadConfig \/ NewControlPlanePool \/ NewMinioStore \/ Signal \/ LockPools \/ Exit
  PROVE  IInv'
<1>1. /\ UNCHANGED <<active, poolVars, stored, requests>> /\ phase # "draining"
      /\ phase' \in {"configured", "connected", "serving", "closingTenants", "draining", "exited"}
      /\ phase' = "draining" => lock = NoRequest
  BY DEF LoadConfig, NewControlPlanePool, NewMinioStore, Signal, LockPools, Exit
<1>2. phase' \in Phase
  BY <1>1 DEF Phase
<1> QED
  BY <1>1, <1>2, PhaseStep

(* A step of run() that leaves the calls alone and changes no pool but an   *)
(* open one, which it closes.                                               *)
LEMMA CloseStep ==
  ASSUME IInv, UNCHANGED <<active, lock, stored, requests>>, TypeOK', PoolsSound',
         \A p \in Request : \/ pools'[p] = pools[p]
                            \/ /\ pools[p].state = "open" /\ pools'[p].state = "closed"
                               /\ pools'[p].tenant = pools[p].tenant
  PROVE  IInv'
<1>1. ASSUME NEW r \in Request PROVE CallSound(r, requests[r])'
  <2>1. /\ Gated(requests[r]) /\ Pooled(r, requests[r]) /\ Uploaded(r, requests[r])
        /\ LoggedIn(requests[r]) /\ requests[r].pool \in Request \cup {NoRequest}
    BY Current DEF RequestState
  <2>2. Gated(requests[r])' /\ Uploaded(r, requests[r])' /\ LoggedIn(requests[r])'
    BY <2>1 DEF Gated, Admitted, Accepted, Uploaded, LoggedIn, Named
  <2>3. pools[r] = [state |-> "dialing", tenant |-> requests[r].token.tenant] => pools'[r] = pools[r]
    OBVIOUS
  <2>4. Pooled(r, requests[r])'
    BY <2>1, <2>3, ServerAssumption DEF Pooled
  <2> QED
    BY <2>2, <2>4 DEF CallSound
<1> QED
  BY <1>1 DEF IInv

LEMMA ClosePoolKeeps == ASSUME IInv, NEW p \in Request, ClosePool(p) PROVE IInv'
<1>1. /\ phase = "draining" /\ pools[p].state = "open"
      /\ pools' = [pools EXCEPT ![p].state = "closed"]
      /\ UNCHANGED <<phase, active, cached, lock, stored, requests>>
  BY DEF ClosePool
<1>2. /\ pools' \in [Request -> [state : {"unused", "dialing", "open", "closed"},
                                 tenant : Tenant \cup {NoTenant}]]
      /\ pools'[p].state = "closed" /\ pools'[p].tenant = pools[p].tenant
      /\ \A s \in Request \ {p} : pools'[s] = pools[s]
  BY <1>1 DEF IInv, TypeOK
<1>3. TypeOK'
  BY <1>1, <1>2 DEF IInv, TypeOK
<1>4. PoolsSound'
  <2>1. ASSUME NEW t \in Tenant, cached'[t] # NoRequest
        PROVE  pools'[cached'[t]].state \in {"open", "closed"} /\ pools'[cached'[t]].tenant = t
    <3>1. cached'[t] = cached[t] /\ cached[t] \in Request
      BY <1>1, <2>1 DEF IInv, TypeOK
    <3>2. pools[cached[t]].state \in {"open", "closed"} /\ pools[cached[t]].tenant = t
      BY <2>1, <3>1 DEF IInv, PoolsSound
    <3> QED
      BY <1>2, <3>1, <3>2
  <2>2. ASSUME NEW s \in Request
        PROVE  /\ pools'[s].state # "dialing"
               /\ pools'[s].state = "open" =>
                    pools'[s].tenant \in Tenant /\ cached'[pools'[s].tenant] = s
    <3>1. pools[s].state # "dialing"
      BY <1>1, ServerAssumption DEF IInv, PoolsSound
    <3> QED
      BY <1>1, <1>2, <3>1 DEF IInv, PoolsSound
  <2>3. phase' = "draining" /\ lock' = NoRequest
    BY <1>1 DEF IInv, PoolsSound
  <2> QED
    BY <2>1, <2>2, <2>3 DEF PoolsSound
<1> QED
  BY <1>1, <1>2, <1>3, <1>4, CloseStep

LEMMA PoolsClosedKeeps == ASSUME IInv, PoolsClosed PROVE IInv'
<1>1. /\ phase = "draining" /\ phase' = "closingControl"
      /\ \A p \in Request : pools[p].state # "open"
      /\ cached' = [t \in Tenant |-> NoRequest]
      /\ UNCHANGED <<active, pools, lock, stored, requests>>
  BY DEF PoolsClosed
<1>2. TypeOK'
  BY <1>1 DEF IInv, TypeOK, Phase
<1>3. \A p \in Request : pools[p].state # "dialing"
  BY <1>1, ServerAssumption DEF IInv, PoolsSound
<1>4. PoolsSound'
  BY <1>1, <1>3 DEF PoolsSound
<1> QED
  BY <1>1, <1>2, <1>4, CloseStep

LEMMA DisableKeeps == ASSUME IInv, NEW a \in Suspect, Disable(a) PROVE IInv'
<1>1. active' = active \ {a} /\ UNCHANGED <<phase, poolVars, stored, requests>>
  BY DEF Disable
<1>2. TypeOK'
  BY <1>1 DEF IInv, TypeOK, poolVars
<1>3. PoolsSound'
  BY <1>1 DEF IInv, PoolsSound, poolVars
<1>4. ASSUME NEW r \in Request PROVE CallSound(r, requests[r])'
  BY <1>1 DEF IInv, CallSound, Gated, Admitted, Accepted, Pooled, Uploaded, LoggedIn, Named,
     poolVars
<1> QED
  BY <1>2, <1>3, <1>4 DEF IInv

LEMMA EnableKeeps == ASSUME IInv, NEW a \in Suspect, Enable(a) PROVE IInv'
<1>1. /\ active' = active \cup {a} /\ UNCHANGED <<phase, poolVars, stored>>
      /\ requests' = [r \in Request |->
                        IF a \in Named(requests[r]) THEN [requests[r] EXCEPT !.late = FALSE]
                                                    ELSE requests[r]]
      /\ a \in Account
  BY ServerAssumption DEF Enable
<1>2. ASSUME NEW r \in Request
      PROVE  LET q == requests[r]
                 to == requests'[r]
             IN /\ to \in RequestState /\ to.pc = q.pc /\ to.op = q.op /\ to.token = q.token
                /\ to.pool = q.pool /\ to.slug = q.slug /\ to.email = q.email
                /\ to.code = q.code
                /\ to.late => q.late /\ a \notin Named(q)
  <2>1. requests[r] \in RequestState
    BY Current
  <2>2. CASE a \in Named(requests[r])
    <3>1. requests'[r] = [requests[r] EXCEPT !.late = FALSE]
      BY <1>1, <2>2
    <3> QED
      BY <2>1, <3>1 DEF RequestState
  <2>3. CASE a \notin Named(requests[r])
    BY <1>1, <2>1, <2>3
  <2> QED
    BY <2>2, <2>3
<1>3. TypeOK'
  <2>1. requests' \in [Request -> RequestState]
    BY <1>1, <1>2
  <2> QED
    BY <1>1, <2>1 DEF IInv, TypeOK, poolVars
<1>4. PoolsSound'
  BY <1>1 DEF IInv, PoolsSound, poolVars
<1>5. ASSUME NEW r \in Request PROVE CallSound(r, requests[r])'
  <2>1. /\ Gated(requests[r]) /\ Pooled(r, requests[r]) /\ Uploaded(r, requests[r])
        /\ LoggedIn(requests[r])
    BY Current
  <2>2. Gated(requests[r])'
    BY <1>2, <2>1 DEF Gated, Admitted, Accepted
  <2>3. Pooled(r, requests[r])'
    BY <1>1, <1>2, <2>1 DEF Pooled, poolVars
  <2>4. Uploaded(r, requests[r])'
    BY <1>1, <1>2, <2>1 DEF Uploaded
  <2>5. Named(requests[r])' = Named(requests[r])
    BY <1>2 DEF Named
  <2>6. LoggedIn(requests[r])'
    BY <1>1, <1>2, <2>1, <2>5 DEF LoggedIn
  <2> QED
    BY <2>2, <2>3, <2>4, <2>6 DEF CallSound
<1> QED
  BY <1>3, <1>4, <1>5 DEF IInv

-----------------------------------------------------------------------------
LEMMA StutterKeeps == ASSUME IInv, UNCHANGED vars PROVE IInv'
<1>1. UNCHANGED <<active, poolVars, stored, requests>> /\ phase' = phase
  BY DEF vars, poolVars
<1> QED
  BY <1>1, PhaseStep DEF IInv, TypeOK, PoolsSound

LEMMA NextInv == IInv /\ [Next]_vars => IInv'
<1> SUFFICES ASSUME IInv, [Next]_vars PROVE IInv'
  OBVIOUS
<1>1. CASE \E r \in Request : Arrive(r) \/ Progress(r)
  <2>1. PICK r \in Request : Arrive(r) \/ Progress(r)
    BY <1>1
  <2> QED
    BY <2>1, ArriveKeeps, AuthenticateKeeps, TenantDBNameKeeps, FindPoolKeeps, DialKeeps,
       PingFailsKeeps, PingSucceedsKeeps, HandleKeeps, StatementEndsKeeps, UploadKeeps, ObjectURLKeeps,
       LoginTenantKeeps, IssueKeeps DEF Progress
<1>2. CASE LoadConfig \/ NewControlPlanePool \/ NewMinioStore \/ Signal \/ LockPools \/ Exit
  BY <1>2, RunKeeps
<1>3. CASE (\E p \in Request : ClosePool(p)) \/ PoolsClosed
  BY <1>3, ClosePoolKeeps, PoolsClosedKeeps
<1>4. CASE \E a \in Suspect : Disable(a) \/ Enable(a)
  BY <1>4, DisableKeeps, EnableKeeps
<1>5. CASE UNCHANGED vars
  BY <1>5, StutterKeeps
<1> QED
  BY <1>1, <1>2, <1>3, <1>4, <1>5 DEF Next, Stop

(* The invariant holds in every reachable state. *)
THEOREM Invariance == Spec => []IInv
BY InitInv, NextInv, PTL DEF Spec

(* Every value stays of its type, the answers the API gives included.       *)
THEOREM TypeCorrect == Spec => []TypeOK
<1>1. IInv => TypeOK
  BY DEF IInv
<1> QED
  BY Invariance, <1>1, PTL

(* However many first calls of a tenant race, and whenever the process      *)
(* stops, every open pool is the one the resolver knows for its tenant and  *)
(* every dial is under the lock (db/db.go 51-90).                           *)
THEOREM PoolsKnown == Spec => []NoPoolLeaks
<1>1. IInv => NoPoolLeaks
  BY DEF IInv, PoolsSound, NoPoolLeaks
<1> QED
  BY Invariance, <1>1, PTL

(* Whatever operations are called, a handler has a pool exactly when its    *)
(* service takes one, that pool is of the account's tenant, and a media URL *)
(* names an object under that tenant's key (middleware/tenant.go 25-56).    *)
THEOREM TenantsIsolated == Spec => []StaysInTenant
<1>1. IInv => StaysInTenant
  <2> SUFFICES ASSUME IInv, NEW r \in Request
               PROVE  LET q == requests[r] IN
                      /\ InHandler(r) => (NeedsPool(q.op) <=> q.pool # NoRequest)
                      /\ InHandler(r) /\ q.pool # NoRequest =>
                           pools[q.pool].tenant = Home[q.token.account]
                      /\ q.code = 201 => <<r, Home[q.token.account]>> \in stored
    BY DEF StaysInTenant
  <2> DEFINE q == requests[r]
  <2>1. q \in RequestState /\ Gated(q) /\ Pooled(r, q) /\ Uploaded(r, q)
    BY Current
  <2>2. Secured(q.op) => q.op \in Operation
    BY <2>1, NoOperationOpen DEF RequestState
  <2> HIDE DEF q
  <2>3. ASSUME q.pc \in {"handler", "statement", "url"}, Secured(q.op)
        PROVE  /\ NeedsPool(q.op) <=> q.pool # NoRequest
               /\ q.pool # NoRequest => pools[q.pool].tenant = Home[q.token.account]
    <3>1. q.token \in Token /\ (IsTenantRoute(q.op) <=> q.pool # NoRequest)
      BY <2>1, <2>3 DEF Gated, Admitted, Accepted
    <3>2. NeedsPool(q.op) <=> IsTenantRoute(q.op)
      BY <2>2, <2>3, RoutesAgree
    <3>3. q.pool # NoRequest => pools[q.pool].tenant = q.token.tenant
      BY <2>1 DEF Pooled
    <3> QED
      BY <3>1, <3>2, <3>3, TokenFields
  <2>4. q.code = 201 => <<r, Home[q.token.account]>> \in stored
    BY <2>1, TokenFields DEF Uploaded
  <2> QED
    BY <2>3, <2>4 DEF InHandler, q
<1> QED
  BY Invariance, <1>1, PTL

(* A handler runs only for an account whose role the operation asks for,    *)
(* and the platform's operations for its staff and for them alone           *)
(* (middleware/authz.go 21-59).                                             *)
THEOREM HandlersAuthorised == Spec => []Authorised
<1>1. IInv => Authorised
  <2> SUFFICES ASSUME IInv, NEW r \in Request, InHandler(r)
               PROVE  LET q == requests[r] IN
                      /\ q.op.scope = "any" \/ Rank(RoleOf[q.token.account]) >= Rank(q.op.scope)
                      /\ IsPlatformRoute(q.op) <=> Home[q.token.account] = NoTenant
    BY DEF Authorised
  <2> DEFINE q == requests[r]
  <2>1. q.token \in Token /\ Accepted(q) /\ RoleSatisfies(q.token.role, q.op.scope)
    BY Current DEF InHandler, Gated, Admitted, Accepted
  <2>2. q.token.tenant = Home[q.token.account] /\ q.token.role = RoleOf[q.token.account]
    BY <2>1, TokenFields
  <2> QED
    BY <2>1, <2>2 DEF Accepted, RoleSatisfies
<1> QED
  BY Invariance, <1>1, PTL

(* A token given to a login names the account of the tenant and address     *)
(* that were sent, and none goes to one that arrived after its account was  *)
(* disabled (controlplane/service.go 138-181).                              *)
THEOREM TokensRight == Spec => []TokenIssuedRightly
<1>1. IInv => TokenIssuedRightly
  BY Current DEF TokenIssuedRightly, LoggedIn, Named
<1> QED
  BY Invariance, <1>1, PTL
=============================================================================
