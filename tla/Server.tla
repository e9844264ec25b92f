------------------------------- MODULE Server -------------------------------
(***************************************************************************)
(* The API process: what happens to a call between the socket and the      *)
(* service that answers it, and what becomes of it when the process stops. *)
(*                                                                         *)
(* A call runs through the generated wrapper, which binds its parameters   *)
(* and marks secured operations, through securedChain (authentication, the *)
(* role gate, the tenant's database name and its pool), and into the       *)
(* handler.  Calls run concurrently.  They share the resolver's cache of   *)
(* tenant pools under one read-write lock, which is held in write mode     *)
(* while a new pool is dialled.  On a signal the server stops listening    *)
(* and run() returns at once: its deferred calls close the pools and the   *)
(* process exits, while calls may still be running.                        *)
(*                                                                         *)
(* Tokens, logins and uploads are modelled in full, since their state      *)
(* decides who gets where; any other handler is one step that answers 200, *)
(* for whatever its service decides, or 500, after one more in which it    *)
(* holds a connection of the tenant's pool if its service takes one.       *)
(***************************************************************************)
EXTENDS Routes

CONSTANTS Tenant,
          NoTenant,     \* the "tenant" of the platform's own staff
          Account,      \* rows of users and platform_users
          Home,         \* the tenant of each account
          RoleOf,       \* its role; "staff" is any role of platform_users
          EmailOf,      \* its address, unique within a tenant only
          Request,      \* the calls of one behaviour
          NoRequest,
          Offered,      \* the operations each request may call
          Suspect       \* the accounts that are disabled and enabled meanwhile

ASSUME ServerAssumption ==
  /\ NoTenant \notin Tenant /\ NoRequest \notin Request
  /\ Home \in [Account -> Tenant \cup {NoTenant}]
  /\ RoleOf \in [Account -> {"employee", "manager", "admin", "staff"}]
  /\ \A a, b \in Account : Home[a] = Home[b] /\ EmailOf[a] = EmailOf[b] => a = b
  /\ Offered \in [Request -> SUBSET Operation]
  /\ Suspect \subseteq Account

VARIABLES phase,        \* how far run() is
          active,       \* the accounts whose status is 'active'
          cached,       \* the resolver's map
          pools,        \* the pools opened; a call opens one at most and names it
          lock,         \* the call that holds the resolver's lock in write mode
          stored,       \* the objects of the bucket, with the tenant of their key
          requests

vars == <<phase, active, cached, pools, lock, stored, requests>>
poolVars == <<cached, pools, lock>>

Email == {EmailOf[a] : a \in Account}

(* The claims of a token.  Tokens issued before a restart stay valid, since *)
(* the key is configuration, and none is revoked: a call may carry one for  *)
(* any account.                                                             *)
TokenFor(a) == [account |-> a, tenant |-> Home[a], role |-> RoleOf[a]]
NoToken == [account |-> "none", tenant |-> NoTenant, role |-> "none"]
Token == {TokenFor(a) : a \in Account}

Code == {0, 200, 201, 400, 401, 403, 500, 503}

NoOperation == [op |-> "none", path |-> "/", scope |-> "open", bound |-> FALSE]

(* "slug" and "email" are the body of a login.  "late" is history: the      *)
(* account was disabled when the login arrived, and still is.               *)
RequestState ==
  [pc    : {"new", "authn", "registry", "pool", "lock", "ping", "handler", "url",
            "statement", "tenant", "user", "done"},
   op    : Operation \cup {NoOperation},
   token : Token \cup {NoToken},
   pool  : Request \cup {NoRequest},
   slug  : Tenant \cup {NoTenant},
   email : SUBSET Email,
   code  : Code,
   late  : BOOLEAN]

NewRequest == [pc |-> "new", op |-> NoOperation, token |-> NoToken, pool |-> NoRequest,
               slug |-> NoTenant, email |-> {}, code |-> 0, late |-> FALSE]

Phase == {"starting", "configured", "connected", "serving", "closingTenants", "draining",
          "closingControl", "exited"}

TypeOK ==
  /\ phase \in Phase
  /\ active \subseteq Account
  /\ cached \in [Tenant -> Request \cup {NoRequest}]
  /\ pools \in [Request -> [state : {"unused", "dialing", "open", "closed"},
                            tenant : Tenant \cup {NoTenant}]]
  /\ lock \in Request \cup {NoRequest}
  /\ stored \subseteq Request \X Tenant
  /\ requests \in [Request -> RequestState]

Init ==
  /\ phase = "starting"
  /\ active = Account
  /\ cached = [t \in Tenant |-> NoRequest]
  /\ pools = [r \in Request |-> [state |-> "unused", tenant |-> NoTenant]]
  /\ lock = NoRequest
  /\ stored = {}
  /\ requests = [r \in Request |-> NewRequest]

-----------------------------------------------------------------------------
Step(r, from, to) ==
  /\ phase # "exited" /\ requests[r].pc = from
  /\ requests' = [requests EXCEPT ![r] = to]

Goto(q, label) == [q EXCEPT !.pc = label]

(* A bug TypeOK must catch: an answer the API does not know.                *)
AnswerUnmapped(q, code) ==
  [NewRequest EXCEPT !.pc = "done", !.code = IF code = 503 THEN 504 ELSE code]

(* An answer ends the call.  One that carries a token or a URL is kept with *)
(* what it is about.                                                        *)
Answer(q, code) == [NewRequest EXCEPT !.pc = "done", !.code = code]
Deliver(q, code) == [q EXCEPT !.pc = "done", !.code = code]

(* roleRank gives an unknown role, and those of the staff, rank 0. *)
Rank(role) ==
  IF role \in {"employee", "manager", "admin"}
  THEN [employee |-> 1, manager |-> 2, admin |-> 3][role] ELSE 0

RoleSatisfies(role, scope) == scope = "any" \/ Rank(role) >= Rank(scope)

(* A bug TokenIssuedRightly must catch: the address alone names the user.       *)
NamedByEmail(q) == {a \in Account : {EmailOf[a]} = q.email}

(* The account that a login's slug and email name, in a set. *)
Named(q) == {a \in Account : Home[a] = q.slug /\ {EmailOf[a]} = q.email}

Login(o) == o.op \in {"Login", "PlatformLogin"}

-----------------------------------------------------------------------------
(* The wrapper: parameters are bound before anything else is looked at, and *)
(* a login brings the credentials of an account.                            *)
Arrive(r) ==
  /\ phase = "serving"
  /\ \E o \in Offered[r], tk \in Token \cup {NoToken}, a \in Account :
       LET q == [requests[r] EXCEPT !.op = o, !.token = tk]
           body == [q EXCEPT !.pc = IF o.op = "Login" THEN "tenant" ELSE "user",
                             !.slug = Home[a], !.email = {EmailOf[a]},
                             !.late = a \notin active]
       IN \/ o.bound /\ Step(r, "new", Answer(q, 400))
          \/ Secured(o) /\ Step(r, "new", Goto(q, "authn"))
          \/ ~Secured(o) /\ ~Login(o) /\ Step(r, "new", Goto(q, "handler"))
          \/ /\ Login(o) /\ (Home[a] = NoTenant <=> o.op = "PlatformLogin")
             /\ Step(r, "new", body)
          \/ Login(o) /\ Step(r, "new", Answer(q, 400))
  /\ UNCHANGED <<phase, active, poolVars, stored>>

(* A bug Authorised must catch: the kind of the token is not looked at.     *)
AcceptedOfAnyKind(q) == q.token \in Token

(* There is a token and it is of the kind its route asks for.               *)
Accepted(q) ==
  q.token \in Token /\ (q.token.tenant = NoTenant <=> IsPlatformRoute(q.op))

(* authn, which may also find the token expired, and, inside it, the role   *)
(* gate; then the tenant, where the path asks for one.                      *)
Authenticate(r) ==
  LET q == requests[r] IN
  /\ \/ Step(r, "authn", Answer(q, 401))
     \/ /\ Accepted(q) /\ ~RoleSatisfies(q.token.role, q.op.scope)
        /\ Step(r, "authn", Answer(q, 403))
     \/ /\ Accepted(q) /\ RoleSatisfies(q.token.role, q.op.scope)
        /\ Step(r, "authn", Goto(q, IF IsTenantRoute(q.op) THEN "registry" ELSE "handler"))
  /\ UNCHANGED <<phase, active, poolVars, stored>>

(* The registry is read for the name of the database of the token's tenant. *)
TenantDBName(r) ==
  LET q == requests[r] IN
  /\ \/ Step(r, "registry", Goto(q, "pool"))
     \/ Step(r, "registry", Answer(q, 503))
  /\ UNCHANGED <<phase, active, poolVars, stored>>

(* A bug StaysInTenant must catch: one cached pool serves every tenant.     *)
CachedForAnyone(q) ==
  IF \E t \in Tenant : cached[t] # NoRequest
  THEN cached[CHOOSE t \in Tenant : cached[t] # NoRequest] ELSE NoRequest

CachedFor(q) == IF q.token.tenant \in Tenant THEN cached[q.token.tenant] ELSE NoRequest

Got(q, p) == [q EXCEPT !.pc = "handler", !.pool = p]

(* Nobody holds the lock in write mode, no call and not run().              *)
Unlocked == lock = NoRequest /\ phase # "draining"

(* The read lock: the cache is looked up.                                   *)
FindPool(r) ==
  LET q == requests[r]
      p == CachedFor(q)
  IN /\ Unlocked
     /\ \/ p # NoRequest /\ Step(r, "pool", Got(q, p))
        \/ p = NoRequest /\ Step(r, "pool", Goto(q, "lock"))
     /\ UNCHANGED <<phase, active, poolVars, stored>>

(* A bug NoPoolLeaks must catch: the cache is not looked up again under the *)
(* write lock.                                                              *)
DialAgain(r) ==
  LET q == requests[r] IN
  /\ Unlocked
  /\ Step(r, "lock", Goto(q, "ping"))
  /\ lock' = r
  /\ pools' = [pools EXCEPT ![r] = [state |-> "dialing", tenant |-> q.token.tenant]]
  /\ UNCHANGED <<phase, active, cached, stored>>

(* The write lock, which stays held while a new pool is dialled.            *)
Dial(r) ==
  LET q == requests[r]
      p == CachedFor(q)
  IN /\ Unlocked
     /\ \/ /\ p # NoRequest /\ Step(r, "lock", Got(q, p))
           /\ UNCHANGED poolVars
        \/ /\ p = NoRequest /\ Step(r, "lock", Goto(q, "ping"))
           /\ lock' = r
           /\ pools' = [pools EXCEPT ![r] = [state |-> "dialing", tenant |-> q.token.tenant]]
           /\ UNCHANGED cached
     /\ UNCHANGED <<phase, active, stored>>

(* A bug CallsEnd must catch: the lock is not released on this path.        *)
PingFailsLocked(r) ==
  /\ Step(r, "ping", Answer(requests[r], 503))
  /\ pools' = [pools EXCEPT ![r].state = "closed"]
  /\ UNCHANGED <<phase, active, cached, lock, stored>>

PingFails(r) ==
  /\ Step(r, "ping", Answer(requests[r], 503))
  /\ pools' = [pools EXCEPT ![r].state = "closed"]
  /\ lock' = NoRequest
  /\ UNCHANGED <<phase, active, cached, stored>>

PingSucceeds(r) ==
  /\ Step(r, "ping", Got(requests[r], r))
  /\ pools' = [pools EXCEPT ![r].state = "open"]
  /\ cached' = [cached EXCEPT ![requests[r].token.tenant] = r]
  /\ lock' = NoRequest
  /\ UNCHANGED <<phase, active, stored>>

-----------------------------------------------------------------------------
(* A pool that is closed gives no connection.                               *)
PoolUsable(q) == q.pool \in Request /\ pools[q.pool].state = "open"

(* A service without its pool, or with a closed one, reports an error.      *)
Handle(r) ==
  LET q == requests[r] IN
  /\ q.op.op # "UploadMedia"
  /\ \/ ~NeedsPool(q.op) /\ Step(r, "handler", Answer(q, 200))
     \/ NeedsPool(q.op) /\ PoolUsable(q) /\ Step(r, "handler", Goto(q, "statement"))
     \/ Step(r, "handler", Answer(q, IF q.op.op = "Health" THEN 503 ELSE 500))
  /\ UNCHANGED <<phase, active, poolVars, stored>>

(* The connection goes back to the pool.  A statement that would follow and *)
(* finds the pool closed is one of the failures.                            *)
StatementEnds(r) ==
  LET q == requests[r] IN
  /\ Step(r, "statement", Answer(q, 200)) \/ Step(r, "statement", Answer(q, 500))
  /\ UNCHANGED <<phase, active, poolVars, stored>>

(* The object's key begins with the tenant of the token and is new.  An     *)
(* upload that fails may leave the object.                                  *)
Upload(r) ==
  LET q == requests[r]
      with == stored \cup {<<r, q.token.tenant>>}
  IN /\ q.op.op = "UploadMedia"
     /\ \/ q.token.tenant = NoTenant /\ Step(r, "handler", Answer(q, 401)) /\ UNCHANGED stored
        \/ Step(r, "handler", Answer(q, 400)) /\ UNCHANGED stored
        \/ Step(r, "handler", Answer(q, 500)) /\ stored' \in {stored, with}
        \/ Step(r, "handler", Goto(q, "url")) /\ stored' = with
     /\ UNCHANGED <<phase, active, poolVars>>

ObjectURL(r) ==
  LET q == requests[r] IN
  /\ \/ Step(r, "url", Deliver(q, 201))
     \/ Step(r, "url", Answer(q, 500))
  /\ UNCHANGED <<phase, active, poolVars, stored>>

(* Login looks the tenant up by its slug ...                                *)
LoginTenant(r) ==
  LET q == requests[r] IN
  /\ \/ Step(r, "tenant", Goto(q, "user"))
     \/ Step(r, "tenant", Answer(q, 401))
     \/ Step(r, "tenant", Answer(q, 500))
  /\ UNCHANGED <<phase, active, poolVars, stored>>

(* ... and the user within the tenant.  The password and the status are     *)
(* checked on the row just read, and the token names that row.              *)
Issue(r) ==
  LET q == requests[r] IN
  /\ \/ Step(r, "user", Answer(q, 401))
     \/ Step(r, "user", Answer(q, 500))
     \/ \E a \in Named(q) \cap active :
          /\ Step(r, "user", [Deliver(q, 200) EXCEPT !.token = TokenFor(a)])
  /\ UNCHANGED <<phase, active, poolVars, stored>>

-----------------------------------------------------------------------------
(* run(): the settings are read; one that is missing or malformed ends it.  *)
LoadConfig ==
  /\ phase = "starting"
  /\ phase' \in {"configured", "exited"}
  /\ UNCHANGED <<active, poolVars, stored, requests>>

(* The control-plane pool is opened and pinged.                             *)
NewControlPlanePool ==
  /\ phase = "configured"
  /\ phase' \in {"connected", "exited"}
  /\ UNCHANGED <<active, poolVars, stored, requests>>

(* From here on a failure, of the object store's client or of the listener, *)
(* runs the deferred calls first.                                           *)
NewMinioStore ==
  /\ phase = "connected"
  /\ phase' \in {"serving", "closingTenants"}
  /\ UNCHANGED <<active, poolVars, stored, requests>>

(* SIGTERM: Shutdown closes the listener, and ListenAndServe returns.       *)
Signal ==
  /\ phase = "serving"
  /\ phase' = "closingTenants"
  /\ UNCHANGED <<active, poolVars, stored, requests>>

(* TenantResolver.Close takes the write lock ...                            *)
LockPools ==
  /\ phase = "closingTenants" /\ lock = NoRequest
  /\ phase' = "draining"
  /\ UNCHANGED <<active, poolVars, stored, requests>>

(* A pool's Close returns when its connections are back.                    *)
Drained == \A r \in Request : requests[r].pc = "statement" => PoolUsable(requests[r])

(* ... closes the pools one after the other ...                             *)
ClosePool(p) ==
  /\ phase = "draining" /\ Drained
  /\ pools[p].state = "open"
  /\ pools' = [pools EXCEPT ![p].state = "closed"]
  /\ UNCHANGED <<phase, active, cached, lock, stored, requests>>

(* ... and leaves a new map, which a call may still fill.                   *)
PoolsClosed ==
  /\ phase = "draining" /\ Drained
  /\ \A p \in Request : pools[p].state # "open"
  /\ phase' = "closingControl"
  /\ cached' = [t \in Tenant |-> NoRequest]
  /\ UNCHANGED <<active, pools, lock, stored, requests>>

Exit ==
  /\ phase = "closingControl"
  /\ phase' = "exited"
  /\ UNCHANGED <<active, poolVars, stored, requests>>

(* The staff disables an account and enables it again.  No token is revoked. *)
Disable(a) ==
  /\ phase # "exited"
  /\ a \in active /\ active' = active \ {a}
  /\ UNCHANGED <<phase, poolVars, stored, requests>>

Enable(a) ==
  /\ phase # "exited"
  /\ a \notin active /\ active' = active \cup {a}
  /\ requests' = [r \in Request |->
                    IF a \in Named(requests[r]) THEN [requests[r] EXCEPT !.late = FALSE]
                                                ELSE requests[r]]
  /\ UNCHANGED <<phase, poolVars, stored>>

Progress(r) ==
  \/ Authenticate(r) \/ TenantDBName(r) \/ FindPool(r) \/ Dial(r)
  \/ PingFails(r) \/ PingSucceeds(r) \/ Handle(r) \/ StatementEnds(r) \/ Upload(r)
  \/ ObjectURL(r) \/ LoginTenant(r) \/ Issue(r)

(* The deferred calls of run(). *)
Stop == LockPools \/ (\E p \in Request : ClosePool(p)) \/ PoolsClosed \/ Exit

Next ==
  \/ \E r \in Request : Arrive(r) \/ Progress(r)
  \/ LoadConfig \/ NewControlPlanePool \/ NewMinioStore \/ Signal \/ Stop
  \/ \E a \in Suspect : Disable(a) \/ Enable(a)

(* The runtime schedules every goroutine, run()'s included, and a dial or a *)
(* statement ends: each has a context or a timeout of the driver.           *)
Spec == /\ Init /\ [][Next]_vars
        /\ \A r \in Request : WF_vars(Progress(r))
        /\ WF_vars(Stop)

-----------------------------------------------------------------------------
InHandler(r) == requests[r].pc \in {"handler", "statement", "url"} /\ Secured(requests[r].op)

(* A tenant has one open pool at most, and it is the cached one: however   *)
(* many first calls of a tenant race, no pool is left that the resolver     *)
(* does not know and Close would not close (db/db.go 51-90).                *)
NoPoolLeaks ==
  \A r \in Request :
    /\ pools[r].state = "open" => cached[pools[r].tenant] = r
    /\ pools[r].state = "dialing" => lock = r

(* A call reaches nothing outside its tenant.  Its handler has a pool       *)
(* exactly when its service takes one - "This is an explicit allowlist on   *)
(* purpose: a tenant route omitted here fails loud" - and that pool is of   *)
(* the tenant of the account that logged in, through token, registry and    *)
(* shared cache; a media URL it is given names an object stored under that  *)
(* tenant's key (httpserver/server.go 38-44, middleware/tenant.go 25-56,    *)
(* media/handler.go 42-93).                                                 *)
StaysInTenant ==
  \A r \in Request :
    LET q == requests[r] IN
    /\ InHandler(r) => (NeedsPool(q.op) <=> q.pool # NoRequest)
    /\ InHandler(r) /\ q.pool # NoRequest => pools[q.pool].tenant = Home[q.token.account]
    /\ q.code = 201 => <<r, Home[q.token.account]>> \in stored

(* A handler runs only for an account whose role the operation asks for,    *)
(* and the platform's operations run for its staff only, who reach no other *)
(* secured operation (middleware/authz.go 21-59, httpserver/server.go       *)
(* 93-96).                                                                  *)
Authorised ==
  \A r \in Request :
    LET q == requests[r] IN
    InHandler(r) =>
      /\ q.op.scope = "any" \/ Rank(RoleOf[q.token.account]) >= Rank(q.op.scope)
      /\ IsPlatformRoute(q.op) <=> Home[q.token.account] = NoTenant

(* A token given to a login names the account of the tenant and address     *)
(* that were sent, although addresses repeat from tenant to tenant, and no  *)
(* login that arrives after its account was disabled gets one               *)
(* (controlplane/service.go 138-181).                                       *)
TokenIssuedRightly ==
  \A r \in Request :
    LET q == requests[r] IN
    Login(q.op) /\ q.code = 200 =>
      /\ Home[q.token.account] = q.slug /\ {EmailOf[q.token.account]} = q.email
      /\ ~q.late

(* A call that arrived is answered, unless the process exits first, and a   *)
(* signal ends the process: nobody waits for ever on the resolver's lock,   *)
(* though a ping and, while the pools are closed, the statements of other   *)
(* calls are waited for under it (db/db.go 63-90, cmd/api/main.go 135-149). *)
CallsEnd ==
  /\ \A r \in Request :
       requests[r].pc # "new" ~> requests[r].pc = "done" \/ phase = "exited"
  /\ phase = "closingTenants" ~> phase = "exited"
=============================================================================
