------------------------------ MODULE MCServer ------------------------------
(* One call of any operation and one of a tenant route, for TLC. *)
EXTENDS Server, TLC

CONSTANTS t1, t2, a1, a2, s, r1, r2, m

HomeOf == (a1 :> t1) @@ (a2 :> t2) @@ (s :> NoTenant)
Roles == (a1 :> "manager") @@ (a2 :> "admin") @@ (s :> "staff")

(* The two tenants' accounts have the same address. *)
Emails == [a \in Account |-> m]

Anything == (r1 :> Operation)
              @@ (r2 :> {o \in Operation : o.op = "GetLiveView"})
=============================================================================
