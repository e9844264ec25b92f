------------------------------- MODULE Leave -------------------------------
(***************************************************************************)
(* The leave service of the backend on one tenant database: employees ask  *)
(* for time off, managers approve or reject it, employees read what is     *)
(* left of their year.  As in Attendance, a call is a few SQL statements   *)
(* outside any transaction, and every other call may run between two of    *)
(* them.                                                                   *)
(*                                                                         *)
(* Days are numbered from 0 and years have YearLength days; a request is   *)
(* a non-empty interval of days.  Its type and its note decide nothing.    *)
(***************************************************************************)
EXTENDS Identity, FiniteSetsExt

CONSTANTS LeaveId,      \* ids gen_random_uuid() hands out to leave requests
          Call,         \* the calls made to the service in one behaviour
          YearLength, LastYear,
          Allowance     \* entitled_days a balance row may carry

ASSUME LeaveAssumption ==
  /\ YearLength \in Nat \ {0} /\ LastYear \in Nat
  /\ Allowance \subseteq Nat

DefaultEntitledDays == 22

Year == 0..LastYear
Day == 0..(YearLength * (LastYear + 1) - 1)

VARIABLES leaves,       \* leave_requests
          balances,     \* leave_balances: entitled_days, or -1 without a row
          calls

leaveVars == <<employees, leaves, balances, calls>>

Decided == {"approved", "rejected"}

LeaveRow == [status     : {"none", "pending", "deleted"} \cup Decided,
             employee   : Employee \cup {NoEmployee},
             first      : Day,
             last       : Day,
             reviewedBy : User \cup {NoUser}]

NoLeave == [status |-> "none", employee |-> NoEmployee, first |-> 0, last |-> 0,
            reviewedBy |-> NoUser]

Code == {0, 200, 201, 400, 404, 500}

(* "leave" is the subset of LeaveId a call is about: one id, or none yet.  *)
(* "seen" is a history field: the status of that request when the call     *)
(* arrived.  "charged" are the requests whose days a balance adds up.       *)
CallState ==
  [pc       : {"start", "insert", "get", "set", "entitlement", "sum", "done"},
   op       : {"none", "create", "balance"} \cup Decided,
   user     : User \cup {NoUser},
   employee : Employee \cup {NoEmployee},
   leave    : SUBSET LeaveId,
   year     : Year,
   seen     : {"none", "pending", "deleted"} \cup Decided,
   code     : Code,
   entitled : Nat,
   charged  : SUBSET LeaveId]

NewCall == [pc |-> "start", op |-> "none", user |-> NoUser, employee |-> NoEmployee,
            leave |-> {}, year |-> 0, seen |-> "none", code |-> 0, entitled |-> 0, charged |-> {}]

TypeOK ==
  /\ IdentityTypeOK
  /\ leaves \in [LeaveId -> LeaveRow]
  /\ balances \in [Employee \X Year -> Allowance \cup {-1}]
  /\ calls \in [Call -> CallState]

Init ==
  /\ IdentityInit
  /\ leaves = [l \in LeaveId |-> NoLeave]
  /\ balances = [ey \in Employee \X Year |-> -1]
  /\ calls = [k \in Call |-> NewCall]

-----------------------------------------------------------------------------
Stored(l) == leaves[l].status \notin {"none", "deleted"}

(* Inclusive of both ends. *)
Days(l) == leaves[l].last - leaves[l].first + 1

YearStart(y) == y * YearLength
YearEnd(y) == YearStart(y) + YearLength - 1

(* A bug EachDayChargedOnce must catch: the last day of a year is left out. *)
CountedExclusive(l, y) == leaves[l].first >= YearStart(y) /\ leaves[l].first < YearEnd(y)

(* SumApprovedLeaveDays: whole requests, by the year they start in. *)
Counted(l, y) == leaves[l].first >= YearStart(y) /\ leaves[l].first <= YearEnd(y)

Charged(e, y) == {l \in LeaveId : /\ leaves[l].employee = e
                                  /\ leaves[l].status = "approved"
                                  /\ Counted(l, y)}

UsedDays(e, y) == MapThenSumSet(Days, Charged(e, y))

Step(k, from, to) ==
  /\ calls[k].pc = from
  /\ calls' = [calls EXCEPT ![k] = to]

Reply(q, code) == [q EXCEPT !.pc = "done", !.code = code]

(* CreateMyLeave, ListMyLeave's resolution and MyBalance start by finding  *)
(* the caller's employee; 500 when that query fails.                        *)
CallCreate(k) ==
  /\ \E u \in User :
       LET q == [calls[k] EXCEPT !.op = "create", !.user = u] IN
       \/ \E e \in EmployeesOfUser(u) :
            Step(k, "start", [q EXCEPT !.pc = "insert", !.employee = e])
       \/ EmployeesOfUser(u) = {} /\ Step(k, "start", Reply(q, 400))
       \/ Step(k, "start", Reply(q, 500))
  /\ UNCHANGED <<employees, leaves, balances>>

(* An unlinked caller is shown the default allowance. *)
CallBalance(k) ==
  /\ \E u \in User, y \in Year :
       LET q == [calls[k] EXCEPT !.op = "balance", !.user = u, !.year = y] IN
       \/ \E e \in EmployeesOfUser(u) :
            Step(k, "start", [q EXCEPT !.pc = "entitlement", !.employee = e])
       \/ /\ EmployeesOfUser(u) = {}
          /\ Step(k, "start", Reply([q EXCEPT !.entitled = DefaultEntitledDays], 200))
       \/ Step(k, "start", Reply(q, 500))
  /\ UNCHANGED <<employees, leaves, balances>>

CallReview(k) ==
  /\ \E u \in User, l \in LeaveId, target \in Decided :
       Step(k, "start", [calls[k] EXCEPT !.pc = "get", !.op = target, !.user = u,
                                         !.leave = {l}, !.seen = leaves[l].status])
  /\ UNCHANGED <<employees, leaves, balances>>

Requested(e, first, last) ==
  [status |-> "pending", employee |-> e, first |-> first, last |-> last, reviewedBy |-> NoUser]

(* The foreign key fails when the employee is gone by now. *)
InsertLeave(k) ==
  /\ \/ /\ Live(calls[k].employee)
        /\ \E l \in LeaveId, first, last \in Day :
             /\ leaves[l].status = "none"
             /\ first <= last
             /\ leaves' = [leaves EXCEPT ![l] = Requested(calls[k].employee, first, last)]
             /\ \E code \in {201, 500} :
                  Step(k, "insert", Reply([calls[k] EXCEPT !.leave = {l}], code))
     \/ /\ ~ Live(calls[k].employee)
        /\ Step(k, "insert", Reply(calls[k], 400))
        /\ UNCHANGED leaves
  /\ UNCHANGED <<employees, balances>>

(* A bug LateReviewChangesNothing must catch: decided requests are reviewed *)
(* again.                                                                   *)
GetForAnyReview(k) ==
  /\ \E l \in calls[k].leave :
       IF ~ Stored(l) THEN Step(k, "get", Reply(calls[k], 404))
       ELSE IF leaves[l].status = calls[k].op THEN Step(k, "get", Reply(calls[k], 200))
       ELSE Step(k, "get", [calls[k] EXCEPT !.pc = "set"])
  /\ UNCHANGED <<employees, leaves, balances>>

GetForReview(k) ==
  /\ \E l \in calls[k].leave :
       \/ ~ Stored(l) /\ Step(k, "get", Reply(calls[k], 404))
       \/ /\ leaves[l].status = calls[k].op
          /\ Step(k, "get", Reply(calls[k], 200))
       \/ /\ leaves[l].status \in Decided \ {calls[k].op}
          /\ Step(k, "get", Reply(calls[k], 400))
       \/ /\ leaves[l].status = "pending"
          /\ Step(k, "get", [calls[k] EXCEPT !.pc = "set"])
  /\ UNCHANGED <<employees, leaves, balances>>

(* A bug LeaveAttributed must catch: the first reviewer is kept. *)
SetStatusKeepingReviewer(k) ==
  /\ \E l \in calls[k].leave :
       /\ Stored(l)
       /\ leaves' = [leaves EXCEPT ![l].status = calls[k].op,
                                   ![l].reviewedBy = IF @ = NoUser THEN calls[k].user ELSE @]
       /\ Step(k, "set", Reply(calls[k], 200))
  /\ UNCHANGED <<employees, balances>>

(* UPDATE ... WHERE id = $1: no condition on the status. *)
SetStatus(k) ==
  /\ \E l \in calls[k].leave :
       \/ /\ Stored(l)
          /\ leaves' = [leaves EXCEPT ![l].status = calls[k].op,
                                      ![l].reviewedBy = calls[k].user]
          /\ \E code \in {200, 500} : Step(k, "set", Reply(calls[k], code))
       \/ /\ ~ Stored(l)
          /\ Step(k, "set", Reply(calls[k], 404))
          /\ UNCHANGED leaves
  /\ UNCHANGED <<employees, balances>>

(* A bug TypeOK must catch: a missing row is not replaced by the default. *)
ReadEntitlementRaw(k) ==
  /\ Step(k, "entitlement",
          [calls[k] EXCEPT !.pc = "sum",
                           !.entitled = balances[<<calls[k].employee, calls[k].year>>]])
  /\ UNCHANGED <<employees, leaves, balances>>

ReadEntitlement(k) ==
  LET days == balances[<<calls[k].employee, calls[k].year>>] IN
  /\ Step(k, "entitlement",
          [calls[k] EXCEPT !.pc = "sum",
                           !.entitled = IF days = -1 THEN DefaultEntitledDays ELSE days])
  /\ UNCHANGED <<employees, leaves, balances>>

SumApproved(k) ==
  /\ LET charged == Charged(calls[k].employee, calls[k].year)
     IN Step(k, "sum", Reply([calls[k] EXCEPT !.charged = charged], 200))
  /\ UNCHANGED <<employees, leaves, balances>>

(* A statement fails, or its caller hangs up. *)
Fail(k) ==
  /\ calls[k].pc \notin {"start", "done"}
  /\ Step(k, calls[k].pc, Reply(calls[k], 500))
  /\ UNCHANGED <<employees, leaves, balances>>

(* ON DELETE CASCADE of leave_requests.employee_id *)
LeavesWithout(e) ==
  [l \in LeaveId |-> IF leaves[l].employee = e
                     THEN [leaves[l] EXCEPT !.status = "deleted"] ELSE leaves[l]]

(* employees rows come and go; leave rows go with them. *)
ManageEmployee ==
  /\ \E e \in Employee :
       \/ /\ \E u \in User : CreateEmployee(e, u) \/ SetEmployeeUserID(e, u)
          /\ UNCHANGED <<leaves, balances>>
       \/ /\ DeleteEmployee(e, {})
          /\ leaves' = LeavesWithout(e)
          /\ balances' = [ey \in Employee \X Year |->
                            IF ey[1] = e THEN -1 ELSE balances[ey]]
  /\ UNCHANGED calls

(* Nothing in the program writes leave_balances; rows are entered by hand. *)
EnterAllowance ==
  /\ \E e \in Employee, y \in Year, days \in Allowance :
       Live(e) /\ balances' = [balances EXCEPT ![<<e, y>>] = days]
  /\ UNCHANGED <<employees, leaves, calls>>

Next ==
  \/ \E k \in Call :
       \/ CallCreate(k) \/ CallBalance(k) \/ CallReview(k)
       \/ InsertLeave(k) \/ GetForReview(k) \/ SetStatus(k)
       \/ ReadEntitlement(k) \/ SumApproved(k) \/ Fail(k)
  \/ ManageEmployee
  \/ EnterAllowance

Spec == Init /\ [][Next]_leaveVars

-----------------------------------------------------------------------------
(* A stored request belongs to an employee that exists, however a deletion *)
(* races the steps of CreateMyLeave; and once decided it names the manager *)
(* whose call decided it, whichever of several concurrent reviews wrote     *)
(* last.                                                                    *)
LeaveAttributed ==
  \A l \in LeaveId :
    /\ Stored(l) => Live(leaves[l].employee)
    /\ leaves[l].status \in Decided =>
         \E k \in Call : /\ calls[k].op = leaves[l].status
                         /\ calls[k].user = leaves[l].reviewedBy
                         /\ calls[k].leave = {l} /\ calls[k].code \in {200, 500}

(* Every day of approved leave is charged to one year, and to one only:    *)
(* the years' bounds neither overlap nor leave a day out.                   *)
EachDayChargedOnce ==
  \A e \in Employee :
    MapThenSumSet(LAMBDA y : UsedDays(e, y), Year) =
    MapThenSumSet(Days, {l \in LeaveId : leaves[l].employee = e
                                           /\ leaves[l].status = "approved"})

(* A review that arrives when the request is decided never writes, whatever *)
(* the reviews still in flight do to the request meanwhile.                 *)
LateReviewChangesNothing ==
  [][\A k \in Call :
       calls[k].op \in Decided /\ calls[k].seen \in Decided /\ calls'[k] # calls[k]
         => leaves' = leaves]_leaveVars
=============================================================================
