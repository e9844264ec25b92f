---------------------------- MODULE LeaveProofs ----------------------------
(***************************************************************************)
(* Theorems about the leave service, for any number of employees, logins,  *)
(* requests and concurrent calls, and years of any length.                 *)
(***************************************************************************)
EXTENDS Leave, TLAPS, FiniteSetTheorems

-----------------------------------------------------------------------------
(* The inductive invariant.                                                 *)

(* What a call has established when it gets to a statement.  A review that  *)
(* arrived at a decided request does not come further than its read: the    *)
(* request may be decided otherwise or deleted, but is not pending again.   *)
Sound(q) ==
  /\ q.code # 0 => q.pc = "done"
  /\ q.pc \in {"get", "set"} => q.op \in Decided /\ \E l \in LeaveId : q.leave = {l}
  /\ q.pc \in {"insert", "entitlement", "sum"} => q.op \notin Decided
  /\ q.pc \in {"entitlement", "sum"} => q.employee \in Employee
  /\ q.op \in Decided /\ q.seen \in Decided =>
       /\ q.pc \in {"get", "done"}
       /\ q.pc = "get" => \A l \in q.leave : leaves[l].status \in Decided \cup {"deleted"}

IInv == TypeOK /\ LeaveAttributed /\ \A k \in Call : Sound(calls[k])

-----------------------------------------------------------------------------
(* Types.                                                                   *)

LEMMA Codes == 0 \in Code /\ {200, 201, 400, 404, 500} \subseteq Code
BY DEF Code

LEMMA Answers == 200 \in Code /\ 400 \in Code /\ 404 \in Code /\ 500 \in Code
BY Codes

LEMMA Constants ==
  /\ \A e \in Employee : e # NoEmployee
  /\ 0 \in Year /\ 0 \in Day /\ 0 \in Nat
  /\ \A y \in Year : y \in Nat
<1>1. YearLength * (LastYear + 1) - 1 \in Nat
  <2>1. YearLength >= 1 /\ LastYear + 1 >= 1 /\ YearLength \in Nat /\ LastYear + 1 \in Nat
    BY LeaveAssumption
  <2>2. \A a, b \in Nat : a >= 1 /\ b >= 1 => a * b - 1 \in Nat
    OBVIOUS
  <2> QED
    BY <2>1, <2>2
<1> QED
  BY <1>1, IdentityAssumption, LeaveAssumption DEF Year, Day

LEMMA NewCallType == NewCall \in CallState
BY Constants, Codes DEF NewCall, CallState

LEMMA NoLeaveType == NoLeave \in LeaveRow
BY Constants DEF NoLeave, LeaveRow

(* Answering keeps everything but the label and the code. *)
LEMMA ReplyFields ==
  ASSUME NEW q \in CallState, NEW code \in Code
  PROVE  LET to == Reply(q, code) IN
         /\ to \in CallState /\ to.pc = "done" /\ to.code = code
         /\ to.op = q.op /\ to.user = q.user /\ to.leave = q.leave /\ to.seen = q.seen
<1>1. Reply(q, code) \in CallState
  BY DEF Reply, CallState
<1> QED
  BY <1>1 DEF Reply, CallState

LEMMA StepChanges ==
  ASSUME TypeOK, NEW k \in Call, NEW from, NEW to \in CallState, Step(k, from, to)
  PROVE  /\ calls[k].pc = from
         /\ calls' \in [Call -> CallState] /\ calls'[k] = to
         /\ \A j \in Call \ {k} : calls'[j] = calls[j]
BY DEF TypeOK, Step

LEMMA InitInv == Init => IInv
<1> SUFFICES ASSUME Init PROVE IInv
  OBVIOUS
<1>1. TypeOK
  <2>1. employees \in [Employee -> EmployeeRow]
    BY DEF Init, IdentityInit, EmployeeRow
  <2> QED
    BY <2>1, NewCallType, NoLeaveType DEF Init, TypeOK, IdentityTypeOK
<1>2. LeaveAttributed
  BY DEF Init, LeaveAttributed, Stored, NoLeave, Decided
<1>3. ASSUME NEW k \in Call PROVE Sound(calls[k])
  <2>1. calls[k].pc = "start" /\ calls[k].code = 0 /\ calls[k].op = "none"
    BY DEF Init, NewCall
  <2> QED
    BY <2>1 DEF Sound, Decided
<1> QED
  BY <1>1, <1>2, <1>3 DEF IInv

-----------------------------------------------------------------------------
(* The steps of a call that write no table.                                 *)

LEMMA Current ==
  ASSUME IInv, NEW k \in Call
  PROVE  TypeOK /\ calls[k] \in CallState /\ Sound(calls[k])
BY DEF IInv, TypeOK

LEMMA ReadStep ==
  ASSUME IInv, NEW k \in Call, NEW from, from # "done", NEW to \in CallState, Step(k, from, to),
         UNCHANGED <<employees, leaves, balances>>, Sound(to)
  PROVE  IInv'
<1>1. /\ calls[k].pc = from
      /\ calls' \in [Call -> CallState] /\ calls'[k] = to
      /\ \A j \in Call \ {k} : calls'[j] = calls[j]
  BY StepChanges DEF IInv
<1>2. TypeOK'
  BY <1>1 DEF IInv, TypeOK, IdentityTypeOK
<1>3. LeaveAttributed'
  <2>1. ASSUME NEW l \in LeaveId
        PROVE  /\ Stored(l)' => Live(leaves[l].employee)'
               /\ leaves'[l].status \in Decided =>
                    \E j \in Call : /\ calls'[j].op = leaves'[l].status
                                    /\ calls'[j].user = leaves'[l].reviewedBy
                                    /\ calls'[j].leave = {l} /\ calls'[j].code \in {200, 500}
    <3>1. Stored(l)' => Live(leaves[l].employee)'
      BY DEF IInv, LeaveAttributed, Stored, Live
    <3>2. ASSUME leaves[l].status \in Decided
          PROVE  \E j \in Call : /\ calls'[j].op = leaves'[l].status
                                 /\ calls'[j].user = leaves'[l].reviewedBy
                                 /\ calls'[j].leave = {l} /\ calls'[j].code \in {200, 500}
      <4>1. PICK j \in Call : /\ calls[j].op = leaves[l].status
                              /\ calls[j].user = leaves[l].reviewedBy
                              /\ calls[j].leave = {l} /\ calls[j].code \in {200, 500}
        BY <3>2 DEF IInv, LeaveAttributed
      <4>2. calls[j].code # 0
        BY <4>1
      <4>3. j # k
        BY <1>1, <4>2 DEF IInv, Sound
      <4> QED
        BY <1>1, <4>1, <4>3
    <3> QED
      BY <3>1, <3>2
  <2> QED
    BY <2>1 DEF LeaveAttributed
<1>4. ASSUME NEW j \in Call PROVE Sound(calls[j])'
  <2>1. Sound(calls'[j])
    BY <1>1 DEF IInv
  <2> QED
    BY <2>1 DEF Sound
<1> QED
  BY <1>2, <1>3, <1>4 DEF IInv

(* The first step of a call, of whatever kind.                              *)
LEMMA CallsKeep ==
  ASSUME IInv, NEW k \in Call, CallCreate(k) \/ CallBalance(k)
  PROVE  IInv'
<1>1. UNCHANGED <<employees, leaves, balances>>
  BY DEF CallCreate, CallBalance
<1>2. \A u \in User : EmployeesOfUser(u) \subseteq Employee
  BY DEF EmployeesOfUser
<1>3. calls[k] \in CallState /\ Sound(calls[k])
  BY Current
<1>4. PICK to \in CallState :
        /\ Step(k, "start", to) /\ to.op \in {"create", "balance"}
        /\ \/ to.pc = "done"
           \/ to.pc \in {"insert", "entitlement"} /\ to.employee \in Employee
                /\ to.code = calls[k].code
  <2>1. CASE CallCreate(k)
    <3>1. PICK u \in User :
            LET q == [calls[k] EXCEPT !.op = "create", !.user = u] IN
            \/ \E e \in EmployeesOfUser(u) :
                 Step(k, "start", [q EXCEPT !.pc = "insert", !.employee = e])
            \/ EmployeesOfUser(u) = {} /\ Step(k, "start", Reply(q, 400))
            \/ Step(k, "start", Reply(q, 500))
      BY <2>1 DEF CallCreate
    <3> DEFINE q == [calls[k] EXCEPT !.op = "create", !.user = u]
    <3>2. q \in CallState
      BY <1>3 DEF CallState
    <3>3. q.op = "create" /\ q.code = calls[k].code
      BY <1>3 DEF CallState
    <3> HIDE DEF q
    <3>4. ASSUME NEW e \in EmployeesOfUser(u)
          PROVE  LET to == [q EXCEPT !.pc = "insert", !.employee = e] IN
                 /\ to \in CallState /\ to.op = "create" /\ to.pc = "insert"
                 /\ to.employee \in Employee /\ to.code = calls[k].code
      <4>1. e \in Employee
        BY <1>2
      <4> QED
        BY <3>2, <3>3, <4>1 DEF CallState
    <3>5. ASSUME NEW code \in Code
          PROVE  /\ Reply(q, code) \in CallState
                 /\ Reply(q, code).op = "create" /\ Reply(q, code).pc = "done"
      BY <3>2, <3>3, ReplyFields
    <3>6. \/ \E e \in EmployeesOfUser(u) :
                Step(k, "start", [q EXCEPT !.pc = "insert", !.employee = e])
          \/ \E code \in Code : Step(k, "start", Reply(q, code))
      <4>1. \/ \E e \in EmployeesOfUser(u) :
                 Step(k, "start", [q EXCEPT !.pc = "insert", !.employee = e])
            \/ Step(k, "start", Reply(q, 400)) \/ Step(k, "start", Reply(q, 500))
        BY <3>1, Zenon DEF q
      <4> DEFINE Ends(code) == Step(k, "start", Reply(q, code))
      <4>2. Ends(400) \/ Ends(500) => \E code \in Code : Ends(code)
        <5> HIDE DEF Ends
        <5> QED
          BY Answers, SMT
      <4> QED
        BY <4>1, <4>2, Zenon
    <3>7. CASE \E e \in EmployeesOfUser(u) :
                 Step(k, "start", [q EXCEPT !.pc = "insert", !.employee = e])
      BY <3>4, <3>7
    <3>8. CASE \E code \in Code : Step(k, "start", Reply(q, code))
      BY <3>5, <3>8
    <3> QED
      BY <3>6, <3>7, <3>8
  <2>2. CASE CallBalance(k)
    <3>1. PICK u \in User, y \in Year :
            LET q == [calls[k] EXCEPT !.op = "balance", !.user = u, !.year = y] IN
            \/ \E e \in EmployeesOfUser(u) :
                 Step(k, "start", [q EXCEPT !.pc = "entitlement", !.employee = e])
            \/ /\ EmployeesOfUser(u) = {}
               /\ Step(k, "start", Reply([q EXCEPT !.entitled = DefaultEntitledDays], 200))
            \/ Step(k, "start", Reply(q, 500))
      BY <2>2 DEF CallBalance
    <3> DEFINE q == [calls[k] EXCEPT !.op = "balance", !.user = u, !.year = y]
               full == [q EXCEPT !.entitled = DefaultEntitledDays]
    <3>2. q \in CallState
      BY <1>3 DEF CallState
    <3>3. q.op = "balance" /\ q.code = calls[k].code
      BY <1>3 DEF CallState
    <3> HIDE DEF q
    <3>4. ASSUME NEW e \in EmployeesOfUser(u)
          PROVE  LET to == [q EXCEPT !.pc = "entitlement", !.employee = e] IN
                 /\ to \in CallState /\ to.op = "balance" /\ to.pc = "entitlement"
                 /\ to.employee \in Employee /\ to.code = calls[k].code
      <4>1. e \in Employee
        BY <1>2
      <4> QED
        BY <3>2, <3>3, <4>1 DEF CallState
    <3>5. DefaultEntitledDays \in Nat
      BY DEF DefaultEntitledDays
    <3>6. full \in CallState /\ full.op = "balance"
      BY <3>2, <3>3, <3>5 DEF CallState
    <3> HIDE DEF full
    <3>7. ASSUME NEW answered \in {q, full}, NEW code \in Code
          PROVE  /\ Reply(answered, code) \in CallState
                 /\ Reply(answered, code).op = "balance" /\ Reply(answered, code).pc = "done"
      BY <3>2, <3>3, <3>6, ReplyFields
    <3>8. \/ \E e \in EmployeesOfUser(u) :
                Step(k, "start", [q EXCEPT !.pc = "entitlement", !.employee = e])
          \/ \E answered \in {q, full}, code \in Code : Step(k, "start", Reply(answered, code))
      <4>1. \/ \E e \in EmployeesOfUser(u) :
                 Step(k, "start", [q EXCEPT !.pc = "entitlement", !.employee = e])
            \/ Step(k, "start", Reply(full, 200)) \/ Step(k, "start", Reply(q, 500))
        BY <3>1, Zenon DEF q, full
      <4> DEFINE Ends(answered, code) == Step(k, "start", Reply(answered, code))
      <4>2. Ends(full, 200) \/ Ends(q, 500)
              => \E answered \in {q, full}, code \in Code : Ends(answered, code)
        <5> HIDE DEF Ends
        <5> QED
          BY Answers, SMT
      <4> QED
        BY <4>1, <4>2, Zenon
    <3>9. CASE \E e \in EmployeesOfUser(u) :
                 Step(k, "start", [q EXCEPT !.pc = "entitlement", !.employee = e])
      BY <3>4, <3>9
    <3>10. CASE \E answered \in {q, full}, code \in Code : Step(k, "start", Reply(answered, code))
      BY <3>7, <3>10
    <3> QED
      BY <3>8, <3>9, <3>10
  <2> QED
    BY <2>1, <2>2
<1>5. calls[k].pc = "start" /\ calls[k].code = 0
  BY <1>3, <1>4 DEF Step, Sound
<1>6. Sound(to)
  BY <1>4, <1>5 DEF Sound, Decided
<1> QED
  BY <1>1, <1>4, <1>6, ReadStep

LEMMA CallReviewKeeps == ASSUME IInv, NEW k \in Call, CallReview(k) PROVE IInv'
<1>1. PICK u \in User, l \in LeaveId, target \in Decided :
        Step(k, "start", [calls[k] EXCEPT !.pc = "get", !.op = target, !.user = u,
                                          !.leave = {l}, !.seen = leaves[l].status])
  BY DEF CallReview
<1>2. leaves[l].status \in {"none", "pending", "deleted"} \cup Decided
  BY DEF IInv, TypeOK, LeaveRow
<1>3. PICK to \in CallState :
        /\ Step(k, "start", to) /\ to.pc = "get" /\ to.op = target /\ to.leave = {l}
        /\ to.seen = leaves[l].status /\ to.code = calls[k].code
  <2> DEFINE to == [calls[k] EXCEPT !.pc = "get", !.op = target, !.user = u,
                                    !.leave = {l}, !.seen = leaves[l].status]
  <2>1. calls[k] \in CallState /\ target \in {"none", "create", "balance"} \cup Decided
    BY Current
  <2>2. to \in CallState
    BY <1>2, <2>1 DEF CallState
  <2>3. /\ to.pc = "get" /\ to.op = target /\ to.leave = {l}
        /\ to.seen = leaves[l].status /\ to.code = calls[k].code
    BY <2>1 DEF CallState
  <2> QED
    BY <1>1, <2>2, <2>3
<1>4. calls[k].pc = "start" /\ calls[k].code = 0
  BY <1>3, Current DEF Step, Sound
<1>5. Sound(to)
  BY <1>3, <1>4 DEF Sound
<1> QED
  BY <1>3, <1>5, ReadStep DEF CallReview

(* An answer is sound whatever it is about.                                 *)
LEMMA AnswerKeeps ==
  ASSUME IInv, NEW k \in Call, NEW from, from # "done", NEW code \in Code,
         Step(k, from, Reply(calls[k], code)), UNCHANGED <<employees, leaves, balances>>
  PROVE  IInv'
<1> DEFINE to == Reply(calls[k], code)
<1>1. to \in CallState /\ to.pc = "done"
  BY Current, ReplyFields
<1> HIDE DEF to
<1>2. Sound(to)
  BY <1>1 DEF Sound
<1> QED
  BY <1>1, <1>2, ReadStep DEF to

LEMMA GetForReviewKeeps == ASSUME IInv, NEW k \in Call, GetForReview(k) PROVE IInv'
<1> DEFINE q == calls[k]
<1>1. PICK l \in q.leave :
        \/ \E code \in {404, 200, 400} : Step(k, "get", Reply(q, code))
        \/ leaves[l].status = "pending" /\ Step(k, "get", [q EXCEPT !.pc = "set"])
  BY DEF GetForReview
<1>2. UNCHANGED <<employees, leaves, balances>>
  BY DEF GetForReview
<1>3. CASE \E code \in {404, 200, 400} : Step(k, "get", Reply(q, code))
  BY <1>2, <1>3, AnswerKeeps, Codes
<1>4. CASE leaves[l].status = "pending" /\ Step(k, "get", [q EXCEPT !.pc = "set"])
  <2>1. q \in CallState /\ Sound(q) /\ q.pc = "get"
    BY <1>4, Current DEF Step
  <2> DEFINE to == [q EXCEPT !.pc = "set"]
  <2>2. /\ to \in CallState /\ to.pc = "set" /\ to.op = q.op /\ to.leave = q.leave
        /\ to.seen = q.seen /\ to.code = q.code
    BY <2>1 DEF CallState
  <2>3. q.seen \notin Decided
    BY <1>4, <2>1 DEF Sound, Decided
  <2> HIDE DEF to, q
  <2>4. Sound(to)
    BY <2>1, <2>2, <2>3 DEF Sound
  <2> QED
    BY <1>2, <1>4, <2>2, <2>4, ReadStep DEF to
<1> QED
  BY <1>1, <1>3, <1>4

LEMMA ReadEntitlementKeeps == ASSUME IInv, NEW k \in Call, ReadEntitlement(k) PROVE IInv'
<1> DEFINE q == calls[k]
           days == balances[<<q.employee, q.year>>]
           shown == IF days = -1 THEN DefaultEntitledDays ELSE days
           to == [q EXCEPT !.pc = "sum", !.entitled = shown]
<1>1. Step(k, "entitlement", to) /\ UNCHANGED <<employees, leaves, balances>>
  BY DEF ReadEntitlement
<1>2. q \in CallState /\ Sound(q) /\ q.pc = "entitlement"
  BY <1>1, Current DEF Step
<1>3. q.employee \in Employee /\ q.year \in Year
  BY <1>2 DEF Sound, CallState
<1>4. days \in Allowance \cup {-1}
  BY <1>3 DEF IInv, TypeOK
<1>5. shown \in Nat
  BY <1>4, LeaveAssumption DEF DefaultEntitledDays
<1> HIDE DEF shown
<1>6. /\ to \in CallState /\ to.pc = "sum" /\ to.op = q.op /\ to.employee = q.employee
      /\ to.code = q.code
  BY <1>2, <1>5 DEF CallState
<1> HIDE DEF to, q
<1>7. Sound(to)
  BY <1>2, <1>3, <1>6 DEF Sound
<1> QED
  BY <1>1, <1>6, <1>7, ReadStep

LEMMA SumApprovedKeeps == ASSUME IInv, NEW k \in Call, SumApproved(k) PROVE IInv'
<1> DEFINE q == [calls[k] EXCEPT !.charged = Charged(calls[k].employee, calls[k].year)]
           to == Reply(q, 200)
<1>1. Step(k, "sum", to) /\ UNCHANGED <<employees, leaves, balances>>
  BY DEF SumApproved
<1>2. Charged(calls[k].employee, calls[k].year) \in SUBSET LeaveId
  BY DEF Charged
<1>3. q \in CallState
  BY <1>2, Current DEF CallState
<1> HIDE DEF q
<1>4. to \in CallState /\ to.pc = "done"
  BY <1>3, ReplyFields, Codes
<1> HIDE DEF to
<1>5. Sound(to)
  BY <1>4 DEF Sound
<1> QED
  BY <1>1, <1>4, <1>5, ReadStep

LEMMA FailKeeps == ASSUME IInv, NEW k \in Call, Fail(k) PROVE IInv'
BY AnswerKeeps, Codes DEF Fail

-----------------------------------------------------------------------------
(* The steps that write a table.                                            *)

(* "Decided by a call": the part of LeaveAttributed that needs a witness.   *)
DecidedBy(l, j) ==
  /\ calls[j].op = leaves[l].status /\ calls[j].user = leaves[l].reviewedBy
  /\ calls[j].leave = {l} /\ calls[j].code \in {200, 500}

LEMMA Attribution ==
  LeaveAttributed <=> \A l \in LeaveId :
                        /\ Stored(l) => Live(leaves[l].employee)
                        /\ leaves[l].status \in Decided => \E j \in Call : DecidedBy(l, j)
BY DEF LeaveAttributed, DecidedBy

(* A call that is not over has decided nothing. *)
LEMMA DecidersAreDone ==
  ASSUME IInv, NEW k \in Call, calls[k].pc # "done", NEW l
  PROVE  ~DecidedBy(l, k)
<1>1. calls[k].code = 0
  BY Current DEF Sound
<1> QED
  BY <1>1 DEF DecidedBy

(* The request of a row that somebody stores. *)
LEMMA RowTypes ==
  ASSUME NEW row \in LeaveRow, NEW e \in Employee, NEW first \in Day, NEW last \in Day,
         NEW status \in {"none", "pending", "deleted"} \cup Decided, NEW u \in User \cup {NoUser}
  PROVE  /\ [status |-> "pending", employee |-> e, first |-> first, last |-> last,
             reviewedBy |-> NoUser] \in LeaveRow
         /\ LET to == [row EXCEPT !.status = status] IN
            /\ to \in LeaveRow /\ to.status = status /\ to.employee = row.employee
            /\ to.reviewedBy = row.reviewedBy
         /\ LET to == [row EXCEPT !.status = status, !.reviewedBy = u] IN
            /\ to \in LeaveRow /\ to.status = status /\ to.employee = row.employee
            /\ to.reviewedBy = u
BY DEF LeaveRow

(* One call ends, one request is written: its decision is the call's own,   *)
(* or it is not decided.                                                    *)
LEMMA WriteStep ==
  ASSUME IInv, NEW k \in Call, NEW from, from # "done", NEW to \in CallState, Step(k, from, to),
         NEW l \in LeaveId, NEW row \in LeaveRow, leaves' \in [LeaveId -> LeaveRow],
         leaves'[l] = row, \A m \in LeaveId \ {l} : leaves'[m] = leaves[m],
         UNCHANGED <<employees, balances>>, to.pc = "done",
         leaves[l].status = "none" => row.status = "pending",
         leaves[l].status # "none" => row.status \in Decided,
         Live(row.employee),
         row.status \in Decided => /\ to.op = row.status /\ to.user = row.reviewedBy
                                   /\ to.leave = {l} /\ to.code \in {200, 500}
  PROVE  IInv'
<1>1. /\ calls[k].pc = from
      /\ calls' \in [Call -> CallState] /\ calls'[k] = to
      /\ \A j \in Call \ {k} : calls'[j] = calls[j]
  BY StepChanges DEF IInv
<1>2. leaves'[l] = row /\ \A m \in LeaveId \ {l} : leaves'[m] = leaves[m]
  OBVIOUS
<1>3. TypeOK'
  BY <1>1 DEF IInv, TypeOK, IdentityTypeOK
<1>4. LeaveAttributed'
  <2>1. ASSUME NEW m \in LeaveId
        PROVE  /\ Stored(m)' => Live(leaves[m].employee)'
               /\ leaves'[m].status \in Decided => \E j \in Call : DecidedBy(m, j)'
    <3>1. CASE m = l
      BY <3>1, <1>1, <1>2 DEF Live, DecidedBy
    <3>2. CASE m # l
      <4>1. leaves'[m] = leaves[m]
        BY <1>2, <3>2
      <4>2. Stored(m)' => Live(leaves[m].employee)'
        BY <4>1, Attribution DEF IInv, Stored, Live
      <4>3. ASSUME leaves'[m].status \in Decided
            PROVE  \E j \in Call : DecidedBy(m, j)'
        <5>1. PICK j \in Call : DecidedBy(m, j)
          BY <4>1, <4>3, Attribution DEF IInv
        <5>2. j # k
          BY <1>1, <5>1, DecidersAreDone
        <5> QED
          BY <1>1, <4>1, <5>1, <5>2 DEF DecidedBy
      <4> QED
        BY <4>2, <4>3
    <3> QED
      BY <3>1, <3>2
  <2> QED
    BY <2>1 DEF LeaveAttributed, DecidedBy
<1>5. ASSUME NEW j \in Call PROVE Sound(calls[j])'
  <2>1. CASE j = k
    BY <2>1, <1>1 DEF Sound
  <2>2. CASE j # k
    <3>1. Sound(calls'[j]) /\ calls'[j] \in CallState
      BY <1>1, <2>2 DEF IInv
    <3>2. \A m \in LeaveId : leaves[m].status \in Decided \cup {"deleted"} =>
            leaves'[m].status \in Decided \cup {"deleted"}
      BY <1>2 DEF Decided
    <3>3. calls'[j].leave \subseteq LeaveId
      BY <3>1 DEF CallState
    <3> QED
      BY <3>1, <3>2, <3>3 DEF Sound
  <2> QED
    BY <2>1, <2>2
<1> QED
  BY <1>3, <1>4, <1>5 DEF IInv

LEMMA InsertLeaveKeeps == ASSUME IInv, NEW k \in Call, InsertLeave(k) PROVE IInv'
<1> DEFINE q == calls[k]
           Inserts(l, first, last) ==
             /\ leaves[l].status = "none"
             /\ first <= last
             /\ leaves' = [leaves EXCEPT ![l] = Requested(q.employee, first, last)]
             /\ \E code \in {201, 500} :
                  Step(k, "insert", Reply([q EXCEPT !.leave = {l}], code))
<1>1. UNCHANGED <<employees, balances>>
  BY DEF InsertLeave
<1>2. \/ /\ ~ Live(q.employee)
         /\ Step(k, "insert", Reply(q, 400))
         /\ UNCHANGED leaves
      \/ /\ Live(q.employee)
         /\ \E l \in LeaveId, first, last \in Day : Inserts(l, first, last)
  BY Zenon DEF InsertLeave
<1>3. CASE ~ Live(q.employee) /\ Step(k, "insert", Reply(q, 400)) /\ UNCHANGED leaves
  BY <1>1, <1>3, AnswerKeeps, Codes
<1>4. ASSUME Live(q.employee), NEW l \in LeaveId, NEW first \in Day, NEW last \in Day,
             Inserts(l, first, last)
      PROVE  IInv'
  <2> DEFINE row == Requested(q.employee, first, last)
             about == [q EXCEPT !.leave = {l}]
  <2>1. q.employee \in Employee
    BY <1>4 DEF Live
  <2>2. row \in LeaveRow /\ row.status = "pending" /\ row.employee = q.employee
    BY <2>1 DEF LeaveRow, Requested
  <2>3. about \in CallState
    BY Current DEF CallState
  <2> HIDE DEF about, row
  <2>4. leaves' = [leaves EXCEPT ![l] = row] /\ leaves[l].status = "none"
    BY <1>4 DEF row
  <2>5. /\ leaves' \in [LeaveId -> LeaveRow] /\ leaves'[l] = row
        /\ \A m \in LeaveId \ {l} : leaves'[m] = leaves[m]
    BY <2>2, <2>4 DEF IInv, TypeOK
  <2>6. PICK code \in Code : Step(k, "insert", Reply(about, code))
    <3>1. \E code \in {201, 500} : Step(k, "insert", Reply(about, code))
      BY <1>4 DEF about
    <3> QED
      BY <3>1, Codes
  <2>7. PICK to \in CallState : Step(k, "insert", to) /\ to.pc = "done"
    BY <2>3, <2>6, ReplyFields
  <2>8. row.status \notin Decided
    BY <2>2 DEF Decided
  <2> HIDE DEF q
  <2> QED
    BY <1>1, <1>4, <2>2, <2>4, <2>5, <2>7, <2>8, WriteStep
<1> HIDE DEF q, Inserts
<1> QED
  BY <1>2, <1>3, <1>4

LEMMA SetStatusKeeps == ASSUME IInv, NEW k \in Call, SetStatus(k) PROVE IInv'
<1> DEFINE q == calls[k]
<1>1. UNCHANGED <<employees, balances>>
  BY DEF SetStatus
<1>2. PICK l \in q.leave :
        \/ /\ Stored(l)
           /\ leaves' = [leaves EXCEPT ![l].status = q.op, ![l].reviewedBy = q.user]
           /\ \E code \in {200, 500} : Step(k, "set", Reply(q, code))
        \/ ~ Stored(l) /\ Step(k, "set", Reply(q, 404)) /\ UNCHANGED leaves
  BY DEF SetStatus
<1>3. q \in CallState /\ Sound(q) /\ q.pc = "set"
  <2>1. \E to : Step(k, "set", to)
    BY <1>2, Zenon
  <2> QED
    BY <2>1, Current DEF Step
<1>4. q.op \in Decided /\ q.leave = {l} /\ l \in LeaveId /\ q.user \in User \cup {NoUser}
  BY <1>2, <1>3 DEF Sound, CallState
<1>5. CASE ~ Stored(l) /\ Step(k, "set", Reply(q, 404)) /\ UNCHANGED leaves
  <2>1. PICK code \in Code : code = 404
    BY Answers
  <2>2. Step(k, "set", Reply(q, code)) /\ "set" # "done"
    BY <1>5, <2>1
  <2> QED
    BY <1>1, <1>5, <2>2, AnswerKeeps
<1>6. CASE /\ Stored(l)
           /\ leaves' = [leaves EXCEPT ![l].status = q.op, ![l].reviewedBy = q.user]
           /\ \E code \in {200, 500} : Step(k, "set", Reply(q, code))
  <2> DEFINE row == [leaves[l] EXCEPT !.status = q.op, !.reviewedBy = q.user]
  <2>1. leaves \in [LeaveId -> LeaveRow] /\ leaves[l] \in LeaveRow
    BY <1>4 DEF IInv, TypeOK
  <2>2. /\ row \in LeaveRow /\ row.status = q.op /\ row.employee = leaves[l].employee
        /\ row.reviewedBy = q.user
    BY <1>4, <2>1 DEF LeaveRow
  <2>3. /\ leaves' \in [LeaveId -> LeaveRow] /\ leaves'[l] = row
        /\ \A m \in LeaveId \ {l} : leaves'[m] = leaves[m]
    <3>1. leaves'[l] = row /\ \A m \in LeaveId \ {l} : leaves'[m] = leaves[m]
      <4>1. \A m \in LeaveId \ {l} : leaves'[m] = leaves[m]
        BY <1>4, <1>6, <2>1
      <4>2. leaves'[l] = row
        BY <1>4, <1>6, <2>1
      <4> QED
        BY <4>1, <4>2
    <3>2. leaves' \in [LeaveId -> LeaveRow]
      <4> DEFINE half == [leaves EXCEPT ![l].status = q.op]
      <4>1. half \in [LeaveId -> LeaveRow]
        BY <1>4, <2>1 DEF LeaveRow
      <4>2. leaves' = [half EXCEPT ![l].reviewedBy = q.user]
        BY <1>6
      <4> HIDE DEF half
      <4> QED
        BY <1>4, <4>1, <4>2 DEF LeaveRow
    <3> QED
      BY <3>1, <3>2
  <2>4. Live(row.employee) /\ leaves[l].status # "none"
    BY <1>4, <1>6, <2>2 DEF IInv, LeaveAttributed, Stored
  <2> HIDE DEF row
  <2>5. PICK code \in {200, 500} : Step(k, "set", Reply(q, code))
    BY <1>6
  <2>6. PICK to \in CallState :
          /\ to = Reply(q, code) /\ to.pc = "done" /\ to.code = code /\ to.op = q.op
          /\ to.user = q.user /\ to.leave = q.leave
    <3>1. \A c \in Code : /\ Reply(q, c) \in CallState /\ Reply(q, c).pc = "done"
                          /\ Reply(q, c).code = c /\ Reply(q, c).op = q.op
                          /\ Reply(q, c).user = q.user /\ Reply(q, c).leave = q.leave
      BY <1>3, ReplyFields
    <3> QED
      BY <3>1, Codes
  <2>7. Step(k, "set", to) /\ to.code \in {200, 500}
    BY <2>5, <2>6
  <2> HIDE DEF q
  <2> QED
    BY <1>1, <1>4, <2>2, <2>3, <2>4, <2>6, <2>7, WriteStep
<1> QED
  BY <1>2, <1>5, <1>6

(* Steps of others: no call moves, and requests change by deletion only.    *)
LEMMA TablesStep ==
  ASSUME IInv, UNCHANGED calls, TypeOK',
         \A l \in LeaveId : leaves'[l] = leaves[l] \/ leaves'[l].status = "deleted",
         \A l \in LeaveId : leaves'[l] = leaves[l] /\ Stored(l) /\ Live(leaves[l].employee) =>
           Live(leaves[l].employee)'
  PROVE  IInv'
<1>1. LeaveAttributed'
  <2>1. ASSUME NEW l \in LeaveId
        PROVE  /\ Stored(l)' => Live(leaves[l].employee)'
               /\ leaves'[l].status \in Decided => \E j \in Call : DecidedBy(l, j)'
    <3>1. CASE leaves'[l] = leaves[l]
      <4>1. Stored(l)' => Live(leaves[l].employee)'
        BY <3>1 DEF IInv, LeaveAttributed, Stored
      <4>2. ASSUME leaves'[l].status \in Decided
            PROVE  \E j \in Call : DecidedBy(l, j)'
        <5>1. PICK j \in Call : DecidedBy(l, j)
          BY <3>1, <4>2, Attribution DEF IInv
        <5> QED
          BY <3>1, <5>1 DEF DecidedBy
      <4> QED
        BY <4>1, <4>2
    <3>2. CASE leaves'[l].status = "deleted"
      BY <3>2 DEF Stored, Decided
    <3> QED
      BY <3>1, <3>2
  <2> QED
    BY <2>1 DEF LeaveAttributed, DecidedBy
<1>2. ASSUME NEW k \in Call PROVE Sound(calls[k])'
  <2>1. Sound(calls[k]) /\ calls[k].leave \subseteq LeaveId
    BY Current DEF CallState
  <2> QED
    BY <2>1 DEF Sound
<1> QED
  BY <1>1, <1>2 DEF IInv

LEMMA ManageEmployeeKeeps == ASSUME IInv, ManageEmployee PROVE IInv'
<1>1. PICK e \in Employee :
        \/ /\ \E u \in User : CreateEmployee(e, u) \/ SetEmployeeUserID(e, u)
           /\ UNCHANGED <<leaves, balances>>
        \/ /\ DeleteEmployee(e, {})
           /\ leaves' = LeavesWithout(e)
           /\ balances' = [ey \in Employee \X Year |-> IF ey[1] = e THEN -1 ELSE balances[ey]]
  BY DEF ManageEmployee
<1>2. UNCHANGED calls /\ TypeOK
  BY DEF ManageEmployee, IInv
<1>3. CASE /\ \E u \in User : CreateEmployee(e, u) \/ SetEmployeeUserID(e, u)
           /\ UNCHANGED <<leaves, balances>>
  <2>1. PICK u \in User : CreateEmployee(e, u) \/ SetEmployeeUserID(e, u)
    BY <1>3
  <2>2. /\ employees' \in [Employee -> EmployeeRow]
        /\ \A f \in Employee : employees[f].row = "live" => employees'[f].row = "live"
    <3>1. employees \in [Employee -> EmployeeRow]
      BY <1>2 DEF TypeOK, IdentityTypeOK
    <3>2. CASE CreateEmployee(e, u)
      BY <3>1, <3>2 DEF EmployeeRow, CreateEmployee
    <3>3. CASE SetEmployeeUserID(e, u)
      BY <3>1, <3>3 DEF EmployeeRow, SetEmployeeUserID
    <3> QED
      BY <2>1, <3>2, <3>3
  <2>3. TypeOK'
    BY <1>2, <1>3, <2>2 DEF TypeOK, IdentityTypeOK
  <2> QED
    BY <1>2, <1>3, <2>2, <2>3, TablesStep DEF Live
<1>4. CASE /\ DeleteEmployee(e, {})
           /\ leaves' = LeavesWithout(e)
           /\ balances' = [ey \in Employee \X Year |-> IF ey[1] = e THEN -1 ELSE balances[ey]]
  <2>1. /\ employees' \in [Employee -> EmployeeRow]
        /\ \A f \in Employee \ {e} : employees'[f] = employees[f]
    BY <1>2, <1>4 DEF TypeOK, IdentityTypeOK, EmployeeRow, DeleteEmployee
  <2>2. ASSUME NEW l \in LeaveId
        PROVE  /\ leaves'[l] \in LeaveRow
               /\ \/ leaves'[l] = leaves[l] /\ leaves[l].employee # e
                  \/ leaves'[l].status = "deleted"
    <3>1. leaves[l] \in LeaveRow
      BY <1>2 DEF TypeOK
    <3>2. CASE leaves[l].employee = e
      <4>1. leaves'[l] = [leaves[l] EXCEPT !.status = "deleted"]
        BY <1>4, <3>2 DEF LeavesWithout
      <4> QED
        BY <3>1, <4>1 DEF LeaveRow
    <3>3. CASE leaves[l].employee # e
      BY <1>4, <3>1, <3>3 DEF LeavesWithout
    <3> QED
      BY <3>2, <3>3
  <2>3. leaves' \in [LeaveId -> LeaveRow]
    BY <1>4, <2>2 DEF LeavesWithout
  <2>4. balances' \in [Employee \X Year -> Allowance \cup {-1}]
    BY <1>2, <1>4 DEF TypeOK
  <2>5. TypeOK'
    BY <1>2, <2>1, <2>3, <2>4 DEF TypeOK, IdentityTypeOK
  <2>6. ASSUME NEW l \in LeaveId, leaves'[l] = leaves[l], Stored(l), Live(leaves[l].employee)
        PROVE  Live(leaves[l].employee)'
    <3>1. leaves[l].employee # e
      BY <2>2, <2>6 DEF Stored
    <3> QED
      BY <2>1, <2>2, <2>6, <3>1 DEF Live
  <2> QED
    BY <1>2, <2>2, <2>5, <2>6, TablesStep
<1> QED
  BY <1>1, <1>3, <1>4

LEMMA EnterAllowanceKeeps == ASSUME IInv, EnterAllowance PROVE IInv'
<1>1. /\ UNCHANGED <<employees, leaves, calls>> /\ TypeOK
      /\ balances' \in [Employee \X Year -> Allowance \cup {-1}]
  BY DEF EnterAllowance, IInv, TypeOK
<1>2. TypeOK'
  BY <1>1 DEF TypeOK, IdentityTypeOK
<1> QED
  BY <1>1, <1>2, TablesStep DEF Live

-----------------------------------------------------------------------------
LEMMA NextInv == IInv /\ [Next]_leaveVars => IInv'
<1> SUFFICES ASSUME IInv, [Next]_leaveVars PROVE IInv'
  OBVIOUS
<1>1. ASSUME NEW k \in Call,
             \/ CallCreate(k) \/ CallBalance(k) \/ CallReview(k)
             \/ InsertLeave(k) \/ GetForReview(k) \/ SetStatus(k)
             \/ ReadEntitlement(k) \/ SumApproved(k) \/ Fail(k)
      PROVE  IInv'
  BY <1>1, CallsKeep, CallReviewKeeps, InsertLeaveKeeps, GetForReviewKeeps, SetStatusKeeps,
     ReadEntitlementKeeps, SumApprovedKeeps, FailKeeps
<1>2. CASE UNCHANGED leaveVars
  <2>1. TypeOK'
    BY <1>2 DEF IInv, TypeOK, IdentityTypeOK, leaveVars
  <2> QED
    BY <1>2, <2>1, TablesStep DEF leaveVars, Live
<1> QED
  BY <1>1, <1>2, ManageEmployeeKeeps, EnterAllowanceKeeps DEF Next

(* The invariant holds in every reachable state. *)
THEOREM Invariance == Spec => []IInv
BY InitInv, NextInv, PTL DEF Spec

(* The tables and the calls keep their types; a balance that is answered is *)
(* a number of days also where no row grants any.                           *)
THEOREM TypeCorrect == Spec => []TypeOK
<1>1. IInv => TypeOK
  BY DEF IInv
<1> QED
  BY Invariance, <1>1, PTL

(* A stored request belongs to an employee that exists, and a decided one   *)
(* names the manager of the call that decided it (leave/service.go 156-173).*)
THEOREM Attributed == Spec => []LeaveAttributed
<1>1. IInv => LeaveAttributed
  BY DEF IInv
<1> QED
  BY Invariance, <1>1, PTL

(* A review that arrives when the request is decided never writes, whatever *)
(* reviews in flight do meanwhile (leave/service.go 156-173).               *)
THEOREM LateReviews == Spec => LateReviewChangesNothing
<1>1. ASSUME IInv, [Next]_leaveVars, NEW k \in Call,
             calls[k].op \in Decided, calls[k].seen \in Decided, calls'[k] # calls[k]
      PROVE  leaves' = leaves
  <2>1. calls[k].pc \in {"get", "done"} /\ TypeOK
    BY <1>1, Current DEF Sound
  <2>2. ASSUME NEW j \in Call, InsertLeave(j) \/ SetStatus(j)
        PROVE  FALSE
    <3>1. \E from \in {"insert", "set"} : \E to : Step(j, from, to)
      <4>1. InsertLeave(j) => \E to : Step(j, "insert", to)
        BY Zenon DEF InsertLeave
      <4>2. SetStatus(j) => \E to : Step(j, "set", to)
        BY Zenon DEF SetStatus
      <4> QED
        BY <2>2, <4>1, <4>2
    <3>2. calls'[k] = calls[k] \/ k = j
      BY <2>1, <3>1 DEF Step, TypeOK
    <3> QED
      BY <1>1, <2>1, <3>1, <3>2 DEF Step
  <2>3. ~ ManageEmployee /\ ~ UNCHANGED leaveVars
    BY <1>1 DEF ManageEmployee, leaveVars
  <2>4. \/ \E j \in Call :
              \/ CallCreate(j) \/ CallBalance(j) \/ CallReview(j) \/ GetForReview(j)
              \/ ReadEntitlement(j) \/ SumApproved(j) \/ Fail(j)
        \/ EnterAllowance
    BY <1>1, <2>2, <2>3 DEF Next
  <2> QED
    BY <2>4 DEF CallCreate, CallBalance, CallReview, GetForReview, ReadEntitlement, SumApproved,
       Fail, EnterAllowance
<1>2. IInv /\ [Next]_leaveVars =>
        [\A k \in Call :
           calls[k].op \in Decided /\ calls[k].seen \in Decided /\ calls'[k] # calls[k]
             => leaves' = leaves]_leaveVars
  BY <1>1
<1> QED
  BY Invariance, <1>2, PTL DEF Spec, LateReviewChangesNothing
-----------------------------------------------------------------------------
(* Charging.  The years part the days among them. *)

LEMMA InOneYear ==
  ASSUME NEW d \in Day
  PROVE  \E y \in Year : /\ YearStart(y) <= d /\ d <= YearEnd(y)
                         /\ \A z \in Year : YearStart(z) <= d /\ d <= YearEnd(z) => z = y
<1> DEFINE y == d \div YearLength
<1>1. YearLength \in Nat /\ YearLength > 0 /\ LastYear \in Nat
  BY LeaveAssumption
<1>2. d \in Nat /\ d < YearLength * (LastYear + 1)
  <2>1. YearLength * (LastYear + 1) \in Nat
    BY <1>1
  <2> QED
    BY <2>1 DEF Day
<1>3. y \in Nat /\ y * YearLength <= d /\ d < (y + 1) * YearLength
  BY <1>1, <1>2
<1>4. y <= LastYear
  <2>1. y * YearLength < (LastYear + 1) * YearLength
    BY <1>1, <1>2, <1>3
  <2> QED
    BY <2>1, <1>1, <1>3
<1> HIDE DEF y
<1>5. ASSUME NEW z \in Year, YearStart(z) <= d, d <= YearEnd(z)
      PROVE  z = y
  <2>1. z \in Nat /\ z * YearLength <= d /\ d < (z + 1) * YearLength
    <3>1. z \in Nat
      BY <1>1 DEF Year
    <3>2. z * YearLength \in Nat /\ (z + 1) * YearLength = z * YearLength + YearLength
      BY <1>1, <3>1
    <3>3. YearStart(z) = z * YearLength /\ YearEnd(z) = z * YearLength + YearLength - 1
      BY DEF YearStart, YearEnd
    <3>4. d < z * YearLength + YearLength
      BY <1>1, <1>2, <1>5, <3>2, <3>3
    <3> QED
      BY <1>5, <3>1, <3>2, <3>3, <3>4
  <2>2. ~ (z < y)
    <3>1. z < y => (z + 1) * YearLength <= y * YearLength
      BY <1>1, <1>3, <2>1
    <3> QED
      BY <3>1, <2>1, <1>1, <1>2, <1>3
  <2>3. ~ (y < z)
    <3>1. y < z => (y + 1) * YearLength <= z * YearLength
      BY <1>1, <1>3, <2>1
    <3> QED
      BY <3>1, <2>1, <1>1, <1>2, <1>3
  <2> QED
    BY <2>1, <2>2, <2>3, <1>3
<1>6. y \in Year
  BY <1>1, <1>3, <1>4 DEF Year
<1>7. YearStart(y) <= d /\ d <= YearEnd(y)
  BY <1>1, <1>2, <1>3 DEF YearStart, YearEnd
<1> QED
  BY <1>5, <1>6, <1>7

(* A request starts in exactly one year. *)
LEMMA ApprovedCounted ==
  ASSUME TypeOK, NEW l \in LeaveId
  PROVE  \E y \in Year : \A z \in Year : Counted(l, z) <=> z = y
<1>1. leaves[l].first \in Day
  BY DEF TypeOK, LeaveRow
<1>2. PICK y \in Year : /\ YearStart(y) <= leaves[l].first /\ leaves[l].first <= YearEnd(y)
                        /\ \A z \in Year : YearStart(z) <= leaves[l].first
                              /\ leaves[l].first <= YearEnd(z) => z = y
  BY <1>1, InOneYear
<1>3. \A z \in Year : YearStart(z) \in Int /\ leaves[l].first \in Int
  BY <1>1, LeaveAssumption DEF YearStart, Year, Day
<1>4. \A z \in Year : Counted(l, z) <=> z = y
  BY <1>2, <1>3 DEF Counted
<1> QED
  BY <1>4

(* The balance of one year and of one employee adds up each approved        *)
(* request, and no other does: a request's days are never charged twice or  *)
(* lost.                                                                    *)
ChargedOnce ==
  \A l \in LeaveId : leaves[l].status = "approved" =>
    \E y \in Year :
      \A z \in Year, e \in Employee :
        (l \in Charged(e, z)) <=> (z = y /\ e = leaves[l].employee)

(* Years of any length, any requests: SumApprovedLeaveDays (leave.sql)      *)
(* counts every approved request in exactly one balance.                    *)
THEOREM ChargedToOneYear == Spec => []ChargedOnce
<1>1. IInv => ChargedOnce
  BY ApprovedCounted DEF IInv, ChargedOnce, Charged
<1> QED
  BY Invariance, <1>1, PTL

-----------------------------------------------------------------------------
(* Sums over finite sets. *)

(* Induction over a finite set: Good contains a set as soon as it contains *)
(* what is left of it without any one element.                             *)
LEMMA SetInduction ==
  ASSUME NEW S, IsFiniteSet(S), NEW Good,
         \A s \in SUBSET S : (\A x \in s : s \ {x} \in Good) => s \in Good
  PROVE  S \in Good
<1> DEFINE R == StrictSubsetOrdering(S)
           T == {s \in SUBSET S : s \notin Good}
<1>1. IsWellFoundedOn(R, SUBSET S)
  BY FS_StrictSubsetOrderingWellFounded, FS_FiniteSubsetsOfFinite
<1>2. ASSUME S \notin Good PROVE FALSE
  <2>1. T # {} /\ T \subseteq SUBSET S
    BY <1>2
  <2> HIDE DEF R
  <2>2. PICK s \in T : \A t \in T : <<t, s>> \notin R
    BY <1>1, <2>1, WFMin
  <2>3. ASSUME NEW x \in s PROVE s \ {x} \in Good
    <3>1. <<s \ {x}, s>> \in R
      BY <2>2, <2>3 DEF R, StrictSubsetOrdering
    <3> QED
      BY <2>2, <3>1
  <2> QED
    BY <2>2, <2>3
<1> QED
  BY <1>2

(* A sum of naturals counts: F[x] units for each x, all different.         *)
Units(F, s) == {u \in s \X Nat : u[2] < F[u[1]]}

LEMMA UnitsOne ==
  ASSUME NEW F, NEW x, F[x] \in Nat
  PROVE  /\ IsFiniteSet(Units(F, {x}))
         /\ Cardinality(Units(F, {x})) = F[x]
<1> DEFINE n == F[x]
           I == 0 .. n - 1
<1>1. Units(F, {x}) = {x} \X I
  BY DEF Units
<1>2. IsFiniteSet(I) /\ Cardinality(I) = n
  <2>1. 0 \in Int /\ n - 1 \in Int
    OBVIOUS
  <2>2. IsFiniteSet(I) /\ Cardinality(I) = IF 0 > n - 1 THEN 0 ELSE n - 1 - 0 + 1
    BY <2>1, FS_Interval
  <2> QED
    BY <2>2
<1>3. IsFiniteSet({x}) /\ Cardinality({x}) = 1
  BY FS_Singleton
<1> HIDE DEF I
<1>4. IsFiniteSet({x} \X I) /\ Cardinality({x} \X I) = 1 * n
  BY <1>2, <1>3, FS_Product
<1>5. \A m \in Nat : 1 * m = m
  OBVIOUS
<1>6. 1 * n = n
  BY <1>5
<1> QED
  BY <1>1, <1>4, <1>6

LEMMA UnitsJoin ==
  ASSUME NEW F, NEW A, NEW B, A \cap B = {},
         IsFiniteSet(Units(F, A)), IsFiniteSet(Units(F, B))
  PROVE  /\ IsFiniteSet(Units(F, A \cup B))
         /\ Cardinality(Units(F, A \cup B))
              = Cardinality(Units(F, A)) + Cardinality(Units(F, B))
<1>1. Units(F, A \cup B) = Units(F, A) \cup Units(F, B)
  BY DEF Units
<1>2. Units(F, A) \cap Units(F, B) = {}
  BY DEF Units
<1>3. Cardinality(Units(F, A)) \in Nat /\ Cardinality(Units(F, B)) \in Nat /\ Cardinality({}) = 0
  BY FS_CardinalityType, FS_EmptySet
<1>4. \A m, n \in Nat : m + n - 0 = m + n
  OBVIOUS
<1>5. /\ IsFiniteSet(Units(F, A) \cup Units(F, B))
      /\ Cardinality(Units(F, A) \cup Units(F, B))
           = Cardinality(Units(F, A)) + Cardinality(Units(F, B))
               - Cardinality(Units(F, A) \cap Units(F, B))
  BY FS_Union
<1>6. Cardinality(Units(F, A) \cup Units(F, B))
        = Cardinality(Units(F, A)) + Cardinality(Units(F, B)) - 0
  BY <1>2, <1>3, <1>5
<1>7. Cardinality(Units(F, A) \cup Units(F, B))
        = Cardinality(Units(F, A)) + Cardinality(Units(F, B))
  BY <1>3, <1>4, <1>6
<1> QED
  BY <1>1, <1>5, <1>7

LEMMA UnitsFinite ==
  ASSUME NEW S, IsFiniteSet(S), NEW F, \A x \in S : F[x] \in Nat
  PROVE  IsFiniteSet(Units(F, S))
<1> DEFINE Good == {s \in SUBSET S : IsFiniteSet(Units(F, s))}
<1>1. ASSUME NEW s \in SUBSET S, \A x \in s : s \ {x} \in Good
      PROVE  s \in Good
  <2>1. CASE s = {}
    <3>1. Units(F, s) = {}
      BY <2>1 DEF Units
    <3> QED
      BY <3>1, FS_EmptySet
  <2>2. CASE s # {}
    <3>1. PICK x \in s : TRUE
      BY <2>2
    <3>2. IsFiniteSet(Units(F, s \ {x})) /\ IsFiniteSet(Units(F, {x}))
      BY <1>1, <3>1, UnitsOne
    <3>3. IsFiniteSet(Units(F, (s \ {x}) \cup {x}))
      BY <3>2, UnitsJoin
    <3>4. (s \ {x}) \cup {x} = s
      BY <3>1
    <3> QED
      BY <3>3, <3>4
  <2> QED
    BY <2>1, <2>2
<1> HIDE DEF Good
<1>2. S \in Good
  BY <1>1, SetInduction
<1> QED
  BY <1>2 DEF Good

LEMMA UnitsWithout ==
  ASSUME NEW S, IsFiniteSet(S), NEW F, \A x \in S : F[x] \in Nat, NEW x \in S
  PROVE  Cardinality(Units(F, S)) = F[x] + Cardinality(Units(F, S \ {x}))
<1>1. IsFiniteSet(Units(F, S \ {x})) /\ IsFiniteSet(Units(F, {x}))
  BY UnitsOne, UnitsFinite, FS_RemoveElement
<1>2. Cardinality(Units(F, {x})) = F[x] /\ Cardinality(Units(F, S \ {x})) \in Nat
  BY <1>1, UnitsOne, FS_CardinalityType
<1>3. Cardinality(Units(F, (S \ {x}) \cup {x}))
        = Cardinality(Units(F, S \ {x})) + Cardinality(Units(F, {x}))
  BY <1>1, UnitsJoin
<1>4. (S \ {x}) \cup {x} = S
  OBVIOUS
<1>5. Cardinality(Units(F, S)) = Cardinality(Units(F, S \ {x})) + F[x]
  BY <1>2, <1>3, <1>4
<1>6. \A m, n \in Nat : m + n = n + m
  OBVIOUS
<1> QED
  BY <1>2, <1>5, <1>6

(* g is the function by which a fold of the community modules adds up F.   *)
Chosen(s) == CHOOSE x \in s : TRUE

IsTotal(g, F, S) ==
  g = [s \in SUBSET S |-> IF s = {} THEN 0 ELSE F[Chosen(s)] + g[s \ {Chosen(s)}]]

LEMMA NoUnits == ASSUME NEW F PROVE Cardinality(Units(F, {})) = 0
<1>1. Units(F, {}) = {}
  BY DEF Units
<1> QED
  BY <1>1, FS_EmptySet

(* There is such a function, as the number of units is one;                *)
LEMMA TotalExists ==
  ASSUME NEW S, IsFiniteSet(S), NEW F, \A x \in S : F[x] \in Nat
  PROVE  \E g : IsTotal(g, F, S)
<1> DEFINE g == [s \in SUBSET S |-> Cardinality(Units(F, s))]
<1>1. ASSUME NEW s \in SUBSET S, s # {}
      PROVE  g[s] = F[Chosen(s)] + g[s \ {Chosen(s)}]
  <2>1. Chosen(s) \in s
    BY <1>1 DEF Chosen
  <2>2. IsFiniteSet(s) /\ \A x \in s : F[x] \in Nat
    BY FS_Subset
  <2>3. Cardinality(Units(F, s)) = F[Chosen(s)] + Cardinality(Units(F, s \ {Chosen(s)}))
    BY <2>1, <2>2, UnitsWithout
  <2>4. s \ {Chosen(s)} \in SUBSET S
    OBVIOUS
  <2> QED
    BY <2>3, <2>4
<1>2. g[{}] = 0
  BY NoUnits
<1>3. g = [s \in SUBSET S |-> IF s = {} THEN 0 ELSE F[Chosen(s)] + g[s \ {Chosen(s)}]]
  BY <1>1, <1>2
<1> HIDE DEF g
<1> QED
  BY <1>3 DEF IsTotal

(* and there is no other.                                                  *)
LEMMA TotalCounts ==
  ASSUME NEW S, IsFiniteSet(S), NEW F, \A x \in S : F[x] \in Nat,
         NEW g, IsTotal(g, F, S)
  PROVE  g[S] = Cardinality(Units(F, S))
<1> DEFINE Good == {s \in SUBSET S : g[s] = Cardinality(Units(F, s))}
<1>1. ASSUME NEW s \in SUBSET S, \A x \in s : s \ {x} \in Good
      PROVE  s \in Good
  <2>1. CASE s = {}
    <3>1. g[s] = 0
      BY <2>1 DEF IsTotal
    <3> QED
      BY <2>1, <3>1, NoUnits
  <2>2. CASE s # {}
    <3>1. Chosen(s) \in s
      BY <2>2 DEF Chosen
    <3>2. g[s] = F[Chosen(s)] + g[s \ {Chosen(s)}]
      BY <2>2 DEF IsTotal
    <3>3. g[s \ {Chosen(s)}] = Cardinality(Units(F, s \ {Chosen(s)}))
      BY <1>1, <3>1
    <3>4. IsFiniteSet(s) /\ \A x \in s : F[x] \in Nat
      BY FS_Subset
    <3>5. Cardinality(Units(F, s)) = F[Chosen(s)] + Cardinality(Units(F, s \ {Chosen(s)}))
      BY <3>1, <3>4, UnitsWithout
    <3> QED
      BY <3>2, <3>3, <3>5
  <2> QED
    BY <2>1, <2>2
<1> HIDE DEF Good
<1>2. S \in Good
  BY <1>1, SetInduction
<1> QED
  BY <1>2 DEF Good

-----------------------------------------------------------------------------
(* The requests that have been entered. *)

(* Requests enter one at a time and with their days in order.              *)
Entered == {l \in LeaveId : leaves[l].status # "none"}

Booked == /\ IsFiniteSet(Entered)
          /\ \A l \in LeaveId : /\ leaves[l].first <= leaves[l].last
                                /\ leaves[l].status = "none" => leaves[l].employee = NoEmployee

(* What a step may do to a row: its days stay, and it stays a row, or none. *)
Keeps(l) ==
  /\ leaves'[l].first = leaves[l].first /\ leaves'[l].last = leaves[l].last
  /\ leaves[l].status = "none" =>
       leaves'[l].status = "none" /\ leaves'[l].employee = leaves[l].employee
  /\ leaves[l].status # "none" => leaves'[l].status # "none"

LEMMA InsertBooks ==
  ASSUME IInv, NEW k \in Call, InsertLeave(k)
  PROVE  \E l : /\ \A m \in LeaveId \ {l} : Keeps(m)
                /\ l \in LeaveId =>
                     \/ Keeps(l)
                     \/ leaves'[l].first <= leaves'[l].last /\ leaves'[l].status # "none"
<1>1. CASE UNCHANGED leaves
  <2>1. \A m \in LeaveId : Keeps(m)
    BY <1>1 DEF Keeps
  <2> QED
    BY <2>1
<1>2. CASE \E l \in LeaveId, first, last \in Day :
             /\ first <= last
             /\ leaves' = [leaves EXCEPT ![l] = Requested(calls[k].employee, first, last)]
  <2>1. PICK l \in LeaveId, first \in Day, last \in Day :
           /\ first <= last
           /\ leaves' = [leaves EXCEPT ![l] = Requested(calls[k].employee, first, last)]
    BY <1>2
  <2>2. leaves \in [LeaveId -> LeaveRow]
    BY DEF IInv, TypeOK
  <2>3. leaves'[l] = Requested(calls[k].employee, first, last)
        /\ \A m \in LeaveId \ {l} : leaves'[m] = leaves[m]
    BY <2>1, <2>2
  <2>4. /\ leaves'[l].first = first /\ leaves'[l].last = last
        /\ leaves'[l].status = "pending"
    BY <2>3 DEF Requested
  <2>5. /\ \A m \in LeaveId \ {l} : Keeps(m)
        /\ leaves'[l].first <= leaves'[l].last /\ leaves'[l].status # "none"
    BY <2>1, <2>3, <2>4 DEF Keeps
  <2> QED
    BY <2>5
<1> QED
  BY <1>1, <1>2 DEF InsertLeave

LEMMA StatusBooks ==
  ASSUME IInv, NEW k \in Call, SetStatus(k)
  PROVE  \A m \in LeaveId : Keeps(m)
<1> DEFINE q == calls[k]
<1>1. PICK l \in q.leave :
        \/ /\ Stored(l)
           /\ leaves' = [leaves EXCEPT ![l].status = q.op, ![l].reviewedBy = q.user]
           /\ \E code \in {200, 500} : Step(k, "set", Reply(q, code))
        \/ ~ Stored(l) /\ Step(k, "set", Reply(q, 404)) /\ UNCHANGED leaves
  BY DEF SetStatus
<1>2. q \in CallState /\ Sound(q) /\ q.pc = "set"
  <2>1. \E to : Step(k, "set", to)
    BY <1>1, Zenon
  <2> QED
    BY <2>1, Current DEF Step
<1>3. q.op \in Decided /\ l \in LeaveId
  BY <1>1, <1>2 DEF Sound, CallState
<1>4. leaves \in [LeaveId -> LeaveRow]
  BY DEF IInv, TypeOK
<1>5. CASE UNCHANGED leaves
  BY <1>5 DEF Keeps
<1>6. CASE /\ Stored(l)
           /\ leaves' = [leaves EXCEPT ![l].status = q.op, ![l].reviewedBy = q.user]
  <2>1. \A m \in LeaveId \ {l} : leaves'[m] = leaves[m]
    BY <1>4, <1>6
  <2>2. leaves'[l] = [leaves[l] EXCEPT !.status = q.op, !.reviewedBy = q.user]
    BY <1>3, <1>4, <1>6
  <2>3. leaves[l] \in LeaveRow /\ leaves[l].status # "none"
    BY <1>3, <1>4, <1>6 DEF Stored
  <2>4. /\ leaves'[l].first = leaves[l].first /\ leaves'[l].last = leaves[l].last
        /\ leaves'[l].status = q.op
    BY <2>2, <2>3 DEF LeaveRow
  <2>5. Keeps(l)
    BY <1>3, <2>3, <2>4 DEF Keeps, Decided
  <2>6. \A m \in LeaveId \ {l} : Keeps(m)
    BY <2>1 DEF Keeps
  <2> QED
    BY <2>5, <2>6
<1> QED
  BY <1>1, <1>5, <1>6

LEMMA DeletionBooks ==
  ASSUME IInv, Booked, NEW e \in Employee, leaves' = LeavesWithout(e)
  PROVE  \A m \in LeaveId : Keeps(m)
<1> SUFFICES ASSUME NEW m \in LeaveId PROVE Keeps(m)
  OBVIOUS
<1>1. leaves[m] \in LeaveRow
  BY DEF IInv, TypeOK
<1>2. CASE leaves[m].employee # e
  <2>1. leaves'[m] = leaves[m]
    BY <1>2 DEF LeavesWithout
  <2> QED
    BY <2>1 DEF Keeps
<1>3. CASE leaves[m].employee = e
  <2>1. leaves'[m] = [leaves[m] EXCEPT !.status = "deleted"]
    BY <1>3 DEF LeavesWithout
  <2>2. leaves[m].status # "none"
    BY <1>3, Constants DEF Booked
  <2>3. /\ leaves'[m].first = leaves[m].first /\ leaves'[m].last = leaves[m].last
        /\ leaves'[m].status = "deleted"
    BY <1>1, <2>1 DEF LeaveRow
  <2> QED
    BY <2>2, <2>3 DEF Keeps
<1> QED
  BY <1>2, <1>3

LEMMA NextBooks ==
  ASSUME IInv, Booked, Next
  PROVE  \E l : /\ \A m \in LeaveId \ {l} : Keeps(m)
                /\ l \in LeaveId =>
                     \/ Keeps(l)
                     \/ leaves'[l].first <= leaves'[l].last /\ leaves'[l].status # "none"
<1>1. ASSUME UNCHANGED leaves PROVE \A m \in LeaveId : Keeps(m)
  BY <1>1 DEF Keeps
<1>2. ASSUME NEW k \in Call,
             \/ CallCreate(k) \/ CallBalance(k) \/ CallReview(k) \/ GetForReview(k)
             \/ ReadEntitlement(k) \/ SumApproved(k) \/ Fail(k)
      PROVE  UNCHANGED leaves
  BY <1>2 DEF CallCreate, CallBalance, CallReview, GetForReview, ReadEntitlement, SumApproved, Fail
<1>3. EnterAllowance => UNCHANGED leaves
  BY DEF EnterAllowance
<1>4. ASSUME ManageEmployee PROVE \A m \in LeaveId : Keeps(m)
  <2>1. \/ UNCHANGED leaves
        \/ \E e \in Employee : leaves' = LeavesWithout(e)
    BY <1>4 DEF ManageEmployee
  <2> QED
    BY <1>1, <2>1, DeletionBooks
<1>5. CASE \A m \in LeaveId : Keeps(m)
  BY <1>5
<1>6. CASE \E k \in Call : InsertLeave(k)
  BY <1>6, InsertBooks
<1>7. CASE \E k \in Call : SetStatus(k)
  BY <1>7, <1>5, StatusBooks
<1> QED
  BY <1>1, <1>2, <1>3, <1>4, <1>5, <1>6, <1>7 DEF Next

LEMMA BookedKept ==
  ASSUME IInv, Booked, [Next]_leaveVars PROVE Booked'
<1>1. PICK l : /\ \A m \in LeaveId \ {l} : Keeps(m)
               /\ l \in LeaveId =>
                    \/ Keeps(l)
                    \/ leaves'[l].first <= leaves'[l].last /\ leaves'[l].status # "none"
  <2>1. CASE UNCHANGED leaveVars
    <3>1. \A m \in LeaveId : Keeps(m)
      BY <2>1 DEF leaveVars, Keeps
    <3> QED
      BY <3>1
  <2>2. CASE Next
    BY <2>2, NextBooks
  <2> QED
    BY <2>1, <2>2
<1>2. Entered' \subseteq Entered \cup {l}
  BY <1>1 DEF Entered, Keeps
<1>3. IsFiniteSet(Entered \cup {l})
  BY FS_AddElement DEF Booked
<1>4. PICK more : more = Entered'
  OBVIOUS
<1>5. IsFiniteSet(more)
  BY <1>2, <1>3, <1>4, FS_Subset
<1>6. ASSUME NEW m \in LeaveId
      PROVE  /\ leaves'[m].first <= leaves'[m].last
             /\ leaves'[m].status = "none" => leaves'[m].employee = NoEmployee
  <2>1. CASE Keeps(m)
    BY <2>1 DEF Keeps, Booked
  <2>2. CASE ~Keeps(m)
    BY <1>1, <2>2
  <2> QED
    BY <2>1, <2>2
<1>7. IsFiniteSet(Entered)'
  BY <1>4, <1>5
<1> QED
  BY <1>6, <1>7 DEF Booked

LEMMA BookedInit == Init => Booked
<1> SUFFICES ASSUME Init PROVE Booked
  OBVIOUS
<1>1. \A l \in LeaveId : leaves[l] = NoLeave
  BY DEF Init
<1>2. NoLeave.status = "none" /\ NoLeave.employee = NoEmployee /\ NoLeave.first = 0 /\ NoLeave.last = 0
  BY DEF NoLeave
<1>3. Entered = {}
  BY <1>1, <1>2 DEF Entered
<1>4. 0 <= 0
  OBVIOUS
<1> QED
  BY <1>1, <1>2, <1>3, <1>4, FS_EmptySet DEF Booked

(* At any time finitely many requests have been entered, and each ends on  *)
(* or after the day it starts (leave/service.go 57-66).                     *)
THEOREM BooksInvariance == Spec => []Booked
<1>1. Init => Booked
  BY BookedInit
<1>2. IInv /\ Booked /\ [Next]_leaveVars => Booked'
  BY BookedKept
<1> QED
  BY Invariance, <1>1, <1>2, PTL DEF Spec

-----------------------------------------------------------------------------
(* The sums of days. *)

LEMMA DaysAdded ==
  ASSUME NEW S \in SUBSET LeaveId, IsFiniteSet(S),
         \A l \in S : Days(l) \in Nat
  PROVE  MapThenSumSet(Days, S) = Cardinality(Units([l \in LeaveId |-> Days(l)], S))
<1> DEFINE F == [l \in LeaveId |-> Days(l)]
           P(g) == g = [s \in SUBSET S |-> IF s = {} THEN 0 ELSE
                          Days(CHOOSE x \in s : TRUE) + g[s \ {CHOOSE x \in s : TRUE}]]
<1>1. \A s \in SUBSET S : s # {} => F[Chosen(s)] = Days(CHOOSE x \in s : TRUE)
  BY DEF Chosen
<1>2. \A g : P(g) <=> IsTotal(g, F, S)
  BY <1>1 DEF IsTotal, Chosen
<1>3. \E g : P(g)
  <2>1. \A l \in S : F[l] \in Nat
    OBVIOUS
  <2> HIDE DEF F, P
  <2>2. \E g : IsTotal(g, F, S)
    BY <2>1, TotalExists
  <2> QED
    BY <1>2, <2>2
<1>4. MapThenSumSet(Days, S) = (CHOOSE g : P(g))[S]
  BY DEF MapThenSumSet, MapThenFoldSet
<1> DEFINE h == CHOOSE g : P(g)
<1> HIDE DEF P
<1>5. P(h)
  BY <1>3
<1>6. IsTotal(h, F, S)
  BY <1>2, <1>5
<1> QED
  BY <1>4, <1>6, TotalCounts

ApprovedOf(e) == {l \in LeaveId : leaves[l].employee = e /\ leaves[l].status = "approved"}

DaysOf == [l \in LeaveId |-> Days(l)]

LEMMA DaysNatural == ASSUME TypeOK, Booked, NEW l \in LeaveId PROVE Days(l) \in Nat
<1>1. leaves[l].first \in Int /\ leaves[l].last \in Int
  BY DEF TypeOK, LeaveRow, Day
<1>2. leaves[l].first <= leaves[l].last
  BY DEF Booked
<1> QED
  BY <1>1, <1>2 DEF Days

LEMMA ApprovedFinite ==
  ASSUME Booked, NEW e, NEW S \in SUBSET ApprovedOf(e)
  PROVE  IsFiniteSet(S)
<1>1. S \in SUBSET Entered
  BY DEF ApprovedOf, Entered
<1> QED
  BY <1>1, FS_Subset DEF Booked

LEMMA UsedCounted ==
  ASSUME TypeOK, Booked, NEW e \in Employee, NEW S \in SUBSET ApprovedOf(e)
  PROVE  MapThenSumSet(Days, S) = Cardinality(Units(DaysOf, S))
<1>1. IsFiniteSet(S)
  BY ApprovedFinite
<1>2. S \in SUBSET LeaveId
  BY DEF ApprovedOf
<1>3. \A l \in S : Days(l) \in Nat
  BY <1>2, DaysNatural
<1> QED
  BY <1>1, <1>2, <1>3, DaysAdded DEF DaysOf

(* What SumApprovedLeaveDays says of each year, added up. *)
LEMMA YearsAdded ==
  ASSUME NEW e, \A y \in Year : UsedDays(e, y) \in Nat
  PROVE  MapThenSumSet(LAMBDA y : UsedDays(e, y), Year)
           = Cardinality(Units([y \in Year |-> UsedDays(e, y)], Year))
<1> DEFINE F == [y \in Year |-> UsedDays(e, y)]
           P(g) == g = [s \in SUBSET Year |-> IF s = {} THEN 0 ELSE
                          UsedDays(e, CHOOSE x \in s : TRUE) + g[s \ {CHOOSE x \in s : TRUE}]]
<1>1. \A s \in SUBSET Year : s # {} => F[Chosen(s)] = UsedDays(e, CHOOSE x \in s : TRUE)
  BY DEF Chosen
<1>2. \A g : P(g) <=> IsTotal(g, F, Year)
  BY <1>1 DEF IsTotal, Chosen
<1>3. \A y \in Year : F[y] \in Nat
  OBVIOUS
<1>4. IsFiniteSet(Year)
  BY LeaveAssumption, FS_Interval DEF Year
<1>5. \E g : P(g)
  <2> HIDE DEF F, P
  <2>1. \E g : IsTotal(g, F, Year)
    BY <1>3, <1>4, TotalExists
  <2> QED
    BY <1>2, <2>1
<1>6. MapThenSumSet(LAMBDA y : UsedDays(e, y), Year) = (CHOOSE g : P(g))[Year]
  BY DEF MapThenSumSet, MapThenFoldSet
<1> DEFINE h == CHOOSE g : P(g)
<1> HIDE DEF P
<1>7. P(h)
  BY <1>5
<1>8. IsTotal(h, F, Year)
  BY <1>2, <1>7
<1> HIDE DEF h
<1>9. h[Year] = Cardinality(Units(F, Year))
  BY <1>3, <1>4, <1>8, TotalCounts
<1> QED
  BY <1>6, <1>9 DEF h

(* The approved requests that one of the balances of the years in Y counts. *)
ChargedIn(e, Y) == {l \in ApprovedOf(e) : \E y \in Y : Counted(l, y)}

LEMMA YearByYear ==
  ASSUME TypeOK, Booked, NEW e \in Employee, NEW Y \in SUBSET Year, NEW y \in Y,
         \A l \in ApprovedOf(e), z \in Y : Counted(l, y) /\ Counted(l, z) => z = y
  PROVE  Cardinality(Units(DaysOf, ChargedIn(e, Y)))
           = UsedDays(e, y) + Cardinality(Units(DaysOf, ChargedIn(e, Y \ {y})))
<1> DEFINE A == ChargedIn(e, Y \ {y})
           B == Charged(e, y)
<1>1. A \in SUBSET ApprovedOf(e) /\ B \in SUBSET ApprovedOf(e)
  BY DEF ChargedIn, Charged, ApprovedOf
<1>2. A \cap B = {}
  BY DEF ChargedIn, Charged, ApprovedOf
<1>3. ChargedIn(e, Y) = A \cup B
  BY DEF ChargedIn, Charged, ApprovedOf
<1> HIDE DEF A, B
<1>4. \A l \in A \cup B : DaysOf[l] \in Nat
  BY <1>1, DaysNatural DEF DaysOf, ApprovedOf
<1>5. IsFiniteSet(A) /\ IsFiniteSet(B)
  BY <1>1, ApprovedFinite
<1>6. IsFiniteSet(Units(DaysOf, A)) /\ IsFiniteSet(Units(DaysOf, B))
  BY <1>4, <1>5, UnitsFinite
<1>7. Cardinality(Units(DaysOf, A \cup B))
        = Cardinality(Units(DaysOf, A)) + Cardinality(Units(DaysOf, B))
  BY <1>2, <1>6, UnitsJoin
<1>8. Cardinality(Units(DaysOf, A)) \in Nat /\ Cardinality(Units(DaysOf, B)) \in Nat
  BY <1>6, FS_CardinalityType
<1>9. UsedDays(e, y) = Cardinality(Units(DaysOf, B))
  BY <1>1, UsedCounted DEF UsedDays, B
<1>10. \A m, n \in Nat : m + n = n + m
  OBVIOUS
<1> QED
  BY <1>3, <1>7, <1>8, <1>9, <1>10 DEF A

LEMMA YearsUsed ==
  ASSUME TypeOK, Booked, NEW e \in Employee,
         \A l \in ApprovedOf(e), y \in Year, z \in Year : Counted(l, y) /\ Counted(l, z) => z = y
  PROVE  /\ \A y \in Year : UsedDays(e, y) \in Nat
         /\ Cardinality(Units([y \in Year |-> UsedDays(e, y)], Year))
              = Cardinality(Units(DaysOf, ChargedIn(e, Year)))
<1> DEFINE F == [y \in Year |-> UsedDays(e, y)]
           Good == {Y \in SUBSET Year :
                      Cardinality(Units(F, Y)) = Cardinality(Units(DaysOf, ChargedIn(e, Y)))}
<1>1. IsFiniteSet(Year)
  BY LeaveAssumption, FS_Interval DEF Year
<1>2. ASSUME NEW y \in Year PROVE UsedDays(e, y) \in Nat
  <2>1. Charged(e, y) \in SUBSET ApprovedOf(e)
    BY DEF Charged, ApprovedOf
  <2>2. UsedDays(e, y) = Cardinality(Units(DaysOf, Charged(e, y)))
    BY <2>1, UsedCounted DEF UsedDays
  <2>3. IsFiniteSet(Charged(e, y))
    BY <2>1, ApprovedFinite
  <2>4. \A l \in Charged(e, y) : DaysOf[l] \in Nat
    BY DaysNatural DEF DaysOf, Charged
  <2>5. IsFiniteSet(Units(DaysOf, Charged(e, y)))
    BY <2>3, <2>4, UnitsFinite
  <2> QED
    BY <2>2, <2>5, FS_CardinalityType
<1>3. \A y \in Year : F[y] = UsedDays(e, y) /\ F[y] \in Nat
  BY <1>2
<1> HIDE DEF F
<1>4. ASSUME NEW Y \in SUBSET Year, \A y \in Y : Y \ {y} \in Good
      PROVE  Y \in Good
  <2>1. CASE Y = {}
    <3>1. ChargedIn(e, Y) = {}
      BY <2>1 DEF ChargedIn
    <3>2. Cardinality(Units(F, Y)) = 0 /\ Cardinality(Units(DaysOf, ChargedIn(e, Y))) = 0
      BY <2>1, <3>1, NoUnits
    <3> QED
      BY <3>2
  <2>2. CASE Y # {}
    <3>1. PICK y \in Y : TRUE
      BY <2>2
    <3>2. Cardinality(Units(F, Y \ {y})) = Cardinality(Units(DaysOf, ChargedIn(e, Y \ {y})))
      BY <1>4, <3>1
    <3>3. IsFiniteSet(Y) /\ \A z \in Y : F[z] \in Nat
      BY <1>1, <1>3, FS_Subset
    <3>4. Cardinality(Units(F, Y)) = F[y] + Cardinality(Units(F, Y \ {y}))
      BY <3>1, <3>3, UnitsWithout
    <3>5. Cardinality(Units(DaysOf, ChargedIn(e, Y)))
            = UsedDays(e, y) + Cardinality(Units(DaysOf, ChargedIn(e, Y \ {y})))
      BY <3>1, YearByYear
    <3> QED
      BY <1>3, <3>1, <3>2, <3>4, <3>5
  <2> QED
    BY <2>1, <2>2
<1> HIDE DEF Good
<1>5. Year \in Good
  BY <1>1, <1>4, SetInduction
<1> QED
  BY <1>2, <1>5 DEF Good, F

(* The days that the balances of all years have charged are the days of the *)
(* employee's approved requests, each once (leave.sql 24-31), for any number *)
(* of requests and years of any length.                                     *)
THEOREM DaysCharged == Spec => []EachDayChargedOnce
<1>1. IInv /\ Booked => EachDayChargedOnce
  <2> SUFFICES ASSUME TypeOK, Booked, NEW e \in Employee
               PROVE  MapThenSumSet(LAMBDA y : UsedDays(e, y), Year)
                        = MapThenSumSet(Days, ApprovedOf(e))
    BY DEF IInv, EachDayChargedOnce, ApprovedOf
  <2>1. \A l \in ApprovedOf(e), y \in Year, z \in Year : Counted(l, y) /\ Counted(l, z) => z = y
    BY ApprovedCounted DEF ApprovedOf
  <2>2. ChargedIn(e, Year) = ApprovedOf(e)
    BY ApprovedCounted DEF ApprovedOf, ChargedIn
  <2>3. MapThenSumSet(LAMBDA y : UsedDays(e, y), Year)
          = Cardinality(Units([y \in Year |-> UsedDays(e, y)], Year))
    BY <2>1, YearsUsed, YearsAdded
  <2>4. MapThenSumSet(Days, ApprovedOf(e)) = Cardinality(Units(DaysOf, ApprovedOf(e)))
    BY UsedCounted
  <2> QED
    BY <2>1, <2>2, <2>3, <2>4, YearsUsed
<1> QED
  BY Invariance, BooksInvariance, <1>1, PTL
=============================================================================
