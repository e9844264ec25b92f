-------------------------- MODULE AttendanceLedger --------------------------
(***************************************************************************)
(* What the attendance service promises its callers: one ledger entry per  *)
(* client_id, and calls that each take effect, or are refused, in a single *)
(* step between being made and being answered.  Employees, shifts, foreign *)
(* keys and SQL do not appear here.                                        *)
(***************************************************************************)
CONSTANTS Employee, NoEmployee, ClientId, NoClient, Request

VARIABLES ledger, calls

ledgerVars == <<ledger, calls>>

Absent == [phase |-> "absent", employee |-> NoEmployee]

Init ==
  /\ ledger = [c \in ClientId |-> Absent]
  /\ calls = [r \in Request |-> [op |-> "none", client |-> NoClient,
                                 employee |-> NoEmployee, code |-> 0]]

Pending(r) == calls[r].op # "none" /\ calls[r].code = 0

(* A call arrives; it is refused at once when it names no client_id, or its *)
(* caller is nobody's employee or cannot be looked up.                      *)
Arriving ==
  {call \in [op       : {"checkIn", "checkOut", "breakOn", "breakOff"},
             client   : ClientId \cup {NoClient},
             employee : Employee \cup {NoEmployee},
             code     : {0, 400, 500}] :
     call.code = 0 => call.client # NoClient /\ call.employee # NoEmployee}

Call(r) ==
  /\ calls[r].op = "none"
  /\ calls'[r] \in Arriving
  /\ calls' = [calls EXCEPT ![r] = calls'[r]]
  /\ UNCHANGED ledger

Return(r, code) == calls' = [calls EXCEPT ![r].code = code]

Enter(r, entry) == ledger' = [ledger EXCEPT ![calls[r].client] = entry]

Entry(r) == ledger[calls[r].client]
Mine(r) == Entry(r).phase # "absent" /\ Entry(r).employee = calls[r].employee

(* A new entry belongs to the caller and never changes hands. *)
Open(r) ==
  /\ Pending(r) /\ calls[r].op = "checkIn"
  /\ Entry(r).phase = "absent"
  /\ Enter(r, [phase |-> "working", employee |-> calls[r].employee])
  /\ \E code \in {201, 500} : Return(r, code)

(* Closing is final: a closed entry may be closed again, and nothing else. *)
Close(r) ==
  /\ Pending(r) /\ calls[r].op = "checkOut"
  /\ Mine(r)
  /\ Enter(r, [Entry(r) EXCEPT !.phase = "left"])
  /\ \E code \in {200, 500} : Return(r, code)

Toggle(r) ==
  /\ Pending(r) /\ calls[r].op \in {"breakOn", "breakOff"}
  /\ Mine(r) /\ Entry(r).phase \in {"working", "resting"}
  /\ Enter(r, [Entry(r) EXCEPT !.phase =
                 IF calls[r].op = "breakOn" THEN "resting" ELSE "working"])
  /\ \E code \in {200, 500} : Return(r, code)

(* A replayed check-in is answered with the caller's own entry. *)
Replay(r) ==
  /\ Pending(r) /\ calls[r].op = "checkIn"
  /\ Mine(r)
  /\ Return(r, 200)
  /\ UNCHANGED ledger

(* A conflict says that the entry exists; "not found" is never the answer *)
(* to a check-in, nor to a check-out of the caller's own entry, and a      *)
(* break is turned down only once the caller has left.                     *)
Refuse(r, code) ==
  /\ Pending(r)
  /\ code = 409 => calls[r].op = "checkIn" /\ Entry(r).phase # "absent"
  /\ code = 404 => /\ calls[r].op # "checkIn"
                   /\ Mine(r) => Entry(r).phase = "left" /\ calls[r].op # "checkOut"
  /\ code = 400 => \/ calls[r].op = "checkIn"
                   \/ calls[r].op # "checkOut" /\ Mine(r) /\ Entry(r).phase = "left"
  /\ Return(r, code)
  /\ UNCHANGED ledger

Next == \E r \in Request :
  \/ Call(r) \/ Open(r) \/ Close(r) \/ Toggle(r) \/ Replay(r)
  \/ \E code \in {400, 404, 409, 500} : Refuse(r, code)

Spec == Init /\ [][Next]_ledgerVars
=============================================================================
