----------------------------- MODULE BillLedger -----------------------------
(***************************************************************************)
(* What a bill promises its readers, with nothing of how it is kept: it is *)
(* opened once, line items are charged and voided only while it is open,   *)
(* and closing it bills exactly the line items that are active then.       *)
(* Nothing changes afterwards.                                             *)
(***************************************************************************)
EXTENDS Integers

CONSTANTS LineItemID,   \* identities a line item may have
          SumOf(_)      \* the sum of the amounts of a set of line items

VARIABLES status,       \* "absent", "OPEN" or "CLOSED"
          active,       \* line items charged and not voided
          voided,       \* line items charged and then voided
          billed        \* the total on the bill, 0 until it is closed

vars == <<status, active, voided, billed>>

Init ==
  /\ status = "absent"
  /\ active = {}
  /\ voided = {}
  /\ billed = 0

Open ==
  /\ status = "absent"
  /\ status' = "OPEN"
  /\ UNCHANGED <<active, voided, billed>>

Charge(i) ==
  /\ status = "OPEN"
  /\ i \notin active \cup voided
  /\ active' = active \cup {i}
  /\ UNCHANGED <<status, voided, billed>>

Void(i) ==
  /\ status = "OPEN"
  /\ i \in active
  /\ active' = active \ {i}
  /\ voided' = voided \cup {i}
  /\ UNCHANGED <<status, billed>>

Close ==
  /\ status = "OPEN"
  /\ status' = "CLOSED"
  /\ billed' = SumOf(active)
  /\ UNCHANGED <<active, voided>>

Next ==
  \/ Open
  \/ \E i \in LineItemID : Charge(i) \/ Void(i)
  \/ Close

Spec == Init /\ [][Next]_vars

\* An open bill is not left open for ever.
FairSpec == Spec /\ WF_vars(Close)
=============================================================================
