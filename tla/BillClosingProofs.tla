--------------------------- MODULE BillClosingProofs ---------------------------
(***************************************************************************)
(* What a bill has when it is closed: every item that was accepted in      *)
(* time, a fee for every interval that elapsed in time, and its            *)
(* post-processing asked for. The first two need the order of the          *)
(* selector, and a run that is not continued as new, since that drops what *)
(* is in the channels.                                                     *)
(***************************************************************************)
EXTENDS BillRecordsProofs, FiniteSetTheorems

\* The run's last event, if it continues as new, is still to come.
SameRun == state.EventCount < ContinueAsNewEventThreshold

\* The run is on its way to a closed bill, or there.
Leaving ==
  \/ pc \in {"CloseBillFromState", "GetBillDetail", "StartPostProcess", "Completed"}
  \/ late.close # {}
  \/ bill.status = "CLOSED"

\* ... or will be, since Select was woken by what closes the bill.
WokenToClose == woken \in {"close", "timer"}
Decided      == Leaving \/ WokenToClose

\* The loop is left when nothing is in the add channel and no fee is due, or
\* by what had woken it.
LEMMA LeftInOrder ==
  ASSUME OrderedSelect, Turn("close") \/ Turn("timer"), ~WokenToClose
  PROVE  addItemSignalChan = <<>> /\ recurring # "due"
<1>1. /\ {"add", "recurring"} \subseteq DOMAIN SelectorOrder
      /\ SelectorOrder["add"] < SelectorOrder["close"]
      /\ SelectorOrder["add"] < SelectorOrder["timer"]
      /\ SelectorOrder["recurring"] < SelectorOrder["close"]
      /\ SelectorOrder["recurring"] < SelectorOrder["timer"]
  BY DEF SelectorOrder
<1>2. ~Ready["add"] /\ ~Ready["recurring"]
  BY <1>1 DEF Turn, WokenToClose
<1> QED BY <1>2 DEF Ready

\* A case of the selector that is run leaves nothing to wake it again; an activity
\* never wakes it.
LEMMA RunWakesNothing ==
  /\ ReceiveStep => woken' = "none"
  /\ ActivityStep \/ StartPostProcess => woken' = "none" \/ woken' = woken
<1>1. ReceiveStep => woken' = "none"
  BY DEF ReceiveStep, ReceiveAddLineItem, ReceiveRecurring, ReceiveUpdateLineItem,
         ReceiveCloseBill, TimerFired, Execute, LoopAgain
<1>2. ActivityStep \/ StartPostProcess => woken' = "none" \/ woken' = woken
  BY DEF ActivityStep, CreateBillDone, AddLineItemDone, RecurringItemDone,
         UpdateLineItemDone, CloseBillFromStateDone, GetBillDetailDone, Retry, GiveUp,
         StartPostProcess, Execute, LoopAgain
<1> QED BY <1>1, <1>2

\* Only a close request or the end of the period wakes Select to close the bill, and
\* only when nothing waits in the add channel and no fee is due.
LEMMA RequestsWake ==
  ASSUME ApiStep \/ PeriodEnds \/ RecurringTimerFires \/ LateCommit \/ Finished
           \/ UNCHANGED vars,
         WokenToClose', ~WokenToClose
  PROVE  /\ PeriodEnds \/ \E c \in Closer : ApiCloseBill(c)
         /\ pc = "Select" /\ addItemSignalChan = <<>> /\ recurring # "due"
<1>1. ~(woken' = woken) /\ ~(woken' = "none") /\ woken' \in {"close", "timer"}
  BY DEF WokenToClose
<1>2. ASSUME NEW k \in {"add", "recurring", "update"} PROVE ~Arrives(k)
  BY <1>1, ArrivesKeeps
<1>3. ASSUME NEW k \in {"close", "timer"}, Arrives(k)
      PROVE  pc = "Select" /\ addItemSignalChan = <<>> /\ recurring # "due"
  BY <1>1, <1>3, ArrivesKeeps
<1>4. PeriodEnds \/ \E c \in Closer : ApiCloseBill(c)
  BY <1>1, <1>2 DEF ApiStep, ApiAddLineItem, ApiVoidCheck, ApiVoidSignal,
                    ApiCloseBillReturn, RecurringTimerFires, LateCommit, Finished, vars
<1>5. Arrives("close") \/ Arrives("timer")
  BY <1>4 DEF PeriodEnds, ApiCloseBill
<1> QED BY <1>3, <1>4, <1>5

\* A run that is not continued as new keeps its channels and its timer.
LEMMA LoopAgainKeeps ==
  ASSUME NEW add, NEW update, NEW timer, LoopAgain(add, update, timer), SameRun'
  PROVE  /\ addItemSignalChan' = add /\ recurring' = timer /\ closeChan' = closeChan
         /\ pc' = "Select"
BY DEF LoopAgain, SameRun

\* A bill, once closed, is as it was closed, and the loop is never left otherwise.
LEMMA LeavingOnce ==
  ASSUME TypeInv, BilledInv, [Next]_vars, Leaving'
  PROVE  Leaving \/ ReceiveCloseBill \/ TimerFired
<1>0. bill \in BillRow /\ late \in LateStatements
  BY DEF TypeInv, TypeOK
<1>1. CASE ApiStep \/ PeriodEnds \/ RecurringTimerFires \/ Finished \/ UNCHANGED vars
  <2>1. UNCHANGED <<db, run>>
    BY <1>1
       DEF ApiStep, ApiAddLineItem, ApiVoidCheck, ApiVoidSignal, ApiCloseBill,
           ApiCloseBillReturn, PeriodEnds, RecurringTimerFires, Finished, vars
  <2> QED BY <2>1 DEF db, run, Leaving
<1>2. CASE ReceiveAddLineItem \/ ReceiveRecurring \/ ReceiveUpdateLineItem
  <2>1. UNCHANGED db /\ pc' \in LoopActivities \cup {"Select"}
    BY <1>2 DEF ReceiveAddLineItem, ReceiveRecurring, ReceiveUpdateLineItem, Execute,
                LoopAgain, LoopActivities
  <2> QED BY <2>1 DEF db, Leaving, LoopActivities
<1>3. CASE AddLineItemDone \/ RecurringItemDone \/ UpdateLineItemDone
  <2>1. UNCHANGED <<bill, late>> /\ pc' = "Select"
    BY <1>3 DEF AddLineItemDone, RecurringItemDone, UpdateLineItemDone, LoopAgain
  <2> QED BY <2>1 DEF Leaving
<1>4. CASE CreateBillDone
  <2>1. UNCHANGED late /\ pc' = "Select" /\ bill' = InsertBill
    BY <1>4 DEF CreateBillDone
  <2> QED BY <1>0, <2>1 DEF Leaving, InsertBill, BillRow
<1>5. CASE CloseBillFromStateDone \/ GetBillDetailDone \/ StartPostProcess
  BY <1>5 DEF CloseBillFromStateDone, GetBillDetailDone, StartPostProcess, Leaving
<1>6. CASE Retry \/ GiveUp
  <2>1. UNCHANGED bill /\ late' = Abandoned /\ (pc' = pc \/ pc' \in {"Select", "Failed"})
    BY <1>6 DEF Retry, GiveUp, LoopAgain
  <2>2. pc # "CloseBillFromState" => late'.close = late.close
    BY <1>0, <2>1 DEF Abandoned, LateStatements
  <2> QED BY <2>1, <2>2 DEF Leaving
<1>7. CASE LateCommit
  <2>1. UNCHANGED pc
    BY <1>7 DEF LateCommit, run
  <2>2. late.close # {} \/ (late'.close = late.close /\ (bill' = bill \/ bill' = InsertBill))
    BY <1>0, <1>7 DEF LateCommit, LateStatements
  <2> QED BY <1>0, <2>1, <2>2 DEF Leaving, InsertBill, BillRow
<1> QED BY <1>1, <1>2, <1>3, <1>4, <1>5, <1>6, <1>7
        DEF Next, RunStep, ReceiveStep, ActivityStep
-----------------------------------------------------------------------------
(***************************************************************************)
(* Post-processing. A run that completes has closed its bill and read what *)
(* is in the row for good; one that failed has not tried to close it.      *)
(***************************************************************************)
InvoicedInv ==
  /\ pc \in {"GetBillDetail", "StartPostProcess", "Completed"} => bill.status = "CLOSED"
  /\ pc = "Completed" /\ bill.total > 0 => child # "none"
  /\ pc = "Failed" => ~Leaving

LEMMA InvoicedNext ==
  ASSUME {"CloseBillFromState", "GetBillDetail"} \cap GivesUp = {},
         TypeInv, BilledInv, OpenInv, InvoicedInv, BillAdvances, [Next]_vars
  PROVE  InvoicedInv'
<1>0. bill \in BillRow
  BY DEF TypeInv, TypeOK
<1>1. bill.status = "CLOSED" => bill' = bill
  BY DEF BillAdvances
<1>2. CASE UNCHANGED <<pc, child>>
  <2>1. pc = "Failed" => ~Leaving'
    <3>1. pc = "Failed" => ~ReceiveCloseBill /\ ~TimerFired
      BY TurnReady DEF ReceiveCloseBill, TimerFired
    <3> QED BY <3>1, LeavingOnce DEF InvoicedInv
  <2> QED BY <1>1, <1>2, <2>1 DEF InvoicedInv
<1>3. CASE ApiStep \/ PeriodEnds \/ RecurringTimerFires \/ Finished \/ UNCHANGED vars
             \/ LateCommit \/ Retry
  <2>1. UNCHANGED <<pc, child>>
    BY <1>3
       DEF ApiStep, ApiAddLineItem, ApiVoidCheck, ApiVoidSignal, ApiCloseBill,
           ApiCloseBillReturn, PeriodEnds, RecurringTimerFires, Finished, vars,
           LateCommit, Retry, run
  <2> QED BY <1>2, <2>1
<1>4. CASE pc' \in LoopActivities \cup {"Select", "CloseBillFromState"}
  BY <1>4 DEF InvoicedInv, LoopActivities
<1>5. CASE ReceiveStep \/ CreateBillDone \/ AddLineItemDone \/ RecurringItemDone
             \/ UpdateLineItemDone
  <2>1. pc' \in LoopActivities \cup {"Select", "CloseBillFromState"}
    BY <1>5
       DEF ReceiveStep, ReceiveAddLineItem, ReceiveRecurring, ReceiveUpdateLineItem,
           ReceiveCloseBill, TimerFired, Execute, LoopAgain, LoopActivities,
           CreateBillDone, AddLineItemDone, RecurringItemDone, UpdateLineItemDone
  <2> QED BY <1>4, <2>1
<1>6. CASE CloseBillFromStateDone
  <2>1. pc = "CloseBillFromState" /\ bill' = UpdateBillClosed(state.Total)
        /\ pc' = "GetBillDetail"
    BY <1>6 DEF CloseBillFromStateDone, Execute
  <2> QED BY <2>1 DEF InvoicedInv, OpenInv, UpdateBillClosed
<1>7. CASE GetBillDetailDone
  <2>1. /\ pc = "GetBillDetail" /\ bill' = bill
        /\ pc' = IF bill.total > 0 THEN "StartPostProcess" ELSE "Completed"
    BY <1>7 DEF GetBillDetailDone, db
  <2> QED BY <2>1 DEF InvoicedInv
<1>8. CASE StartPostProcess
  <2>1. pc = "StartPostProcess" /\ bill' = bill /\ child' # "none" /\ pc' = "Completed"
    BY <1>8 DEF StartPostProcess, db
  <2> QED BY <2>1 DEF InvoicedInv
<1>9. CASE GiveUp
  <2>1. CASE pc \in LoopActivities
    BY <1>4, <1>9, <2>1 DEF GiveUp, LoopAgain
  <2>2. CASE pc \notin LoopActivities
    <3>1. pc = "CreateBill" /\ pc' = "Failed"
      BY <1>9, <2>2, WorkflowAssumption DEF GiveUp, Activities
    <3>2. ~Leaving
      BY <3>1 DEF Leaving, BilledInv, Closing
    <3>3. ~ReceiveCloseBill /\ ~TimerFired
      BY <3>1, TurnReady DEF ReceiveCloseBill, TimerFired
    <3> QED BY <3>1, <3>2, <3>3, LeavingOnce DEF InvoicedInv
  <2> QED BY <2>1, <2>2
<1> QED BY <1>3, <1>5, <1>6, <1>7, <1>8, <1>9 DEF Next, RunStep, ActivityStep

\* A run that closed a bill with something to pay has asked for its post-processing when
\* it is over, under all faults but closing or reading the bill giving up
\* (the child is started after GetBillDetail, whose total a late update cannot change).
THEOREM ClosedIsInvoiced ==
  {"CloseBillFromState", "GetBillDetail"} \cap GivesUp = {} =>
    (Spec => []ClosedBillIsInvoiced)
<1> SUFFICES ASSUME {"CloseBillFromState", "GetBillDetail"} \cap GivesUp = {}
             PROVE  Spec => []ClosedBillIsInvoiced
  OBVIOUS
<1>1. Init => OpenInv /\ InvoicedInv
  BY DEF Init, OpenInv, InvoicedInv, InLoop, LoopActivities
<1>2. InvoicedInv => ClosedBillIsInvoiced
  BY DEF InvoicedInv, ClosedBillIsInvoiced, RunOpen, Leaving
<1> QED
  BY <1>1, <1>2, TypeInvInit, TypeInvNext, BilledInit, BilledNext, OpenNext,
     InvoicedNext, PTL DEF Spec
-----------------------------------------------------------------------------
(***************************************************************************)
(* What was accepted in time. An item that was accepted is in the table,   *)
(* waits in the channel or is being inserted; the bill's closing is        *)
(* decided when none does the last two, by a close request or the end of   *)
(* the period, since when nothing is owed that was not before.             *)
(***************************************************************************)
CloseBegun == periodOver \/ \E c \in Closer : closer[c] # "idle"

BegunInv ==
  /\ closeChan > 0 => CloseBegun
  /\ Decided => CloseBegun

LEMMA BegunInit == Init => BegunInv
BY DEF Init, BegunInv, Decided, Leaving, WokenToClose

LEMMA BegunNext == TypeInv /\ BilledInv /\ BegunInv /\ [Next]_vars => BegunInv'
<1> SUFFICES ASSUME TypeInv, BilledInv, BegunInv, [Next]_vars PROVE BegunInv'
  OBVIOUS
<1>0. /\ closer \in [Closer -> {"idle", "waiting", "answered", "failed"}]
      /\ closeChan \in Nat
  BY DEF TypeInv, TypeOK
<1>1. CASE PeriodEnds \/ \E c \in Closer : ApiCloseBill(c)
  BY <1>0, <1>1 DEF PeriodEnds, ApiCloseBill, CloseBegun, BegunInv
<1>2. CASE RunStep
  <2>1. UNCHANGED <<periodOver, closer>>
    BY <1>2 DEF RunStep, ReceiveStep, ActivityStep, ReceiveAddLineItem, ReceiveRecurring,
                ReceiveUpdateLineItem, ReceiveCloseBill, TimerFired, CreateBillDone,
                AddLineItemDone, RecurringItemDone, UpdateLineItemDone,
                CloseBillFromStateDone, GetBillDetailDone, Retry, GiveUp,
                StartPostProcess, timers, clients
  <2>2. closeChan' \in {closeChan, closeChan - 1, 0}
    BY <1>2 DEF RunStep, ReceiveStep, ActivityStep, ReceiveAddLineItem, ReceiveRecurring,
                ReceiveUpdateLineItem, ReceiveCloseBill, TimerFired, CreateBillDone,
                AddLineItemDone, RecurringItemDone, UpdateLineItemDone,
                CloseBillFromStateDone, GetBillDetailDone, Retry, GiveUp,
                StartPostProcess, LoopAgain, Execute, chans
  <2>3. WokenToClose' => WokenToClose
    BY <1>2, RunWakesNothing DEF RunStep, WokenToClose
  <2>4. Leaving' => Leaving \/ closeChan > 0 \/ periodOver
    BY LeavingOnce, TurnReady DEF ReceiveCloseBill, TimerFired
  <2>5. CloseBegun' <=> CloseBegun
    BY <2>1 DEF CloseBegun
  <2> QED BY <1>0, <2>2, <2>3, <2>4, <2>5 DEF BegunInv, Decided, CloseBegun
<1>3. CASE /\ ApiStep \/ RecurringTimerFires \/ LateCommit \/ Finished \/ UNCHANGED vars
           /\ ~\E c \in Closer : ApiCloseBill(c)
           /\ ~PeriodEnds
  <2>1. UNCHANGED <<periodOver, closeChan, pc>>
    BY <1>3 DEF ApiStep, ApiAddLineItem, ApiVoidCheck, ApiVoidSignal, ApiCloseBillReturn,
                RecurringTimerFires, LateCommit, Finished, vars, run, chans, timers
  <2>2. closer' = closer \/ \E c \in Closer : closer' = [closer EXCEPT ![c] = "answered"]
          \/ closer' = [closer EXCEPT ![c] = "failed"]
    BY <1>3 DEF ApiStep, ApiAddLineItem, ApiVoidCheck, ApiVoidSignal, ApiCloseBillReturn,
                RecurringTimerFires, LateCommit, Finished, vars, clients
  <2>3. CloseBegun => CloseBegun'
    BY <1>0, <2>1, <2>2 DEF CloseBegun
  <2>4. WokenToClose' => WokenToClose
    BY <1>3, RequestsWake
  <2>5. Leaving' => Leaving
    BY <2>1, LeavingOnce, TurnReady DEF ReceiveCloseBill, TimerFired, Execute
  <2> QED BY <2>1, <2>3, <2>4, <2>5 DEF BegunInv, Decided
<1> QED BY <1>1, <1>2, <1>3 DEF Next

Waiting(i) == \E k \in 1..Len(addItemSignalChan) : addItemSignalChan[k] = i

OwedInv ==
  /\ \A i \in issued : i \in Recorded \/ Waiting(i) \/ (pc = "AddLineItem" /\ subject = i)
  /\ owed.items \subseteq issued
  /\ Decided => owed.items \subseteq Recorded

LEMMA RecordedStays ==
  ASSUME TypeInv, ItemsAdvance
  PROVE  Recorded \subseteq Recorded'
BY DEF Recorded, ItemsAdvance

LEMMA OwedInit == Init => OwedInv
BY DEF Init, OwedInv

\* Steps that take nothing from the channel or from the table.
LEMMA OwedFrame ==
  ASSUME TypeInv, OwedInv, ItemsAdvance, UNCHANGED <<issued, addItemSignalChan>>,
         pc = "AddLineItem" => UNCHANGED <<pc, subject>>,
         owed'.items \subseteq issued,
         Decided' => \/ Decided /\ owed' = owed
                     \/ pc = "Select" /\ addItemSignalChan = <<>>
  PROVE  OwedInv'
<1>1. Recorded \subseteq Recorded'
  BY RecordedStays
<1>2. ASSUME NEW i \in issued
      PROVE  i \in Recorded' \/ Waiting(i)' \/ (pc' = "AddLineItem" /\ subject' = i)
  BY <1>1 DEF OwedInv, Waiting
<1>3. pc = "Select" /\ addItemSignalChan = <<>> => issued \subseteq Recorded
  BY DEF OwedInv, Waiting
<1>4. Decided' => owed'.items \subseteq Recorded'
  BY <1>1, <1>3 DEF OwedInv
<1> QED BY <1>2, <1>4 DEF OwedInv

\* What is in a channel besides what its head was, or its last element is.
LEMMA ChannelContents ==
  /\ \A s \in Seq(LineItemID) : s # <<>> =>
       \A k \in 1..Len(s) :
         s[k] = Head(s) \/ \E j \in 1..Len(Tail(s)) : Tail(s)[j] = s[k]
  /\ \A s \in Seq(LineItemID), e \in LineItemID :
       /\ \E k \in 1..Len(Append(s, e)) : Append(s, e)[k] = e
       /\ \A k \in 1..Len(s) : \E j \in 1..Len(Append(s, e)) : Append(s, e)[j] = s[k]
<1>1. ASSUME NEW s \in Seq(LineItemID), s # <<>>, NEW k \in 1..Len(s)
      PROVE  s[k] = Head(s) \/ \E j \in 1..Len(Tail(s)) : Tail(s)[j] = s[k]
  <2>1. Len(s) \in Nat /\ Len(s) > 0 /\ Len(Tail(s)) = Len(s) - 1
    BY <1>1
  <2>2. CASE k = 1
    BY <1>1, <2>2
  <2>3. CASE k # 1
    <3>1. k - 1 \in 1..Len(Tail(s)) /\ Tail(s)[k - 1] = s[k]
      BY <1>1, <2>1, <2>3
    <3> QED BY <3>1
  <2> QED BY <2>2, <2>3
<1>2. ASSUME NEW s \in Seq(LineItemID), NEW e \in LineItemID
      PROVE  /\ \E k \in 1..Len(Append(s, e)) : Append(s, e)[k] = e
             /\ \A k \in 1..Len(s) : \E j \in 1..Len(Append(s, e)) : Append(s, e)[j] = s[k]
  <2>1. Len(s) \in Nat /\ Len(Append(s, e)) = Len(s) + 1
    OBVIOUS
  <2>2. Append(s, e)[Len(s) + 1] = e /\ Len(s) + 1 \in 1..Len(Append(s, e))
    BY <2>1
  <2>3. \A k \in 1..Len(s) : Append(s, e)[k] = s[k] /\ k \in 1..Len(Append(s, e))
    BY <2>1
  <2> QED BY <2>2, <2>3
<1> QED BY <1>1, <1>2

LEMMA OwedRequests ==
  ASSUME TypeInv, BilledInv, BegunInv, OwedInv, ItemsAdvance, Next,
         ApiStep \/ PeriodEnds \/ RecurringTimerFires \/ LateCommit \/ Finished
  PROVE  OwedInv'
<1>0. /\ addItemSignalChan \in Seq(LineItemID) /\ issued \in SUBSET LineItemID
      /\ UNCHANGED <<pc, subject>>
  BY DEF TypeInv, TypeOK, ApiStep, ApiAddLineItem, ApiVoidCheck, ApiVoidSignal,
         ApiCloseBill, ApiCloseBillReturn, PeriodEnds, RecurringTimerFires, LateCommit,
         Finished, vars, run
<1>1. Leaving' => Leaving
  BY <1>0, LeavingOnce, TurnReady DEF ReceiveCloseBill, TimerFired, Execute
<1>2. Decided' => Decided \/ (pc = "Select" /\ addItemSignalChan = <<>>)
  BY <1>1, RequestsWake DEF Decided
<1>3. ASSUME NEW i \in LineItemID, ApiAddLineItem(i) PROVE OwedInv'
  <2>1. /\ issued' = issued \cup {i} /\ addItemSignalChan' = Append(addItemSignalChan, i)
        /\ UNCHANGED owed /\ Arrives("add")
    BY <1>3 DEF ApiAddLineItem, history
  <2>2. ASSUME NEW j, Waiting(j) \/ j = i PROVE Waiting(j)'
    <3>1. CASE j = i
      <4>1. \E k \in 1..Len(Append(addItemSignalChan, i)) :
              Append(addItemSignalChan, i)[k] = i
        BY <1>0, ChannelContents
      <4> QED BY <2>1, <3>1, <4>1 DEF Waiting
    <3>2. CASE Waiting(j)
      <4>1. PICK k \in 1..Len(addItemSignalChan) : addItemSignalChan[k] = j
        BY <3>2 DEF Waiting
      <4>2. \E l \in 1..Len(Append(addItemSignalChan, i)) :
              Append(addItemSignalChan, i)[l] = addItemSignalChan[k]
        BY <1>0, ChannelContents
      <4> QED BY <2>1, <4>1, <4>2 DEF Waiting
    <3> QED BY <2>2, <3>1, <3>2
  <2>3. Recorded \subseteq Recorded'
    BY RecordedStays
  <2>4. Decided' => Decided
    <3>1. WokenToClose' => WokenToClose
      BY <2>1, ArrivesKeeps DEF WokenToClose
    <3> QED BY <1>1, <3>1 DEF Decided
  <2>5. \A j \in issued' : j \in Recorded' \/ Waiting(j)'
                              \/ (pc' = "AddLineItem" /\ subject' = j)
    BY <1>0, <2>1, <2>2, <2>3 DEF OwedInv
  <2> QED BY <2>1, <2>3, <2>4, <2>5 DEF OwedInv
<1>4. CASE PeriodEnds \/ \E c \in Closer : ApiCloseBill(c)
  <2>1. owed' = Owed /\ UNCHANGED <<issued, addItemSignalChan>>
    BY <1>4 DEF ApiCloseBill, PeriodEnds, clients, chans
  <2>2. CloseBegun => owed' = owed
    BY <2>1 DEF Owed, CloseBegun
  <2>3. owed'.items \subseteq issued
    BY <2>1 DEF Owed, OwedInv
  <2> QED BY <1>0, <1>2, <2>1, <2>2, <2>3, OwedFrame DEF BegunInv
<1>5. CASE \/ \E v \in Voider : ApiVoidSignal(v) \/ \E i \in LineItemID : ApiVoidCheck(v, i)
           \/ \E c \in Closer : ApiCloseBillReturn(c)
           \/ RecurringTimerFires \/ LateCommit \/ Finished
  <2>1. UNCHANGED <<issued, addItemSignalChan, owed>>
    BY <1>5 DEF ApiVoidSignal, ApiVoidCheck, ApiCloseBillReturn, RecurringTimerFires,
                LateCommit, Finished, vars, chans, clients, history
  <2> QED BY <1>0, <1>2, <2>1, OwedFrame DEF OwedInv
<1> QED BY <1>3, <1>4, <1>5 DEF ApiStep

LEMMA OwedReceive ==
  ASSUME Policy = "USAGE_BASED", OrderedSelect,
         TypeInv, BilledInv, OwedInv, ItemsAdvance, Next, ReceiveStep
  PROVE  OwedInv'
<1>0. /\ addItemSignalChan \in Seq(LineItemID)
      /\ issued \in SUBSET LineItemID /\ pc = "Select"
      /\ UNCHANGED <<issued, owed>>
      /\ Recorded \subseteq Recorded'
  <2>1. ~ReceiveRecurring
    BY WorkflowAssumption DEF ReceiveRecurring
  <2>2. pc = "Select" /\ UNCHANGED <<issued, owed>>
    BY <2>1, TurnReady
       DEF ReceiveStep, ReceiveAddLineItem, ReceiveUpdateLineItem, ReceiveCloseBill,
           TimerFired, clients, history
  <2> QED BY <2>2, RecordedStays DEF TypeInv, TypeOK
<1>1. Decided' <=> Leaving'
  BY RunWakesNothing DEF Decided, WokenToClose
<1>2. CASE ReceiveAddLineItem
  <2>1. /\ addItemSignalChan # <<>> /\ pc' = "AddLineItem"
        /\ subject' = Head(addItemSignalChan)
        /\ addItemSignalChan' = Tail(addItemSignalChan)
    BY <1>2, TurnReady DEF ReceiveAddLineItem, Execute
  <2>2. ASSUME NEW i, Waiting(i) PROVE Waiting(i)' \/ subject' = i
    <3>1. PICK k \in 1..Len(addItemSignalChan) : addItemSignalChan[k] = i
      BY <2>2 DEF Waiting
    <3>2. \/ i = Head(addItemSignalChan)
          \/ \E j \in 1..Len(Tail(addItemSignalChan)) : Tail(addItemSignalChan)[j] = i
      BY <1>0, <2>1, <3>1, ChannelContents
    <3> QED BY <2>1, <3>2 DEF Waiting
  <2>3. Leaving' => Leaving
    BY <2>1, LeavingOnce DEF ReceiveCloseBill, TimerFired, Execute
  <2>4. \A i \in issued' : i \in Recorded' \/ Waiting(i)'
                             \/ (pc' = "AddLineItem" /\ subject' = i)
    BY <1>0, <2>1, <2>2 DEF OwedInv
  <2> QED BY <1>0, <1>1, <2>3, <2>4 DEF OwedInv, Decided
<1>3. CASE ReceiveUpdateLineItem
  <2>1. pc' = "UpdateLineItem" /\ UNCHANGED addItemSignalChan
    BY <1>3 DEF ReceiveUpdateLineItem, Execute
  <2>2. Leaving' => Leaving
    BY <2>1, LeavingOnce DEF ReceiveCloseBill, TimerFired, Execute
  <2> QED BY <1>0, <1>1, <2>1, <2>2, OwedFrame DEF Decided, OwedInv
<1>4. CASE ReceiveCloseBill \/ TimerFired
  <2>1. UNCHANGED addItemSignalChan
    BY <1>4 DEF ReceiveCloseBill, TimerFired, chans
  <2>2. WokenToClose \/ addItemSignalChan = <<>>
    BY <1>4, LeftInOrder DEF ReceiveCloseBill, TimerFired
  <2> QED BY <1>0, <2>1, <2>2, OwedFrame DEF Decided, OwedInv
<1> QED BY <1>0, <1>2, <1>3, <1>4, WorkflowAssumption DEF ReceiveStep, ReceiveRecurring

LEMMA OwedActivity ==
  ASSUME "AddLineItem" \notin GivesUp, SameRun',
         TypeInv, BilledInv, OwedInv, ItemsAdvance, Next, ActivityStep \/ StartPostProcess
  PROVE  OwedInv'
<1>0. UNCHANGED <<issued, owed>>
  BY DEF ActivityStep, CreateBillDone, AddLineItemDone, RecurringItemDone,
         UpdateLineItemDone, CloseBillFromStateDone, GetBillDetailDone, Retry, GiveUp,
         StartPostProcess, clients, history
<1>1. UNCHANGED addItemSignalChan
  <2>1. UNCHANGED chans
          \/ \E timer : LoopAgain(addItemSignalChan, updateItemSignalChan, timer)
    BY DEF ActivityStep, CreateBillDone, AddLineItemDone, RecurringItemDone,
           UpdateLineItemDone, CloseBillFromStateDone, GetBillDetailDone, Retry, GiveUp,
           StartPostProcess
  <2> QED BY <2>1, LoopAgainKeeps DEF chans
<1>2. Decided' => Decided
  <2>1. pc # "Select"
    BY WorkflowAssumption
       DEF ActivityStep, CreateBillDone, AddLineItemDone, RecurringItemDone,
           UpdateLineItemDone, CloseBillFromStateDone, GetBillDetailDone, Retry, GiveUp,
           StartPostProcess, Activities, LoopActivities
  <2>2. Leaving' => Leaving
    BY <2>1, LeavingOnce, TurnReady DEF ReceiveCloseBill, TimerFired
  <2> QED BY <2>2, RunWakesNothing DEF Decided, WokenToClose
<1>3. CASE AddLineItemDone
  <2>1. subject \in LineItemID /\ item \in ItemRows /\ item' = InsertLineItem(subject)
    BY <1>3 DEF AddLineItemDone, TypeInv, TypeOK, LoopActivities
  <2>2. subject \in Recorded' /\ Recorded \subseteq Recorded'
    BY <2>1, RecordedStays DEF InsertLineItem, ItemRows, Recorded
  <2>3. \A i \in issued' : i \in Recorded' \/ Waiting(i)'
    BY <1>0, <1>1, <2>2 DEF OwedInv, Waiting
  <2> QED BY <1>0, <1>1, <1>2, <2>2, <2>3 DEF OwedInv
<1>4. CASE ~AddLineItemDone
  <2>1. pc = "AddLineItem" => UNCHANGED <<pc, subject>>
    BY <1>4 DEF ActivityStep, CreateBillDone, RecurringItemDone,
                UpdateLineItemDone, CloseBillFromStateDone, GetBillDetailDone, Retry, GiveUp,
                StartPostProcess
  <2> QED BY <1>0, <1>1, <1>2, <2>1, OwedFrame DEF OwedInv
<1> QED BY <1>3, <1>4

LEMMA OwedNext ==
  ASSUME Policy = "USAGE_BASED", OrderedSelect, "AddLineItem" \notin GivesUp, SameRun',
         TypeInv, BilledInv, BegunInv, OwedInv, [Next]_vars
  PROVE  OwedInv'
<1>1. ItemsAdvance
  BY ItemsAdvanceNext
<1>2. CASE Next
  BY <1>1, <1>2, OwedRequests, OwedReceive, OwedActivity DEF Next, RunStep
<1>3. CASE UNCHANGED vars
  <2>1. UNCHANGED <<bill, item, late, pc, subject, woken, addItemSignalChan, issued, owed>>
    BY <1>3 DEF vars, db, run, chans, clients, history
  <2> QED BY <2>1 DEF OwedInv, Decided, Leaving, WokenToClose, Waiting, Recorded
<1> QED BY <1>2, <1>3

\* As long as its run is not continued as new, a usage-based bill is closed with every
\* item accepted before a close request was, and before the period ended: the selector
\* serves the add channel first. Inserts may be lost and repeated, but not given up.
THEOREM OwedItemsRecorded ==
  Policy = "USAGE_BASED" /\ OrderedSelect /\ "AddLineItem" \notin GivesUp =>
    (Spec /\ []SameRun => []OwedIsRecorded)
<1> SUFFICES ASSUME Policy = "USAGE_BASED", OrderedSelect, "AddLineItem" \notin GivesUp
             PROVE  Spec /\ []SameRun => []OwedIsRecorded
  OBVIOUS
<1>1. OwedInv => OwedIsRecorded
  BY DEF OwedInv, OwedIsRecorded, Decided, Leaving
<1>2. SameRun' /\ TypeInv /\ BilledInv /\ BegunInv /\ OwedInv /\ [Next]_vars => OwedInv'
  BY OwedNext
<1> QED
  BY <1>1, <1>2, TypeInvInit, TypeInvNext, BilledInit, BilledNext, BegunInit, BegunNext,
     OwedInit, PTL DEF Spec
-----------------------------------------------------------------------------
(***************************************************************************)
(* A fee for every interval. The intervals that elapsed are the fees in    *)
(* the table, one more when a fee is due. While a fee is being inserted    *)
(* its row may be there already, so it is counted with it. A fee that is   *)
(* due once the bill's closing is decided became due after closing began.  *)
(***************************************************************************)
Fees == Recorded \cap FeeID

FeesInv ==
  /\ \A k \in 1..Len(addItemSignalChan) : addItemSignalChan[k] \notin FeeID
  /\ pc = "AddLineItem" => subject \notin FeeID
  /\ pc = "RecurringItem" =>
       recurring = "due" /\ subject \in FeeID /\ fires = Cardinality(Fees \cup {subject})
  /\ pc # "RecurringItem" /\ recurring = "due" => fires = Cardinality(Fees) + 1
  /\ pc # "RecurringItem" /\ recurring # "due" => fires = Cardinality(Fees)
  /\ owed.fees <= fires
  /\ Decided => pc # "RecurringItem" /\ (recurring = "due" => owed.fees < fires)

LEMMA FeesFinite == IsFiniteSet(Fees)
<1>1. Fees \subseteq LineItemID
  BY DEF Fees, Recorded
<1> QED BY <1>1, ItemAssumption, FS_Subset

LEMMA FeesInit == Init => FeesInv
<1> SUFFICES ASSUME Init PROVE FeesInv
  OBVIOUS
<1>1. Fees = {}
  BY DEF Init, Fees, Recorded
<1>2. recurring # "due"
  BY DEF Init, NewBillingPolicy
<1> QED BY <1>1, <1>2, FS_EmptySet DEF Init, FeesInv

\* Steps that change no fee, no interval and not what the workflow is at.
LEMMA FeesFrame ==
  ASSUME FeesInv, Fees' = Fees, UNCHANGED <<fires, recurring>>,
         \A k \in 1..Len(addItemSignalChan') : addItemSignalChan'[k] \notin FeeID,
         UNCHANGED <<pc, subject>>
           \/ (pc # "RecurringItem" /\ pc' \notin {"AddLineItem", "RecurringItem"}),
         owed' = owed \/ owed'.fees <= fires,
         Decided' => (Decided /\ owed' = owed) \/ (pc = "Select" /\ recurring # "due")
  PROVE  FeesInv'
BY DEF FeesInv

\* What a channel holds after one more signal.
LEMMA AppendedItem ==
  ASSUME NEW s \in Seq(LineItemID), NEW e \in LineItemID,
         NEW k \in 1..Len(Append(s, e))
  PROVE  Append(s, e)[k] = e \/ (k \in 1..Len(s) /\ Append(s, e)[k] = s[k])
<1>1. Len(Append(s, e)) = Len(s) + 1 /\ Len(s) \in Nat
  OBVIOUS
<1>2. /\ \A j \in 1..Len(s) : Append(s, e)[j] = s[j]
      /\ Append(s, e)[Len(s) + 1] = e
  OBVIOUS
<1>3. k \in 1..Len(s) \/ k = Len(s) + 1
  BY <1>1
<1> QED BY <1>2, <1>3

LEMMA FeesRequests ==
  ASSUME TypeInv, OnceInv, BilledInv, BegunInv, AgreeInv, FeesInv, [Next]_vars,
         ApiStep \/ PeriodEnds \/ RecurringTimerFires \/ LateCommit \/ Finished
           \/ UNCHANGED vars
  PROVE  FeesInv'
<1>0. /\ addItemSignalChan \in Seq(LineItemID) /\ UNCHANGED <<pc, subject>>
      /\ fires \in Nat /\ owed.fees \in Nat
  BY DEF TypeInv, TypeOK, ApiStep, ApiAddLineItem, ApiVoidCheck, ApiVoidSignal,
         ApiCloseBill, ApiCloseBillReturn, PeriodEnds, RecurringTimerFires, LateCommit,
         Finished, vars, run, Debt
<1>1. Leaving' => Leaving
  BY <1>0, LeavingOnce, TurnReady DEF ReceiveCloseBill, TimerFired, Execute
<1>2. UNCHANGED item => Fees' = Fees
  BY DEF Fees, Recorded
<1>3. Decided' => Decided \/ (pc = "Select" /\ recurring # "due")
  BY <1>1, RequestsWake DEF Decided
<1>4. ASSUME NEW i \in LineItemID, ApiAddLineItem(i) PROVE FeesInv'
  <2>1. /\ i \notin FeeID /\ addItemSignalChan' = Append(addItemSignalChan, i)
        /\ UNCHANGED <<item, fires, owed, recurring>>
    BY <1>4 DEF ApiAddLineItem, db, timers, history
  <2>2. \A k \in 1..Len(addItemSignalChan') : addItemSignalChan'[k] \notin FeeID
    <3> SUFFICES ASSUME NEW k \in 1..Len(addItemSignalChan')
                 PROVE  addItemSignalChan'[k] \notin FeeID
      OBVIOUS
    <3>1. k \in 1..Len(Append(addItemSignalChan, i))
      BY <2>1
    <3>2. Append(addItemSignalChan, i)[k] = i
            \/ (/\ k \in 1..Len(addItemSignalChan)
                /\ Append(addItemSignalChan, i)[k] = addItemSignalChan[k])
      BY <1>0, <3>1, AppendedItem
    <3> QED BY <2>1, <3>2 DEF FeesInv
  <2> QED BY <1>0, <1>2, <1>3, <2>1, <2>2, FeesFrame
<1>5. CASE RecurringTimerFires
  <2>1. /\ recurring = "armed" /\ recurring' = "due" /\ fires' = fires + 1
        /\ UNCHANGED <<item, addItemSignalChan, bill, late, owed>>
    BY <1>5 DEF RecurringTimerFires, db, chans
  <2>2. pc # "RecurringItem" /\ fires = Cardinality(Fees)
    BY <2>1 DEF FeesInv
  <2> QED BY <1>0, <1>2, <2>1, <2>2 DEF FeesInv
<1>6. CASE LateCommit
  <2>1. /\ UNCHANGED <<fires, recurring, addItemSignalChan, charged, state, pc, subject, owed>>
        /\ Decided' => Decided
    BY <1>1, <1>6 DEF LateCommit, run, chans, timers, history, Decided, WokenToClose
  <2>2. ASSUME NEW i \in late.insert, item' = InsertLineItem(i),
               late' = [late EXCEPT !.insert = @ \ {i}]
        PROVE  FeesInv'
    <3>1. item' = item \/ (Inserting /\ i = subject /\ item[i] = "absent")
      BY <2>1, <2>2, AgreeLateInsert
    <3>2. CASE item' = item
      BY <1>2, <2>1, <3>2, FeesFrame DEF FeesInv
    <3>3. CASE Inserting /\ i = subject
      <4>1. Recorded' = Recorded \cup {subject}
        <5>1. i \in LineItemID /\ item \in ItemRows
          BY DEF TypeInv, TypeOK, LateStatements
        <5> QED BY <2>2, <3>3, <5>1 DEF Recorded, InsertLineItem, ItemRows
      <4>2. CASE pc = "RecurringItem"
        <5>1. Fees' \cup {subject'} = Fees \cup {subject}
          BY <2>1, <4>1 DEF Fees
        <5> QED BY <2>1, <4>2, <5>1 DEF FeesInv
      <4>3. CASE pc = "AddLineItem"
        <5>1. Fees' = Fees
          BY <4>1, <4>3 DEF Fees, FeesInv
        <5> QED BY <2>1, <4>3, <5>1, FeesFrame DEF FeesInv
      <4> QED BY <3>3, <4>2, <4>3 DEF Inserting
    <3> QED BY <3>1, <3>2, <3>3
  <2>3. UNCHANGED item \/ \E i \in late.insert : /\ item' = InsertLineItem(i)
                                                 /\ late' = [late EXCEPT !.insert = @ \ {i}]
    BY <1>6 DEF LateCommit, AgreeInv
  <2>4. CASE UNCHANGED item
    BY <1>2, <2>1, <2>4, FeesFrame DEF FeesInv
  <2> QED BY <2>2, <2>3, <2>4
<1>7. CASE PeriodEnds \/ \E c \in Closer : ApiCloseBill(c)
  <2>1. UNCHANGED <<item, fires, recurring, addItemSignalChan>> /\ owed' = Owed
    BY <1>7 DEF ApiCloseBill, PeriodEnds, db, chans, timers
  <2>2. (CloseBegun => owed' = owed) /\ owed'.fees <= fires
    BY <1>0, <2>1 DEF Owed, CloseBegun, FeesInv
  <2>3. Decided => owed' = owed
    BY <2>2 DEF BegunInv
  <2> QED BY <1>0, <1>2, <1>3, <2>1, <2>2, <2>3, FeesFrame DEF FeesInv
<1>8. CASE \/ \E v \in Voider : ApiVoidSignal(v) \/ \E i \in LineItemID : ApiVoidCheck(v, i)
           \/ \E c \in Closer : ApiCloseBillReturn(c)
           \/ Finished \/ UNCHANGED vars
  <2>1. UNCHANGED <<item, fires, recurring, addItemSignalChan, owed>>
    BY <1>8 DEF ApiVoidSignal, ApiVoidCheck, ApiCloseBillReturn, Finished, vars, db, chans,
                timers, history
  <2> QED BY <1>0, <1>2, <1>3, <2>1, FeesFrame DEF FeesInv
<1> QED BY <1>4, <1>5, <1>6, <1>7, <1>8 DEF ApiStep

LEMMA FeesReceive ==
  ASSUME OrderedSelect, SameRun', TypeInv, OnceInv, BilledInv, AgreeInv, FeesInv,
         [Next]_vars, ReceiveStep
  PROVE  FeesInv'
<1>0. /\ addItemSignalChan \in Seq(LineItemID) /\ item \in ItemRows
      /\ pc = "Select" /\ UNCHANGED <<item, fires, owed>> /\ Fees' = Fees
      /\ (Decided' <=> Leaving') /\ ~Leaving
  <2>1. pc = "Select" /\ UNCHANGED <<item, fires, owed>>
    BY TurnReady
       DEF ReceiveStep, ReceiveAddLineItem, ReceiveRecurring, ReceiveUpdateLineItem,
           ReceiveCloseBill, TimerFired, db, history
  <2>2. (Decided' <=> Leaving') /\ ~Leaving
    BY <2>1, RunWakesNothing DEF Decided, WokenToClose, Leaving, BilledInv, Closing
  <2> QED BY <2>1, <2>2 DEF TypeInv, TypeOK, Fees, Recorded
<1>1. CASE ReceiveAddLineItem
  <2>1. addItemSignalChan # <<>> /\ addItemSignalChan' = Tail(addItemSignalChan)
        /\ recurring' = recurring
        /\ \/ pc' = "AddLineItem" /\ subject' = Head(addItemSignalChan)
           \/ pc' = "Select"
    BY <1>1, TurnReady, LoopAgainKeeps DEF ReceiveAddLineItem, Execute
  <2>2. /\ Head(addItemSignalChan) \notin FeeID
        /\ \A k \in 1..Len(addItemSignalChan') : addItemSignalChan'[k] \notin FeeID
    <3>1. /\ Len(addItemSignalChan) \in Nat /\ Len(addItemSignalChan) > 0
          /\ Head(addItemSignalChan) = addItemSignalChan[1]
          /\ Len(addItemSignalChan') = Len(addItemSignalChan) - 1
          /\ \A k \in 1..Len(addItemSignalChan') :
               addItemSignalChan'[k] = addItemSignalChan[k + 1]
                 /\ k + 1 \in 1..Len(addItemSignalChan)
      BY <1>0, <2>1
    <3>2. 1 \in 1..Len(addItemSignalChan)
      BY <3>1
    <3> QED BY <3>1, <3>2 DEF FeesInv
  <2>3. ~Decided'
    BY <1>0, <2>1, LeavingOnce DEF ReceiveCloseBill, TimerFired, Execute
  <2> QED BY <1>0, <2>1, <2>2, <2>3 DEF FeesInv
<1>2. CASE ReceiveRecurring
  <2>1. PICK f \in FeeID \ issued : pc' = "RecurringItem" /\ subject' = f
    BY <1>2 DEF ReceiveRecurring, Execute
  <2>2. recurring = "due" /\ UNCHANGED <<recurring, addItemSignalChan>>
    BY <1>2, TurnReady DEF ReceiveRecurring, chans, timers
  <2>3. f \notin Fees
    <3>1. f \notin charged /\ BeingAdded = {}
      BY <1>0 DEF OnceInv, BeingAdded
    <3>2. f \notin Recorded
      BY <1>0, <3>1 DEF Recorded, AgreeInv, ItemRows
    <3> QED BY <3>2 DEF Fees
  <2>4. Cardinality(Fees \cup {f}) = Cardinality(Fees) + 1
    BY <2>3, FeesFinite, FS_AddElement
  <2>5. ~Decided'
    BY <1>0, <2>1, LeavingOnce DEF ReceiveCloseBill, TimerFired, Execute
  <2> QED BY <1>0, <2>1, <2>2, <2>4, <2>5 DEF FeesInv
<1>3. CASE ReceiveUpdateLineItem
  <2>1. UNCHANGED <<addItemSignalChan, recurring>> /\ pc' \in {"UpdateLineItem", "Select"}
    BY <1>3, LoopAgainKeeps DEF ReceiveUpdateLineItem, Execute
  <2>2. ~Decided'
    BY <1>0, <2>1, LeavingOnce DEF ReceiveCloseBill, TimerFired, Execute
  <2> QED BY <1>0, <2>1, <2>2, FeesFrame DEF FeesInv
<1>4. CASE ReceiveCloseBill \/ TimerFired
  <2>1. UNCHANGED <<addItemSignalChan, recurring>> /\ pc' = "CloseBillFromState"
    BY <1>4 DEF ReceiveCloseBill, TimerFired, Execute, timers, chans
  <2>2. Decided \/ recurring # "due"
    BY <1>4, LeftInOrder DEF ReceiveCloseBill, TimerFired, Decided
  <2> QED BY <1>0, <2>1, <2>2, FeesFrame DEF FeesInv
<1> QED BY <1>1, <1>2, <1>3, <1>4 DEF ReceiveStep

LEMMA FeesActivity ==
  ASSUME Reliable, SameRun', TypeInv, OnceInv, BilledInv, AgreeInv, FeesInv,
         [Next]_vars, ActivityStep \/ StartPostProcess
  PROVE  FeesInv'
<1>0. item \in ItemRows /\ UNCHANGED <<fires, owed>>
  BY DEF TypeInv, TypeOK, ActivityStep, CreateBillDone, AddLineItemDone,
         RecurringItemDone, UpdateLineItemDone, CloseBillFromStateDone, GetBillDetailDone,
         Retry, GiveUp, StartPostProcess, history
<1>1. UNCHANGED addItemSignalChan
  <2>1. UNCHANGED chans
          \/ \E timer : LoopAgain(addItemSignalChan, updateItemSignalChan, timer)
    BY DEF ActivityStep, CreateBillDone, AddLineItemDone, RecurringItemDone,
           UpdateLineItemDone, CloseBillFromStateDone, GetBillDetailDone, Retry, GiveUp,
           StartPostProcess
  <2> QED BY <2>1, LoopAgainKeeps DEF chans
<1>2. Decided' => Decided
  <2>1. pc # "Select"
    BY WorkflowAssumption
       DEF ActivityStep, CreateBillDone, AddLineItemDone, RecurringItemDone,
           UpdateLineItemDone, CloseBillFromStateDone, GetBillDetailDone, Retry, GiveUp,
           StartPostProcess, Activities, LoopActivities
  <2>2. Leaving' => Leaving
    BY <2>1, LeavingOnce, TurnReady DEF ReceiveCloseBill, TimerFired
  <2> QED BY <2>2, RunWakesNothing DEF Decided, WokenToClose
<1>3. ASSUME AddLineItemDone \/ RecurringItemDone
      PROVE  subject \in LineItemID /\ Recorded' = Recorded \cup {subject} /\ pc' = "Select"
  <2>1. subject \in LineItemID /\ item' = InsertLineItem(subject) /\ pc' = "Select"
    BY <1>3 DEF AddLineItemDone, RecurringItemDone, LoopAgain, TypeInv, LoopActivities
  <2> QED BY <1>0, <2>1 DEF Recorded, InsertLineItem, ItemRows
<1>4. CASE AddLineItemDone
  <2>1. Fees' = Fees /\ pc = "AddLineItem" /\ recurring' = recurring
    <3>1. pc = "AddLineItem"
          /\ LoopAgain(addItemSignalChan, updateItemSignalChan, recurring)
      BY <1>4 DEF AddLineItemDone
    <3> QED BY <1>3, <1>4, <3>1, LoopAgainKeeps DEF Fees, FeesInv
  <2> QED BY <1>0, <1>1, <1>2, <1>3, <1>4, <2>1, FeesFrame DEF FeesInv
<1>5. CASE RecurringItemDone
  <2>1. pc = "RecurringItem" /\ recurring' = "armed"
    <3>1. pc = "RecurringItem" /\ LoopAgain(addItemSignalChan, updateItemSignalChan, "armed")
      BY <1>5 DEF RecurringItemDone
    <3> QED BY <3>1, LoopAgainKeeps
  <2>2. Fees' = Fees \cup {subject}
    BY <1>3, <1>5, <2>1 DEF Fees, FeesInv
  <2> QED BY <1>0, <1>1, <1>2, <1>3, <1>5, <2>1, <2>2 DEF FeesInv
<1>6. CASE UpdateLineItemDone
  <2>1. /\ pc = "UpdateLineItem" /\ subject \in LineItemID
        /\ item' = VoidLineItem(subject) \/ item' = item
        /\ LoopAgain(addItemSignalChan, updateItemSignalChan, recurring)
    BY <1>6 DEF UpdateLineItemDone, TypeInv, LoopActivities
  <2>2. Fees' = Fees
    BY <1>0, <2>1 DEF Fees, Recorded, VoidLineItem, Voidable, ItemRows
  <2>3. recurring' = recurring /\ pc' = "Select"
    BY <2>1, LoopAgainKeeps
  <2> QED BY <1>0, <1>1, <1>2, <2>1, <2>2, <2>3, FeesFrame DEF FeesInv
<1>7. CASE CreateBillDone \/ CloseBillFromStateDone \/ GetBillDetailDone \/ StartPostProcess
             \/ GiveUp
  <2>1. /\ pc # "RecurringItem" /\ pc' \notin {"AddLineItem", "RecurringItem"}
        /\ UNCHANGED <<item, recurring>>
    BY <1>7 DEF CreateBillDone, CloseBillFromStateDone, GetBillDetailDone,
                StartPostProcess, GiveUp, Reliable, LoopActivities, Execute, db, timers
  <2>2. Fees' = Fees
    BY <2>1 DEF Fees, Recorded
  <2> QED BY <1>0, <1>1, <1>2, <2>1, <2>2, FeesFrame DEF FeesInv
<1>8. CASE Retry
  <2>1. UNCHANGED <<item, recurring, pc, subject>>
    BY <1>8 DEF Retry, timers
  <2>2. Fees' = Fees
    BY <2>1 DEF Fees, Recorded
  <2> QED BY <1>0, <1>1, <1>2, <2>1, <2>2, FeesFrame DEF FeesInv
<1> QED BY <1>4, <1>5, <1>6, <1>7, <1>8 DEF ActivityStep

\* As long as its run is not continued as new, a bill is closed with one fee for every
\* interval that elapsed before closing began, however often an insert was lost and tried
\* again, and without a fee for at most one that elapsed later: the next interval's timer
\* starts only when the fee is in, and a fee due is served before a close or the period's
\* end unless that had found Select blocked.
THEOREM IntervalsCharged ==
  Reliable /\ OrderedSelect => (Spec /\ []SameRun => []EveryIntervalCharged)
<1> SUFFICES ASSUME Reliable, OrderedSelect
             PROVE  Spec /\ []SameRun => []EveryIntervalCharged
  OBVIOUS
<1>1. TypeInv /\ FeesInv => EveryIntervalCharged
  <2> SUFFICES ASSUME TypeInv, FeesInv, bill.status = "CLOSED"
               PROVE  owed.fees <= Cardinality(Fees) /\ fires <= Cardinality(Fees) + 1
    BY DEF EveryIntervalCharged, Fees
  <2>1. Decided
    BY DEF Decided, Leaving
  <2>2. Cardinality(Fees) \in Nat /\ fires \in Nat /\ owed.fees \in Nat
    BY FeesFinite, FS_CardinalityType DEF TypeInv, TypeOK, Debt
  <2> QED BY <2>1, <2>2 DEF FeesInv
<1>2. SameRun' /\ TypeInv /\ OnceInv /\ BilledInv /\ BegunInv /\ AgreeInv /\ FeesInv
        /\ [Next]_vars => FeesInv'
  <2> SUFFICES ASSUME SameRun', TypeInv, OnceInv, BilledInv, BegunInv, AgreeInv, FeesInv,
                      [Next]_vars
               PROVE  FeesInv'
    OBVIOUS
  <2> QED BY FeesRequests, FeesReceive, FeesActivity DEF Next, RunStep
<1> QED
  BY <1>1, <1>2, TypeInvInit, TypeInvNext, OnceInit, OnceNext, BilledInit, BilledNext,
     BegunInit, BegunNext, AgreeInit, AgreeNext, FeesInit, PTL DEF Spec
=============================================================================
