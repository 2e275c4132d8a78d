-------------------------- MODULE BillRecordsProofs --------------------------
(***************************************************************************)
(* What the tables go through: records only advance under all faults; when *)
(* the activities of the loop are reliable the total and the rows agree    *)
(* and every step implements a step of BillLedger.                         *)
(***************************************************************************)
EXTENDS BillLifecycleProofs

-----------------------------------------------------------------------------
(***************************************************************************)
(* Records only advance. Rows of line_items do by the statements alone. A  *)
(* closed bill is frozen because its workflow no longer changes the total  *)
(* that a repeated or a late UPDATE would write again.                     *)
(***************************************************************************)
Closing ==
  pc \in {"CloseBillFromState", "GetBillDetail", "StartPostProcess",
          "Completed", "Failed"}

BilledInv ==
  /\ late.close # {} \/ bill.status = "CLOSED" => Closing
  /\ \A t \in late.close : t = state.Total
  /\ bill.status = "CLOSED" => bill.total = state.Total

LEMMA BilledInit == Init => BilledInv
BY DEF Init, BilledInv

\* Steps that leave the bill and its total alone, or are taken before closing.
LEMMA BilledFrame ==
  ASSUME BilledInv, UNCHANGED bill, late'.close = late.close,
         ((Closing => Closing') /\ state'.Total = state.Total) \/ ~Closing
  PROVE  BilledInv' /\ BillAdvances
<1>1. CASE ~Closing
  BY <1>1 DEF BilledInv, BillAdvances
<1>2. CASE (Closing => Closing') /\ state'.Total = state.Total
  BY <1>2 DEF BilledInv, BillAdvances
<1> QED BY <1>1, <1>2

LEMMA StatementsAdvance ==
  ASSUME TypeOK
  PROVE  /\ UNCHANGED item => ItemsAdvance
         /\ \A j \in LineItemID :
              item' = InsertLineItem(j) \/ item' = VoidLineItem(j) => ItemsAdvance
BY DEF TypeOK, ItemRows, ItemsAdvance, InsertLineItem, VoidLineItem, Voidable

LEMMA ItemsAdvanceNext == TypeInv /\ [Next]_vars => ItemsAdvance
<1> SUFFICES ASSUME TypeInv, [Next]_vars PROVE ItemsAdvance
  OBVIOUS
<1>0. TypeOK /\ late.insert \subseteq LineItemID /\ late.void \subseteq LineItemID
  BY DEF TypeInv, TypeOK, LateStatements
<1>1. CASE UNCHANGED item
  BY <1>0, <1>1, StatementsAdvance
<1>2. CASE LateCommit
  BY <1>0, <1>2, StatementsAdvance DEF LateCommit
<1>3. CASE AddLineItemDone \/ RecurringItemDone \/ UpdateLineItemDone
  <2>1. subject \in LineItemID
    BY <1>3 DEF AddLineItemDone, RecurringItemDone, UpdateLineItemDone,
                TypeInv, LoopActivities
  <2>2. item' = InsertLineItem(subject) \/ item' = VoidLineItem(subject)
          \/ UNCHANGED item
    BY <1>3 DEF AddLineItemDone, RecurringItemDone, UpdateLineItemDone
  <2> QED BY <1>0, <2>1, <2>2, StatementsAdvance
<1>4. CASE ReceiveStep \/ StartPostProcess \/ CreateBillDone
             \/ CloseBillFromStateDone \/ GetBillDetailDone \/ Retry \/ GiveUp
  <2>1. UNCHANGED item
    BY <1>4
       DEF ReceiveStep, ReceiveAddLineItem, ReceiveRecurring,
           ReceiveUpdateLineItem, ReceiveCloseBill, TimerFired, db,
           StartPostProcess, CreateBillDone, CloseBillFromStateDone,
           GetBillDetailDone, Retry, GiveUp
  <2> QED BY <1>1, <2>1
<1>5. CASE ApiStep \/ PeriodEnds \/ RecurringTimerFires \/ Finished \/ UNCHANGED vars
  <2>1. UNCHANGED item
    BY <1>5
       DEF ApiStep, ApiAddLineItem, ApiVoidCheck, ApiVoidSignal, ApiCloseBill,
           ApiCloseBillReturn, PeriodEnds, RecurringTimerFires, Finished, vars, db
  <2> QED BY <1>1, <2>1
<1> QED BY <1>2, <1>3, <1>4, <1>5 DEF Next, RunStep, ActivityStep

LEMMA BilledNext ==
  TypeInv /\ BilledInv /\ [Next]_vars => BilledInv' /\ BillAdvances
<1> SUFFICES ASSUME TypeInv, BilledInv, [Next]_vars
             PROVE  BilledInv' /\ BillAdvances
  OBVIOUS
<1>0. bill \in BillRow /\ late \in LateStatements /\ state \in BillState
  BY DEF TypeInv, TypeOK
<1>1. CASE ApiStep \/ PeriodEnds \/ RecurringTimerFires \/ Finished \/ UNCHANGED vars
  <2>1. UNCHANGED <<db, run>>
    BY <1>1
       DEF ApiStep, ApiAddLineItem, ApiVoidCheck, ApiVoidSignal, ApiCloseBill,
           ApiCloseBillReturn, PeriodEnds, RecurringTimerFires, Finished, vars
  <2> QED BY <2>1, BilledFrame DEF db, run, Closing
<1>2. CASE ReceiveStep
  <2>1. UNCHANGED db /\ pc = "Select"
    BY <1>2, TurnReady
       DEF ReceiveStep, ReceiveAddLineItem, ReceiveRecurring,
           ReceiveUpdateLineItem, ReceiveCloseBill, TimerFired
  <2> QED BY <2>1, BilledFrame DEF db, Closing
<1>3. CASE AddLineItemDone \/ RecurringItemDone \/ UpdateLineItemDone
  <2>1. UNCHANGED <<bill, late>> /\ pc \in LoopActivities
    BY <1>3 DEF AddLineItemDone, RecurringItemDone, UpdateLineItemDone,
                LoopActivities
  <2> QED BY <2>1, BilledFrame DEF LoopActivities, Closing
<1>4. CASE GetBillDetailDone \/ StartPostProcess
  <2>1. UNCHANGED <<db, state>> /\ Closing /\ Closing'
    BY <1>4 DEF GetBillDetailDone, StartPostProcess, Closing
  <2> QED BY <2>1, BilledFrame DEF db
<1>5. CASE CreateBillDone
  <2>1. /\ pc = "CreateBill" /\ bill' = InsertBill
        /\ UNCHANGED late /\ pc' = "Select"
    BY <1>5 DEF CreateBillDone
  <2> QED BY <1>0, <2>1
          DEF BilledInv, BillAdvances, BillRow, InsertBill, Closing
<1>6. CASE CloseBillFromStateDone
  <2>1. /\ bill' = UpdateBillClosed(state.Total)
        /\ UNCHANGED <<late, state>> /\ pc' = "GetBillDetail"
    BY <1>6 DEF CloseBillFromStateDone, Execute
  <2> QED BY <1>0, <2>1
          DEF BilledInv, BillAdvances, BillRow, UpdateBillClosed, Closing
<1>7. CASE Retry \/ GiveUp
  <2>1. UNCHANGED <<bill, state>> /\ late' = Abandoned /\ (Closing => Closing')
    BY <1>7 DEF Retry, GiveUp, Closing, LoopActivities
  <2>2. CASE pc = "CloseBillFromState"
    <3>1. late'.close = late.close \cup {state.Total} /\ Closing
      BY <1>0, <2>1, <2>2 DEF Abandoned, LateStatements, Closing
    <3> QED BY <2>1, <3>1 DEF BilledInv, BillAdvances
  <2>3. CASE pc # "CloseBillFromState"
    <3>1. late'.close = late.close
      BY <1>0, <2>1, <2>3 DEF Abandoned, LateStatements
    <3> QED BY <2>1, <3>1, BilledFrame
  <2> QED BY <2>2, <2>3
<1>8. CASE LateCommit
  <2>1. UNCHANGED <<pc, state>>
    BY <1>8 DEF LateCommit, run
  <2>2. CASE bill' = InsertBill /\ late' = [late EXCEPT !.create = FALSE]
    BY <1>0, <2>1, <2>2
       DEF BilledInv, BillAdvances, BillRow, LateStatements, InsertBill, Closing
  <2>3. CASE UNCHANGED bill /\ late'.close = late.close
    BY <2>1, <2>3, BilledFrame DEF Closing
  <2>4. ASSUME NEW t \in late.close, bill' = UpdateBillClosed(t),
               late' = [late EXCEPT !.close = @ \ {t}]
        PROVE  BilledInv' /\ BillAdvances
    BY <1>0, <2>1, <2>4
       DEF BilledInv, BillAdvances, BillRow, LateStatements, UpdateBillClosed,
           Closing
  <2>5. \/ bill' = InsertBill /\ late' = [late EXCEPT !.create = FALSE]
        \/ UNCHANGED bill /\ late'.close = late.close
        \/ \E t \in late.close : /\ bill' = UpdateBillClosed(t)
                                 /\ late' = [late EXCEPT !.close = @ \ {t}]
    BY <1>0, <1>8 DEF LateCommit, LateStatements
  <2> QED BY <2>2, <2>3, <2>4, <2>5
<1> QED BY <1>1, <1>2, <1>3, <1>4, <1>5, <1>6, <1>7, <1>8
        DEF Next, RunStep, ActivityStep

\* Rows go from ACTIVE to VOIDED and the bill from OPEN to CLOSED, never back,
\* and a closed bill keeps its total, whichever attempts were lost, repeated or
\* commit late.
THEOREM RecordsAdvance == Spec => RecordsOnlyAdvance
<1>1. TypeInv /\ BilledInv /\ [Next]_vars => [ItemsAdvance /\ BillAdvances]_vars
  BY ItemsAdvanceNext, BilledNext
<1> QED
  BY <1>1, TypeInvInit, TypeInvNext, BilledInit, BilledNext, PTL
     DEF Spec, RecordsOnlyAdvance
-----------------------------------------------------------------------------
(***************************************************************************)
(* Total and rows agree when the activities of the loop are reliable. A    *)
(* row is then there only for an item counted or being inserted, also when *)
(* its INSERT commits late, and only the handler of a void voids it.       *)
(***************************************************************************)
AgreeInv ==
  /\ late.void = {}
  /\ late.insert \subseteq charged \cup BeingAdded
  /\ \A i \in charged : item[i] # "absent"
  /\ \A i \in LineItemID : item[i] = "ACTIVE" => i \in charged \cup BeingAdded
  /\ \A i \in LineItemID : item[i] = "VOIDED" => i \in charged
  /\ state.Total = SumOf(Active \ BeingAdded)

LEMMA AgreeInit == Init => AgreeInv
<1> SUFFICES ASSUME Init PROVE AgreeInv
  OBVIOUS
<1>1. Active \ BeingAdded = {}
  BY DEF Init, Active
<1> QED BY <1>1, SumAssumption DEF Init, AgreeInv

\* Steps that leave rows, totals and the item being inserted alone.
LEMMA AgreeFrame ==
  ASSUME AgreeInv, UNCHANGED <<item, charged>>, state'.Total = state.Total,
         late'.void = {}, late'.insert = late.insert, BeingAdded' = BeingAdded
  PROVE  AgreeInv'
<1>1. Active' = Active
  BY DEF Active
<1> QED BY <1>1 DEF AgreeInv

\* An item enters the table only once, when it is not counted yet.
LEMMA AgreeStartInsert ==
  ASSUME AgreeInv, BeingAdded = {}, NEW i \in LineItemID \ charged,
         UNCHANGED <<item, charged, late>>, state'.Total = state.Total,
         BeingAdded' = {i}
  PROVE  AgreeInv'
<1>1. Active' = Active /\ i \notin Active
  BY DEF Active, AgreeInv
<1>2. Active' \ BeingAdded' = Active \ BeingAdded
  BY <1>1
<1> QED BY <1>2 DEF AgreeInv

LEMMA AgreeInserted ==
  ASSUME TypeInv, OnceInv, AgreeInv, Inserting, item' = InsertLineItem(subject),
         state' = [state EXCEPT !.Total = @ + Amount[subject]],
         charged' = charged \cup {subject}, UNCHANGED late, BeingAdded' = {}
  PROVE  AgreeInv'
<1>1. /\ subject \in LineItemID \ charged
      /\ BeingAdded = {subject}
      /\ item \in ItemRows
  BY DEF TypeInv, TypeOK, OnceInv, Inserting, BeingAdded
<1>2. item[subject] # "VOIDED"
  BY <1>1 DEF AgreeInv
<1>3. /\ item'[subject] = "ACTIVE"
      /\ \A i \in LineItemID : i # subject => item'[i] = item[i]
  BY <1>1, <1>2 DEF InsertLineItem, ItemRows
<1>4. Active' = (Active \ {subject}) \cup {subject}
  BY <1>1, <1>3 DEF Active
<1>5. /\ Active \ {subject} \in SUBSET LineItemID
      /\ subject \in LineItemID \ (Active \ {subject})
  BY <1>1 DEF Active
<1>6. SumOf(Active') = SumOf(Active \ {subject}) + Amount[subject]
  BY <1>4, <1>5, SumAssumption
<1>7. state'.Total = state.Total + Amount[subject]
  BY DEF TypeInv, TypeOK, BillState
<1>8. state'.Total = SumOf(Active' \ BeingAdded')
  <2>1. Active' \ BeingAdded' = Active' /\ state.Total = SumOf(Active \ {subject})
    BY <1>1 DEF AgreeInv
  <2> QED BY <1>6, <1>7, <2>1
<1> QED BY <1>1, <1>3, <1>8 DEF AgreeInv, TypeInv, TypeOK

LEMMA AgreeVoided ==
  ASSUME TypeInv, AgreeInv, pc = "UpdateLineItem", Voidable(subject),
         item' = VoidLineItem(subject),
         state' = [state EXCEPT !.Total = @ - Amount[subject]],
         UNCHANGED <<late, charged>>, BeingAdded' = {}
  PROVE  AgreeInv'
<1>1. subject \in LineItemID /\ BeingAdded = {} /\ item \in ItemRows
      /\ item[subject] = "ACTIVE"
  BY DEF TypeInv, TypeOK, BeingAdded, LoopActivities, Voidable
<1>2. /\ item'[subject] = "VOIDED"
      /\ \A i \in LineItemID : i # subject => item'[i] = item[i]
  BY <1>1 DEF VoidLineItem, Voidable, ItemRows
<1>3. /\ Active = Active' \cup {subject} /\ subject \in LineItemID \ Active'
      /\ Active' \in SUBSET LineItemID
  BY <1>1, <1>2 DEF Active
<1>4. SumOf(Active) = SumOf(Active') + Amount[subject] /\ SumOf(Active') \in Int
      /\ Amount[subject] \in Int
  BY <1>3, SumAssumption, ItemAssumption
<1>5. state'.Total = state.Total - Amount[subject]
  BY DEF TypeInv, TypeOK, BillState
<1>6. state'.Total = SumOf(Active' \ BeingAdded')
  <2>1. Active' \ BeingAdded' = Active' /\ Active \ BeingAdded = Active
    BY <1>1
  <2>2. state.Total = SumOf(Active)
    BY <2>1 DEF AgreeInv
  <2> QED BY <1>4, <1>5, <2>1, <2>2
<1> QED BY <1>1, <1>2, <1>6 DEF AgreeInv, TypeInv, TypeOK

\* A late INSERT finds its row, or is that of the item being inserted.
LEMMA AgreeLateInsert ==
  ASSUME TypeInv, OnceInv, AgreeInv, NEW i \in late.insert,
         item' = InsertLineItem(i), late' = [late EXCEPT !.insert = @ \ {i}],
         UNCHANGED <<charged, state, pc, subject>>
  PROVE  /\ AgreeInv'
         /\ item' = item \/ (Inserting /\ i = subject /\ item[i] = "absent")
<1>1. /\ i \in LineItemID /\ item \in ItemRows /\ late \in LateStatements
      /\ BeingAdded' = BeingAdded
  BY DEF TypeInv, TypeOK, LateStatements, BeingAdded
<1>2. late'.void = {} /\ late'.insert = late.insert \ {i}
  BY <1>1 DEF LateStatements, AgreeInv
<1>3. CASE item[i] # "absent"
  <2>1. item' = item
    BY <1>1, <1>3 DEF InsertLineItem, ItemRows
  <2>2. Active' = Active
    BY <2>1 DEF Active
  <2> QED BY <1>1, <1>2, <2>1, <2>2 DEF AgreeInv
<1>4. CASE item[i] = "absent"
  <2>1. i \in BeingAdded
    BY <1>1, <1>4 DEF AgreeInv
  <2>2. Inserting /\ i = subject
    BY <2>1 DEF BeingAdded, Inserting
  <2>3. /\ item'[i] = "ACTIVE"
        /\ \A j \in LineItemID : j # i => item'[j] = item[j]
    BY <1>1, <1>4 DEF InsertLineItem, ItemRows
  <2>4. Active' \ BeingAdded = Active \ BeingAdded
    BY <1>1, <2>1, <2>3 DEF Active
  <2>5. AgreeInv'
    BY <1>1, <1>2, <2>1, <2>3, <2>4 DEF AgreeInv, TypeInv, TypeOK
  <2> QED BY <1>4, <2>2, <2>5
<1> QED BY <1>3, <1>4

LEMMA AgreeReceive ==
  TypeInv /\ OnceInv /\ AgreeInv /\ ReceiveStep => AgreeInv'
<1> SUFFICES ASSUME TypeInv, OnceInv, AgreeInv, ReceiveStep PROVE AgreeInv'
  OBVIOUS
<1>1. pc = "Select" /\ BeingAdded = {} /\ UNCHANGED <<item, late, charged>>
  BY TurnReady
     DEF ReceiveStep, ReceiveAddLineItem, ReceiveRecurring,
         ReceiveUpdateLineItem, ReceiveCloseBill, TimerFired, db, history,
         BeingAdded
<1>2. state'.Total = state.Total
  <2>1. state \in BillState
    BY DEF TypeInv, TypeOK
  <2> QED BY <2>1
          DEF ReceiveStep, ReceiveAddLineItem, ReceiveRecurring,
              ReceiveUpdateLineItem, ReceiveCloseBill, TimerFired, CountEvent,
              BillState
<1>3. CASE BeingAdded' = {}
  <2>1. late'.void = {} /\ late'.insert = late.insert
    BY <1>1 DEF AgreeInv
  <2> QED BY <1>1, <1>2, <1>3, <2>1, AgreeFrame
<1>4. ASSUME NEW i \in LineItemID \ charged, BeingAdded' = {i} PROVE AgreeInv'
  BY <1>1, <1>2, <1>4, AgreeStartInsert
<1>5. CASE ReceiveAddLineItem
  <2>1. Head(addItemSignalChan) \in LineItemID \ charged
    <3>1. addItemSignalChan \in Seq(LineItemID) /\ addItemSignalChan # <<>>
      BY <1>5, TurnReady DEF ReceiveAddLineItem, TypeInv, TypeOK
    <3>2. Head(addItemSignalChan) = addItemSignalChan[1]
          /\ Head(addItemSignalChan) \in LineItemID
          /\ 1 \in 1..Len(addItemSignalChan)
      BY <3>1
    <3> QED BY <3>2 DEF OnceInv, Uncounted
  <2>2. BeingAdded' = {} \/ BeingAdded' = {Head(addItemSignalChan)}
    BY <1>5 DEF ReceiveAddLineItem, Execute, LoopAgain, BeingAdded
  <2> QED BY <1>3, <1>4, <2>1, <2>2
<1>6. CASE ReceiveRecurring
  <2>1. PICK f \in FeeID \ issued : BeingAdded' = {f}
    BY <1>6 DEF ReceiveRecurring, Execute, BeingAdded
  <2>2. f \in LineItemID \ charged
    BY <2>1, ItemAssumption DEF OnceInv
  <2> QED BY <1>4, <2>1, <2>2
<1>7. CASE ReceiveUpdateLineItem \/ ReceiveCloseBill \/ TimerFired
  <2>1. BeingAdded' = {}
    BY <1>7 DEF ReceiveUpdateLineItem, ReceiveCloseBill, TimerFired, Execute,
                LoopAgain, BeingAdded
  <2> QED BY <1>3, <2>1
<1> QED BY <1>5, <1>6, <1>7 DEF ReceiveStep

LEMMA AgreeActivity ==
  Reliable /\ TypeInv /\ OnceInv /\ AgreeInv /\ (ActivityStep \/ StartPostProcess)
    => AgreeInv'
<1> SUFFICES ASSUME Reliable, TypeInv, OnceInv, AgreeInv,
                    ActivityStep \/ StartPostProcess
             PROVE  AgreeInv'
  OBVIOUS
<1>1. CASE AddLineItemDone \/ RecurringItemDone
  <2>1. Inserting /\ BeingAdded' = {} /\ UNCHANGED late
    BY <1>1 DEF AddLineItemDone, RecurringItemDone, LoopAgain, Inserting, BeingAdded
  <2>2. /\ item' = InsertLineItem(subject)
        /\ state' = [state EXCEPT !.Total = @ + Amount[subject]]
        /\ charged' = charged \cup {subject}
    BY <1>1 DEF AddLineItemDone, RecurringItemDone
  <2> QED BY <2>1, <2>2, AgreeInserted
<1>2. CASE UpdateLineItemDone
  <2>1. /\ pc = "UpdateLineItem" /\ BeingAdded = {} /\ BeingAdded' = {}
        /\ UNCHANGED <<late, charged>>
    BY <1>2 DEF UpdateLineItemDone, LoopAgain, BeingAdded
  <2>2. CASE Voidable(subject)
    <3>1. /\ item' = VoidLineItem(subject)
          /\ state' = [state EXCEPT !.Total = @ - Amount[subject]]
      BY <1>2, <2>2 DEF UpdateLineItemDone
    <3> QED BY <2>1, <2>2, <3>1, AgreeVoided
  <2>3. CASE ~Voidable(subject)
    <3>1. UNCHANGED <<item, state>>
      BY <1>2, <2>3 DEF UpdateLineItemDone
    <3>2. late'.void = {} /\ late'.insert = late.insert
      BY <2>1 DEF AgreeInv
    <3> QED BY <2>1, <3>1, <3>2, AgreeFrame
  <2> QED BY <2>2, <2>3
<1>3. CASE CreateBillDone \/ CloseBillFromStateDone \/ GetBillDetailDone
             \/ StartPostProcess
  <2>1. /\ UNCHANGED <<item, late, state, charged>>
        /\ BeingAdded = {} /\ BeingAdded' = {}
    BY <1>3 DEF CreateBillDone, CloseBillFromStateDone, GetBillDetailDone,
                StartPostProcess, Execute, BeingAdded, db, history
  <2>2. late'.void = {} /\ late'.insert = late.insert
    BY <2>1 DEF AgreeInv
  <2> QED BY <2>1, <2>2, AgreeFrame
<1>4. CASE Retry \/ GiveUp
  <2>1. /\ UNCHANGED <<item, state, charged>> /\ late' = Abandoned
        /\ pc # "UpdateLineItem"
    BY <1>4 DEF Retry, GiveUp, Reliable, LoopActivities, history
  <2>2. late \in LateStatements
    BY DEF TypeInv, TypeOK
  <2>3. CASE Inserting
    <3>1. /\ late'.void = {} /\ late'.insert = late.insert \cup {subject}
      BY <2>1, <2>2, <2>3 DEF Abandoned, Inserting, LateStatements, AgreeInv
    <3>2. UNCHANGED <<pc, subject>>
      BY <1>4, <2>3 DEF Retry, GiveUp, Reliable, LoopActivities, Inserting
    <3>3. BeingAdded' = BeingAdded /\ BeingAdded = {subject} /\ Active' = Active
      BY <2>1, <2>3, <3>2 DEF BeingAdded, Inserting, Active
    <3> QED BY <2>1, <3>1, <3>3 DEF AgreeInv
  <2>4. CASE ~Inserting
    <3>1. late'.void = {} /\ late'.insert = late.insert
      BY <2>1, <2>2, <2>4 DEF Abandoned, Inserting, LateStatements, AgreeInv
    <3>2. BeingAdded' = {} /\ BeingAdded = {}
      BY <1>4, <2>4 DEF Retry, GiveUp, LoopAgain, BeingAdded, Inserting
    <3> QED BY <2>1, <3>1, <3>2, AgreeFrame
  <2> QED BY <2>3, <2>4
<1> QED BY <1>1, <1>2, <1>3, <1>4 DEF ActivityStep

LEMMA AgreeNext ==
  Reliable /\ TypeInv /\ OnceInv /\ AgreeInv /\ [Next]_vars => AgreeInv'
<1> SUFFICES ASSUME Reliable, TypeInv, OnceInv, AgreeInv, [Next]_vars
             PROVE  AgreeInv'
  OBVIOUS
<1>1. CASE RunStep
  BY <1>1, AgreeReceive, AgreeActivity DEF RunStep
<1>2. CASE ApiStep \/ PeriodEnds \/ RecurringTimerFires \/ Finished \/ UNCHANGED vars
  <2>1. UNCHANGED <<item, late, pc, subject, state, charged>>
    BY <1>2
       DEF ApiStep, ApiAddLineItem, ApiVoidCheck, ApiVoidSignal, ApiCloseBill,
           ApiCloseBillReturn, PeriodEnds, RecurringTimerFires, Finished, vars,
           db, run, history
  <2>2. BeingAdded' = BeingAdded /\ late'.void = {} /\ late'.insert = late.insert
    BY <2>1 DEF BeingAdded, AgreeInv
  <2> QED BY <2>1, <2>2, AgreeFrame
<1>3. CASE LateCommit
  <2>1. UNCHANGED <<pc, subject, state, charged>>
    BY <1>3 DEF LateCommit, run, history
  <2>2. CASE UNCHANGED item /\ late'.void = late.void /\ late'.insert = late.insert
    <3>1. BeingAdded' = BeingAdded /\ late'.void = {}
      BY <2>1, <2>2 DEF BeingAdded, AgreeInv
    <3> QED BY <2>1, <2>2, <3>1, AgreeFrame
  <2>3. ASSUME NEW i \in late.insert, item' = InsertLineItem(i),
               late' = [late EXCEPT !.insert = @ \ {i}]
        PROVE  AgreeInv'
    BY <2>1, <2>3, AgreeLateInsert
  <2>4. \/ UNCHANGED item /\ late'.void = late.void /\ late'.insert = late.insert
        \/ \E i \in late.insert : /\ item' = InsertLineItem(i)
                                  /\ late' = [late EXCEPT !.insert = @ \ {i}]
    <3>1. late \in LateStatements /\ late.void = {}
      BY DEF TypeInv, TypeOK, AgreeInv
    <3> QED BY <1>3, <3>1 DEF LateCommit, LateStatements
  <2> QED BY <2>2, <2>3, <2>4
<1> QED BY <1>1, <1>2, <1>3 DEF Next

\* When no insert or void is given up and no reply of a void is lost, the total
\* in memory is that of the active rows at every point where no insert is under
\* way, in any order of requests, and the total of a closed bill is that of its
\* rows for good.
THEOREM TotalsAgree == Reliable => (Spec => []LedgerAgrees)
<1> SUFFICES ASSUME Reliable PROVE Spec => []LedgerAgrees
  OBVIOUS
<1>1. BilledInv /\ AgreeInv => LedgerAgrees
  <2> SUFFICES ASSUME BilledInv, AgreeInv PROVE LedgerAgrees
    OBVIOUS
  <2>1. CASE bill.status = "CLOSED"
    <3>1. BeingAdded = {} /\ bill.total = state.Total
      BY <2>1 DEF BilledInv, Closing, BeingAdded
    <3>2. Active \ BeingAdded = Active
      BY <3>1
    <3> QED BY <3>1, <3>2 DEF AgreeInv, LedgerAgrees
  <2>2. CASE bill.status # "CLOSED"
    BY <2>2 DEF AgreeInv, LedgerAgrees
  <2> QED BY <2>1, <2>2
<1> QED
  BY <1>1, TypeInvInit, TypeInvNext, OnceInit, OnceNext, BilledInit, BilledNext,
     AgreeInit, AgreeNext, PTL DEF Spec
-----------------------------------------------------------------------------
(***************************************************************************)
(* Refinement. The loop works on an open bill only, so an item is charged  *)
(* or voided only then, also by an INSERT that commits late; and closing   *)
(* writes the sum of the rows that are active.                             *)
(***************************************************************************)
OpenInv == InLoop \/ pc = "CloseBillFromState" => bill.status # "absent"

LEMMA OpenNext ==
  TypeInv /\ OpenInv /\ BillAdvances /\ [Next]_vars => OpenInv'
<1> SUFFICES ASSUME TypeInv, OpenInv, BillAdvances, [Next]_vars PROVE OpenInv'
  OBVIOUS
<1>0. bill \in BillRow
  BY DEF TypeInv, TypeOK
<1>1. CASE CreateBillDone
  BY <1>0, <1>1 DEF CreateBillDone, InsertBill, BillRow, OpenInv
<1>2. CASE (InLoop \/ pc = "CloseBillFromState")'
             => InLoop \/ pc = "CloseBillFromState"
  BY <1>0, <1>2 DEF OpenInv, BillAdvances, BillRow
<1>3. CASE UNCHANGED pc
  BY <1>2, <1>3 DEF InLoop
<1>4. CASE ApiStep \/ PeriodEnds \/ RecurringTimerFires \/ LateCommit
             \/ Finished \/ UNCHANGED vars \/ Retry
  BY <1>3, <1>4
     DEF ApiStep, ApiAddLineItem, ApiVoidCheck, ApiVoidSignal, ApiCloseBill,
         ApiCloseBillReturn, PeriodEnds, RecurringTimerFires, LateCommit,
         Finished, vars, run, Retry
<1>5. CASE ReceiveStep
  <2>1. InLoop
    BY <1>5, TurnReady
       DEF ReceiveStep, ReceiveAddLineItem, ReceiveRecurring,
           ReceiveUpdateLineItem, ReceiveCloseBill, TimerFired, InLoop
  <2> QED BY <1>2, <2>1
<1>6. CASE \/ AddLineItemDone \/ RecurringItemDone \/ UpdateLineItemDone
           \/ CloseBillFromStateDone \/ GetBillDetailDone \/ GiveUp
           \/ StartPostProcess
  BY <1>2, <1>6
     DEF AddLineItemDone, RecurringItemDone, UpdateLineItemDone,
         CloseBillFromStateDone, GetBillDetailDone, GiveUp, StartPostProcess,
         Execute, InLoop, LoopActivities
<1> QED BY <1>1, <1>4, <1>5, <1>6 DEF Next, RunStep, ActivityStep

\* What the statements are to a reader of the bill.
LEMMA LedgerStatements ==
  ASSUME TypeOK
  PROVE  /\ UNCHANGED <<bill, item>> => UNCHANGED Ledger!vars
         /\ bill' = InsertBill /\ UNCHANGED item => [Ledger!Next]_(Ledger!vars)
         /\ \A i \in LineItemID :
              /\ bill.status = "OPEN" /\ item[i] = "absent"
                   /\ item' = InsertLineItem(i) /\ UNCHANGED bill
                   => [Ledger!Next]_(Ledger!vars)
              /\ bill.status = "OPEN"
                   /\ item' = VoidLineItem(i) /\ UNCHANGED bill
                   => [Ledger!Next]_(Ledger!vars)
         /\ bill' = UpdateBillClosed(SumOf(Active)) /\ UNCHANGED item
              /\ (bill.status = "CLOSED" => bill.total = SumOf(Active))
              => [Ledger!Next]_(Ledger!vars)
<1>0. bill \in BillRow /\ item \in ItemRows
  BY DEF TypeOK
<1>1. UNCHANGED item => UNCHANGED <<Active, Voided>>
  BY DEF Active, Voided
<1>2. UNCHANGED <<bill, item>> => UNCHANGED Ledger!vars
  BY <1>1 DEF Ledger!vars
<1>3. ASSUME bill' = InsertBill, UNCHANGED item
      PROVE  [Ledger!Next]_(Ledger!vars)
  <2>1. CASE bill.status = "absent"
    <3>1. bill'.status = "OPEN" /\ bill'.total = bill.total
      BY <1>0, <1>3, <2>1 DEF InsertBill, BillRow
    <3> QED BY <1>1, <1>3, <2>1, <3>1 DEF Ledger!Next, Ledger!Open
  <2>2. CASE bill.status # "absent"
    BY <1>2, <1>3, <2>2 DEF InsertBill
  <2> QED BY <2>1, <2>2
<1>4. ASSUME NEW i \in LineItemID, bill.status = "OPEN", item[i] = "absent",
             item' = InsertLineItem(i), UNCHANGED bill
      PROVE  [Ledger!Next]_(Ledger!vars)
  <2>1. /\ item'[i] = "ACTIVE"
        /\ \A j \in LineItemID : j # i => item'[j] = item[j]
    BY <1>0, <1>4 DEF InsertLineItem, ItemRows
  <2>2. Active' = Active \cup {i} /\ Voided' = Voided /\ i \notin Active \cup Voided
    BY <1>4, <2>1 DEF Active, Voided
  <2>3. Ledger!Charge(i)
    BY <1>4, <2>2 DEF Ledger!Charge
  <2> QED BY <2>3 DEF Ledger!Next
<1>5. ASSUME NEW i \in LineItemID, bill.status = "OPEN",
             item' = VoidLineItem(i), UNCHANGED bill
      PROVE  [Ledger!Next]_(Ledger!vars)
  <2>1. CASE item[i] = "ACTIVE"
    <3>1. /\ item'[i] = "VOIDED"
          /\ \A j \in LineItemID : j # i => item'[j] = item[j]
      BY <1>0, <1>5, <2>1 DEF VoidLineItem, Voidable, ItemRows
    <3>2. Active' = Active \ {i} /\ Voided' = Voided \cup {i} /\ i \in Active
      BY <2>1, <3>1 DEF Active, Voided
    <3>3. Ledger!Void(i)
      BY <1>5, <3>2 DEF Ledger!Void
    <3> QED BY <3>3 DEF Ledger!Next
  <2>2. CASE item[i] # "ACTIVE"
    <3>1. item' = item
      BY <1>0, <1>5, <2>2 DEF VoidLineItem, Voidable, ItemRows
    <3> QED BY <1>2, <1>5, <3>1
  <2> QED BY <2>1, <2>2
<1>6. ASSUME bill' = UpdateBillClosed(SumOf(Active)), UNCHANGED item,
             bill.status = "CLOSED" => bill.total = SumOf(Active)
      PROVE  [Ledger!Next]_(Ledger!vars)
  <2>1. CASE bill.status = "OPEN"
    <3>1. bill'.status = "CLOSED" /\ bill'.total = SumOf(Active)
      BY <1>6, <2>1 DEF UpdateBillClosed
    <3>2. Ledger!Close
      BY <1>1, <1>6, <2>1, <3>1 DEF Ledger!Close
    <3> QED BY <3>2 DEF Ledger!Next
  <2>2. CASE bill.status # "OPEN"
    <3>1. bill' = bill
      BY <1>0, <1>6, <2>2 DEF UpdateBillClosed, BillRow
    <3> QED BY <1>2, <1>6, <3>1
  <2> QED BY <2>1, <2>2
<1> QED BY <1>2, <1>3, <1>4, <1>5, <1>6

LEMMA LedgerInit == Init => Ledger!Init
BY DEF Init, Ledger!Init, Active, Voided

LEMMA LedgerNext ==
  Reliable /\ TypeInv /\ OnceInv /\ BilledInv /\ AgreeInv /\ OpenInv /\ [Next]_vars
    => [Ledger!Next]_(Ledger!vars)
<1> SUFFICES ASSUME Reliable, TypeInv, OnceInv, BilledInv, AgreeInv, OpenInv,
                    [Next]_vars
             PROVE  [Ledger!Next]_(Ledger!vars)
  OBVIOUS
<1>0. TypeOK /\ bill \in BillRow /\ late \in LateStatements
  BY DEF TypeInv, TypeOK
<1>a. InLoop => bill.status = "OPEN"
  BY <1>0 DEF InLoop, OpenInv, BilledInv, Closing, LoopActivities, BillRow
<1>b. Closing => state.Total = SumOf(Active)
                 /\ (bill.status = "CLOSED" => bill.total = SumOf(Active))
  <2> SUFFICES ASSUME Closing
               PROVE  state.Total = SumOf(Active)
                      /\ (bill.status = "CLOSED" => bill.total = SumOf(Active))
    OBVIOUS
  <2>1. Active \ BeingAdded = Active
    BY DEF Closing, BeingAdded
  <2> QED BY <2>1 DEF AgreeInv, BilledInv
<1>1. CASE UNCHANGED <<bill, item>>
  BY <1>0, <1>1, LedgerStatements
<1>2. CASE CreateBillDone
  <2>1. bill' = InsertBill /\ UNCHANGED item
    BY <1>2 DEF CreateBillDone
  <2> QED BY <1>0, <2>1, LedgerStatements
<1>3. CASE AddLineItemDone \/ RecurringItemDone
  <2>1. /\ item' = InsertLineItem(subject) /\ UNCHANGED bill
        /\ InLoop /\ Inserting /\ subject \in LineItemID
    BY <1>3 DEF AddLineItemDone, RecurringItemDone, InLoop, LoopActivities,
                Inserting, TypeInv
  <2>2. item[subject] # "VOIDED"
    BY <2>1 DEF AgreeInv, OnceInv
  <2>3. CASE item[subject] = "absent"
    BY <1>0, <1>a, <2>1, <2>3, LedgerStatements
  <2>4. CASE item[subject] # "absent"
    <3>1. item' = item
      BY <1>0, <2>1, <2>4 DEF InsertLineItem, TypeOK, ItemRows
    <3> QED BY <1>1, <2>1, <3>1
  <2> QED BY <2>3, <2>4
<1>4. CASE UpdateLineItemDone
  <2>1. /\ UNCHANGED bill /\ InLoop /\ subject \in LineItemID
        /\ item' = VoidLineItem(subject) \/ UNCHANGED item
    BY <1>4 DEF UpdateLineItemDone, InLoop, LoopActivities, TypeInv
  <2> QED BY <1>0, <1>a, <1>1, <2>1, LedgerStatements
<1>5. CASE CloseBillFromStateDone
  <2>1. bill' = UpdateBillClosed(state.Total) /\ UNCHANGED item /\ Closing
    BY <1>5 DEF CloseBillFromStateDone, Closing
  <2> QED BY <1>0, <1>b, <2>1, LedgerStatements
<1>6. CASE LateCommit
  <2>1. CASE bill' = InsertBill /\ UNCHANGED item
    BY <1>0, <2>1, LedgerStatements
  <2>2. ASSUME NEW i \in late.insert, item' = InsertLineItem(i), UNCHANGED bill,
               late' = [late EXCEPT !.insert = @ \ {i}]
        PROVE  [Ledger!Next]_(Ledger!vars)
    <3>1. UNCHANGED <<charged, state, pc, subject>>
      BY <1>6 DEF LateCommit, run, history
    <3>2. item' = item \/ (Inserting /\ i = subject /\ item[i] = "absent")
      BY <2>2, <3>1, AgreeLateInsert
    <3>3. Inserting => InLoop
      BY DEF Inserting, InLoop, LoopActivities
    <3>4. i \in LineItemID
      BY <1>0 DEF LateStatements
    <3> QED BY <1>0, <1>a, <1>1, <2>2, <3>2, <3>3, <3>4, LedgerStatements
  <2>3. ASSUME NEW t \in late.close, bill' = UpdateBillClosed(t), UNCHANGED item
        PROVE  [Ledger!Next]_(Ledger!vars)
    <3>1. Closing /\ t = state.Total
      BY DEF BilledInv
    <3> QED BY <1>0, <1>b, <2>3, <3>1, LedgerStatements
  <2> QED BY <1>6, <2>1, <2>2, <2>3 DEF LateCommit, AgreeInv
<1>7. CASE ApiStep \/ PeriodEnds \/ RecurringTimerFires \/ Finished \/ UNCHANGED vars
  <2>1. UNCHANGED <<bill, item>>
    BY <1>7
       DEF ApiStep, ApiAddLineItem, ApiVoidCheck, ApiVoidSignal, ApiCloseBill,
           ApiCloseBillReturn, PeriodEnds, RecurringTimerFires, Finished, vars, db
  <2> QED BY <1>1, <2>1
<1>8. CASE ReceiveStep \/ GetBillDetailDone \/ StartPostProcess \/ Retry \/ GiveUp
  <2>1. UNCHANGED <<bill, item>>
    BY <1>8
       DEF ReceiveStep, ReceiveAddLineItem, ReceiveRecurring,
           ReceiveUpdateLineItem, ReceiveCloseBill, TimerFired, db,
           GetBillDetailDone, StartPostProcess, Retry, GiveUp
  <2> QED BY <1>1, <2>1
<1> QED BY <1>2, <1>3, <1>4, <1>5, <1>6, <1>7, <1>8
        DEF Next, RunStep, ActivityStep

\* When no insert or void is given up and no reply of a void is lost, workflow,
\* activities and tables together behave as the ledger promises: a bill is
\* opened once, charged and voided only while open, and closed for exactly the
\* sum of its active items.
THEOREM LedgerImplemented == Reliable => (Spec => ImplementsLedger)
<1> SUFFICES ASSUME Reliable PROVE Spec => ImplementsLedger
  OBVIOUS
<1>1. Init => OpenInv
  BY DEF Init, OpenInv, InLoop, LoopActivities
<1> QED
  BY <1>1, TypeInvInit, TypeInvNext, OnceInit, OnceNext, BilledInit, BilledNext,
     AgreeInit, AgreeNext, OpenNext, LedgerInit, LedgerNext, PTL
     DEF Spec, ImplementsLedger, Ledger!Spec
=============================================================================
