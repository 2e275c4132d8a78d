------------------------- MODULE BillLifecycleProofs -------------------------
(***************************************************************************)
(* Theorems about BillLifecycle for every set of line items and requests,  *)
(* every threshold, retry limit and choice of the activities that fail.    *)
(***************************************************************************)
EXTENDS BillLifecycle, TLAPS

\* What a case of the selector that is run has to work on.
LEMMA TurnReady ==
  /\ Turn("add") => pc = "Select" /\ addItemSignalChan # <<>>
  /\ Turn("recurring") => pc = "Select" /\ recurring = "due"
  /\ Turn("update") => pc = "Select" /\ updateItemSignalChan # <<>>
  /\ Turn("close") => pc = "Select" /\ closeChan > 0
  /\ Turn("timer") => pc = "Select" /\ periodOver
BY DEF Turn, Ready

\* An event leaves `woken' in its type, and sets it only if nothing else is ready.
LEMMA ArrivesKeeps ==
  ASSUME NEW k \in {"add", "recurring", "update", "close", "timer"}, Arrives(k)
  PROVE  /\ woken \in {"none"} \cup DOMAIN SelectorOrder =>
              woken' \in {"none"} \cup DOMAIN SelectorOrder
         /\ \/ woken' = woken \/ woken' = "none"
            \/ woken' = k /\ pc = "Select" /\ addItemSignalChan = <<>> /\ recurring # "due"
<1>1. k \in DOMAIN SelectorOrder
  BY DEF SelectorOrder
<1>2. CASE OrderedSelect /\ pc = "Select" /\ ~\E j \in DOMAIN Ready : Ready[j]
  <2>1. woken' \in {"none", k}
    BY <1>2 DEF Arrives
  <2>2. addItemSignalChan = <<>> /\ recurring # "due"
    BY <1>2 DEF Ready
  <2> QED BY <1>1, <1>2, <2>1, <2>2
<1>3. CASE ~(OrderedSelect /\ pc = "Select" /\ ~\E j \in DOMAIN Ready : Ready[j])
  <2>1. woken' = woken
    BY <1>3 DEF Arrives
  <2> QED BY <2>1
<1> QED BY <1>2, <1>3

\* LoopAgain leaves every variable it sets in its type.
LEMMA LoopAgainTyped ==
  ASSUME NEW add \in Seq(LineItemID), NEW update \in Seq(LineItemID),
         NEW timer \in {"off", "armed", "due"},
         closeChan \in Nat, LoopAgain(add, update, timer)
  PROVE  /\ pc' = "Select" /\ subject' = NoItem /\ attempt' = 0 /\ woken' = "none"
         /\ addItemSignalChan' \in Seq(LineItemID)
         /\ updateItemSignalChan' \in Seq(LineItemID)
         /\ closeChan' \in Nat
         /\ recurring' \in {"off", "armed", "due"}
<1>1. CASE state'.EventCount < ContinueAsNewEventThreshold
  BY <1>1 DEF LoopAgain
<1>2. CASE ~(state'.EventCount < ContinueAsNewEventThreshold)
  BY <1>2 DEF LoopAgain, NewBillingPolicy
<1> QED BY <1>1, <1>2

\* The statements keep the tables, and what is left behind, in their types.
LEMMA StatementsTyped ==
  ASSUME TypeOK
  PROVE  /\ InsertBill \in BillRow
         /\ \A t \in Int : UpdateBillClosed(t) \in BillRow
         /\ \A i \in LineItemID :
              InsertLineItem(i) \in ItemRows /\ VoidLineItem(i) \in ItemRows
         /\ subject \in LineItemID \/ pc \notin LoopActivities =>
              Abandoned \in LateStatements
         /\ subject \in LineItemID => LostInsert \in Losses /\ LostVoid \in Losses
<1>1. InsertBill \in BillRow
  BY DEF TypeOK, BillRow, InsertBill
<1>2. \A t \in Int : UpdateBillClosed(t) \in BillRow
  BY DEF TypeOK, BillRow, UpdateBillClosed
<1>3. ASSUME NEW i \in LineItemID
      PROVE  InsertLineItem(i) \in ItemRows /\ VoidLineItem(i) \in ItemRows
  BY DEF TypeOK, ItemRows, InsertLineItem, VoidLineItem
<1>4. ASSUME subject \in LineItemID \/ pc \notin LoopActivities
      PROVE  Abandoned \in LateStatements
  BY <1>4 DEF TypeOK, BillState, LateStatements, Abandoned, LoopActivities
<1>5. subject \in LineItemID => LostInsert \in Losses /\ LostVoid \in Losses
  BY DEF TypeOK, Losses, LostInsert, LostVoid
<1> QED BY <1>1, <1>2, <1>3, <1>4, <1>5

\* Counting an event or an amount keeps BillState's types.
LEMMA StateTyped ==
  ASSUME state \in BillState
  PROVE  /\ [state EXCEPT !.EventCount = @ + 1] \in BillState
         /\ \A i \in LineItemID :
              /\ [state EXCEPT !.Total = @ + Amount[i]] \in BillState
              /\ [state EXCEPT !.Total = @ - Amount[i]] \in BillState
<1>1. [state EXCEPT !.EventCount = @ + 1] \in BillState
  BY DEF BillState
<1>2. ASSUME NEW i \in LineItemID
      PROVE  /\ [state EXCEPT !.Total = @ + Amount[i]] \in BillState
             /\ [state EXCEPT !.Total = @ - Amount[i]] \in BillState
  <2>1. Amount[i] \in Int
    BY ItemAssumption
  <2> QED BY <2>1 DEF BillState
<1> QED BY <1>1, <1>2

-----------------------------------------------------------------------------
(***************************************************************************)
(* Types. An activity of the loop has an item to work on, and so has a     *)
(* void request that passed its check: without these two facts TypeOK is   *)
(* not inductive.                                                          *)
(***************************************************************************)
TypeInv ==
  /\ TypeOK
  /\ pc \in LoopActivities => subject \in LineItemID
  /\ \A v \in Voider : voider[v].stage = "checked" => voider[v].item \in LineItemID

LEMMA TypeInvInit == Init => TypeInv
<1> SUFFICES ASSUME Init PROVE TypeInv
  OBVIOUS
<1>1. bill \in BillRow /\ item \in ItemRows /\ late \in LateStatements
  BY DEF Init, BillRow, ItemRows, LateStatements
<1>2. /\ pc \in Activities /\ pc \notin LoopActivities
      /\ attempt \in 0..maxRetryAttempt
      /\ recurring \in {"off", "armed", "due"}
  BY WorkflowAssumption DEF Init, Activities, LoopActivities, NewBillingPolicy
<1>3. /\ addItemSignalChan \in Seq(LineItemID)
      /\ updateItemSignalChan \in Seq(LineItemID)
      /\ closeChan \in Nat
  BY DEF Init
<1>4. /\ voider \in [Voider -> VoidRequest]
      /\ \A v \in Voider : voider[v].stage # "checked"
      /\ closer \in [Closer -> {"idle", "waiting", "answered", "failed"}]
  BY DEF Init, VoidRequest
<1>5. state \in BillState /\ fires \in Nat /\ lost \in Losses /\ owed \in Debt
  BY DEF Init, BillState, Losses, Debt
<1> QED BY <1>1, <1>2, <1>3, <1>4, <1>5 DEF Init, TypeInv, TypeOK

LEMMA TypeInvRequests ==
  TypeInv /\ (ApiStep \/ PeriodEnds \/ RecurringTimerFires \/ LateCommit) => TypeInv'
<1> SUFFICES ASSUME TypeInv,
                    ApiStep \/ PeriodEnds \/ RecurringTimerFires \/ LateCommit
             PROVE  TypeInv'
  OBVIOUS
<1> USE DEF TypeInv, TypeOK, db, run, chans, timers, clients, history
<1>1. ASSUME NEW i \in LineItemID, ApiAddLineItem(i) PROVE TypeInv'
  BY <1>1, ArrivesKeeps DEF ApiAddLineItem
<1>2. ASSUME NEW v \in Voider, NEW i \in LineItemID, ApiVoidCheck(v, i)
      PROVE  TypeInv'
  BY <1>2 DEF ApiVoidCheck, VoidRequest
<1>3. ASSUME NEW v \in Voider, ApiVoidSignal(v) PROVE TypeInv'
  <2>1. updateItemSignalChan' \in Seq(LineItemID)
    <3>1. voider[v].item \in LineItemID
      BY <1>3 DEF ApiVoidSignal
    <3>2. \/ updateItemSignalChan' = Append(updateItemSignalChan, voider[v].item)
          \/ UNCHANGED updateItemSignalChan
      BY <1>3 DEF ApiVoidSignal
    <3> QED BY <3>1, <3>2
  <2>2. voider' \in [Voider -> VoidRequest]
        /\ \A w \in Voider : voider'[w].stage = "checked" =>
                              voider'[w].item \in LineItemID
    BY <1>3 DEF ApiVoidSignal, VoidRequest
  <2>3. woken' = woken \/ Arrives("update")
    BY <1>3 DEF ApiVoidSignal
  <2>4. woken' \in {"none"} \cup DOMAIN SelectorOrder
    BY <2>3, ArrivesKeeps
  <2> QED BY <1>3, <2>1, <2>2, <2>4 DEF ApiVoidSignal
<1>4. ASSUME NEW c \in Closer, ApiCloseBill(c) PROVE TypeInv'
  <2>1. owed' \in Debt
    BY <1>4 DEF ApiCloseBill, Owed, Debt
  <2> QED BY <1>4, <2>1, ArrivesKeeps DEF ApiCloseBill
<1>5. ASSUME NEW c \in Closer, ApiCloseBillReturn(c) PROVE TypeInv'
  BY <1>5 DEF ApiCloseBillReturn
<1>6. CASE PeriodEnds
  <2>1. owed' \in Debt
    BY <1>6 DEF PeriodEnds, Owed, Debt
  <2> QED BY <1>6, <2>1, ArrivesKeeps DEF PeriodEnds
<1>7. CASE RecurringTimerFires
  BY <1>7, ArrivesKeeps DEF RecurringTimerFires
<1>8. CASE LateCommit
  <2>1. bill' \in BillRow /\ item' \in ItemRows /\ late' \in LateStatements
    <3>1. CASE late.create /\ bill' = InsertBill /\ UNCHANGED item
               /\ late' = [late EXCEPT !.create = FALSE]
      BY <3>1, StatementsTyped DEF LateStatements
    <3>2. ASSUME NEW i \in late.insert, item' = InsertLineItem(i),
                 late' = [late EXCEPT !.insert = @ \ {i}], UNCHANGED bill
          PROVE  bill' \in BillRow /\ item' \in ItemRows /\ late' \in LateStatements
      BY <3>2, StatementsTyped DEF LateStatements
    <3>3. ASSUME NEW i \in late.void, item' = VoidLineItem(i),
                 late' = [late EXCEPT !.void = @ \ {i}], UNCHANGED bill
          PROVE  bill' \in BillRow /\ item' \in ItemRows /\ late' \in LateStatements
      BY <3>3, StatementsTyped DEF LateStatements
    <3>4. ASSUME NEW t \in late.close, bill' = UpdateBillClosed(t),
                 late' = [late EXCEPT !.close = @ \ {t}], UNCHANGED item
          PROVE  bill' \in BillRow /\ item' \in ItemRows /\ late' \in LateStatements
      BY <3>4, StatementsTyped DEF LateStatements
    <3> QED BY <1>8, <3>1, <3>2, <3>3, <3>4 DEF LateCommit
  <2>2. UNCHANGED <<run, woken, chans, timers, child, clients, history>>
    BY <1>8 DEF LateCommit
  <2> QED BY <2>1, <2>2
<1> QED BY <1>1, <1>2, <1>3, <1>4, <1>5, <1>6, <1>7, <1>8 DEF ApiStep

LEMMA TypeInvReceive == TypeInv /\ ReceiveStep => TypeInv'
<1> SUFFICES ASSUME TypeInv, ReceiveStep PROVE TypeInv'
  OBVIOUS
<1> USE WorkflowAssumption
    DEF TypeInv, TypeOK, db, run, chans, timers, clients, history,
        Activities, LoopActivities, Execute
<1>1. CASE ReceiveAddLineItem
  <2>1. addItemSignalChan # <<>> /\ pc = "Select"
    BY <1>1, TurnReady DEF ReceiveAddLineItem
  <2>2. /\ Head(addItemSignalChan) \in LineItemID
        /\ Tail(addItemSignalChan) \in Seq(LineItemID)
    BY <2>1 DEF TypeInv, TypeOK
  <2>3. state' \in BillState
    BY <1>1 DEF ReceiveAddLineItem, CountEvent, TypeInv, TypeOK, BillState
  <2>4. UNCHANGED <<db, periodOver, child, clients, history>>
    BY <1>1 DEF ReceiveAddLineItem
  <2>5. CASE /\ Execute("AddLineItem", Head(addItemSignalChan))
             /\ addItemSignalChan' = Tail(addItemSignalChan)
             /\ UNCHANGED <<updateItemSignalChan, closeChan, recurring>>
    BY <2>2, <2>3, <2>4, <2>5
  <2>6. CASE LoopAgain(Tail(addItemSignalChan), updateItemSignalChan, recurring)
    <3>1. /\ pc' = "Select" /\ subject' = NoItem /\ attempt' = 0 /\ woken' = "none"
          /\ addItemSignalChan' \in Seq(LineItemID)
          /\ updateItemSignalChan' \in Seq(LineItemID)
          /\ closeChan' \in Nat
          /\ recurring' \in {"off", "armed", "due"}
      BY <2>2, <2>6, LoopAgainTyped
    <3> QED BY <2>3, <2>4, <3>1
  <2> QED BY <1>1, <2>5, <2>6 DEF ReceiveAddLineItem
<1>2. CASE ReceiveRecurring
  <2>1. state' \in BillState
    BY <1>2 DEF ReceiveRecurring, CountEvent, BillState
  <2> QED BY <1>2, <2>1, ItemAssumption DEF ReceiveRecurring
<1>3. CASE ReceiveUpdateLineItem
  <2>1. updateItemSignalChan # <<>> /\ pc = "Select"
    BY <1>3, TurnReady DEF ReceiveUpdateLineItem
  <2>2. /\ Head(updateItemSignalChan) \in LineItemID
        /\ Tail(updateItemSignalChan) \in Seq(LineItemID)
    BY <2>1 DEF TypeInv, TypeOK
  <2>3. state' \in BillState
    BY <1>3 DEF ReceiveUpdateLineItem, CountEvent, TypeInv, TypeOK, BillState
  <2>4. UNCHANGED <<db, periodOver, child, clients, history>>
    BY <1>3 DEF ReceiveUpdateLineItem
  <2>5. CASE /\ Execute("UpdateLineItem", Head(updateItemSignalChan))
             /\ updateItemSignalChan' = Tail(updateItemSignalChan)
             /\ UNCHANGED <<addItemSignalChan, closeChan, recurring>>
    BY <2>2, <2>3, <2>4, <2>5
  <2>6. CASE LoopAgain(addItemSignalChan, Tail(updateItemSignalChan), recurring)
    <3>1. /\ pc' = "Select" /\ subject' = NoItem /\ attempt' = 0 /\ woken' = "none"
          /\ addItemSignalChan' \in Seq(LineItemID)
          /\ updateItemSignalChan' \in Seq(LineItemID)
          /\ closeChan' \in Nat
          /\ recurring' \in {"off", "armed", "due"}
      BY <2>2, <2>6, LoopAgainTyped
    <3> QED BY <2>3, <2>4, <3>1
  <2> QED BY <1>3, <2>5, <2>6 DEF ReceiveUpdateLineItem
<1>4. CASE ReceiveCloseBill
  BY <1>4, TurnReady DEF ReceiveCloseBill
<1>5. CASE TimerFired
  BY <1>5 DEF TimerFired
<1> QED BY <1>1, <1>2, <1>3, <1>4, <1>5 DEF ReceiveStep

LEMMA TypeInvActivity == TypeInv /\ (ActivityStep \/ StartPostProcess) => TypeInv'
<1> SUFFICES ASSUME TypeInv, ActivityStep \/ StartPostProcess PROVE TypeInv'
  OBVIOUS
<1> USE WorkflowAssumption, ItemAssumption
    DEF TypeInv, TypeOK, db, run, chans, timers, clients, history,
        Activities, LoopActivities
<1>1. CASE CreateBillDone
  BY <1>1, StatementsTyped DEF CreateBillDone
<1>2. CASE AddLineItemDone
  <2>1. state' \in BillState /\ item' \in ItemRows /\ charged' \in SUBSET LineItemID
    BY <1>2, StatementsTyped, StateTyped DEF AddLineItemDone
  <2>2. LoopAgain(addItemSignalChan, updateItemSignalChan, recurring)
        /\ UNCHANGED <<bill, late, periodOver, child, clients, refunded, lost, fires, owed>>
    BY <1>2 DEF AddLineItemDone
  <2> QED BY <2>1, <2>2, LoopAgainTyped
<1>3. CASE RecurringItemDone
  <2>1. state' \in BillState /\ item' \in ItemRows /\ charged' \in SUBSET LineItemID
    BY <1>3, StatementsTyped, StateTyped DEF RecurringItemDone
  <2>2. LoopAgain(addItemSignalChan, updateItemSignalChan, "armed")
        /\ UNCHANGED <<bill, late, periodOver, child, clients, refunded, lost, fires, owed>>
    BY <1>3 DEF RecurringItemDone
  <2> QED BY <2>1, <2>2, LoopAgainTyped
<1>4. CASE UpdateLineItemDone
  <2>1. state' \in BillState /\ item' \in ItemRows /\ refunded' \in SUBSET LineItemID
    <3>1. state' = state \/ state' = [state EXCEPT !.Total = @ - Amount[subject]]
      BY <1>4 DEF UpdateLineItemDone
    <3>2. item' = item \/ item' = VoidLineItem(subject)
      BY <1>4 DEF UpdateLineItemDone
    <3>3. refunded' = refunded \/ refunded' = refunded \cup {subject}
      BY <1>4 DEF UpdateLineItemDone
    <3>4. subject \in LineItemID
      BY <1>4 DEF UpdateLineItemDone
    <3>5. state' \in BillState
      <4>1. [state EXCEPT !.Total = @ - Amount[subject]] \in BillState
        BY <3>4, StateTyped
      <4> QED BY <3>1, <4>1
    <3>6. item' \in ItemRows
      BY <3>2, <3>4, StatementsTyped
    <3> QED BY <3>3, <3>4, <3>5, <3>6
  <2>2. LoopAgain(addItemSignalChan, updateItemSignalChan, recurring)
        /\ UNCHANGED <<bill, late, periodOver, child, clients, charged, lost, fires, owed>>
    BY <1>4 DEF UpdateLineItemDone
  <2> QED BY <2>1, <2>2, LoopAgainTyped
<1>5. CASE CloseBillFromStateDone
  BY <1>5, StatementsTyped DEF CloseBillFromStateDone, Execute, BillState
<1>6. CASE GetBillDetailDone
  BY <1>6 DEF GetBillDetailDone
<1>7. CASE Retry
  <2>1. late' \in LateStatements /\ lost' \in Losses
    BY <1>7, StatementsTyped DEF Retry
  <2> QED BY <1>7, <2>1 DEF Retry
<1>8. CASE GiveUp
  <2>1. late' \in LateStatements /\ lost' \in Losses
    BY <1>8, StatementsTyped DEF GiveUp
  <2>2. CASE pc \in LoopActivities
    BY <1>8, <2>1, <2>2, LoopAgainTyped DEF GiveUp
  <2>3. CASE pc \notin LoopActivities
    BY <1>8, <2>1, <2>3 DEF GiveUp
  <2> QED BY <2>2, <2>3
<1>9. CASE StartPostProcess
  BY <1>9 DEF StartPostProcess
<1> QED BY <1>1, <1>2, <1>3, <1>4, <1>5, <1>6, <1>7, <1>8, <1>9 DEF ActivityStep

LEMMA TypeInvNext == TypeInv /\ [Next]_vars => TypeInv'
<1> SUFFICES ASSUME TypeInv, [Next]_vars PROVE TypeInv'
  OBVIOUS
<1>1. CASE RunStep
  BY <1>1, TypeInvReceive, TypeInvActivity DEF RunStep
<1>2. CASE ApiStep \/ PeriodEnds \/ RecurringTimerFires \/ LateCommit
  BY <1>2, TypeInvRequests
<1>3. CASE Finished \/ UNCHANGED vars
  BY <1>3 DEF Finished, TypeInv, TypeOK, vars, db, run, chans, timers, clients,
              history
<1> QED BY <1>1, <1>2, <1>3 DEF Next

\* Whatever the requests, timers and faults do, every variable keeps its type:
\* activities never exceed their attempts and channels never hold a stray value.
THEOREM TypeCorrect == Spec => []TypeOK
<1>1. TypeInv => TypeOK
  BY DEF TypeInv
<1> QED BY <1>1, TypeInvInit, TypeInvNext, PTL DEF Spec
-----------------------------------------------------------------------------
(***************************************************************************)
(* Each item is counted once. CountedOnce alone is not inductive: that the *)
(* amount added is one not added before rests on where a uuid can be. It   *)
(* is issued once, waits at most once in the add channel or is the item    *)
(* being inserted, and has then left the channel for good; and what was    *)
(* taken off the total is VOIDED in the table, where no statement matches  *)
(* it again.                                                               *)
(***************************************************************************)
Distinct(s) == \A j, k \in 1..Len(s) : s[j] = s[k] => j = k

Inserting == pc \in {"AddLineItem", "RecurringItem"}

Uncounted(s) == \A k \in 1..Len(s) :
                  /\ s[k] \in issued \ charged
                  /\ Inserting => s[k] # subject

OnceInv ==
  /\ charged \subseteq issued
  /\ \A i \in refunded : item[i] = "VOIDED"
  /\ Distinct(addItemSignalChan)
  /\ Uncounted(addItemSignalChan)
  /\ Inserting => subject \in issued \ charged
  /\ CountedOnce

\* What is left of a channel when its head is taken.
LEMMA TailDistinct ==
  ASSUME NEW S, NEW s \in Seq(S), s # <<>>, Distinct(s)
  PROVE  /\ Distinct(Tail(s))
         /\ \A k \in 1..Len(Tail(s)) :
              /\ Tail(s)[k] # Head(s)
              /\ \E j \in 1..Len(s) : Tail(s)[k] = s[j]
<1>1. Len(Tail(s)) = Len(s) - 1 /\ Len(s) \in Nat /\ Head(s) = s[1] /\ Len(s) > 0
  OBVIOUS
<1>2. \A k \in 1..Len(Tail(s)) : Tail(s)[k] = s[k + 1] /\ k + 1 \in 1..Len(s)
  BY <1>1
<1> QED BY <1>1, <1>2 DEF Distinct

\* A uuid that is not in a channel may be appended to it.
LEMMA AppendDistinct ==
  ASSUME NEW S, NEW s \in Seq(S), NEW e \in S, Distinct(s),
         \A k \in 1..Len(s) : s[k] # e
  PROVE  /\ Distinct(Append(s, e))
         /\ \A k \in 1..Len(Append(s, e)) :
              Append(s, e)[k] = e \/ \E j \in 1..Len(s) : Append(s, e)[k] = s[j]
<1>1. Len(Append(s, e)) = Len(s) + 1 /\ Len(s) \in Nat
  OBVIOUS
<1>2. /\ \A k \in 1..Len(s) : Append(s, e)[k] = s[k]
      /\ Append(s, e)[Len(s) + 1] = e
  OBVIOUS
<1> QED BY <1>1, <1>2 DEF Distinct

\* Selecting again, in this run or the next, keeps the channel or empties it.
LEMMA LoopAgainOnce ==
  ASSUME NEW add \in Seq(LineItemID), NEW update, NEW timer,
         LoopAgain(add, update, timer), Distinct(add),
         \A k \in 1..Len(add) : add[k] \in issued' \ charged'
  PROVE  Distinct(addItemSignalChan') /\ Uncounted(addItemSignalChan)' /\ ~Inserting'
<1>1. ~Inserting'
  BY DEF LoopAgain, Inserting
<1>2. addItemSignalChan' = add \/ addItemSignalChan' = <<>>
  BY DEF LoopAgain
<1> QED BY <1>1, <1>2 DEF Distinct, Uncounted

LEMMA OnceInit == Init => OnceInv
BY SumAssumption
   DEF Init, OnceInv, Distinct, Inserting, Uncounted, CountedOnce

\* Steps that touch neither the totals, the add channel, the item being
\* inserted nor a VOIDED row.
LEMMA OnceFrame ==
  ASSUME OnceInv,
         UNCHANGED <<issued, charged, refunded, addItemSignalChan>>,
         state'.Total = state.Total,
         ~Inserting' \/ UNCHANGED <<pc, subject>>,
         \A i \in refunded : item'[i] = "VOIDED"
  PROVE  OnceInv'
BY DEF OnceInv, Distinct, Uncounted, Inserting, CountedOnce

\* No statement of the tables takes a row back from VOIDED.
LEMMA VoidedStays ==
  ASSUME TypeOK, NEW i \in LineItemID, item[i] = "VOIDED"
  PROVE  \A j \in LineItemID : /\ InsertLineItem(j)[i] = "VOIDED"
                               /\ VoidLineItem(j)[i] = "VOIDED"
BY DEF TypeOK, ItemRows, InsertLineItem, VoidLineItem, Voidable

LEMMA OnceRequests ==
  TypeInv /\ OnceInv /\ (ApiStep \/ PeriodEnds \/ RecurringTimerFires \/ LateCommit)
    => OnceInv'
<1> SUFFICES ASSUME TypeInv, OnceInv,
                    ApiStep \/ PeriodEnds \/ RecurringTimerFires \/ LateCommit
             PROVE  OnceInv'
  OBVIOUS
<1> USE DEF db, run, chans, timers, clients, history
<1>1. ASSUME NEW i \in LineItemID, ApiAddLineItem(i) PROVE OnceInv'
  <2>1. /\ i \notin issued
        /\ issued' = issued \cup {i}
        /\ addItemSignalChan' = Append(addItemSignalChan, i)
        /\ UNCHANGED <<item, pc, subject, state, charged, refunded>>
    BY <1>1 DEF ApiAddLineItem
  <2>2. addItemSignalChan \in Seq(LineItemID)
    BY DEF TypeInv, TypeOK
  <2>3. /\ Distinct(addItemSignalChan')
        /\ \A k \in 1..Len(addItemSignalChan') :
             addItemSignalChan'[k] = i
               \/ \E j \in 1..Len(addItemSignalChan) :
                    addItemSignalChan'[k] = addItemSignalChan[j]
    BY <2>1, <2>2, AppendDistinct DEF OnceInv, Uncounted
  <2>4. Uncounted(addItemSignalChan)'
    BY <2>1, <2>3 DEF OnceInv, Uncounted, Inserting
  <2> QED BY <2>1, <2>3, <2>4 DEF OnceInv, Inserting, CountedOnce
<1>2. ASSUME NEW v \in Voider, NEW i \in LineItemID, ApiVoidCheck(v, i)
      PROVE  OnceInv'
  BY <1>2, OnceFrame DEF ApiVoidCheck, OnceInv
<1>3. ASSUME NEW v \in Voider, ApiVoidSignal(v) PROVE OnceInv'
  BY <1>3, OnceFrame DEF ApiVoidSignal, OnceInv
<1>4. ASSUME NEW c \in Closer, ApiCloseBill(c) PROVE OnceInv'
  BY <1>4, OnceFrame DEF ApiCloseBill, OnceInv
<1>5. ASSUME NEW c \in Closer, ApiCloseBillReturn(c) PROVE OnceInv'
  BY <1>5, OnceFrame DEF ApiCloseBillReturn, OnceInv
<1>6. CASE PeriodEnds
  BY <1>6, OnceFrame DEF PeriodEnds, OnceInv
<1>7. CASE RecurringTimerFires
  BY <1>7, OnceFrame DEF RecurringTimerFires, OnceInv
<1>8. CASE LateCommit
  <2>1. \A i \in refunded : item'[i] = "VOIDED"
    <3> SUFFICES ASSUME NEW i \in refunded PROVE item'[i] = "VOIDED"
      OBVIOUS
    <3>1. TypeOK /\ i \in LineItemID /\ item[i] = "VOIDED"
      BY DEF TypeInv, TypeOK, OnceInv
    <3>2. late.insert \subseteq LineItemID /\ late.void \subseteq LineItemID
      BY DEF TypeInv, TypeOK, LateStatements
    <3> QED BY <1>8, <3>1, <3>2, VoidedStays DEF LateCommit
  <2> QED BY <1>8, <2>1, OnceFrame DEF LateCommit
<1> QED BY <1>1, <1>2, <1>3, <1>4, <1>5, <1>6, <1>7, <1>8 DEF ApiStep

LEMMA OnceReceive == TypeInv /\ OnceInv /\ ReceiveStep => OnceInv'
<1> SUFFICES ASSUME TypeInv, OnceInv, ReceiveStep PROVE OnceInv'
  OBVIOUS
<1> USE DEF db, run, chans, timers, clients, history
<1>0. /\ addItemSignalChan \in Seq(LineItemID)
      /\ state \in BillState
  BY DEF TypeInv, TypeOK
<1>1. CASE ReceiveAddLineItem
  <2>1. addItemSignalChan # <<>> /\ ~Inserting
    BY <1>1, TurnReady DEF ReceiveAddLineItem, Inserting
  <2>2. /\ state'.Total = state.Total
        /\ UNCHANGED <<item, issued, charged, refunded>>
    BY <1>0, <1>1 DEF ReceiveAddLineItem, CountEvent, BillState
  <2>3. /\ Distinct(Tail(addItemSignalChan))
        /\ \A k \in 1..Len(Tail(addItemSignalChan)) :
             /\ Tail(addItemSignalChan)[k] # Head(addItemSignalChan)
             /\ \E j \in 1..Len(addItemSignalChan) :
                  Tail(addItemSignalChan)[k] = addItemSignalChan[j]
    BY <1>0, <2>1, TailDistinct DEF OnceInv
  <2>4. /\ Tail(addItemSignalChan) \in Seq(LineItemID)
        /\ Head(addItemSignalChan) \in issued \ charged
        /\ \A k \in 1..Len(Tail(addItemSignalChan)) :
             Tail(addItemSignalChan)[k] \in issued \ charged
    <3>1. 1 \in 1..Len(addItemSignalChan)
          /\ Head(addItemSignalChan) = addItemSignalChan[1]
          /\ Tail(addItemSignalChan) \in Seq(LineItemID)
      BY <1>0, <2>1
    <3> QED BY <2>3, <3>1 DEF OnceInv, Uncounted
  <2>5. CASE /\ Execute("AddLineItem", Head(addItemSignalChan))
             /\ addItemSignalChan' = Tail(addItemSignalChan)
    BY <2>2, <2>3, <2>4, <2>5
       DEF Execute, OnceInv, Uncounted, Inserting, CountedOnce, Distinct
  <2>6. CASE LoopAgain(Tail(addItemSignalChan), updateItemSignalChan, recurring)
    <3>1. Distinct(addItemSignalChan') /\ Uncounted(addItemSignalChan)' /\ ~Inserting'
      BY <2>2, <2>3, <2>4, <2>6, LoopAgainOnce
    <3> QED BY <2>2, <3>1 DEF OnceInv, CountedOnce
  <2> QED BY <1>1, <2>5, <2>6 DEF ReceiveAddLineItem
<1>2. CASE ReceiveRecurring
  <2>1. PICK f \in FeeID \ issued :
          /\ issued' = issued \cup {f}
          /\ pc' = "RecurringItem" /\ subject' = f
    BY <1>2 DEF ReceiveRecurring, Execute
  <2>2. /\ state'.Total = state.Total /\ ~Inserting
        /\ UNCHANGED <<item, charged, refunded, addItemSignalChan>>
    BY <1>0, <1>2, TurnReady
       DEF ReceiveRecurring, CountEvent, BillState, Inserting
  <2>3. Uncounted(addItemSignalChan)'
    BY <2>1, <2>2 DEF OnceInv, Uncounted
  <2> QED BY <2>1, <2>2, <2>3 DEF OnceInv, Distinct, CountedOnce
<1>3. CASE ReceiveUpdateLineItem
  <2>1. /\ state'.Total = state.Total /\ ~Inserting
        /\ UNCHANGED <<item, issued, charged, refunded>>
    BY <1>0, <1>3, TurnReady
       DEF ReceiveUpdateLineItem, CountEvent, BillState, Inserting
  <2>2. CASE /\ Execute("UpdateLineItem", Head(updateItemSignalChan))
             /\ UNCHANGED addItemSignalChan
    BY <2>1, <2>2, OnceFrame DEF Execute, Inserting, OnceInv
  <2>3. CASE LoopAgain(addItemSignalChan, Tail(updateItemSignalChan), recurring)
    <3>1. Distinct(addItemSignalChan') /\ Uncounted(addItemSignalChan)' /\ ~Inserting'
      BY <1>0, <2>1, <2>3, LoopAgainOnce DEF OnceInv, Uncounted
    <3> QED BY <2>1, <3>1 DEF OnceInv, CountedOnce
  <2> QED BY <1>3, <2>2, <2>3 DEF ReceiveUpdateLineItem
<1>4. CASE ReceiveCloseBill
  BY <1>4, OnceFrame DEF ReceiveCloseBill, Execute, Inserting, OnceInv
<1>5. CASE TimerFired
  BY <1>5, OnceFrame DEF TimerFired, Execute, Inserting, OnceInv
<1> QED BY <1>1, <1>2, <1>3, <1>4, <1>5 DEF ReceiveStep

\* The item just inserted joins the items counted.
LEMMA OnceInserted ==
  ASSUME TypeInv, OnceInv, Inserting, item' = InsertLineItem(subject),
         state' = [state EXCEPT !.Total = @ + Amount[subject]],
         charged' = charged \cup {subject}, UNCHANGED <<issued, refunded>>,
         NEW timer,
         LoopAgain(addItemSignalChan, updateItemSignalChan, timer)
  PROVE  OnceInv'
<1>1. /\ subject \in issued \ charged /\ subject \in LineItemID
      /\ charged \in SUBSET LineItemID
      /\ SumOf(charged) \in Int /\ SumOf(refunded) \in Int
      /\ Amount[subject] \in Int
  BY ItemAssumption, SumAssumption DEF OnceInv, TypeInv, TypeOK
<1>2. SumOf(charged') = SumOf(charged) + Amount[subject]
  BY <1>1, SumAssumption
<1>3. state'.Total = state.Total + Amount[subject] /\ state.Total \in Int
  BY DEF TypeInv, TypeOK, BillState
<1>4. CountedOnce'
  BY <1>1, <1>2, <1>3 DEF OnceInv, CountedOnce
<1>5. \A i \in refunded' : item'[i] = "VOIDED"
  <2> SUFFICES ASSUME NEW i \in refunded PROVE item'[i] = "VOIDED"
    OBVIOUS
  <2>1. i \in LineItemID /\ item[i] = "VOIDED"
    BY DEF OnceInv, TypeInv, TypeOK
  <2> QED BY <1>1, <2>1, VoidedStays DEF TypeInv
<1>6. \A k \in 1..Len(addItemSignalChan) :
        addItemSignalChan[k] \in issued' \ charged'
  BY DEF OnceInv, Uncounted
<1>7. Distinct(addItemSignalChan') /\ Uncounted(addItemSignalChan)' /\ ~Inserting'
  <2>1. addItemSignalChan \in Seq(LineItemID) /\ Distinct(addItemSignalChan)
    BY DEF OnceInv, TypeInv, TypeOK
  <2> QED BY <1>6, <2>1, LoopAgainOnce
<1> QED BY <1>1, <1>4, <1>5, <1>7 DEF OnceInv

LEMMA OnceActivity ==
  TypeInv /\ OnceInv /\ (ActivityStep \/ StartPostProcess) => OnceInv'
<1> SUFFICES ASSUME TypeInv, OnceInv, ActivityStep \/ StartPostProcess
             PROVE  OnceInv'
  OBVIOUS
<1> USE DEF db, run, chans, timers, clients, history
<1>0. /\ addItemSignalChan \in Seq(LineItemID) /\ Distinct(addItemSignalChan)
      /\ \A k \in 1..Len(addItemSignalChan) :
           addItemSignalChan[k] \in issued \ charged
  BY DEF OnceInv, Uncounted, TypeInv, TypeOK
<1>1. CASE CreateBillDone
  BY <1>1, OnceFrame DEF CreateBillDone, Inserting, OnceInv
<1>2. CASE AddLineItemDone
  BY <1>2, OnceInserted DEF AddLineItemDone, Inserting
<1>3. CASE RecurringItemDone
  BY <1>3, OnceInserted DEF RecurringItemDone, Inserting
<1>4. CASE UpdateLineItemDone
  <2>1. /\ LoopAgain(addItemSignalChan, updateItemSignalChan, recurring)
        /\ UNCHANGED <<issued, charged>>
        /\ subject \in LineItemID
    BY <1>4 DEF UpdateLineItemDone, TypeInv, LoopActivities
  <2>2. Distinct(addItemSignalChan') /\ Uncounted(addItemSignalChan)' /\ ~Inserting'
    BY <1>0, <2>1, LoopAgainOnce
  <2>3. CASE Voidable(subject)
    <3>1. /\ item' = VoidLineItem(subject) /\ item[subject] = "ACTIVE"
          /\ state' = [state EXCEPT !.Total = @ - Amount[subject]]
          /\ refunded' = refunded \cup {subject}
      BY <1>4, <2>3 DEF UpdateLineItemDone, Voidable
    <3>2. subject \notin refunded
      BY <3>1 DEF OnceInv
    <3>3. \A i \in refunded' : item'[i] = "VOIDED"
      <4>1. item'[subject] = "VOIDED"
        BY <2>1, <2>3, <3>1 DEF VoidLineItem, TypeInv, TypeOK, ItemRows
      <4>2. \A i \in refunded : i \in LineItemID /\ item[i] = "VOIDED"
        BY DEF OnceInv, TypeInv, TypeOK
      <4> QED BY <2>1, <3>1, <4>1, <4>2, VoidedStays DEF TypeInv
    <3>4. /\ refunded \in SUBSET LineItemID /\ Amount[subject] \in Int
          /\ SumOf(refunded) \in Int /\ SumOf(charged) \in Int
      BY <2>1, ItemAssumption, SumAssumption DEF TypeInv, TypeOK
    <3>5. SumOf(refunded') = SumOf(refunded) + Amount[subject]
      BY <2>1, <3>1, <3>2, <3>4, SumAssumption
    <3>6. state'.Total = state.Total - Amount[subject] /\ state.Total \in Int
      BY <3>1 DEF TypeInv, TypeOK, BillState
    <3>7. CountedOnce'
      BY <2>1, <3>4, <3>5, <3>6 DEF OnceInv, CountedOnce
    <3> QED BY <2>1, <2>2, <3>3, <3>7 DEF OnceInv
  <2>4. CASE ~Voidable(subject)
    <3>1. UNCHANGED <<item, state, refunded>>
      BY <1>4, <2>4 DEF UpdateLineItemDone
    <3> QED BY <2>1, <2>2, <3>1 DEF OnceInv, CountedOnce
  <2> QED BY <2>3, <2>4
<1>5. CASE CloseBillFromStateDone
  BY <1>5, OnceFrame DEF CloseBillFromStateDone, Execute, Inserting, OnceInv
<1>6. CASE GetBillDetailDone
  BY <1>6, OnceFrame DEF GetBillDetailDone, Inserting, OnceInv
<1>7. CASE Retry
  BY <1>7, OnceFrame DEF Retry, OnceInv
<1>8. CASE GiveUp
  <2>1. /\ state' = state
        /\ UNCHANGED <<item, issued, charged, refunded>>
    BY <1>8 DEF GiveUp
  <2>2. CASE LoopAgain(addItemSignalChan, updateItemSignalChan, recurring)
    <3>1. Distinct(addItemSignalChan') /\ Uncounted(addItemSignalChan)' /\ ~Inserting'
      BY <1>0, <2>1, <2>2, LoopAgainOnce
    <3> QED BY <2>1, <3>1 DEF OnceInv, CountedOnce
  <2>3. CASE pc' = "Failed" /\ UNCHANGED chans
    BY <2>1, <2>3, OnceFrame DEF Inserting, OnceInv
  <2> QED BY <1>8, <2>2, <2>3 DEF GiveUp
<1>9. CASE StartPostProcess
  BY <1>9, OnceFrame DEF StartPostProcess, Inserting, OnceInv
<1> QED BY <1>1, <1>2, <1>3, <1>4, <1>5, <1>6, <1>7, <1>8, <1>9 DEF ActivityStep

LEMMA OnceNext == TypeInv /\ OnceInv /\ [Next]_vars => OnceInv'
<1> SUFFICES ASSUME TypeInv, OnceInv, [Next]_vars PROVE OnceInv'
  OBVIOUS
<1>1. CASE RunStep
  BY <1>1, OnceReceive, OnceActivity DEF RunStep
<1>2. CASE ApiStep \/ PeriodEnds \/ RecurringTimerFires \/ LateCommit
  BY <1>2, OnceRequests
<1>3. CASE Finished \/ UNCHANGED vars
  <2>1. UNCHANGED vars
    BY <1>3 DEF Finished
  <2> QED BY <2>1, OnceFrame
          DEF OnceInv, vars, db, run, chans, timers, clients, history
<1> QED BY <1>1, <1>2, <1>3 DEF Next

\* The total kept in memory never counts an item twice, whichever activities
\* are retried, given up or committed late, in any order of the selector and
\* across runs that continue as new.
THEOREM ItemsCountedOnce == Spec => []CountedOnce
<1>1. TypeInv /\ OnceInv => CountedOnce
  BY DEF OnceInv
<1> QED
  BY <1>1, TypeInvInit, TypeInvNext, OnceInit, OnceNext, PTL DEF Spec
=============================================================================
