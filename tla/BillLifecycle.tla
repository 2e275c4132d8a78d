---------------------------- MODULE BillLifecycle ----------------------------
(***************************************************************************)
(* One bill of the fees service: the long-running BillLifecycleWorkflow,   *)
(* the API requests that signal it, the activities it executes and the two *)
(* tables those activities write.                                          *)
(*                                                                         *)
(* The workflow is single-threaded: it selects one ready case, runs the    *)
(* case's handler, which may block on one activity, and selects again.     *)
(* Requests, the two timers and statements still running in the database   *)
(* interleave with it at every point where it blocks.                      *)
(*                                                                         *)
(* An activity attempt that times out or loses its reply leaves its        *)
(* statement behind: `late' holds the statements the database may still    *)
(* commit, at any moment or never, while the workflow retries or gives up. *)
(*                                                                         *)
(* Four variables are history: they record what was counted, what a fault  *)
(* lost and what was accepted in time, and no step depends on them.        *)
(***************************************************************************)
EXTENDS Integers, Sequences, FiniteSets

CONSTANTS
  LineItemID,                   \* the line item uuids that may be drawn
  FeeID,                        \* those drawn by HandleRecurringItem
  Amount,                       \* the amount charged under each uuid
  SumOf(_),                     \* the sum of the amounts of a set of uuids
  Policy,                       \* "USAGE_BASED" or "SUBSCRIPTION"
  ContinueAsNewEventThreshold,
  maxRetryAttempt,
  Closer, Voider,               \* close and void requests
  NoItem,                       \* no line item is being handled
  Lossy,                        \* activities whose attempts may be retried
  GivesUp,                      \* activities that may fail for good
  OrderedSelect                 \* Select keeps to an order, as the Go SDK's does

Policies == {"USAGE_BASED", "SUBSCRIPTION"}

\* The places where the event loop blocks on an activity, and all activities.
LoopActivities == {"AddLineItem", "RecurringItem", "UpdateLineItem"}
Activities ==
  LoopActivities \cup {"CreateBill", "CloseBillFromState", "GetBillDetail"}

\* uuids are distinct and every amount is positive: the API refuses the rest.
ASSUME ItemAssumption ==
  /\ IsFiniteSet(LineItemID)
  /\ NoItem \notin LineItemID
  /\ FeeID \subseteq LineItemID
  /\ Amount \in [LineItemID -> Nat \ {0}]

\* Every recurring fee of a bill has the one amount its policy was given.
ASSUME FeeAssumption == \A f, g \in FeeID : Amount[f] = Amount[g]

ASSUME SumAssumption ==
  /\ SumOf({}) = 0
  /\ \A S \in SUBSET LineItemID :
       /\ SumOf(S) \in Int
       /\ \A i \in LineItemID \ S : SumOf(S \cup {i}) = SumOf(S) + Amount[i]

ASSUME WorkflowAssumption ==
  /\ Policy \in Policies
  /\ Policy = "USAGE_BASED" => FeeID = {}
  /\ ContinueAsNewEventThreshold \in Nat \ {0}
  /\ maxRetryAttempt \in Nat \ {0}
  /\ Lossy \subseteq Activities
  /\ GivesUp \subseteq Activities
  /\ OrderedSelect \in BOOLEAN

VARIABLES
  bill, item,                   \* tables bills and line_items
  late,                         \* statements the database may still commit
  pc, subject, attempt,         \* where the workflow is, and on what
  woken,                        \* the case whose event found Select blocked
  state,                        \* BillState: Total and EventCount
  addItemSignalChan, updateItemSignalChan, closeChan,
  recurring,                    \* RecurringFeeTimerFuture
  periodOver,                   \* BillingPeriodEnd has passed
  child,                        \* the post-process workflow
  issued,                       \* uuids drawn so far
  voider, closer,               \* progress of the requests
  charged, refunded,            \* items added to, taken from, state.Total
  lost,                         \* inserts given up, voids without a reply
  fires, owed                   \* intervals elapsed; owed when closing began

db      == <<bill, item, late>>
run     == <<pc, subject, attempt, state>>
chans   == <<addItemSignalChan, updateItemSignalChan, closeChan>>
timers  == <<recurring, periodOver>>
clients == <<issued, voider, closer>>
history == <<charged, refunded, lost, fires, owed>>
vars == <<db, run, woken, chans, timers, child, clients, history>>

\* Mutant: closeChan is added to the selector first
SelectorOrderCloseFirst ==
  [close |-> 1, add |-> 2, recurring |-> 3, update |-> 4, timer |-> 5]

\* The cases in the order the loop adds them to the selector.
SelectorOrder ==
  [add |-> 1, recurring |-> 2, update |-> 3, close |-> 4, timer |-> 5]

Ready == [add       |-> addItemSignalChan # <<>>,
          recurring |-> recurring = "due",
          update    |-> updateItemSignalChan # <<>>,
          close     |-> closeChan > 0,
          timer     |-> periodOver]

RunOpen == pc \notin {"Completed", "Failed"}
InLoop  == pc \in LoopActivities \cup {"Select"}
Recorded  == {i \in LineItemID : item[i] # "absent"}
Active    == {i \in LineItemID : item[i] = "ACTIVE"}
Voided    == {i \in LineItemID : item[i] = "VOIDED"}

BillRow  == [status : {"absent", "OPEN", "CLOSED"}, total : Int]
ItemRows == [LineItemID -> {"absent", "ACTIVE", "VOIDED"}]
LateStatements == [create : BOOLEAN, insert : SUBSET LineItemID,
                   void : SUBSET LineItemID, close : SUBSET Int]
BillState == [Total : Int, EventCount : Nat]
Losses == [insert : SUBSET LineItemID, void : SUBSET LineItemID]
Debt   == [items : SUBSET LineItemID, fees : Nat]
VoidRequest == [stage : {"idle", "checked", "done"},
                item : LineItemID \cup {NoItem}]

TypeOK ==
  /\ bill \in BillRow
  /\ item \in ItemRows
  /\ late \in LateStatements
  /\ pc \in Activities \cup {"Select", "StartPostProcess", "Completed", "Failed"}
  /\ subject \in LineItemID \cup {NoItem}
  /\ attempt \in 0..maxRetryAttempt
  /\ woken \in {"none"} \cup DOMAIN SelectorOrder
  /\ state \in BillState
  /\ addItemSignalChan \in Seq(LineItemID)
  /\ updateItemSignalChan \in Seq(LineItemID)
  /\ closeChan \in Nat
  /\ recurring \in {"off", "armed", "due"}
  /\ periodOver \in BOOLEAN
  /\ child \in {"none", "started", "refused"}
  /\ issued \in SUBSET LineItemID
  /\ voider \in [Voider -> VoidRequest]
  /\ closer \in [Closer -> {"idle", "waiting", "answered", "failed"}]
  /\ charged \in SUBSET LineItemID
  /\ refunded \in SUBSET LineItemID
  /\ lost \in Losses
  /\ fires \in Nat
  /\ owed \in Debt

\* NewBillingPolicy arms the recurring timer of a subscription only.
NewBillingPolicy == IF Policy = "SUBSCRIPTION" THEN "armed" ELSE "off"

\* The run has just started: the policy is built and CreateBill is scheduled.
Init ==
  /\ bill = [status |-> "absent", total |-> 0]
  /\ item = [i \in LineItemID |-> "absent"]
  /\ late = [create |-> FALSE, insert |-> {}, void |-> {}, close |-> {}]
  /\ pc = "CreateBill" /\ subject = NoItem /\ attempt = 1
  /\ woken = "none"
  /\ state = [Total |-> 0, EventCount |-> 0]
  /\ addItemSignalChan = <<>> /\ updateItemSignalChan = <<>> /\ closeChan = 0
  /\ recurring = NewBillingPolicy
  /\ periodOver = FALSE
  /\ child = "none"
  /\ issued = {}
  /\ voider = [v \in Voider |-> [stage |-> "idle", item |-> NoItem]]
  /\ closer = [c \in Closer |-> "idle"]
  /\ charged = {} /\ refunded = {}
  /\ lost = [insert |-> {}, void |-> {}]
  /\ fires = 0
  /\ owed = [items |-> {}, fees |-> 0]
-----------------------------------------------------------------------------
(***************************************************************************)
(* The statements of the database: the new value of the row they touch.    *)
(***************************************************************************)
\* INSERT ... ON CONFLICT (bill_id) DO NOTHING
InsertBill ==
  IF bill.status = "absent" THEN [bill EXCEPT !.status = "OPEN"] ELSE bill

\* Mutant: ON CONFLICT (line_item_id) DO UPDATE SET status = 'ACTIVE'
InsertLineItemUpsert(i) == [item EXCEPT ![i] = "ACTIVE"]

\* INSERT ... ON CONFLICT (line_item_id) DO NOTHING; new rows are ACTIVE
InsertLineItem(i) ==
  [item EXCEPT ![i] = IF @ = "absent" THEN "ACTIVE" ELSE @]

\* Mutant: AND li.status = 'ACTIVE' is dropped
VoidableAgain(i) == item[i] # "absent"

\* UPDATE ... WHERE li.line_item_id AND li.status = 'ACTIVE' RETURNING li.amount
Voidable(i) == item[i] = "ACTIVE"
VoidLineItem(i) == [item EXCEPT ![i] = IF Voidable(i) THEN "VOIDED" ELSE @]

\* UPDATE bills SET status, total_amount WHERE bill_id, whatever the status
UpdateBillClosed(t) ==
  IF bill.status = "absent" THEN bill ELSE [status |-> "CLOSED", total |-> t]

\* The statements left behind by an attempt whose outcome the worker never saw.
Abandoned ==
  CASE pc = "CreateBill" -> [late EXCEPT !.create = TRUE]
    [] pc \in {"AddLineItem", "RecurringItem"} ->
         [late EXCEPT !.insert = @ \cup {subject}]
    [] pc = "UpdateLineItem" -> [late EXCEPT !.void = @ \cup {subject}]
    [] pc = "CloseBillFromState" ->
         [late EXCEPT !.close = @ \cup {state.Total}]
    [] OTHER -> late

\* What the outcome the workflow does not see may have done to the rows.
LostInsert == [lost EXCEPT !.insert = @ \cup {subject}]
LostVoid   == [lost EXCEPT !.void = @ \cup {subject}]

LateCommit ==
  /\ \/ /\ late.create
        /\ bill' = InsertBill
        /\ late' = [late EXCEPT !.create = FALSE]
        /\ UNCHANGED item
     \/ \E i \in late.insert :
          /\ item' = InsertLineItem(i)
          /\ late' = [late EXCEPT !.insert = @ \ {i}]
          /\ UNCHANGED bill
     \/ \E i \in late.void :
          /\ item' = VoidLineItem(i)
          /\ late' = [late EXCEPT !.void = @ \ {i}]
          /\ UNCHANGED bill
     \/ \E t \in late.close :
          /\ bill' = UpdateBillClosed(t)
          /\ late' = [late EXCEPT !.close = @ \ {t}]
          /\ UNCHANGED item
  /\ UNCHANGED <<run, woken, chans, timers, child, clients, history>>
-----------------------------------------------------------------------------
(***************************************************************************)
(* The API. A signal to a workflow that is not running is answered         *)
(* "bill not found or already closed" and changes nothing, so only the     *)
(* accepted requests are steps.                                            *)
(***************************************************************************)
\* What the bill owes by what was accepted and elapsed until now, fixed once
\* closing has begun.
Owed ==
  IF periodOver \/ \E c \in Closer : closer[c] # "idle"
  THEN owed ELSE [items |-> issued \ FeeID, fees |-> fires]

\* An event of case k. A Select that is already blocked takes the first event
\* that reaches it, whatever follows in the same workflow task; one that has
\* yet to be called will find this event among all that is ready by then.
Arrives(k) ==
  woken' \in IF OrderedSelect /\ pc = "Select" /\ ~\E j \in DOMAIN Ready : Ready[j]
             THEN {"none", k} ELSE {woken}

ApiAddLineItem(i) ==
  /\ RunOpen
  /\ i \notin FeeID \cup issued
  /\ issued' = issued \cup {i}
  /\ addItemSignalChan' = Append(addItemSignalChan, i)
  /\ Arrives("add")
  /\ UNCHANGED <<db, run, updateItemSignalChan, closeChan, timers, child,
                 voider, closer, history>>

\* SELECT EXISTS ... AND status = 'ACTIVE', before any signal.
IsLineItemExists(i) == item[i] = "ACTIVE"

ApiVoidCheck(v, i) ==
  /\ voider[v].stage = "idle"
  /\ IsLineItemExists(i)
  /\ voider' = [voider EXCEPT ![v] = [stage |-> "checked", item |-> i]]
  /\ UNCHANGED <<db, run, woken, chans, timers, child, issued, closer, history>>

\* The signal is sent whatever became of the row since; it may be too late.
ApiVoidSignal(v) ==
  /\ voider[v].stage = "checked"
  /\ voider' = [voider EXCEPT ![v].stage = "done"]
  /\ \/ /\ RunOpen
        /\ updateItemSignalChan' = Append(updateItemSignalChan, voider[v].item)
        /\ Arrives("update")
     \/ ~RunOpen /\ UNCHANGED <<updateItemSignalChan, woken>>
  /\ UNCHANGED <<db, run, addItemSignalChan, closeChan, timers, child,
                 issued, closer, history>>

ApiCloseBill(c) ==
  /\ RunOpen
  /\ closer[c] = "idle"
  /\ closer' = [closer EXCEPT ![c] = "waiting"]
  /\ closeChan' = closeChan + 1
  /\ Arrives("close")
  /\ owed' = Owed
  /\ UNCHANGED <<db, run, addItemSignalChan, updateItemSignalChan, timers,
                 child, issued, voider, charged, refunded, lost, fires>>

\* Mutant: the error of a failed run is never returned
ApiCloseBillReturnResult(c) ==
  /\ closer[c] = "waiting" /\ pc = "Completed"
  /\ closer' = [closer EXCEPT ![c] = "answered"]
  /\ UNCHANGED <<db, run, woken, chans, timers, child, issued, voider, history>>

\* The request waits for the result of the last run of the chain.
ApiCloseBillReturn(c) ==
  /\ closer[c] = "waiting"
  /\ ~RunOpen
  /\ closer' = [closer EXCEPT ![c] = IF pc = "Completed" THEN "answered"
                                                        ELSE "failed"]
  /\ UNCHANGED <<db, run, woken, chans, timers, child, issued, voider, history>>
-----------------------------------------------------------------------------
(***************************************************************************)
(* Time. Both timers fire only once the run is blocked; what happens after *)
(* the loop is left no longer depends on them.                             *)
(***************************************************************************)
PeriodEnds ==
  /\ ~periodOver
  /\ InLoop \/ pc = "CreateBill"
  /\ periodOver' = TRUE
  /\ Arrives("timer")
  /\ owed' = Owed
  /\ UNCHANGED <<db, run, chans, recurring, child, clients,
                 charged, refunded, lost, fires>>

\* Bound: an interval elapses only while a uuid is left for its fee.
RecurringTimerFires ==
  /\ recurring = "armed"
  /\ InLoop \/ pc = "CreateBill"
  /\ FeeID \ issued # {}
  /\ recurring' = "due"
  /\ fires' = fires + 1
  /\ Arrives("recurring")
  /\ UNCHANGED <<db, run, chans, periodOver, child, clients,
                 charged, refunded, lost, owed>>
-----------------------------------------------------------------------------
(***************************************************************************)
(* The event loop.                                                         *)
(***************************************************************************)
\* Select runs one ready case: the one that found it blocked or else, of those
\* that are ready when it is called, the first one added. Or an arbitrary one.
Turn(k) ==
  /\ pc = "Select"
  /\ Ready[k]
  /\ OrderedSelect => \/ woken = k
                      \/ /\ woken = "none"
                         /\ \A j \in DOMAIN SelectorOrder :
                              SelectorOrder[j] < SelectorOrder[k] => ~Ready[j]

Execute(activity, i) ==
  /\ pc' = activity
  /\ subject' = i
  /\ attempt' = 1
  /\ woken' = "none"

\* The handler has returned and the loop was not left. At the threshold the
\* run continues as new: state and billing period are carried over, but the
\* policy is built afresh and signals still in the channels stay behind.
LoopAgain(add, update, timer) ==
  /\ pc' = "Select" /\ subject' = NoItem /\ attempt' = 0 /\ woken' = "none"
  /\ IF state'.EventCount < ContinueAsNewEventThreshold
     THEN /\ addItemSignalChan' = add
          /\ updateItemSignalChan' = update
          /\ closeChan' = closeChan
          /\ recurring' = timer
     ELSE /\ addItemSignalChan' = <<>>
          /\ updateItemSignalChan' = <<>>
          /\ closeChan' = 0
          /\ recurring' = NewBillingPolicy

CountEvent == state' = [state EXCEPT !.EventCount = @ + 1]

ReceiveAddLineItem ==
  /\ Turn("add")
  /\ CountEvent
  /\ \/ /\ Policy = "USAGE_BASED"
        /\ Execute("AddLineItem", Head(addItemSignalChan))
        /\ addItemSignalChan' = Tail(addItemSignalChan)
        /\ UNCHANGED <<updateItemSignalChan, closeChan, recurring>>
     \/ /\ Policy = "SUBSCRIPTION"           \* refused, but counted
        /\ LoopAgain(Tail(addItemSignalChan), updateItemSignalChan, recurring)
  /\ UNCHANGED <<db, periodOver, child, clients, history>>

\* A fresh uuid each time, also when the fee is tried again.
ReceiveRecurring ==
  /\ Turn("recurring")
  /\ CountEvent
  /\ \E f \in FeeID \ issued :
       /\ issued' = issued \cup {f}
       /\ Execute("RecurringItem", f)
  /\ UNCHANGED <<db, chans, timers, child, voider, closer, history>>

ReceiveUpdateLineItem ==
  /\ Turn("update")
  /\ CountEvent
  /\ \/ /\ Policy = "USAGE_BASED"
        /\ Execute("UpdateLineItem", Head(updateItemSignalChan))
        /\ updateItemSignalChan' = Tail(updateItemSignalChan)
        /\ UNCHANGED <<addItemSignalChan, closeChan, recurring>>
     \/ /\ Policy = "SUBSCRIPTION"
        /\ LoopAgain(addItemSignalChan, Tail(updateItemSignalChan), recurring)
  /\ UNCHANGED <<db, periodOver, child, clients, history>>

ReceiveCloseBill ==
  /\ Turn("close")
  /\ closeChan' = closeChan - 1
  /\ Execute("CloseBillFromState", NoItem)
  /\ UNCHANGED <<db, state, addItemSignalChan, updateItemSignalChan, timers,
                 child, clients, history>>

\* Mutant: OnTimerFired answers false and the loop goes on
TimerIgnored ==
  /\ Turn("timer")
  /\ state' = state
  /\ LoopAgain(addItemSignalChan, updateItemSignalChan, recurring)
  /\ UNCHANGED <<db, periodOver, child, clients, history>>

TimerFired ==
  /\ Turn("timer")
  /\ Execute("CloseBillFromState", NoItem)
  /\ UNCHANGED <<db, state, chans, timers, child, clients, history>>
-----------------------------------------------------------------------------
(***************************************************************************)
(* The activities: the attempt whose reply reaches the workflow.           *)
(***************************************************************************)
CreateBillDone ==
  /\ pc = "CreateBill"
  /\ bill' = InsertBill
  /\ pc' = "Select" /\ subject' = NoItem /\ attempt' = 0
  /\ UNCHANGED <<item, late, state, woken, chans, timers, child, clients, history>>

AddLineItemDone ==
  /\ pc = "AddLineItem"
  /\ item' = InsertLineItem(subject)
  /\ state' = [state EXCEPT !.Total = @ + Amount[subject]]
  /\ charged' = charged \cup {subject}
  /\ LoopAgain(addItemSignalChan, updateItemSignalChan, recurring)
  /\ UNCHANGED <<bill, late, periodOver, child, clients, refunded, lost, fires, owed>>

\* Mutant: the fee's timer is not started again and stays ready
RecurringItemDoneNotRenewed ==
  /\ pc = "RecurringItem"
  /\ item' = InsertLineItem(subject)
  /\ state' = [state EXCEPT !.Total = @ + Amount[subject]]
  /\ charged' = charged \cup {subject}
  /\ LoopAgain(addItemSignalChan, updateItemSignalChan, recurring)
  /\ UNCHANGED <<bill, late, periodOver, child, clients, refunded, lost, fires, owed>>

\* Only now is the next interval's timer started.
RecurringItemDone ==
  /\ pc = "RecurringItem"
  /\ item' = InsertLineItem(subject)
  /\ state' = [state EXCEPT !.Total = @ + Amount[subject]]
  /\ charged' = charged \cup {subject}
  /\ LoopAgain(addItemSignalChan, updateItemSignalChan, "armed")
  /\ UNCHANGED <<bill, late, periodOver, child, clients, refunded, lost, fires, owed>>

\* Mutant: the amount of the row that was voided is not taken off the total
UpdateLineItemDoneUncounted ==
  /\ pc = "UpdateLineItem"
  /\ item' = IF Voidable(subject) THEN VoidLineItem(subject) ELSE item
  /\ state' = state
  /\ LoopAgain(addItemSignalChan, updateItemSignalChan, recurring)
  /\ UNCHANGED <<bill, late, periodOver, child, clients, history>>

UpdateLineItemDone ==
  /\ pc = "UpdateLineItem"
  /\ \/ /\ Voidable(subject)
        /\ item' = VoidLineItem(subject)
        /\ state' = [state EXCEPT !.Total = @ - Amount[subject]]
        /\ refunded' = refunded \cup {subject}
     \/ /\ ~Voidable(subject)                \* NotFound is not retried
        /\ UNCHANGED <<item, state, refunded>>
  /\ LoopAgain(addItemSignalChan, updateItemSignalChan, recurring)
  /\ UNCHANGED <<bill, late, periodOver, child, clients, charged, lost, fires, owed>>

CloseBillFromStateDone ==
  /\ pc = "CloseBillFromState"
  /\ bill' = UpdateBillClosed(state.Total)
  /\ Execute("GetBillDetail", NoItem)
  /\ UNCHANGED <<item, late, state, chans, timers, child, clients, history>>

\* Mutant: TotalAmount > 1
GetBillDetailDoneAboveOne ==
  /\ pc = "GetBillDetail"
  /\ pc' = IF bill.total > 1 THEN "StartPostProcess" ELSE "Completed"
  /\ subject' = NoItem /\ attempt' = 0
  /\ UNCHANGED <<db, state, woken, chans, timers, child, clients, history>>

\* A bill with nothing to pay is not post-processed.
GetBillDetailDone ==
  /\ pc = "GetBillDetail"
  /\ pc' = IF bill.total > 0 THEN "StartPostProcess" ELSE "Completed"
  /\ subject' = NoItem /\ attempt' = 0
  /\ UNCHANGED <<db, state, woken, chans, timers, child, clients, history>>

\* A child that cannot be started is logged; the run completes all the same.
StartPostProcess ==
  /\ pc = "StartPostProcess"
  /\ child' \in {"started", "refused"}
  /\ pc' = "Completed"
  /\ UNCHANGED <<db, subject, attempt, state, woken, chans, timers, clients, history>>

\* Mutant: MaximumAttempts is not set
RetryForever ==
  /\ pc \in Lossy
  /\ attempt' = attempt + 1
  /\ late' = Abandoned
  /\ lost' = IF pc = "UpdateLineItem" THEN LostVoid ELSE lost
  /\ UNCHANGED <<bill, item, pc, subject, state, woken, chans, timers, child,
                 clients, charged, refunded, fires, owed>>

Retry ==
  /\ pc \in Lossy
  /\ attempt < maxRetryAttempt
  /\ attempt' = attempt + 1
  /\ late' = Abandoned
  /\ lost' = IF pc = "UpdateLineItem" THEN LostVoid ELSE lost
  /\ UNCHANGED <<bill, item, pc, subject, state, woken, chans, timers, child,
                 clients, charged, refunded, fires, owed>>

\* UpdateLineItem turns every error of the database into one that is not
\* retried. The fee of an activity that gave up stays due.
\* Bound: a fee is given up only while a uuid is left for the next try.
GiveUp ==
  /\ pc \in GivesUp
  /\ attempt = maxRetryAttempt \/ pc = "UpdateLineItem"
  /\ late' = Abandoned
  /\ \/ /\ pc \in LoopActivities
        /\ pc = "RecurringItem" => FeeID \ issued # {}
        /\ state' = state
        /\ lost' = IF pc = "UpdateLineItem" THEN LostVoid ELSE LostInsert
        /\ LoopAgain(addItemSignalChan, updateItemSignalChan, recurring)
     \/ /\ pc \notin LoopActivities
        /\ pc' = "Failed" /\ subject' = NoItem /\ attempt' = 0
        /\ UNCHANGED <<state, lost, woken, chans, recurring>>
  /\ UNCHANGED <<bill, item, periodOver, child, clients,
                 charged, refunded, fires, owed>>

\* The run is over and stays over.
Finished == ~RunOpen /\ UNCHANGED vars
-----------------------------------------------------------------------------
ReceiveStep ==
  \/ ReceiveAddLineItem \/ ReceiveRecurring \/ ReceiveUpdateLineItem
  \/ ReceiveCloseBill \/ TimerFired

ActivityStep ==
  \/ CreateBillDone \/ AddLineItemDone \/ RecurringItemDone
  \/ UpdateLineItemDone \/ CloseBillFromStateDone \/ GetBillDetailDone
  \/ Retry \/ GiveUp

RunStep == ReceiveStep \/ ActivityStep \/ StartPostProcess

ApiStep ==
  \/ \E i \in LineItemID : ApiAddLineItem(i)
  \/ \E v \in Voider : ApiVoidSignal(v) \/ \E i \in LineItemID : ApiVoidCheck(v, i)
  \/ \E c \in Closer : ApiCloseBill(c) \/ ApiCloseBillReturn(c)

Next ==
  RunStep \/ ApiStep \/ PeriodEnds \/ RecurringTimerFires \/ LateCommit \/ Finished

Spec == Init /\ [][Next]_vars

\* Temporal keeps scheduling the workflow and its activities, its period timer
\* fires, and a request that waits for a finished run is answered. Nobody is
\* bound to send a request, and a statement left behind may never commit.
FairSpec ==
  /\ Spec
  /\ WF_vars(RunStep)
  /\ WF_vars(PeriodEnds)
  /\ \A c \in Closer : WF_vars(ApiCloseBillReturn(c))
-----------------------------------------------------------------------------
(***************************************************************************)
(* What must hold.                                                         *)
(***************************************************************************)
\* The activities whose failures a bill's ledger does not survive: an insert
\* given up may have committed, and a void whose reply is lost is answered
\* NotFound when it is tried again.
Reliable ==
  /\ GivesUp \cap LoopActivities = {}
  /\ "UpdateLineItem" \notin Lossy

\* The row being inserted may be in the table before it is in the total.
BeingAdded ==
  IF pc \in {"AddLineItem", "RecurringItem"} THEN {subject} ELSE {}

\* state.Total counts every item once: whatever attempts are lost, repeated or
\* given up, no signal, retry or continued run adds an item or takes it off a
\* second time (state.Total += and -= in the loop's handlers).
CountedOnce == state.Total = SumOf(charged) - SumOf(refunded)

\* A difference between the total and the rows comes from a fault: every row the
\* total lacks is of an insert that was given up (lost.insert), every VOIDED row it
\* still has is of a void whose reply was never seen (lost.void), and the total
\* persisted by CloseBill is the one in memory. An add or a void that was answered
\* is counted, in any order of requests, late statements and continued runs.
DifferenceIsAccountedFor ==
  /\ \E V \in SUBSET (lost.void \cap Voided) :
       state.Total + SumOf(lost.insert \cap Recorded)
         = SumOf(Active \ BeingAdded) + SumOf(V)
  /\ bill.status = "CLOSED" => bill.total = state.Total

\* The total kept in memory and the rows of line_items, written by different
\* steps, agree whenever no insert is under way, and the total persisted by
\* CloseBill is that of the rows for good. Holds when Reliable.
LedgerAgrees ==
  /\ state.Total = SumOf(Active \ BeingAdded)
  /\ bill.status = "CLOSED" => bill.total = SumOf(Active)

\* Every item whose request was accepted before a close request was, and
\* before the period ended, is on the closed bill: the selector serves the add
\* channel before it closes. Holds when no insert is given up and the run does
\* not continue as new.
OwedIsRecorded == bill.status = "CLOSED" => owed.items \subseteq Recorded

ItemsAdvance ==
  \A i \in LineItemID :
    item'[i] = item[i] \/ <<item[i], item'[i]>> \in
      {<<"absent", "ACTIVE">>, <<"ACTIVE", "VOIDED">>}

BillAdvances ==
  bill' = bill \/ <<bill.status, bill'.status>> \in
    {<<"absent", "OPEN">>, <<"OPEN", "CLOSED">>}

\* A row of line_items and the bill's own row only move forward, and the bill
\* is frozen once it is closed, also under statements that commit after the
\* attempt that sent them was abandoned.
RecordsOnlyAdvance == [][ItemsAdvance /\ BillAdvances]_vars

\* A closed subscription has paid one fee for every interval that elapsed before a
\* close request was accepted and before the period ended, and owes at most one for
\* an interval that elapsed after that: the event that closes the bill may have found
\* Select blocked before the fee's timer fired. Holds when no fee is given up and
\* the run does not continue as new.
EveryIntervalCharged ==
  LET paid == Cardinality(Recorded \cap FeeID)
  IN  bill.status = "CLOSED" => owed.fees <= paid /\ fires <= paid + 1

\* A run that closed a bill with something to pay has asked for its
\* post-processing. Holds when the bill's detail can be read in the end.
ClosedBillIsInvoiced ==
  ~RunOpen /\ bill.status = "CLOSED" /\ bill.total > 0 => child # "none"

\* Every run ends, at the latest by the timer of its billing period.
EveryRunEnds == <>~RunOpen

\* How much a run has before it: what waits in its channels, a fee that is due,
\* and the points it still has to pass.
FeeAhead == IF recurring = "due" /\ pc # "RecurringItem" THEN 1 ELSE 0

Waits == Len(addItemSignalChan) + Len(updateItemSignalChan) + closeChan + FeeAhead

Stage == CASE pc \in LoopActivities \cup {"CreateBill"} -> 5
           [] pc = "Select"             -> 4
           [] pc = "CloseBillFromState" -> 3
           [] pc = "GetBillDetail"      -> 2
           [] pc = "StartPostProcess"   -> 1
           [] OTHER                     -> 0

Ahead == 2 * Waits + Stage

\* The workflow never spins: each of its steps leaves it less to do, or is one more
\* of the few attempts of an activity, so that between two signals or timers it takes
\* a bounded number of steps (the loop, the retries and continue-as-new together).
\* Holds when no fee is given up: it would stay due.
RunMakesProgress ==
  [][RunStep => \/ Ahead' < Ahead
                \/ Ahead' = Ahead /\ attempt < attempt' /\ attempt' <= maxRetryAttempt]_vars

\* An accepted close request is answered, whichever way the run ends.
CloseIsAnswered ==
  \A c \in Closer : closer[c] = "waiting" ~> closer[c] \in {"answered", "failed"}

\* Promised of requests: the item of an accepted add request is in the table
\* once the bill's run has ended.
AcceptedIsRecorded ==
  pc = "Completed" => issued \ FeeID \subseteq Recorded

\* Promised of voids: when the workflow is back in its loop, the amount of
\* every item voided in the table has left the total. Holds when no void loses its
\* reply or is given up.
VoidedIsRefunded == pc = "Select" => Voided \subseteq refunded

\* Promised of close requests: a close signal leaves its channel only to make
\* the workflow close the bill.
CloseSignalCloses ==
  [][closeChan' < closeChan => pc' = "CloseBillFromState"]_vars

\* Promised of retries: whatever is retried, an interval is charged once. Holds when
\* no fee is given up.
OneFeePerInterval == Cardinality(Recorded \cap FeeID) <= fires

\* The workflow, its activities and the tables implement the bill's ledger.
Ledger == INSTANCE BillLedger WITH
            status <- bill.status, billed <- bill.total,
            active <- Active, voided <- Voided

ImplementsLedger == Ledger!Spec

\* ... and an open bill is closed in the end. Holds when nothing is given up.
ImplementsFairLedger == Ledger!FairSpec
=============================================================================
