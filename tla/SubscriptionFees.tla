--------------------------- MODULE SubscriptionFees ---------------------------
(***************************************************************************)
(* A subscription over time: from the request's terms to the fees that are *)
(* charged, with timers that have a length, activities that take up to     *)
(* Delay, and runs that continue as new.                                   *)
(*                                                                         *)
(* BillLifecycle has the detail of one activity and its attempts. Here an  *)
(* activity succeeds or gives up, the workflow is prompt (time passes only *)
(* while it waits), and the question is when fees are charged, and when    *)
(* the bill is closed. A usage-based bill is followed until it is stored.  *)
(***************************************************************************)
EXTENDS CreationTerms

CONSTANTS
  Params,                       \* the creation requests considered
  ContinueAsNewEventThreshold,
  Delay,                        \* the longest an activity takes
  MaxInt64,                     \* the largest total
  MaxSignals, MaxFailures       \* bounds: refused signals, fees given up

ASSUME FeesAssumption ==
  /\ {ContinueAsNewEventThreshold, MaxInt64} \subseteq Nat \ {0}
  /\ {Delay, MaxSignals, MaxFailures} \subseteq Nat

\* What a request can hold once it is decoded, whatever Validate makes of it.
ASSUME ParamsAssumption ==
  Params \subseteq
    [billID : STRING, policy : STRING, currency : STRING, end : Nat,
     recurring : {NoRecurring}
       \cup [amount : Int, interval : [n : Int, unit : STRING]]]

VARIABLES
  now,
  pc, busy,                     \* where the workflow is, and for how long
  params, req,                  \* the creation request; the workflow's
  row,                          \* the terms stored in table bills
  state,                        \* BillState: Total and EventCount
  armedAt,                      \* when RecurringFeeTimerFuture was started
  timerAt,                      \* when the timer of the period fires
  adds, updates, close,         \* the signal channels
  began,                        \* when the first run's policy was built
  fees, failures,               \* fees charged, fees given up
  lost,                         \* intervals that continue-as-new restarted
  sent                          \* signals sent

run == <<pc, busy, state, armedAt, timerAt>>
chans == <<adds, updates, close>>
history == <<began, fees, failures, lost>>
vars == <<now, run, params, req, row, chans, history, sent>>

Activities == {"NewBillingPolicy", "CreateBill", "RecurringItem", "CloseBillFromState"}
RunOpen == pc \in Activities \cup {"Select"}
NoRow == [policy |-> Invalid, currency |-> Invalid, recurring |-> NoRecurring]

TypeOK ==
  /\ now \in Nat /\ began \in 0..now /\ armedAt \in 0..now
  /\ pc \in Activities \cup {"Request", "Select", "UsageBased",
                             "Refused", "Failed", "Closed"}
  /\ busy \in 0..Delay
  /\ state.Total \in -(MaxInt64 + 1)..MaxInt64 /\ state.EventCount \in Nat
  /\ timerAt \in Nat
  /\ {adds, updates, fees, failures, lost} \subseteq Nat
  /\ adds + updates <= sent /\ sent \in 0..MaxSignals
  /\ close \in {"none", "pending", "received", "dropped"}

Init ==
  /\ now = 0 /\ pc = "Request" /\ busy = 0
  /\ params \in Params
  /\ req = WorkflowRequest([params EXCEPT !.recurring = NoRecurring])
  /\ row = NoRow
  /\ state = [Total |-> 0, EventCount |-> 0]
  /\ armedAt = 0 /\ timerAt = 0
  /\ adds = 0 /\ updates = 0 /\ close = "none"
  /\ began = 0 /\ fees = 0 /\ failures = 0 /\ lost = 0 /\ sent = 0
-----------------------------------------------------------------------------
\* Mutant: each run gets a whole period
DurationUntilEndWhole == req.end

\* req.BillingPeriodEnd.Sub(workflow.Now(ctx)); a timer in the past is ready at once
DurationUntilEnd == req.end - now

Max0(n) == IF n > 0 THEN n ELSE 0

\* The sum as an int64.
Wrap(n) == LET w == MaxInt64 + 1 IN ((n + w) % (2 * w)) - w

FeeDue == now >= armedAt + req.interval

Ready == [add |-> adds > 0, recurring |-> FeeDue, update |-> updates > 0,
          close |-> close = "pending", timer |-> now >= timerAt]

\* Any case that is ready may be the one that Select runs: which of them comes first
\* depends on what found it blocked (BillLifecycle), and no property here needs it.
Turn(k) == pc = "Select" /\ Ready[k]

Execute(activity) == pc' = activity /\ busy' = 0

\* Mutant: an activity has no StartToCloseTimeout
TickNoTimeout ==
  /\ \/ pc = "Select" /\ (\A k \in DOMAIN Ready : ~Ready[k]) /\ busy' = 0
     \/ pc \in Activities /\ busy' = busy + 1
  /\ now' = now + 1
  /\ UNCHANGED <<pc, state, armedAt, timerAt, params, req, row, chans, history, sent>>

\* Time passes while the workflow waits, and up to Delay while a task does.
Tick ==
  /\ \/ pc = "Select" /\ (\A k \in DOMAIN Ready : ~Ready[k]) /\ busy' = 0
     \/ pc \in Activities /\ busy < Delay /\ busy' = busy + 1
  /\ now' = now + 1
  /\ UNCHANGED <<pc, state, armedAt, timerAt, params, req, row, chans, history, sent>>
-----------------------------------------------------------------------------
\* For an id that is not in the table; BillRequests has the check for one that is.
CreateBill ==
  /\ pc = "Request"
  /\ IF Decodes(params) /\ Validate(params, now)
     THEN req' = WorkflowRequest(params) /\ Execute("NewBillingPolicy")
     ELSE req' = req /\ Execute("Refused")
  /\ UNCHANGED <<now, state, armedAt, timerAt, params, row, chans, history, sent>>

\* The first run: the policy starts the timer of the first fee.
StartRun ==
  /\ pc = "NewBillingPolicy"
  /\ IF NewBillingPolicy(req)
     THEN Execute("CreateBill") /\ armedAt' = now /\ began' = now
     ELSE Execute("Failed") /\ UNCHANGED <<armedAt, began>>
  /\ UNCHANGED <<now, state, timerAt, params, req, row, chans, fees, failures, lost, sent>>

CreateBillDone ==
  /\ pc = "CreateBill"
  /\ IF Fits(req)
     THEN /\ row' = [policy |-> req.policy, currency |-> req.currency,
                     recurring |-> BillMetadata(req)]
          /\ Execute(IF req.policy = Subscription THEN "Select" ELSE "UsageBased")
          /\ timerAt' = now + Max0(DurationUntilEnd)
     ELSE Execute("Failed") /\ UNCHANGED <<row, timerAt>>
  /\ UNCHANGED <<now, state, armedAt, params, req, chans, history, sent>>

\* Requests to a subscription. Bound: MaxSignals.
ApiSignal ==
  /\ RunOpen /\ sent < MaxSignals
  /\ sent' = sent + 1
  /\ \/ adds' = adds + 1 /\ UNCHANGED updates
     \/ updates' = updates + 1 /\ UNCHANGED adds
  /\ UNCHANGED <<now, run, params, req, row, close, history>>

ApiCloseBill ==
  /\ RunOpen /\ close = "none"
  /\ close' = "pending"
  /\ UNCHANGED <<now, run, params, req, row, adds, updates, history, sent>>
-----------------------------------------------------------------------------
\* Mutant: PreviousState is not passed on
PreviousStateNone(s) == [Total |-> 0, EventCount |-> 0]

\* The state a continued run starts with: the counter is not reset.
PreviousState(s) == s

\* A handler has returned and left the state s. At the threshold the run continues
\* as new: the policy starts a whole interval, the rest of the period is computed
\* again, and signals that were not received stay behind.
LoopAgain(s, add, update, armed) ==
  /\ Execute("Select")
  /\ IF s.EventCount < ContinueAsNewEventThreshold
     THEN /\ state' = s
          /\ adds' = add /\ updates' = update /\ close' = close
          /\ armedAt' = armed /\ timerAt' = timerAt /\ lost' = lost
     ELSE /\ state' = PreviousState(s)
          /\ adds' = 0 /\ updates' = 0
          /\ close' = IF close = "pending" THEN "dropped" ELSE close
          /\ armedAt' = now /\ lost' = IF armed = now THEN lost ELSE lost + 1
          /\ timerAt' = now + Max0(DurationUntilEnd)

Counted == [state EXCEPT !.EventCount = @ + 1]
Charged == [state EXCEPT !.Total = Wrap(@ + req.amount)]

\* HandleAddLineItem and HandleUpdateLineItem refuse, and the event is counted.
ReceiveAddLineItem ==
  /\ Turn("add")
  /\ LoopAgain(Counted, adds - 1, updates, armedAt)
  /\ UNCHANGED <<now, params, req, row, began, fees, failures, sent>>

ReceiveUpdateLineItem ==
  /\ Turn("update")
  /\ LoopAgain(Counted, adds, updates - 1, armedAt)
  /\ UNCHANGED <<now, params, req, row, began, fees, failures, sent>>

ReceiveRecurring ==
  /\ Turn("recurring")
  /\ state' = Counted
  /\ Execute("RecurringItem")
  /\ UNCHANGED <<now, armedAt, timerAt, params, req, row, chans, history, sent>>

\* Mutant: the next timer is not started, the future that fired stays ready
RecurringItemDoneNoTimer ==
  /\ pc = "RecurringItem"
  /\ fees' = fees + 1
  /\ LoopAgain(Charged, adds, updates, armedAt)
  /\ UNCHANGED <<now, params, req, row, began, failures, sent>>

RecurringItemDone ==
  /\ pc = "RecurringItem"
  /\ fees' = fees + 1
  /\ LoopAgain(Charged, adds, updates, now)
  /\ UNCHANGED <<now, params, req, row, began, failures, sent>>

\* Mutant: the timer is started whether or not the fee was inserted
RecurringItemGivenUpRearmed ==
  /\ pc = "RecurringItem" /\ failures < MaxFailures
  /\ failures' = failures + 1
  /\ LoopAgain(state, adds, updates, now)
  /\ UNCHANGED <<now, params, req, row, began, fees, sent>>

\* The fee stays due. Bound: MaxFailures.
RecurringItemGivenUp ==
  /\ pc = "RecurringItem" /\ failures < MaxFailures
  /\ failures' = failures + 1
  /\ LoopAgain(state, adds, updates, armedAt)
  /\ UNCHANGED <<now, params, req, row, began, fees, sent>>

\* By request or by the timer of the period.
LeaveLoop ==
  /\ \/ Turn("close") /\ close' = "received"
     \/ Turn("timer") /\ UNCHANGED close
  /\ Execute("CloseBillFromState")
  /\ UNCHANGED <<now, state, armedAt, timerAt, params, req, row, adds, updates, history, sent>>

CloseBillFromStateDone ==
  /\ pc = "CloseBillFromState"
  /\ Execute("Closed")
  /\ UNCHANGED <<now, state, armedAt, timerAt, params, req, row, chans, history, sent>>

\* Nothing of it is followed any further.
Finished == ~RunOpen /\ pc # "Request" /\ UNCHANGED vars
-----------------------------------------------------------------------------
Next ==
  \/ Tick \/ CreateBill \/ StartRun \/ CreateBillDone \/ ApiSignal \/ ApiCloseBill
  \/ ReceiveAddLineItem \/ ReceiveUpdateLineItem \/ ReceiveRecurring
  \/ RecurringItemDone \/ RecurringItemGivenUp \/ LeaveLoop \/ CloseBillFromStateDone
  \/ Finished

Spec == Init /\ [][Next]_vars
-----------------------------------------------------------------------------
(***************************************************************************)
(* What must hold.                                                         *)
(***************************************************************************)
\* A request that Validate accepted gets a run that opens its bill, unless its id
\* is too long for the table.
AcceptedRuns == pc = "Failed" => req.billID = "long"

\* What is stored of a subscription is what its policy charges: a positive amount
\* at a positive interval, in a currency the conversions know.
StoredTermsAreCharged ==
  row # NoRow =>
    /\ ToCurrency(row.currency) # Invalid
    /\ row.policy = Subscription =>
         /\ row.recurring = [amount |-> req.amount, interval |-> req.interval]
         /\ row.recurring.amount = params.recurring.amount

\* The total is that of the fees charged, in the width of an int64, over all the
\* runs of the bill; it is exact as long as the fees' sum fits.
TotalIsOfFees == state.Total = Wrap(fees * req.amount)

\* No fee is charged before its interval has elapsed, however often a fee was tried
\* again or the run continued as new.
NoFeeEarly == fees * req.interval <= now - began

\* ... and none is lost but those whose interval a continued run started again: the
\* fees keep up with the time, but for the duration of the activities.
FeesKeepUp ==
  pc \in {"Select", "RecurringItem"} =>
    now - began <= (fees + lost + 1) * (req.interval + Delay) + (failures + 1) * Delay

\* Only its period's end closes a bill that nobody asked to close, and it does so at
\* that moment, whatever number of runs the period was served by.
PeriodIsKept ==
  /\ pc = "CloseBillFromState" /\ close # "received" => now >= req.end
  /\ pc \in {"Select", "RecurringItem"} => now <= req.end + (failures + 3) * Delay
=============================================================================
