------------------------ MODULE SubscriptionFeesProofs ------------------------
(***************************************************************************)
(* Theorems about SubscriptionFees for every set of creation requests,     *)
(* every threshold, delay, integer width and number of refused signals and *)
(* of fees given up.                                                       *)
(***************************************************************************)
EXTENDS SubscriptionFees, TLAPS

Int64 == -(MaxInt64 + 1)..MaxInt64
BillState == [Total : Int64, EventCount : Nat]

\* What a case of the selector that is run has to work on.
LEMMA TurnReady ==
  /\ Turn("add") => pc = "Select" /\ adds > 0
  /\ Turn("recurring") => pc = "Select" /\ FeeDue
  /\ Turn("update") => pc = "Select" /\ updates > 0
  /\ Turn("close") => pc = "Select" /\ close = "pending"
  /\ Turn("timer") => pc = "Select" /\ now >= timerAt
BY DEF Turn, Ready

\* The remainder of a division lies below the divisor: a wrapped sum is an int64.
LEMMA WrapTyped == \A n \in Int : Wrap(n) \in Int64
<1> SUFFICES ASSUME NEW n \in Int PROVE Wrap(n) \in Int64
  OBVIOUS
<1> DEFINE W == MaxInt64 + 1
<1>1. W \in Nat \ {0} /\ W = MaxInt64 + 1
  BY FeesAssumption
<1> HIDE DEF W
<1>2. \A a \in Int, m \in Nat \ {0} : a % m \in 0..m - 1
  OBVIOUS
<1>3. PICK r \in 0..2 * W - 1 : Wrap(n) = r - W
  <2>1. (n + W) % (2 * W) \in 0..2 * W - 1
    <3>1. n + W \in Int /\ 2 * W \in Nat \ {0}
      BY <1>1
    <3> QED BY <1>2, <3>1
  <2>2. Wrap(n) = ((n + W) % (2 * W)) - W
    BY DEF Wrap, W
  <2> QED BY <2>1, <2>2
<1>5. Int64 = -W..W - 1
  BY <1>1, FeesAssumption DEF Int64
<1> QED BY <1>1, <1>3, <1>5

\* The state a handler leaves is a BillState.
LEMMA StateTyped ==
  ASSUME state \in BillState, req.amount \in Int
  PROVE  /\ Counted \in BillState /\ Charged \in BillState
         /\ Counted.Total = state.Total
         /\ Charged.Total = Wrap(state.Total + req.amount)
<1>1. Int64 \subseteq Int
  BY FeesAssumption DEF Int64
<1>2. Wrap(state.Total + req.amount) \in Int64
  <2>1. state.Total + req.amount \in Int
    <3>1. state.Total \in Int64
      BY DEF BillState
    <3>2. \A a, b \in Int : a + b \in Int
      OBVIOUS
    <3> QED BY <1>1, <3>1, <3>2
  <2> QED BY <2>1, WrapTyped
<1> QED BY <1>2 DEF BillState, Counted, Charged

\* What is decoded has an integer amount and interval.
LEMMA RequestTyped ==
  ASSUME NEW p \in Params, Decodes(p)
  PROVE  /\ WorkflowRequest(p).amount \in Int
         /\ WorkflowRequest(p).interval \in Int
         /\ WorkflowRequest(p).end = p.end
         /\ WorkflowRequest(p).billID = p.billID
         /\ WorkflowRequest(p).policy = p.policy
         /\ WorkflowRequest(p).currency = p.currency
<1>1. CASE p.recurring = NoRecurring
  BY <1>1 DEF WorkflowRequest
<1>2. CASE p.recurring # NoRecurring
  <2>1. /\ p.recurring.amount \in Int
        /\ p.recurring.interval.n \in Int
    BY <1>2, ParamsAssumption
  <2>2. p.recurring.interval.unit \in DOMAIN UnitLength
    BY <1>2 DEF Decodes, ParseDuration
  <2>3. UnitLength[p.recurring.interval.unit] \in Int
    BY <2>2 DEF UnitLength
  <2>4. ParseDuration(p.recurring.interval) \in Int
    <3>1. ParseDuration(p.recurring.interval)
            = p.recurring.interval.n * UnitLength[p.recurring.interval.unit]
      BY <2>2 DEF ParseDuration
    <3>2. \A a, b \in Int : a * b \in Int
      OBVIOUS
    <3> QED BY <2>1, <2>3, <3>1, <3>2
  <2> QED BY <1>2, <2>1, <2>4 DEF WorkflowRequest
<1> QED BY <1>1, <1>2

-----------------------------------------------------------------------------
(***************************************************************************)
(* Types.                                                                  *)
(***************************************************************************)
TypeInv ==
  /\ TypeOK
  /\ state \in BillState
  /\ params \in Params
  /\ req.amount \in Int /\ req.interval \in Int /\ req.end \in Nat
  /\ pc = "Request" => fees = 0 /\ failures = 0 /\ lost = 0
                          /\ now = 0 /\ began = 0 /\ armedAt = 0

LEMMA TypeInvInit == Init => TypeInv
<1> SUFFICES ASSUME Init PROVE TypeInv
  OBVIOUS
<1>1. params \in Params /\ params.end \in Nat
  BY ParamsAssumption DEF Init
<1>2. req.amount \in Int /\ req.interval \in Int /\ req.end \in Nat
  <2> DEFINE p == [params EXCEPT !.recurring = NoRecurring]
  <2>1. p.recurring = NoRecurring /\ p.end = params.end
    BY <1>1, ParamsAssumption
  <2>2. req = WorkflowRequest(p)
    BY DEF Init
  <2> HIDE DEF p
  <2> QED BY <1>1, <2>1, <2>2 DEF WorkflowRequest
<1>3. state \in BillState
  BY FeesAssumption DEF Init, BillState, Int64
<1> QED BY <1>1, <1>2, <1>3, FeesAssumption DEF Init, TypeInv, TypeOK, BillState, Int64

\* Where a handler leaves the workflow. A run that continues as new starts the timer
\* of the fee again, and computes what is left of the period.
LEMMA LoopAgainLeaves ==
  ASSUME TypeInv, NEW s \in BillState, NEW add \in Nat, NEW update \in Nat,
         NEW armed \in 0..now, LoopAgain(s, add, update, armed)
  PROVE  /\ pc' = "Select" /\ busy' = 0
         /\ state' = s
         /\ adds' \in Nat /\ updates' \in Nat /\ adds' + updates' <= add + update
         /\ close' = close \/ close' = "dropped"
         /\ \/ armedAt' = armed /\ lost' = lost
            \/ armedAt' = now /\ lost' = lost + 1 /\ armed < now
         /\ timerAt' = timerAt \/ timerAt' = now + Max0(DurationUntilEnd)
<1> USE DEF LoopAgain, Execute, PreviousState
<1>1. CASE s.EventCount < ContinueAsNewEventThreshold
  BY <1>1
<1>2. CASE ~(s.EventCount < ContinueAsNewEventThreshold)
  BY <1>2 DEF TypeInv, TypeOK
<1> QED BY <1>1, <1>2

\* The timer of the period is never set before now, nor before the period's end.
LEMMA TimerOfPeriod ==
  ASSUME TypeInv
  PROVE  LET t == now + Max0(DurationUntilEnd) IN
         /\ t \in Nat /\ t >= req.end /\ t >= now
         /\ t = req.end \/ t = now
BY DEF TypeInv, TypeOK, Max0, DurationUntilEnd

LEMMA TypeInvRequests ==
  TypeInv /\ (Tick \/ CreateBill \/ StartRun \/ ApiSignal \/ ApiCloseBill) => TypeInv'
<1> SUFFICES ASSUME TypeInv, Tick \/ CreateBill \/ StartRun \/ ApiSignal \/ ApiCloseBill
             PROVE  TypeInv'
  OBVIOUS
<1> USE FeesAssumption DEF TypeInv, TypeOK, run, chans, history, Activities, Execute
<1>1. ASSUME Tick PROVE TypeInv'
  BY <1>1 DEF Tick
<1>2. ASSUME CreateBill PROVE TypeInv'
  <2>1. CASE Decodes(params) /\ Validate(params, now)
    <3>1. req'.amount \in Int /\ req'.interval \in Int /\ req'.end \in Nat
      BY <1>2, <2>1, RequestTyped, ParamsAssumption DEF CreateBill
    <3> QED BY <1>2, <2>1, <3>1 DEF CreateBill
  <2>2. CASE ~(Decodes(params) /\ Validate(params, now))
    BY <1>2, <2>2 DEF CreateBill
  <2> QED BY <2>1, <2>2
<1>3. ASSUME StartRun PROVE TypeInv'
  BY <1>3 DEF StartRun
<1>4. ASSUME ApiSignal PROVE TypeInv'
  BY <1>4 DEF ApiSignal, RunOpen
<1>5. ASSUME ApiCloseBill PROVE TypeInv'
  BY <1>5 DEF ApiCloseBill, RunOpen
<1> QED BY <1>1, <1>2, <1>3, <1>4, <1>5

LEMMA TypeInvLoop ==
  TypeInv /\ (\/ CreateBillDone \/ ReceiveAddLineItem \/ ReceiveUpdateLineItem
              \/ ReceiveRecurring \/ RecurringItemDone \/ RecurringItemGivenUp
              \/ LeaveLoop \/ CloseBillFromStateDone) => TypeInv'
<1> SUFFICES ASSUME TypeInv,
                    \/ CreateBillDone \/ ReceiveAddLineItem \/ ReceiveUpdateLineItem
                    \/ ReceiveRecurring \/ RecurringItemDone \/ RecurringItemGivenUp
                    \/ LeaveLoop \/ CloseBillFromStateDone
             PROVE  TypeInv'
  OBVIOUS
<1>t. now + Max0(DurationUntilEnd) \in Nat
  BY TimerOfPeriod
<1>s. /\ state \in BillState /\ Counted \in BillState /\ Charged \in BillState
      /\ armedAt \in 0..now /\ now \in 0..now
      /\ adds \in Nat /\ updates \in Nat
      /\ state.Total \in Int64 /\ state.EventCount \in Nat
  BY StateTyped DEF TypeInv, TypeOK, BillState
<1>a. ASSUME NEW s \in BillState PROVE s.Total \in Int64 /\ s.EventCount \in Nat
  BY DEF BillState
<1>b. ASSUME NEW s \in BillState, NEW add \in Nat, NEW update \in Nat,
             add + update <= adds + updates,
             NEW armed \in 0..now, LoopAgain(s, add, update, armed),
             fees' \in Nat, failures' \in Nat,
             now' = now, params' = params, req' = req, began' = began, sent' = sent
      PROVE  TypeInv'
  <2>1. /\ pc' = "Select" /\ busy' = 0 /\ state' = s
        /\ adds' \in Nat /\ updates' \in Nat /\ adds' + updates' <= add + update
        /\ close' = close \/ close' = "dropped"
        /\ armedAt' \in 0..now /\ lost' \in Nat
        /\ timerAt' \in Nat
    BY <1>b, <1>t, LoopAgainLeaves DEF TypeInv, TypeOK
  <2>2. state' \in BillState /\ state'.Total \in Int64 /\ state'.EventCount \in Nat
    BY <2>1, <1>a
  <2>3. adds' + updates' <= sent' /\ sent' \in 0..MaxSignals
    <3>1. \A a, b, c, d, e, f, g \in Int :
            a + b <= c + d /\ c + d <= e + f /\ e + f <= g => a + b <= g
      OBVIOUS
    <3>2. sent \in 0..MaxSignals /\ adds + updates <= sent
      BY DEF TypeInv, TypeOK
    <3>3. sent \in Int /\ adds \in Int /\ updates \in Int
      BY <3>2, FeesAssumption DEF TypeInv, TypeOK
    <3>4. add \in Int /\ update \in Int
      OBVIOUS
    <3>5. adds' \in Int /\ updates' \in Int /\ sent' = sent
      BY <1>b, <2>1
    <3>6. adds' + updates' <= add + update /\ add + update <= adds + updates
      BY <1>b, <2>1
    <3>7. adds' + updates' <= sent
      BY <3>1, <3>2, <3>3, <3>4, <3>5, <3>6
    <3> QED BY <3>2, <3>5, <3>7
  <2>4. close' \in {"none", "pending", "received", "dropped"} /\ busy' \in 0..Delay
    BY <2>1, FeesAssumption DEF TypeInv, TypeOK
  <2>5. TypeOK'
    BY <1>b, <2>1, <2>2, <2>3, <2>4 DEF TypeInv, TypeOK, Int64
  <2> QED BY <1>b, <2>1, <2>2, <2>5 DEF TypeInv
<1>1. ASSUME CreateBillDone PROVE TypeInv'
  BY <1>1, <1>t, FeesAssumption DEF CreateBillDone, Execute, TypeInv, TypeOK, chans, history
<1>2. ASSUME ReceiveAddLineItem PROVE TypeInv'
  BY <1>2, <1>b, <1>s, TurnReady DEF ReceiveAddLineItem, TypeInv, TypeOK
<1>3. ASSUME ReceiveUpdateLineItem PROVE TypeInv'
  BY <1>3, <1>b, <1>s, TurnReady DEF ReceiveUpdateLineItem, TypeInv, TypeOK
<1>4. ASSUME ReceiveRecurring PROVE TypeInv'
  BY <1>4, <1>s, <1>a, TurnReady, FeesAssumption
     DEF ReceiveRecurring, Execute, TypeInv, TypeOK, chans, history, Activities, Int64
<1>5. ASSUME RecurringItemDone PROVE TypeInv'
  BY <1>5, <1>b, <1>s DEF RecurringItemDone, TypeInv, TypeOK
<1>6. ASSUME RecurringItemGivenUp PROVE TypeInv'
  BY <1>6, <1>b, <1>s DEF RecurringItemGivenUp, TypeInv, TypeOK
<1>7. ASSUME LeaveLoop PROVE TypeInv'
  BY <1>7, TurnReady, FeesAssumption
     DEF LeaveLoop, Execute, TypeInv, TypeOK, chans, history, Activities
<1>8. ASSUME CloseBillFromStateDone PROVE TypeInv'
  BY <1>8, FeesAssumption
     DEF CloseBillFromStateDone, Execute, TypeInv, TypeOK, chans, history
<1> QED BY <1>1, <1>2, <1>3, <1>4, <1>5, <1>6, <1>7, <1>8

LEMMA TypeInvStep == TypeInv /\ [Next]_vars => TypeInv'
<1>1. TypeInv /\ UNCHANGED vars => TypeInv'
  BY DEF TypeInv, TypeOK, vars, run, chans, history, BillState
<1> QED BY <1>1, TypeInvRequests, TypeInvLoop DEF Next, Finished

\* Every variable keeps its type: an activity takes no longer than its delay, and the
\* total stays an int64 (state.Total, the activities' StartToCloseTimeout).
THEOREM TypeCorrect == Spec => []TypeOK
<1>1. Spec => []TypeInv
  BY TypeInvInit, TypeInvStep, PTL DEF Spec
<1>2. TypeInv => TypeOK
  BY DEF TypeInv
<1> QED BY <1>1, <1>2, PTL

-----------------------------------------------------------------------------
(***************************************************************************)
(* Terms. The request that Validate accepted is the workflow's, and the    *)
(* row's, for as long as the bill lives.                                   *)
(***************************************************************************)
Accepted(p) == Decodes(p) /\ Validate(p, 0)

\* What Validate's checks amount to once the request has been translated.
LEMMA AcceptedTerms ==
  ASSUME NEW p \in Params, Accepted(p)
  PROVE  LET r == WorkflowRequest(p) IN
         /\ NewBillingPolicy(r)
         /\ r.policy = p.policy /\ r.currency = p.currency /\ r.billID = p.billID
         /\ ToCurrency(r.currency) # Invalid
         /\ r.end = p.end /\ r.end >= 1
         /\ r.policy = Subscription =>
              /\ r.interval > 0 /\ r.amount > 0
              /\ r.amount = p.recurring.amount
<1> DEFINE r == WorkflowRequest(p)
<1>1. /\ r.policy = p.policy /\ r.currency = p.currency /\ r.billID = p.billID
      /\ r.end = p.end
  BY DEF WorkflowRequest
<1>2. ToCurrency(p.currency) # Invalid /\ p.end >= 1 /\ ToPolicyType(p.policy) # Invalid
  BY DEF Accepted, Validate
<1>3. p.policy \in {UsageBased, Subscription}
  BY <1>2 DEF ToPolicyType
<1>4. ASSUME p.policy = Subscription
      PROVE  r.interval > 0 /\ r.amount > 0 /\ r.amount = p.recurring.amount
  <2>1. RecurringIsValid(p.recurring)
    BY <1>4 DEF Accepted, Validate, ToPolicyType
  <2> QED BY <2>1 DEF RecurringIsValid, WorkflowRequest
<1>5. NewBillingPolicy(r)
  BY <1>1, <1>3, <1>4 DEF NewBillingPolicy
<1> QED BY <1>1, <1>2, <1>4, <1>5

TermsInv ==
  /\ pc \notin {"Request", "Refused"} =>
       Accepted(params) /\ req = WorkflowRequest(params)
  /\ pc \in {"Select", "RecurringItem", "CloseBillFromState", "Closed"} =>
       req.policy = Subscription
  /\ pc = "Failed" => ~Fits(req)
  /\ row # NoRow =>
       /\ pc \notin {"Request", "Refused"}
       /\ row = [policy |-> req.policy, currency |-> req.currency,
                 recurring |-> BillMetadata(req)]

LEMMA TermsInvInit == Init => TermsInv
BY DEF Init, TermsInv

LEMMA TermsInvStep == TypeInv /\ TermsInv /\ [Next]_vars => TermsInv'
<1> SUFFICES ASSUME TypeInv, TermsInv, [Next]_vars PROVE TermsInv'
  OBVIOUS
<1> USE DEF TermsInv, Execute
<1>1. ASSUME Tick PROVE TermsInv'
  BY <1>1 DEF Tick, Activities, chans, history
<1>2. ASSUME CreateBill PROVE TermsInv'
  BY <1>2 DEF CreateBill, Accepted, TypeInv, chans, history
<1>3. ASSUME StartRun PROVE TermsInv'
  <2>1. NewBillingPolicy(req)
    BY <1>3, AcceptedTerms DEF StartRun, TypeInv
  <2> QED BY <1>3, <2>1 DEF StartRun
<1>4. ASSUME CreateBillDone PROVE TermsInv'
  BY <1>4 DEF CreateBillDone, chans, history
<1>5. ASSUME ApiSignal \/ ApiCloseBill PROVE TermsInv'
  BY <1>5 DEF ApiSignal, ApiCloseBill, run, history
<1>6. ASSUME ReceiveAddLineItem \/ ReceiveUpdateLineItem PROVE TermsInv'
  BY <1>6, TurnReady DEF ReceiveAddLineItem, ReceiveUpdateLineItem, LoopAgain
<1>7. ASSUME ReceiveRecurring PROVE TermsInv'
  BY <1>7, TurnReady DEF ReceiveRecurring
<1>8. ASSUME RecurringItemDone \/ RecurringItemGivenUp PROVE TermsInv'
  BY <1>8 DEF RecurringItemDone, RecurringItemGivenUp, LoopAgain
<1>9. ASSUME LeaveLoop \/ CloseBillFromStateDone PROVE TermsInv'
  BY <1>9, TurnReady DEF LeaveLoop, CloseBillFromStateDone
<1>10. ASSUME UNCHANGED vars PROVE TermsInv'
  BY <1>10 DEF vars, run
<1> QED BY <1>1, <1>2, <1>3, <1>4, <1>5, <1>6, <1>7, <1>8, <1>9, <1>10
        DEF Next, Finished

LEMMA TermsAlways == Spec => [](TypeInv /\ TermsInv)
BY TypeInvInit, TypeInvStep, TermsInvInit, TermsInvStep, PTL DEF Spec

\* A request that Validate accepted gets a run that opens its bill, unless its id is
\* longer than the column: the policy's factory never refuses it (create_bill.go's
\* checks against policy.go's).
THEOREM AcceptedRun == Spec => []AcceptedRuns
<1>1. TypeInv /\ TermsInv => AcceptedRuns
  BY DEF TermsInv, AcceptedRuns, Fits
<1> QED BY <1>1, TermsAlways, PTL

\* The row of a subscription states the fee its policy charges, positive and in a known
\* currency, although request, workflow and row each hold a copy of the terms.
THEOREM TermsStored == Spec => []StoredTermsAreCharged
<1>1. TypeInv /\ TermsInv => StoredTermsAreCharged
  <2> SUFFICES ASSUME TypeInv, TermsInv, row # NoRow
               PROVE  /\ ToCurrency(row.currency) # Invalid
                      /\ row.policy = Subscription =>
                           /\ row.recurring = [amount |-> req.amount, interval |-> req.interval]
                           /\ row.recurring.amount = params.recurring.amount
    BY DEF StoredTermsAreCharged
  <2>1. /\ params \in Params /\ Accepted(params) /\ req = WorkflowRequest(params)
        /\ row = [policy |-> req.policy, currency |-> req.currency,
                  recurring |-> BillMetadata(req)]
    BY DEF TypeInv, TermsInv
  <2>2. row.policy = req.policy /\ row.currency = req.currency
        /\ row.recurring = BillMetadata(req)
    BY <2>1
  <2>3. /\ ToCurrency(req.currency) # Invalid
        /\ req.policy = Subscription =>
             req.interval > 0 /\ req.amount > 0 /\ req.amount = params.recurring.amount
    BY <2>1, AcceptedTerms
  <2>4. req.policy = Subscription =>
          BillMetadata(req) = [amount |-> req.amount, interval |-> req.interval]
    BY <2>3 DEF BillMetadata
  <2> QED BY <2>2, <2>3, <2>4
<1> QED BY <1>1, TermsAlways, PTL

-----------------------------------------------------------------------------
(***************************************************************************)
(* Fees are not early. Every fee moved the start of the current interval   *)
(* forward by an interval at least.                                        *)
(***************************************************************************)
EarlyInv ==
  /\ pc = "NewBillingPolicy" => fees = 0
  /\ fees * req.interval <= armedAt - began
  /\ pc = "RecurringItem" => now >= armedAt + req.interval

LEMMA OneMoreInterval ==
  \A f, i, a, b, n \in Int :
    /\ f * i \in Int
    /\ f * i <= a - b /\ a <= n => f * i <= n - b
    /\ f * i <= a - b /\ n >= a + i => (f + 1) * i <= n - b
OBVIOUS

LEMMA EarlyInvInit == Init => EarlyInv
<1> SUFFICES ASSUME Init PROVE EarlyInv
  OBVIOUS
<1>1. req.interval \in Int
  BY TypeInvInit DEF TypeInv
<1>2. \A i \in Int : 0 * i = 0
  OBVIOUS
<1> QED BY <1>1, <1>2 DEF Init, EarlyInv

LEMMA EarlyInvStep == TypeInv /\ EarlyInv /\ [Next]_vars => EarlyInv'
<1> SUFFICES ASSUME TypeInv, EarlyInv, [Next]_vars PROVE EarlyInv'
  OBVIOUS
<1>t. /\ now \in Int /\ began \in Int /\ armedAt \in Int /\ armedAt <= now
      /\ fees \in Int /\ req.interval \in Int
  BY DEF TypeInv, TypeOK
<1>z. \A i \in Int : 0 * i = 0
  OBVIOUS
<1>1. ASSUME Tick PROVE EarlyInv'
  BY <1>1, <1>t DEF EarlyInv, Tick, Activities, chans, history
<1>2. ASSUME CreateBill PROVE EarlyInv'
  <2>1. fees' = 0 /\ armedAt' = 0 /\ began' = 0 /\ pc' \in {"NewBillingPolicy", "Refused"}
    BY <1>2 DEF CreateBill, Execute, TypeInv, history
  <2>2. req'.interval \in Int
    BY <1>2, TypeInvRequests DEF TypeInv
  <2> QED BY <2>1, <2>2, <1>z DEF EarlyInv
<1>3. ASSUME StartRun PROVE EarlyInv'
  BY <1>3, <1>t, <1>z DEF EarlyInv, StartRun, Execute
<1>4. ASSUME CreateBillDone PROVE EarlyInv'
  BY <1>4 DEF EarlyInv, CreateBillDone, Execute, chans, history
<1>5. ASSUME ApiSignal \/ ApiCloseBill PROVE EarlyInv'
  BY <1>5 DEF EarlyInv, ApiSignal, ApiCloseBill, run, history
<1>6. ASSUME ReceiveAddLineItem \/ ReceiveUpdateLineItem PROVE EarlyInv'
  <2>1. /\ pc' = "Select" /\ armedAt' \in {armedAt, now}
        /\ fees' = fees /\ req' = req /\ began' = began
    BY <1>6 DEF ReceiveAddLineItem, ReceiveUpdateLineItem, LoopAgain, Execute
  <2>2. fees * req.interval <= armedAt' - began
    BY <2>1, <1>t, OneMoreInterval DEF EarlyInv
  <2> QED BY <2>1, <2>2 DEF EarlyInv
<1>7. ASSUME ReceiveRecurring PROVE EarlyInv'
  BY <1>7, TurnReady DEF EarlyInv, ReceiveRecurring, FeeDue, Execute, chans, history
<1>8. ASSUME RecurringItemDone PROVE EarlyInv'
  <2>1. /\ pc' = "Select" /\ armedAt' = now
        /\ fees' = fees + 1 /\ req' = req /\ began' = began
    BY <1>8 DEF RecurringItemDone, LoopAgain, Execute
  <2>2. (fees + 1) * req.interval <= now - began
    BY <1>8, <1>t, OneMoreInterval DEF EarlyInv, RecurringItemDone
  <2> QED BY <2>1, <2>2 DEF EarlyInv
<1>9. ASSUME RecurringItemGivenUp PROVE EarlyInv'
  <2>1. /\ pc' = "Select" /\ armedAt' \in {armedAt, now}
        /\ fees' = fees /\ req' = req /\ began' = began
    BY <1>9 DEF RecurringItemGivenUp, LoopAgain, Execute
  <2>2. fees * req.interval <= armedAt' - began
    BY <2>1, <1>t, OneMoreInterval DEF EarlyInv
  <2> QED BY <2>1, <2>2 DEF EarlyInv
<1>10. ASSUME LeaveLoop \/ CloseBillFromStateDone PROVE EarlyInv'
  BY <1>10 DEF EarlyInv, LeaveLoop, CloseBillFromStateDone, Execute, chans, history
<1>11. ASSUME UNCHANGED vars PROVE EarlyInv'
  BY <1>11 DEF EarlyInv, vars, run, history
<1> QED BY <1>1, <1>2, <1>3, <1>4, <1>5, <1>6, <1>7, <1>8, <1>9, <1>10, <1>11
        DEF Next, Finished

\* No fee is charged before its interval has elapsed, however often it was tried again
\* and whatever runs continued as new (RecurringFeeTimerFuture).
THEOREM FeesNotEarly == Spec => []NoFeeEarly
<1>1. TypeInv /\ EarlyInv => NoFeeEarly
  <2> SUFFICES ASSUME TypeInv, EarlyInv PROVE fees * req.interval <= now - began
    BY DEF NoFeeEarly
  <2>1. /\ now \in Int /\ began \in Int /\ armedAt \in Int /\ armedAt <= now
        /\ fees \in Int /\ req.interval \in Int
    BY DEF TypeInv, TypeOK
  <2> QED BY <2>1, OneMoreInterval DEF EarlyInv
<1> QED BY <1>1, TypeInvInit, TypeInvStep, EarlyInvInit, EarlyInvStep, PTL DEF Spec

-----------------------------------------------------------------------------
(***************************************************************************)
(* Fees keep up. Slack is the time the fees charged, the intervals started *)
(* again and the activities account for; the current interval began within *)
(* it, and is over at most one activity late.                              *)
(***************************************************************************)
Account(f, l, g, i) == (f + l) * (i + Delay) + (g + 1) * Delay
Slack == Account(fees, lost, failures, req.interval)

LEMMA AccountGrows ==
  ASSUME NEW f \in Nat, NEW l \in Nat, NEW g \in Nat, NEW i \in Nat
  PROVE  /\ Account(f, l, g, i) \in Int
         /\ Account(f, l, g, i) >= Delay
         /\ Account(f + 1, l, g, i) = Account(f, l, g, i) + i + Delay
         /\ Account(f, l + 1, g, i) = Account(f, l, g, i) + i + Delay
         /\ Account(f, l, g + 1, i) = Account(f, l, g, i) + Delay
<1>1. Delay \in Nat
  BY FeesAssumption
<1>2. \A a, b \in Nat : a * b \in Nat
  OBVIOUS
<1>3. \A a, b \in Int : /\ a * b \in Int
                        /\ (a + 1) * b = a * b + b
  OBVIOUS
<1>4. (f + l) * (i + Delay) \in Nat /\ g * Delay \in Nat
  BY <1>1, <1>2
<1>5. (g + 1) * Delay = g * Delay + Delay /\ (g + 2) * Delay = g * Delay + 2 * Delay
  BY <1>1, <1>3
<1>6. (f + l + 1) * (i + Delay) = (f + l) * (i + Delay) + (i + Delay)
  BY <1>1, <1>3
<1>7. Account(f, l, g, i) = (f + l) * (i + Delay) + g * Delay + Delay
  BY <1>1, <1>4, <1>5 DEF Account
<1>8. /\ Account(f + 1, l, g, i) = (f + l + 1) * (i + Delay) + g * Delay + Delay
      /\ Account(f, l + 1, g, i) = (f + l + 1) * (i + Delay) + g * Delay + Delay
      /\ Account(f, l, g + 1, i) = (f + l) * (i + Delay) + g * Delay + 2 * Delay
  BY <1>1, <1>4, <1>5, <1>6 DEF Account
<1> QED BY <1>1, <1>4, <1>6, <1>7, <1>8

LEMMA SlackGrows ==
  ASSUME fees \in Nat, lost \in Nat, failures \in Nat, req.interval \in Nat, NEW k \in Nat
  PROVE  /\ Slack \in Int /\ Slack >= Delay
         /\ k = fees + 1 =>
              Account(k, lost, failures, req.interval) = Slack + req.interval + Delay
         /\ k = failures + 1 =>
              Account(fees, lost, k, req.interval) = Slack + Delay
<1>1. PICK f, l, g, i \in Nat :
        f = fees /\ l = lost /\ g = failures /\ i = req.interval
  OBVIOUS
<1>2. /\ Account(f, l, g, i) \in Int /\ Account(f, l, g, i) >= Delay
      /\ Account(f + 1, l, g, i) = Account(f, l, g, i) + i + Delay
      /\ Account(f, l, g + 1, i) = Account(f, l, g, i) + Delay
  <2>1. Account(f, l, g, i) \in Int /\ Account(f, l, g, i) >= Delay
    BY AccountGrows
  <2>2. Account(f + 1, l, g, i) = Account(f, l, g, i) + i + Delay
    BY AccountGrows
  <2>3. Account(f, l, g + 1, i) = Account(f, l, g, i) + Delay
    BY AccountGrows
  <2> QED BY <2>1, <2>2, <2>3
<1>3. Slack = Account(f, l, g, i)
  BY <1>1 DEF Slack
<1>4. ASSUME k = fees + 1
      PROVE  Account(k, lost, failures, req.interval) = Slack + req.interval + Delay
  BY <1>1, <1>2, <1>3, <1>4
<1>5. ASSUME k = failures + 1
      PROVE  Account(fees, lost, k, req.interval) = Slack + Delay
  BY <1>1, <1>2, <1>3, <1>5
<1> QED BY <1>2, <1>3, <1>4, <1>5

KeepInv ==
  /\ pc = "CreateBill" => armedAt = began /\ now - began <= busy
  /\ pc = "Select" => now - began <= Slack + req.interval
  /\ pc = "RecurringItem" => now - busy - began <= Slack + req.interval
  /\ pc \in {"Select", "RecurringItem"} => armedAt - began <= Slack

\* A subscription that runs has an interval.
LEMMA IntervalPositive ==
  TypeInv /\ TermsInv /\ pc \notin {"Request", "Refused"} /\ req.policy = Subscription
    => req.interval \in Nat /\ req.interval >= 1
<1> SUFFICES ASSUME TypeInv, TermsInv, pc \notin {"Request", "Refused"},
                    req.policy = Subscription
             PROVE  req.interval \in Nat /\ req.interval >= 1
  OBVIOUS
<1>1. req.interval > 0
  BY AcceptedTerms DEF TypeInv, TermsInv
<1> QED BY <1>1 DEF TypeInv

\* Where the account is balanced before the threshold is looked at, it is afterwards:
\* an interval that is started again is added to both sides.
LEMMA KeepRestarted ==
  ASSUME NEW f \in Nat, NEW l \in Nat, NEW g \in Nat, NEW i \in Nat,
         NEW n \in Int, NEW b \in Int, n - b <= Account(f, l, g, i) + i
  PROVE  /\ n - b <= Account(f, l + 1, g, i)
         /\ n - b <= Account(f, l + 1, g, i) + i
<1>1. Delay \in Nat
  BY FeesAssumption
<1>2. /\ Account(f, l, g, i) \in Int
      /\ Account(f, l + 1, g, i) = Account(f, l, g, i) + i + Delay
  BY AccountGrows
<1>3. \A d, x, y \in Int :
        d >= 0 /\ n - b <= x + i /\ y = x + i + d => n - b <= y /\ n - b <= y + i
  OBVIOUS
<1>4. Account(f, l + 1, g, i) \in Int
  BY <1>1, <1>2
<1> QED BY <1>1, <1>2, <1>3, <1>4

LEMMA KeepLoopAgain ==
  ASSUME TypeInv, req.interval \in Nat, NEW f \in Nat, NEW g \in Nat, NEW armed \in 0..now,
         \/ armedAt' = armed /\ lost' = lost
         \/ armedAt' = now /\ lost' = lost + 1,
         armed - began <= Account(f, lost, g, req.interval),
         now - began <= Account(f, lost, g, req.interval) + req.interval
  PROVE  /\ armedAt' - began <= Account(f, lost', g, req.interval)
         /\ now - began <= Account(f, lost', g, req.interval) + req.interval
<1>1. CASE armedAt' = armed /\ lost' = lost
  BY <1>1
<1>2. CASE armedAt' = now /\ lost' = lost + 1
  <2>1. lost \in Nat /\ now \in Int /\ began \in Int
    BY DEF TypeInv, TypeOK
  <2>2. /\ now - began <= Account(f, lost + 1, g, req.interval)
        /\ now - began <= Account(f, lost + 1, g, req.interval) + req.interval
    BY <2>1, KeepRestarted
  <2> QED BY <1>2, <2>2
<1> QED BY <1>1, <1>2

LEMMA KeepInvWaiting ==
  TypeInv /\ TermsInv /\ KeepInv
    /\ (Tick \/ CreateBill \/ StartRun \/ CreateBillDone \/ ApiSignal \/ ApiCloseBill)
  => KeepInv'
<1> SUFFICES ASSUME TypeInv, TermsInv, KeepInv,
                    Tick \/ CreateBill \/ StartRun \/ CreateBillDone
                      \/ ApiSignal \/ ApiCloseBill
             PROVE  KeepInv'
  OBVIOUS
<1>t. /\ now \in Int /\ began \in Int /\ armedAt \in Int /\ req.interval \in Int
      /\ fees \in Nat /\ lost \in Nat /\ failures \in Nat
      /\ busy \in Int /\ busy <= Delay /\ Delay \in Nat
  BY FeesAssumption DEF TypeInv, TypeOK
<1>i. req.policy = Subscription /\ pc \notin {"Request", "Refused"} =>
        /\ req.interval \in Nat /\ req.interval >= 1
        /\ Slack \in Int /\ Slack >= Delay
  <2>1. ASSUME req.policy = Subscription, pc \notin {"Request", "Refused"}
        PROVE  req.interval \in Nat /\ req.interval >= 1
    BY <2>1, IntervalPositive
  <2>2. ASSUME req.interval \in Nat
        PROVE  Slack \in Int /\ Slack >= Delay
    BY <1>t, <2>2, SlackGrows
  <2> QED BY <2>1, <2>2
<1>1. ASSUME Tick PROVE KeepInv'
  <2>1. /\ now' = now + 1 /\ pc' = pc /\ began' = began /\ armedAt' = armedAt
        /\ Slack' = Slack /\ req' = req
    BY <1>1 DEF Tick, history, Slack
  <2>2. CASE pc = "Select"
    <3>1. now < armedAt + req.interval
      <4>1. \A k \in DOMAIN Ready : ~Ready[k]
        BY <1>1, <2>2 DEF Tick, Activities
      <4>2. ~FeeDue
        BY <4>1 DEF Ready
      <4> QED BY <1>t, <4>2 DEF FeeDue
    <3>2. Slack \in Int
      BY <1>i, <2>2 DEF TermsInv
    <3>3. \A n, a, b, i, x \in Int : n < a + i /\ a - b <= x => n + 1 - b <= x + i
      OBVIOUS
    <3> QED BY <1>t, <2>1, <2>2, <3>1, <3>2, <3>3 DEF KeepInv
  <2>3. CASE pc # "Select"
    <3>1. busy' = busy + 1
      BY <1>1, <2>3 DEF Tick
    <3>2. \A n, c, b \in Int :
            /\ n - b <= c => n + 1 - b <= c + 1
            /\ (n + 1) - (c + 1) - b = n - c - b
      OBVIOUS
    <3> QED BY <1>t, <2>1, <2>3, <3>1, <3>2 DEF KeepInv
  <2> QED BY <2>2, <2>3
<1>2. ASSUME CreateBill PROVE KeepInv'
  BY <1>2 DEF CreateBill, Execute, KeepInv
<1>3. ASSUME StartRun PROVE KeepInv'
  BY <1>3, <1>t DEF StartRun, Execute, KeepInv
<1>4. ASSUME CreateBillDone PROVE KeepInv'
  <2>1. CASE pc' # "Select"
    BY <1>4, <2>1 DEF CreateBillDone, Execute, KeepInv
  <2>2. CASE pc' = "Select"
    <3>1. /\ pc = "CreateBill" /\ req.policy = Subscription
          /\ now' = now /\ began' = began /\ armedAt' = armedAt /\ req' = req /\ Slack' = Slack
      BY <1>4, <2>2 DEF CreateBillDone, Execute, history, Slack
    <3>2. /\ req.interval \in Nat /\ Slack \in Int /\ Slack >= Delay
          /\ armedAt = began /\ now - began <= busy
      BY <1>i, <3>1 DEF KeepInv
    <3>3. \A n, b, c, d, i, x \in Int :
            n - b <= c /\ c <= d /\ d <= x /\ 0 <= i /\ 0 <= d
              => n - b <= x + i /\ b - b <= x
      OBVIOUS
    <3>4. now - began <= Slack + req.interval /\ began - began <= Slack
      BY <1>t, <3>2, <3>3
    <3> QED BY <2>2, <3>1, <3>2, <3>4 DEF KeepInv
  <2> QED BY <2>1, <2>2
<1>5. ASSUME ApiSignal \/ ApiCloseBill PROVE KeepInv'
  BY <1>5 DEF ApiSignal, ApiCloseBill, run, history, KeepInv, Slack
<1> QED BY <1>1, <1>2, <1>3, <1>4, <1>5

LEMMA KeepInvLoop ==
  TypeInv /\ TermsInv /\ KeepInv
    /\ (\/ ReceiveAddLineItem \/ ReceiveUpdateLineItem \/ ReceiveRecurring
        \/ RecurringItemDone \/ RecurringItemGivenUp)
  => KeepInv'
<1> SUFFICES ASSUME TypeInv, TermsInv, KeepInv,
                    \/ ReceiveAddLineItem \/ ReceiveUpdateLineItem \/ ReceiveRecurring
                    \/ RecurringItemDone \/ RecurringItemGivenUp
             PROVE  KeepInv'
  OBVIOUS
<1>t. /\ now \in Nat /\ began \in Int /\ armedAt \in 0..now
      /\ fees \in Nat /\ lost \in Nat /\ failures \in Nat
      /\ busy \in Int /\ busy <= Delay /\ Delay \in Nat
  BY FeesAssumption DEF TypeInv, TypeOK
<1>p. pc \in {"Select", "RecurringItem"}
  BY TurnReady DEF ReceiveAddLineItem, ReceiveUpdateLineItem, ReceiveRecurring,
                   RecurringItemDone, RecurringItemGivenUp
<1>i. req.interval \in Nat
  BY <1>p, IntervalPositive DEF TermsInv
<1>a. /\ Slack \in Int
      /\ \A k \in Nat : k = fees + 1 =>
           Account(k, lost, failures, req.interval) = Slack + req.interval + Delay
      /\ \A k \in Nat : k = failures + 1 =>
           Account(fees, lost, k, req.interval) = Slack + Delay
  BY <1>t, <1>i, SlackGrows
<1>l. ASSUME NEW s, NEW add, NEW update, NEW armed \in 0..now,
             LoopAgain(s, add, update, armed), now' = now, began' = began, req' = req,
             fees' \in Nat, failures' \in Nat,
             armed - began <= Account(fees', lost, failures', req.interval),
             now - began <= Account(fees', lost, failures', req.interval) + req.interval
      PROVE  KeepInv'
  <2>1. /\ pc' = "Select"
        /\ \/ armedAt' = armed /\ lost' = lost
           \/ armedAt' = now /\ lost' = lost + 1
    BY <1>l DEF LoopAgain, Execute
  <2>2. /\ armedAt' - began <= Account(fees', lost', failures', req.interval)
        /\ now - began <= Account(fees', lost', failures', req.interval) + req.interval
    BY <1>i, <1>l, <2>1, KeepLoopAgain
  <2>3. Slack' = Account(fees', lost', failures', req.interval)
    BY <1>l DEF Slack, Account
  <2> QED BY <1>l, <2>1, <2>2, <2>3 DEF KeepInv
<1>1. ASSUME ReceiveAddLineItem PROVE KeepInv'
  <2>1. /\ now' = now /\ began' = began /\ req' = req /\ fees' = fees /\ failures' = failures
        /\ pc = "Select" /\ LoopAgain(Counted, adds - 1, updates, armedAt)
    BY <1>1, TurnReady DEF ReceiveAddLineItem
  <2>2. armedAt - began <= Slack /\ now - began <= Slack + req.interval
    BY <2>1 DEF KeepInv
  <2> QED BY <1>t, <1>l, <2>1, <2>2 DEF Slack
<1>2. ASSUME ReceiveUpdateLineItem PROVE KeepInv'
  <2>1. /\ now' = now /\ began' = began /\ req' = req /\ fees' = fees /\ failures' = failures
        /\ pc = "Select" /\ LoopAgain(Counted, adds, updates - 1, armedAt)
    BY <1>2, TurnReady DEF ReceiveUpdateLineItem
  <2>2. armedAt - began <= Slack /\ now - began <= Slack + req.interval
    BY <2>1 DEF KeepInv
  <2> QED BY <1>t, <1>l, <2>1, <2>2 DEF Slack
<1>3. ASSUME ReceiveRecurring PROVE KeepInv'
  <2>1. /\ pc = "Select" /\ pc' = "RecurringItem" /\ busy' = 0 /\ now' = now
        /\ began' = began /\ armedAt' = armedAt /\ req' = req /\ Slack' = Slack
    BY <1>3, TurnReady DEF ReceiveRecurring, Execute, history, Slack
  <2>2. now - 0 - began = now - began
    BY <1>t
  <2> QED BY <2>1, <2>2 DEF KeepInv
<1>4. ASSUME RecurringItemDone PROVE KeepInv'
  <2>1. /\ now' = now /\ began' = began /\ req' = req
        /\ fees' = fees + 1 /\ failures' = failures
        /\ pc = "RecurringItem" /\ LoopAgain(Charged, adds, updates, now)
    BY <1>4 DEF RecurringItemDone
  <2>2. now - busy - began <= Slack + req.interval
    BY <2>1 DEF KeepInv
  <2>3. \A n, c, b, d, x, i \in Int :
          n - c - b <= x + i /\ c <= d /\ i >= 0
            => n - b <= x + i + d /\ n - b <= x + i + d + i
    OBVIOUS
  <2>4. /\ now - began <= Slack + req.interval + Delay
        /\ now - began <= Slack + req.interval + Delay + req.interval
    BY <1>t, <1>i, <1>a, <2>2, <2>3
  <2> QED BY <1>t, <1>a, <1>l, <2>1, <2>4
<1>5. ASSUME RecurringItemGivenUp PROVE KeepInv'
  <2>1. /\ now' = now /\ began' = began /\ req' = req
        /\ fees' = fees /\ failures' = failures + 1
        /\ pc = "RecurringItem" /\ LoopAgain(state, adds, updates, armedAt)
    BY <1>5 DEF RecurringItemGivenUp
  <2>2. armedAt - began <= Slack /\ now - busy - began <= Slack + req.interval
    BY <2>1 DEF KeepInv
  <2>3. \A n, a, c, b, d, x, i \in Int :
          a - b <= x /\ n - c - b <= x + i /\ c <= d /\ d >= 0
            => a - b <= x + d /\ n - b <= x + d + i
    OBVIOUS
  <2>4. armedAt - began <= Slack + Delay /\ now - began <= Slack + Delay + req.interval
    BY <1>t, <1>i, <1>a, <2>2, <2>3
  <2> QED BY <1>t, <1>a, <1>l, <2>1, <2>4
<1> QED BY <1>1, <1>2, <1>3, <1>4, <1>5

LEMMA KeepInvStep == TypeInv /\ TermsInv /\ KeepInv /\ [Next]_vars => KeepInv'
<1>1. KeepInv /\ (LeaveLoop \/ CloseBillFromStateDone) => KeepInv'
  BY DEF LeaveLoop, CloseBillFromStateDone, Execute, KeepInv
<1>2. KeepInv /\ UNCHANGED vars => KeepInv'
  BY DEF vars, run, history, KeepInv, Slack
<1> QED BY <1>1, <1>2, KeepInvWaiting, KeepInvLoop DEF Next, Finished

\* The fees charged keep up with the time that has passed, but for the intervals a
\* continued run started again and for the time of the activities, those of the fees
\* given up included (RecurringFeeTimerFuture, HandleAddRecurringItem).
THEOREM FeesFollowTime == Spec => []FeesKeepUp
<1>1. TypeInv /\ TermsInv /\ KeepInv => FeesKeepUp
  <2> SUFFICES ASSUME TypeInv, TermsInv, KeepInv, pc \in {"Select", "RecurringItem"}
               PROVE  now - began <=
                        (fees + lost + 1) * (req.interval + Delay) + (failures + 1) * Delay
    BY DEF FeesKeepUp
  <2>t. /\ now \in Int /\ began \in Int
        /\ fees \in Nat /\ lost \in Nat /\ failures \in Nat
        /\ busy \in Int /\ busy <= Delay /\ Delay \in Nat
    BY FeesAssumption DEF TypeInv, TypeOK
  <2>i. req.interval \in Nat
    BY IntervalPositive DEF TermsInv
  <2>1. Slack \in Int /\ now - began <= Slack + req.interval + Delay
    <3>1. Slack \in Int
      BY <2>t, <2>i, SlackGrows
    <3>2. \A n, c, b, d, x, i \in Int :
            /\ n - b <= x + i /\ d >= 0 => n - b <= x + i + d
            /\ n - c - b <= x + i /\ c <= d => n - b <= x + i + d
      OBVIOUS
    <3>3. CASE pc = "Select"
      BY <2>t, <2>i, <3>1, <3>2, <3>3 DEF KeepInv
    <3>4. CASE pc = "RecurringItem"
      BY <2>t, <2>i, <3>1, <3>2, <3>4 DEF KeepInv
    <3> QED BY <3>1, <3>3, <3>4
  <2> DEFINE k == fees + 1
  <2>k. k \in Nat /\ k + lost = fees + lost + 1
    BY <2>t
  <2>2. Account(k, lost, failures, req.interval) = Slack + req.interval + Delay
    BY <2>t, <2>i, <2>k, SlackGrows
  <2>3. Account(k, lost, failures, req.interval)
          = (fees + lost + 1) * (req.interval + Delay) + (failures + 1) * Delay
    BY <2>k DEF Account
  <2> QED BY <2>1, <2>2, <2>3
<1>2. Init => KeepInv
  BY DEF Init, KeepInv
<1>3. Spec => [](TypeInv /\ TermsInv /\ KeepInv)
  BY <1>2, TypeInvInit, TypeInvStep, TermsInvInit, TermsInvStep, KeepInvStep, PTL DEF Spec
<1> QED BY <1>1, <1>3, PTL

-----------------------------------------------------------------------------
(***************************************************************************)
(* The period is kept. The timer that ends the loop is set for the period's *)
(* end, or for a moment that has come; what may still be served after the  *)
(* end is one fee that is due, and its attempts.                           *)
(***************************************************************************)
Late(g) == (g + 2) * Delay

LEMMA LateGrows ==
  ASSUME NEW g \in Nat
  PROVE  /\ Late(g) \in Int /\ Late(g) >= Delay + Delay
         /\ Late(g + 1) = Late(g) + Delay
         /\ (g + 3) * Delay = Late(g) + Delay
<1>1. Delay \in Nat
  BY FeesAssumption
<1>2. \A a, b \in Int : /\ a * b \in Int
                        /\ (a + 1) * b = a * b + b
                        /\ (a + 2) * b = a * b + b + b
                        /\ (a + 3) * b = a * b + b + b + b
  OBVIOUS
<1>3. \A a, b \in Nat : a * b \in Nat
  OBVIOUS
<1>4. /\ g * Delay \in Nat
      /\ (g + 2) * Delay = g * Delay + Delay + Delay
      /\ (g + 3) * Delay = g * Delay + Delay + Delay + Delay
  BY <1>1, <1>2, <1>3
<1>5. (g + 1) + 2 = g + 3
  OBVIOUS
<1> QED BY <1>1, <1>4, <1>5 DEF Late

PeriodInv ==
  /\ pc = "NewBillingPolicy" => now <= busy
  /\ pc = "CreateBill" => now <= busy + Delay
  /\ pc \in {"Select", "RecurringItem"} =>
       timerAt >= req.end /\ (timerAt = req.end \/ timerAt <= now)
  /\ pc = "Select" =>
       /\ now <= req.end + Late(failures) + Delay
       /\ FeeDue => now <= req.end + Late(failures)
  /\ pc = "RecurringItem" => now <= req.end + Late(failures) + busy
  /\ pc = "CloseBillFromState" /\ close # "received" => now >= req.end

LEMMA PeriodInvWaiting ==
  TypeInv /\ TermsInv /\ PeriodInv
    /\ (Tick \/ CreateBill \/ StartRun \/ CreateBillDone \/ ApiSignal \/ ApiCloseBill)
  => PeriodInv'
<1> SUFFICES ASSUME TypeInv, TermsInv, PeriodInv,
                    Tick \/ CreateBill \/ StartRun \/ CreateBillDone
                      \/ ApiSignal \/ ApiCloseBill
             PROVE  PeriodInv'
  OBVIOUS
<1>t. /\ now \in Nat /\ armedAt \in Int /\ req.interval \in Int /\ req.end \in Nat
      /\ timerAt \in Int /\ failures \in Nat
      /\ busy \in Nat /\ busy <= Delay /\ Delay \in Nat
  BY FeesAssumption DEF TypeInv, TypeOK
<1>l. Late(failures) \in Int /\ Late(failures) >= Delay + Delay
  BY <1>t, LateGrows
<1>1. ASSUME Tick PROVE PeriodInv'
  <2>1. /\ now' = now + 1 /\ pc' = pc /\ req' = req /\ failures' = failures
        /\ timerAt' = timerAt /\ armedAt' = armedAt /\ close' = close
    BY <1>1 DEF Tick, history, chans
  <2>2. CASE pc = "Select"
    <3>1. now < timerAt
      <4>1. \A k \in DOMAIN Ready : ~Ready[k]
        BY <1>1, <2>2 DEF Tick, Activities
      <4>2. ~(now >= timerAt)
        BY <4>1 DEF Ready
      <4> QED BY <1>t, <4>2
    <3>2. timerAt = req.end /\ timerAt >= req.end
      BY <1>t, <2>2, <3>1 DEF PeriodInv
    <3>3. \A n, e, d, x \in Int : n < e /\ x >= d + d /\ d >= 0
             => n + 1 <= e + x + d /\ n + 1 <= e + x
      OBVIOUS
    <3>4. now + 1 <= req.end + Late(failures) + Delay /\ now + 1 <= req.end + Late(failures)
      BY <1>t, <1>l, <3>1, <3>2, <3>3
    <3> QED BY <2>1, <2>2, <3>2, <3>4 DEF PeriodInv
  <2>3. CASE pc # "Select"
    <3>1. busy' = busy + 1
      BY <1>1, <2>3 DEF Tick
    <3>2. \A n, b, c, x, e \in Int :
            /\ n <= b => n + 1 <= b + 1
            /\ n <= b + c => n + 1 <= b + 1 + c
            /\ n <= e + x + b => n + 1 <= e + x + (b + 1)
            /\ n >= e => n + 1 >= e
            /\ e <= n => e <= n + 1
      OBVIOUS
    <3> QED BY <1>t, <1>l, <2>1, <2>3, <3>1, <3>2 DEF PeriodInv
  <2> QED BY <2>2, <2>3
<1>2. ASSUME CreateBill PROVE PeriodInv'
  BY <1>2 DEF CreateBill, Execute, PeriodInv, TypeInv
<1>3. ASSUME StartRun PROVE PeriodInv'
  <2>1. now <= 0 + Delay
    BY <1>3, <1>t DEF StartRun, PeriodInv
  <2> QED BY <1>3, <2>1 DEF StartRun, Execute, PeriodInv
<1>4. ASSUME CreateBillDone PROVE PeriodInv'
  <2>1. CASE pc' # "Select"
    BY <1>4, <2>1 DEF CreateBillDone, Execute, PeriodInv
  <2>2. CASE pc' = "Select"
    <3>1. /\ pc = "CreateBill" /\ now' = now /\ req' = req /\ failures' = failures
          /\ timerAt' = now + Max0(DurationUntilEnd)
      BY <1>4, <2>2 DEF CreateBillDone, Execute, history
    <3>2. now <= busy + Delay
      BY <3>1 DEF PeriodInv
    <3>3. timerAt' >= req.end /\ (timerAt' = req.end \/ timerAt' <= now)
      BY <1>t, <3>1, TimerOfPeriod
    <3>4. \A n, e, b, d, x \in Int : n <= b + d /\ b <= d /\ x >= d + d /\ d >= 0 /\ e >= 0
             => n <= e + x + d /\ n <= e + x
      OBVIOUS
    <3>5. now <= req.end + Late(failures) + Delay /\ now <= req.end + Late(failures)
      BY <1>t, <1>l, <3>2, <3>4
    <3> QED BY <2>2, <3>1, <3>3, <3>5 DEF PeriodInv
  <2> QED BY <2>1, <2>2
<1>5. ASSUME ApiSignal \/ ApiCloseBill PROVE PeriodInv'
  BY <1>5 DEF ApiSignal, ApiCloseBill, run, history, PeriodInv, FeeDue
<1> QED BY <1>1, <1>2, <1>3, <1>4, <1>5

LEMMA PeriodInvLoop ==
  TypeInv /\ TermsInv /\ PeriodInv
    /\ (\/ ReceiveAddLineItem \/ ReceiveUpdateLineItem \/ ReceiveRecurring
        \/ RecurringItemDone \/ RecurringItemGivenUp \/ LeaveLoop)
  => PeriodInv'
<1> SUFFICES ASSUME TypeInv, TermsInv, PeriodInv,
                    \/ ReceiveAddLineItem \/ ReceiveUpdateLineItem \/ ReceiveRecurring
                    \/ RecurringItemDone \/ RecurringItemGivenUp \/ LeaveLoop
             PROVE  PeriodInv'
  OBVIOUS
<1>t. /\ now \in Nat /\ armedAt \in 0..now /\ req.end \in Nat
      /\ timerAt \in Int /\ failures \in Nat
      /\ busy \in Nat /\ busy <= Delay /\ Delay \in Nat
  BY FeesAssumption DEF TypeInv, TypeOK
<1>p. pc \in {"Select", "RecurringItem"}
  BY TurnReady DEF ReceiveAddLineItem, ReceiveUpdateLineItem, ReceiveRecurring,
                   RecurringItemDone, RecurringItemGivenUp, LeaveLoop
<1>i. req.interval \in Nat /\ req.interval >= 1
  BY <1>p, IntervalPositive DEF TermsInv
<1>e. timerAt >= req.end /\ (timerAt = req.end \/ timerAt <= now)
  BY <1>p DEF PeriodInv
<1>l. Late(failures) \in Int
  BY <1>t, LateGrows
<1>a. ASSUME NEW s, NEW add, NEW update, NEW armed \in 0..now,
             LoopAgain(s, add, update, armed), now' = now, req' = req,
             now <= req.end + Late(failures') + Delay,
             now >= armed + req.interval => now <= req.end + Late(failures')
      PROVE  PeriodInv'
  <2>1. /\ pc' = "Select"
        /\ armedAt' = armed \/ armedAt' = now
        /\ timerAt' = timerAt \/ timerAt' = now + Max0(DurationUntilEnd)
    BY <1>a DEF LoopAgain, Execute
  <2>2. timerAt' >= req.end /\ (timerAt' = req.end \/ timerAt' <= now)
    BY <1>t, <1>e, <2>1, TimerOfPeriod
  <2>3. ~(now >= now + req.interval)
    BY <1>t, <1>i
  <2>4. FeeDue' => now <= req.end + Late(failures')
    BY <1>a, <2>1, <2>3 DEF FeeDue
  <2> QED BY <1>a, <2>1, <2>2, <2>4 DEF PeriodInv
<1>1. ASSUME ReceiveAddLineItem PROVE PeriodInv'
  <2>1. /\ now' = now /\ req' = req /\ failures' = failures
        /\ pc = "Select" /\ LoopAgain(Counted, adds - 1, updates, armedAt)
    BY <1>1, TurnReady DEF ReceiveAddLineItem
  <2>2. /\ now <= req.end + Late(failures) + Delay
        /\ now >= armedAt + req.interval => now <= req.end + Late(failures)
    BY <2>1 DEF PeriodInv, FeeDue
  <2> QED BY <1>t, <1>a, <2>1, <2>2
<1>2. ASSUME ReceiveUpdateLineItem PROVE PeriodInv'
  <2>1. /\ now' = now /\ req' = req /\ failures' = failures
        /\ pc = "Select" /\ LoopAgain(Counted, adds, updates - 1, armedAt)
    BY <1>2, TurnReady DEF ReceiveUpdateLineItem
  <2>2. /\ now <= req.end + Late(failures) + Delay
        /\ now >= armedAt + req.interval => now <= req.end + Late(failures)
    BY <2>1 DEF PeriodInv, FeeDue
  <2> QED BY <1>t, <1>a, <2>1, <2>2
<1>3. ASSUME ReceiveRecurring PROVE PeriodInv'
  <2>1. /\ pc = "Select" /\ FeeDue /\ pc' = "RecurringItem" /\ busy' = 0
        /\ now' = now /\ timerAt' = timerAt /\ req' = req /\ failures' = failures
    BY <1>3, TurnReady DEF ReceiveRecurring, Execute, history
  <2>2. now <= req.end + Late(failures) + 0
    <3>1. now <= req.end + Late(failures)
      BY <2>1 DEF PeriodInv
    <3>2. \A n, e, x \in Int : n <= e + x => n <= e + x + 0
      OBVIOUS
    <3> QED BY <1>t, <1>l, <3>1, <3>2
  <2> QED BY <1>e, <2>1, <2>2 DEF PeriodInv
<1>r. pc = "RecurringItem" => now <= req.end + Late(failures) + Delay
  <2>1. \A n, e, x, b, d \in Int : n <= e + x + b /\ b <= d => n <= e + x + d
    OBVIOUS
  <2> QED BY <1>t, <1>l, <2>1 DEF PeriodInv
<1>4. ASSUME RecurringItemDone PROVE PeriodInv'
  <2>1. /\ now' = now /\ req' = req /\ failures' = failures
        /\ pc = "RecurringItem" /\ LoopAgain(Charged, adds, updates, now)
    BY <1>4 DEF RecurringItemDone
  <2>2. ~(now >= now + req.interval)
    BY <1>t, <1>i
  <2>3. now \in 0..now
    BY <1>t
  <2> QED BY <1>a, <1>r, <2>1, <2>2, <2>3
<1>5. ASSUME RecurringItemGivenUp PROVE PeriodInv'
  <2>1. /\ now' = now /\ req' = req /\ failures' = failures + 1
        /\ pc = "RecurringItem" /\ LoopAgain(state, adds, updates, armedAt)
    BY <1>5 DEF RecurringItemGivenUp
  <2>2. Late(failures') = Late(failures) + Delay
    BY <1>t, <2>1, LateGrows
  <2>3. \A n, e, x, d \in Int : n <= e + x + d /\ d >= 0
           => n <= e + (x + d) /\ n <= e + (x + d) + d
    OBVIOUS
  <2>4. now <= req.end + Late(failures') /\ now <= req.end + Late(failures') + Delay
    BY <1>t, <1>l, <1>r, <2>1, <2>2, <2>3
  <2> QED BY <1>t, <1>a, <2>1, <2>4
<1>6. ASSUME LeaveLoop PROVE PeriodInv'
  <2>1. /\ pc' = "CloseBillFromState" /\ now' = now /\ req' = req
        /\ close' = "received" \/ now >= timerAt
    BY <1>6, TurnReady DEF LeaveLoop, Execute
  <2>2. now >= timerAt => now >= req.end
    BY <1>t, <1>e
  <2> QED BY <2>1, <2>2 DEF PeriodInv
<1> QED BY <1>1, <1>2, <1>3, <1>4, <1>5, <1>6

\* No bill is closed that nobody asked to close before its period's end, and none is
\* served after it but for the activities under way and the fees given up, whatever
\* number of runs the period took (BillingPeriodEnd, durationUntilEnd).
THEOREM PeriodKept == Spec => []PeriodIsKept
<1>1. TypeInv /\ PeriodInv => PeriodIsKept
  <2> SUFFICES ASSUME TypeInv, PeriodInv PROVE PeriodIsKept
    OBVIOUS
  <2>t. /\ now \in Int /\ req.end \in Int /\ failures \in Nat
        /\ busy \in Int /\ busy <= Delay /\ Delay \in Nat
    BY FeesAssumption DEF TypeInv, TypeOK
  <2>1. Late(failures) \in Int /\ (failures + 3) * Delay = Late(failures) + Delay
    BY <2>t, LateGrows
  <2>2. \A n, e, x, b, d \in Int :
          /\ n <= e + x + d => n <= e + (x + d)
          /\ n <= e + x + b /\ b <= d => n <= e + (x + d)
    OBVIOUS
  <2>3. pc \in {"Select", "RecurringItem"} => now <= req.end + (Late(failures) + Delay)
    BY <2>t, <2>1, <2>2 DEF PeriodInv
  <2> QED BY <2>1, <2>3 DEF PeriodInv, PeriodIsKept
<1>2. Init => PeriodInv
  BY DEF Init, PeriodInv
<1>3. PeriodInv /\ CloseBillFromStateDone => PeriodInv'
  BY DEF CloseBillFromStateDone, Execute, PeriodInv
<1>4. PeriodInv /\ UNCHANGED vars => PeriodInv'
  BY DEF vars, run, chans, history, PeriodInv, FeeDue
<1>5. TypeInv /\ TermsInv /\ PeriodInv /\ [Next]_vars => PeriodInv'
  BY <1>3, <1>4, PeriodInvWaiting, PeriodInvLoop DEF Next, Finished
<1>6. Spec => [](TypeInv /\ TermsInv /\ PeriodInv)
  BY <1>2, <1>5, TypeInvInit, TypeInvStep, TermsInvInit, TermsInvStep, PTL DEF Spec
<1> QED BY <1>1, <1>6, PTL

-----------------------------------------------------------------------------
(***************************************************************************)
(* The total. Wrapping after each fee is wrapping once, after all of them. *)
(***************************************************************************)
\* A remainder is determined by the number: there is one in 0..k - 1.
LEMMA RemainderUnique ==
  ASSUME NEW k \in Nat \ {0}, NEW q \in Int, NEW p \in Int,
         NEW r \in 0..k - 1, NEW t \in 0..k - 1, k * q + r = k * p + t
  PROVE  r = t
<1>1. \A d \in Nat : d >= 1 => k * d >= k
  OBVIOUS
<1>2. k * (q - p) = t - r /\ k * (p - q) = r - t
  <2>1. \A a, b \in Int : k * (a - b) = k * a - k * b /\ k * a \in Int
    OBVIOUS
  <2> QED BY <2>1
<1>3. ~(q - p >= 1) /\ ~(p - q >= 1)
  BY <1>1, <1>2
<1>4. q = p
  BY <1>3
<1> QED BY <1>2, <1>4

LEMMA RemainderOfSum ==
  ASSUME NEW k \in Nat \ {0}, NEW n \in Int, NEW m \in Int
  PROVE  ((n % k) + m) % k = (n + m) % k
<1>1. \A a \in Int : \E q \in Int, r \in 0..k - 1 : a = k * q + r /\ a % k = r
  <2> SUFFICES ASSUME NEW a \in Int
               PROVE  \E q \in Int, r \in 0..k - 1 : a = k * q + r /\ a % k = r
    OBVIOUS
  <2>1. a \div k \in Int /\ a % k \in 0..k - 1
    OBVIOUS
  <2>2. a = (a \div k) * k + (a % k)
    OBVIOUS
  <2>3. \A x, y \in Int : x * y = y * x
    OBVIOUS
  <2>4. a = k * (a \div k) + (a % k)
    BY <2>1, <2>2, <2>3
  <2> QED BY <2>1, <2>4
<1>2. PICK q \in Int, r \in 0..k - 1 : n = k * q + r /\ n % k = r
  BY <1>1
<1>3. PICK p \in Int, s \in 0..k - 1 : r + m = k * p + s /\ (r + m) % k = s
  <2>1. r + m \in Int
    OBVIOUS
  <2> QED BY <1>1, <2>1
<1>4. PICK u \in Int, t \in 0..k - 1 : n + m = k * u + t /\ (n + m) % k = t
  <2>1. n + m \in Int
    OBVIOUS
  <2> QED BY <1>1, <2>1
<1>5. k * (q + p) + s = k * u + t
  <2>1. \A a, b \in Int : k * (a + b) = k * a + k * b /\ k * a \in Int
    OBVIOUS
  <2> QED BY <1>2, <1>3, <1>4, <2>1
<1>6. s = t
  <2>1. q + p \in Int
    OBVIOUS
  <2> QED BY <1>5, <2>1, RemainderUnique
<1> QED BY <1>2, <1>3, <1>4, <1>6

LEMMA WrapAgain ==
  ASSUME NEW n \in Int, NEW m \in Int
  PROVE  Wrap(Wrap(n) + m) = Wrap(n + m)
<1> DEFINE W == MaxInt64 + 1
<1>1. W \in Nat \ {0} /\ 2 * W \in Nat \ {0}
  BY FeesAssumption
<1>2. \A a \in Int : Wrap(a) = ((a + W) % (2 * W)) - W
  BY DEF Wrap
<1> HIDE DEF W
<1>3. PICK r \in Int : r = (n + W) % (2 * W) /\ Wrap(n) = r - W
  <2>1. (n + W) % (2 * W) \in Int
    <3>1. \A a \in Int, k \in Nat \ {0} : a % k \in Int
      OBVIOUS
    <3>2. n + W \in Int
      BY <1>1
    <3> QED BY <1>1, <3>1, <3>2
  <2> QED BY <1>2, <2>1
<1>4. Wrap(r - W + m) = ((r + m) % (2 * W)) - W
  <2>1. r - W + m \in Int /\ (r - W + m) + W = r + m
    BY <1>1
  <2> QED BY <1>2, <2>1
<1>5. (r + m) % (2 * W) = (n + W + m) % (2 * W)
  <2>1. n + W \in Int
    BY <1>1
  <2> QED BY <1>1, <1>3, <2>1, RemainderOfSum
<1>6. Wrap(n + m) = ((n + W + m) % (2 * W)) - W
  <2>1. n + m \in Int /\ n + m + W = n + W + m
    BY <1>1
  <2> QED BY <1>2, <2>1
<1> QED BY <1>3, <1>4, <1>5, <1>6

LEMMA WrapFits == \A n \in Int64 : Wrap(n) = n
<1> SUFFICES ASSUME NEW n \in Int64 PROVE Wrap(n) = n
  OBVIOUS
<1> DEFINE W == MaxInt64 + 1
<1>1. W \in Nat \ {0} /\ n \in Int /\ n + W \in 0..2 * W - 1
  BY FeesAssumption DEF Int64
<1>2. Wrap(n) = ((n + W) % (2 * W)) - W
  BY DEF Wrap
<1> HIDE DEF W
<1>3. \A k \in Nat \ {0} : \A a \in 0..k - 1 : a % k = a
  OBVIOUS
<1>4. (n + W) % (2 * W) = n + W
  <2>1. 2 * W \in Nat \ {0}
    BY <1>1
  <2> QED BY <1>1, <1>3, <2>1
<1> QED BY <1>1, <1>2, <1>4

LEMMA TotalOfNone == \A i \in Int : Wrap(0 * i) = 0
<1>1. \A i \in Int : 0 * i = 0
  OBVIOUS
<1>2. 0 \in Int64
  BY FeesAssumption DEF Int64
<1> QED BY <1>1, <1>2, WrapFits

LEMMA TotalOfNext ==
  ASSUME NEW f \in Int, NEW i \in Int
  PROVE  Wrap(Wrap(f * i) + i) = Wrap((f + 1) * i)
<1>1. f * i \in Int /\ (f + 1) * i = f * i + i
  OBVIOUS
<1> QED BY <1>1, WrapAgain

LEMMA TotalInit == Init => TotalIsOfFees
<1> SUFFICES ASSUME Init PROVE TotalIsOfFees
  OBVIOUS
<1>1. req.amount \in Int
  BY TypeInvInit DEF TypeInv
<1> QED BY <1>1, TotalOfNone DEF Init, TotalIsOfFees

LEMMA TotalStep == TypeInv /\ TotalIsOfFees /\ [Next]_vars => TotalIsOfFees'
<1> SUFFICES ASSUME TypeInv, TotalIsOfFees, [Next]_vars PROVE TotalIsOfFees'
  OBVIOUS
<1>t. /\ state \in BillState /\ req.amount \in Int /\ fees \in Int
      /\ Counted.Total = state.Total
      /\ Charged.Total = Wrap(state.Total + req.amount)
  BY StateTyped DEF TypeInv, TypeOK
<1>1. ASSUME state'.Total = state.Total, fees' = fees, req' = req PROVE TotalIsOfFees'
  BY <1>1 DEF TotalIsOfFees, Wrap
<1>2. ASSUME CreateBill PROVE TotalIsOfFees'
  <2>1. fees = 0 /\ fees' = 0 /\ state' = state
    BY <1>2 DEF CreateBill, TypeInv, history
  <2>2. state.Total = 0
    BY <1>t, <2>1, TotalOfNone DEF TotalIsOfFees
  <2>3. req'.amount \in Int
    BY <1>2, TypeInvRequests DEF TypeInv
  <2> QED BY <2>1, <2>2, <2>3, TotalOfNone DEF TotalIsOfFees, Wrap
<1>3. ASSUME Tick \/ StartRun \/ CreateBillDone \/ ApiSignal \/ ApiCloseBill
      PROVE  TotalIsOfFees'
  BY <1>3, <1>1 DEF Tick, StartRun, CreateBillDone, ApiSignal, ApiCloseBill, run, history
<1>4. ASSUME ReceiveAddLineItem \/ ReceiveUpdateLineItem \/ ReceiveRecurring
      PROVE  TotalIsOfFees'
  <2>1. state' = Counted /\ fees' = fees /\ req' = req
    BY <1>4 DEF ReceiveAddLineItem, ReceiveUpdateLineItem, ReceiveRecurring,
                LoopAgain, PreviousState, history
  <2> QED BY <1>1, <1>t, <2>1
<1>5. ASSUME RecurringItemDone PROVE TotalIsOfFees'
  <2>1. state' = Charged /\ fees' = fees + 1 /\ req' = req
    BY <1>5 DEF RecurringItemDone, LoopAgain, PreviousState
  <2>2. state'.Total = Wrap((fees + 1) * req.amount)
    BY <1>t, <2>1, TotalOfNext DEF TotalIsOfFees
  <2> QED BY <2>1, <2>2 DEF TotalIsOfFees, Wrap
<1>6. ASSUME RecurringItemGivenUp PROVE TotalIsOfFees'
  <2>1. state' = state /\ fees' = fees /\ req' = req
    BY <1>6 DEF RecurringItemGivenUp, LoopAgain, PreviousState
  <2> QED BY <1>1, <2>1
<1>7. ASSUME LeaveLoop \/ CloseBillFromStateDone PROVE TotalIsOfFees'
  BY <1>7, <1>1 DEF LeaveLoop, CloseBillFromStateDone, history
<1>8. ASSUME UNCHANGED vars PROVE TotalIsOfFees'
  BY <1>8, <1>1 DEF vars, run, history
<1> QED BY <1>2, <1>3, <1>4, <1>5, <1>6, <1>7, <1>8 DEF Next, Finished

LEMMA TotalAlways == Spec => [](TypeInv /\ TotalIsOfFees)
BY TypeInvInit, TypeInvStep, TotalInit, TotalStep, PTL DEF Spec

\* The total is that of the fees charged, over all the runs of the bill, in the width
\* of an int64 (IncrementTotal, PreviousState).
THEOREM TotalOfFees == Spec => []TotalIsOfFees
BY TotalAlways, PTL

\* ... and exact as long as the fees' sum is an int64 (IncrementTotal).
THEOREM TotalExact ==
  Spec => [](fees * req.amount \in Int64 => state.Total = fees * req.amount)
<1>1. TotalIsOfFees => (fees * req.amount \in Int64 => state.Total = fees * req.amount)
  BY WrapFits DEF TotalIsOfFees
<1> QED BY <1>1, TotalAlways, PTL
=============================================================================
