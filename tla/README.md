# Verification of the fees service

TLA+ models of the fees API (`fee/`): bills kept by long-running Temporal
workflows, fed by signals, timers and activities, and recorded in Postgres.
The models are translated from the Go code; TLC checks them on small instances
and TLAPS proves the theorems for every instance. Paths below are relative to
the repository; line numbers of every definition are in `PROJECT.json` ("map").

## 1. The system

| Component | State it keeps | Operations | What makes it correct |
|---|---|---|---|
| **Bill lifecycle workflow** (`fee/workflow/workflow.go`) | `BillState` (total, event count), three signal channels, the period timer, where it is blocked | create the bill, select and handle one case after another, continue as new at 500 events, close, read the detail, start the child | the total agrees with the rows; nothing is counted twice; what was accepted is billed; it ends |
| **Billing policies** (`policy.go`, `usage_based_policy.go`, `subscription_policy.go`) | the recurring timer of a subscription | handlers of adds, updates, recurring fees, close, timer | a fee per interval; a subscription refuses ad-hoc items |
| **Activities** (`activities.go`) | none; run at least once, with retries | `CreateBill`, `AddLineItem`, `UpdateLineItem`, `CloseBillFromState`, `GetBillDetail`, stubs of the post-processing | repeating one changes nothing more |
| **Store** (`fee/dao`) | tables `bills`, `line_items` | inserts with `ON CONFLICT DO NOTHING`, conditional and unconditional updates, reads, pages | rows only move forward; a closed bill is frozen |
| **Requests on a bill** (`add_line_item.go`, `void_line_item.go`, `close_bill.go`) | progress of the request | signal; check the table, then signal; signal, then wait for the run chain's result | an accepted request takes effect; a waiting one is answered |
| **Bill creation** (`create_bill.go`), **cron** (`cron.go`), **middleware** (`middleware.go`) | none | validate, check the table, start the workflow; start one per customer; pass on | one bill per id, one run per bill, retries have no second effect |
| **Bill queries** (`get_bill.go`, `get_bills.go`, `dao/db.go`) | the client's cursor | cut a page by creation time, query open workflows for their total; read a row, then its items | no bill is listed twice or missed; a total is one the bill has; a closed bill's detail adds up; a listing ends |
| **Post-process workflow** (`workflow.go:230`) | none | read the bill, call four stubs | runs once per closed bill with something to pay |
| **Conversions** (`fee/model`, `fee/utils`, `dto.go`) | none | decode, validate and translate status, currency, policy, interval | what is validated, run and stored are the same terms |
| Service wiring (`fee.go`), generated mocks, hello sample | | | not modelled |

How they interact: requests reach a workflow only as **signals**, buffered by
Temporal in a channel per signal name; the workflow's code is single-threaded
and blocks at `Select` or at one activity; an activity talks to Postgres and may
be run again when an attempt times out or its reply is lost; requests read the
tables directly, without the workflow.

What is hard: everything between two blocking points of the workflow is atomic,
and nothing else is. A signal may arrive at any of them, also when nobody will
receive it any more; an attempt that timed out may commit later; both timers and
all requests race; continue-as-new restarts the loop with part of its state; the
row and the total of one item are written by different steps. Over time the same
loop is a clock: fees drift with the activities, a continued run arms its timers
again, and totals are 64 bits wide. A reader asks the table and the workflows one
after another while all of this goes on.

## 2. Modules

| Module | What it is |
|---|---|
| `BillLedger` | The promise: a bill is opened, charged, voided and closed, and closing bills exactly what is active. |
| `BillLifecycle` | One bill: workflow, policy, activities with retries, the rows they write, the requests that signal it. Properties and the refinement mapping to `BillLedger`. |
| `BillRequests` | Many bills: creations, the cron, adds sent again, the runs under their workflow ids, post-processing. Each bill is an instance of `BillLedger`. |
| `MCBillRequests` | Instances: one id shared with the cron, two ids that have nothing to do with each other. |
| `MCBillLifecycle` | Instances for TLC: items named by their amounts, the sum, the symmetry of requests. |
| `BillQueries` | Listing page by page and reading a single bill, while bills are created, charged and closed. |
| `MCBillQueries` | What a client asks for: pages of one bill, the default, limits at and past the edge, statuses and cursors that are refused. |
| `CreationTerms` | Pure operators: decoding, `Validate`, the workflow's request, the stored metadata. |
| `SubscriptionFees` | One subscription with a clock: intervals and periods have a length, activities take time, totals have a width. Uses `CreationTerms`. |
| `MCSubscriptionFees` | Four subscriptions that run, and requests of which nearly all are refused. |
| `SubscriptionFeesProofs` | Every property of `SubscriptionFees`, proved for all constants. |
| `BillLifecycleProofs` | Type correctness and `CountedOnce`, proved for all constants. |
| `BillRequestsProofs` | Type correctness and the safety properties of `BillRequests`, with its refinement of `BillLedger` bill by bill, proved for all constants. |
| `BillRecordsProofs` | What the tables go through, the agreement of total and rows, and the step-by-step refinement of `BillLedger`. |
| `BillClosingProofs` | What a bill has when it is closed: the items accepted in time, a fee for every interval, its post-processing. |
| `BillFaultsProofs` | What each kind of fault costs the total and in which direction, one fee per interval under the condition it needs, and the progress of a run. |
| `BillQueriesProofs` | Type correctness and the safety properties of `BillQueries`, proved for all constants. |

### BillLifecycle and the code

* `pc` is the point where the workflow's goroutine is blocked: `"Select"` is
  `selector.Select(ctx)` (`workflow.go:151`), an activity's name is the `.Get` of
  that activity. `subject` is the line item the activity is about, `attempt` its
  attempt.
* `ReceiveAddLineItem`, `ReceiveRecurring`, `ReceiveUpdateLineItem`,
  `ReceiveCloseBill` and `TimerFired` are the five cases of the selector up to
  the activity they block on; `AddLineItemDone`, ... are the rest of the handler
  together with the activity's transaction. `LoopAgain` is what follows a
  handler: the threshold test and the new run. `EventCount` is carried over in
  `PreviousState` and never reset, so past the threshold every event continues
  as new. A new run gets empty channels, a freshly armed recurring timer, and
  the same total.
* Both policies are in the module, chosen by `Policy`; the subscription's
  handlers of adds and updates refuse but the event is counted.
* `OrderedSelect` tells which selector is assumed. The Go SDK's (`TRUE`) tests its cases in
  the order they were added, but only when `Select` is called: one that is already blocked
  takes the first event that reaches it, although later events of the same workflow task
  may make cases ready that were added before. `Arrives` is an event; when it finds `Select`
  blocked, `woken` may keep its case, which `Turn` then runs, or leave the choice to the
  order, so both are covered. `FALSE` lets `Select` take any ready case: what holds then
  does not rest on the SDK.
* `late` holds statements of abandoned attempts. `Retry` and `GiveUp` put the
  attempt's statement there and `LateCommit` applies it at any time or never: this
  covers an attempt that did nothing, one that committed before its reply was
  lost, and one that commits after its retry. A crashed worker is the same: the
  workflow is replayed to the point where it was blocked and the activity is
  retried.
* `Lossy` and `GivesUp` are the activities that may be retried and that may fail
  for good. `UpdateLineItem` fails at its first error because the code makes
  every database error non-retryable (`activities.go:37`); it is retried only
  when an attempt times out.
* A request is accepted while the chain's run is open. A refused one changes
  nothing and is not a step. The void request's check of the table and its signal
  are two steps.
* `charged`, `refunded`, `lost`, `owed` and `fires` are history: which items the total
  was moved by, which inserts were given up and which voids got no reply (`Retry` and
  `GiveUp` record them), what was accepted and had elapsed before closing began, how many
  intervals elapsed. No action's guard reads them.

Abstractions: line item ids are uuids, drawn once; amounts are unbounded
integers; timers have no length, a timer may fire at any moment after it was set;
currencies, descriptions and metadata do not appear. A run whose policy cannot
be built (`NewBillingPolicy` failing) is not started here but in `BillRequests`.

### BillRequests and the code

* `run[w]` is the latest run of a workflow id and where it is blocked; the steps of
  a run are those of `BillLifecycle`, without attempts: an activity either
  succeeds or gives up, and then its statement may still commit (`late`).
* `ExecuteWorkflow` is the client's call with its default options: it answers with
  the open run of the id when there is one and starts a new run otherwise.
* `CreateBillCheck` and `CreateBillStart` are the two halves of the creation
  request; `CreateBillStart` may start the run and fail. `StartMonthlyBilling` is one
  customer of the cron's loop, under the same workflow ids and without a check.
* Bill ids are sequences of parts, so that `BillCycleWorkflowID` and
  `BillPostprocessWorkflowID` can be what they are, concatenations that are not
  injective together.
* A creation that is `"refused"` ended before it started anything; one that `"failed"`
  reached Temporal, and only its client was told of an error.
* The idempotency middleware passes every request on, whatever its key: `AddLineItem`
  has no guard for a key that was used before.
* A creation's terms stand for its policy and currency. `CronTerms`, a subscription
  without a recurring fee, are the terms `NewBillingPolicy` refuses.
* `Prompt` assumes that a creation does not take longer between its check and its
  start than a bill takes to close. Nothing in the code ensures it; the code only
  makes it likely by refusing billing periods of less than a minute. It is `TRUE`
  in `requests_prompt`, and `closed_reopened` shows what happens without it.

### BillQueries and the code

* A bill is its row, the number of its ACTIVE items (each worth 1, which is enough to
  tell totals apart) and the point its workflow has reached. `CreateBillBegins`,
  `CreateBillCommits` and `CreateBillReturns` are one insert as others see it:
  `created_at` is fixed at the first, the row is visible from the second, the query
  handler answers from the third.
* `GetBills` is the handler up to its query, `ReadPage` the `SELECT`, `ShowBill` one
  turn of the loop that completes open bills (`LiveTotal` is `QueryWorkflow`, which may
  fail at any time), `AnswerPage` the reply and the client's next cursor. What happens
  between two of them is any number of steps of the bills.
* `Matching`, `Newest` and `LookAhead` are the statement: rows older than the cursor,
  newest first, equal times in any order, one row more than asked for. The limit is an
  `int`: the largest wraps, a negative one is an error, and -1 panics on the slice.
* `GetBillRow` and `GetLineItemsForBill` are the two statements of a bill's detail.
* `cut` marks requests whose rows broke off, which the code does not notice; `due`
  and `since` are history: the bills a complete listing must show, and the totals a
  bill has had since its page was read. No guard reads them.

### SubscriptionFees and the code

* `CreationTerms` gives what becomes of a request: `Decodes`, `Validate`,
  `WorkflowRequest`, `NewBillingPolicy`, `BillMetadata`. Durations are minutes; their
  text is a number and a unit, of which `time.ParseDuration` knows no day.
* `now` advances only while the workflow waits at `Select` with nothing ready, or
  while an activity runs, for `Delay` at most (`busy`). The workflow itself takes no
  time. `armedAt` is when the recurring timer was started, `timerAt` when the
  period's fires.
* `LoopAgain` is the end of a turn: below the threshold the state goes on, from it on
  the run continues as new, which starts the interval again (`lost`), computes the rest
  of the period again and drops what is buffered.
* A fee's activity succeeds or gives up as a whole; `BillLifecycle` has its attempts, and
  the order of the selector, on which no property here depends: any ready case may run.
  A usage-based bill is followed until it is stored: the rest of it is
  `BillLifecycle`'s.
* `began`, `fees`, `failures` and `lost` are history.

## 3. Properties and runs

The properties that runs check are stated, with what they are about, at the end of `BillLifecycle`,
`BillRequests`, `BillQueries` and `SubscriptionFees`.
"Reliable" means that no insert or void is given up and no reply of a void is
lost (`Reliable` in the module): the code's ledger does not survive those, see
section 5.

| Run | Instance | Question |
|---|---|---|
| `usage_reliable` | 2 items, 2 voids, 2 closes, ordered selector, 2 attempts, all activities but the void lossy | Do total and rows agree, is what was accepted before the close billed, is the closed bill post-processed, is it a ledger? |
| `usage_faulty` | fair; 2 items, 2 voids, 1 close, any order; adds, voids and closing may give up, replies of adds and of closing may be lost; a new run from the 3rd event on | Do types hold, is each item counted once, do total and rows differ only by inserts given up and voids without a reply, do records only advance, does each step of a run leave it less to do, does it end, is every close request answered? |
| `subscription_charged` | fair; 3 fees, lost replies but nothing given up, one run | Is every interval charged that elapsed before closing began, and all but at most one of those that elapsed until it was done, and none twice; is it a ledger, is it closed in the end? |
| `requests_prompt` | 3 creations on 2 terms and 2 months of the cron about one id, 2 keys sent twice, every activity may give up, prompt | Is the bill one ledger (so closed for good), post-processed at most once, its row on the terms of a creation of it that reached Temporal? |
| `requests_any_order` | fair; 3 creations of 2 unrelated ids, not prompt, nothing gives up | Does an answered creation have a run that inserts its row, does it get a bill; does an open bill have a run, is it closed; is what is closed with something to pay post-processed? |
| `queries` | fair; 2 bills, one of them charged and voided, 1 client listing, 1 reading a detail | Are pages in order, is none missed, are totals current, does a closed bill's detail add up, does a listing never read in circles, does it end? |
| `fees_over_time` | 220 requests; 4 subscriptions with intervals of 1 to 60 minutes and periods of 3 and 7, threshold 3, 3 refused signals, 2 fees given up, totals of 4 bits | Are the terms charged those accepted and stored, fees neither early nor lost, the total theirs, the period kept? |

Bounds. Two items and two voids are what two requests about one row, or about
two rows in both orders, need; two attempts give one lost attempt and its retry,
and the retry of a retry meets nothing new, because the statement left behind is
the same. The amounts 1 and 2 differ, so that no
error of a total hides another. Three fees are an interval charged, one under way and one due. A
threshold of 2 or 3 lets the first runs end with signals still buffered and later
ones with every event; a threshold of 100 is never reached, and the theorems of
section 4 say what holds at every threshold and for fees that give up. Three creations
are one that starts a run, one that joins it and one that comes late, two of them
on equal terms; two months let the cron meet the id before and after its bill.
Named bounds of `BillRequests` are `Resends` and `Months`. Named bounds in
guards: an interval elapses only while a uuid is left for its fee
(`RecurringTimerFires`), and a fee is given up only while one is left to try again
(`GiveUp`).

Two bills and pages of one bill give a listing its second page, with creations, charges
and closes before, between and after them; two ticks of the clock let the bills have
equal times, different times, and a time equal to the cursor. One item that is added and
voided again and again gives a bill all its totals. Bounds are `MaxLines`, `MaxClock`.
In `fees_over_time` a period of 7 with intervals of 1, 2 and 3 is several fees and an end
between two of them, an interval of an hour in a period of 3 is one that never elapses;
a total of 4 bits wraps at the third fee of 3; three refused signals reach the
threshold without a fee and every turn after it. Bounds are `MaxSignals`, `MaxFailures`.
The theorems of section 4 have none of these bounds.

Symmetry: requests of one kind are interchangeable; the runs that check liveness
do not use it.

Fairness (`FairSpec`): the workflow and its activities keep being scheduled
(Temporal retries their tasks), the period's timer fires (a durable timer), a
waiting close request is answered once the run is over. Nothing is assumed of
requests, of intervals, or of late statements. `WF_vars(RunStep)` does not by
itself force an activity to succeed; attempts are bounded by `maxRetryAttempt`.
In `BillRequests` every run keeps being scheduled and a creation past its check
ends, by starting its workflow or by failing; the cron and new requests may stop.
In `BillQueries` a page that was asked for is read and answered, and the client goes
on to the next; nothing is assumed of the bills.
In `usage_faulty` a fee is never due; in `subscription_charged` fees do not give
up. A fee that failed for ever would be served before the closing timer for ever
(section 6).

## 4. What is proved

For every set of items, requests, every threshold, retry limit, choice of failing
activities and either selector, from `ItemAssumption` (finitely many uuids, positive
amounts), `SumAssumption` (what `SumOf` is) and `WorkflowAssumption`:

* `TypeCorrect`: `Spec => []TypeOK`. `TypeInv` adds that an activity of the loop has
  an item and that a void request past its check has one; without these the
  amount subtracted would have no type.
* `ItemsCountedOnce`: `Spec => []CountedOnce`. The inductive invariant `OnceInv`
  says where a uuid can be: issued once, at most once in the add channel or
  being inserted, and not counted before; and what was taken off the total is
  VOIDED in its table, where the `WHERE status = 'ACTIVE'` never matches again.
  No assumption on faults is needed.
* `RecordsAdvance`: `Spec => RecordsOnlyAdvance`, also without an assumption on
  faults. `BilledInv` is what it needs: once a close has been tried the workflow
  never changes its total again, so a repeated or late `UPDATE bills` writes the
  total that is already there.
* `TotalsAgree`: `Reliable => (Spec => []LedgerAgrees)`. `AgreeInv` says what
  separates the two sides between an activity's commit and the handler's
  addition: an insert left behind by a timed out attempt is that of the item
  being added, and nothing of a void is left behind.
* `LedgerImplemented`: `Reliable => (Spec => ImplementsLedger)`. `OpenInv` says that
  line items exist only once the bill's row does; each action is then a step of
  `BillLedger` or a stutter.

* `ClosedIsInvoiced`: `[]ClosedBillIsInvoiced`, when neither `CloseBillFromState` nor
  `GetBillDetail` is given up. `LeavingOnce` says that the loop is left, and the bill
  closed, by `ReceiveCloseBill` and `TimerFired` alone; `InvoicedInv` then follows the run
  to the child it starts.
* `OwedItemsRecorded`: `Spec /\ []SameRun => []OwedIsRecorded` of a usage-based bill with
  the ordered selector, when no insert is given up. The closing of a bill is decided
  (`Decided`) when the loop is left or when the event that will leave it wakes a blocked
  `Select`. `LeftInOrder` and `RequestsWake` are what the selector gives: at that moment
  nothing is in the add channel and no fee is due. `BegunInv`: closing was asked for by
  then, so nothing accepted or elapsed later is owed. `OwedInv` says where an accepted item
  is until then: recorded, in the channel, or being inserted. `SameRun` is that the run is
  not continued as new, which drops the channel.
* `IntervalsCharged`: `Reliable /\ OrderedSelect => (Spec /\ []SameRun =>
  []EveryIntervalCharged)`. `FeesInv` counts: as many fees recorded as intervals elapsed,
  one less while a fee is due, and the fee being inserted is that one, in the table or not;
  a fee that is due once the closing is decided became due after closing began, and stays
  uncharged.

`Reliable` is an assumption of `TotalsAgree`, `LedgerImplemented` and `IntervalsCharged`, not
of the code: without it they are false, as `void_reply_lost` and `fee_charged_twice` show.
`BillFaultsProofs` says what is true without it:

* `DifferenceAccounted`: `Spec => []DifferenceIsAccountedFor`, under every fault. `RowsInv`
  says what is in the table: every row was counted, is being inserted, or is of an insert
  that was given up, and what was counted is there. `VoidsInv` says who voids: every VOIDED
  row was taken off the total or its void got no reply, and only such voids are left behind.
  `Difference` puts the two together: the rows fall apart into what was counted, what is
  VOIDED and still counted (`Unrefunded`) and what the total lacks, and `SumOfParts` carries
  this to the amounts; induction over finite sets being out of reach, it takes a smallest
  counterexample (`SmallestSet`).
* `InsertsKeptNeverUnderbilled` and `VoidsKeptNeverOverbilled`: the direction of the error.
  `KeptInv`: if no insert is given up `lost.insert` is empty, and if no void loses its reply
  or is given up `lost.void` is. What is left of `Difference` then has one sign.
* `FeesChargedOnce`: `[]OneFeePerInterval` when no fee is given up, whatever replies are
  lost and at any threshold. `DrawnInv`: the uuids drawn for fees and the fee that is due
  are no more than the intervals that elapsed.
* `RunsMakeProgress`: `RunMakesProgress` when no fee is given up. `Ahead` counts what waits in
  the channels, a fee that is due, and the points the run still has to pass; a continued
  run has less of the former, and every retry is one of `maxRetryAttempt`.

So the promises that `late_add_lost` and `fee_charged_twice` find broken are proved under a
condition that names the fault they break by (`OwedItemsRecorded` and `FeesChargedOnce`); what
`void_reply_lost` costs is in `DifferenceAccounted`.

Of a subscription, for every set of requests, every threshold, activity delay, integer
width and number of signals and failures, from `FeesAssumption` and `ParamsAssumption`
(what a decoded request can hold):

* `TypeCorrect`: `Spec => []TypeOK`. `WrapTyped` is what it needs of the arithmetic: a
  wrapped sum is an int64.
* `AcceptedRun` and `TermsStored`: `TermsInv` keeps, for as long as the bill lives, that
  the workflow's request is the translation of an accepted one and the row that of the
  workflow's; `AcceptedTerms` says what acceptance is worth after the translation.
* `FeesNotEarly`: `EarlyInv`, that the fees charged fit between the first run's start and
  the start of the current interval; each fee moves the latter by an interval or more.
* `FeesFollowTime`: `KeepInv`, the same from above: `Slack` is the time that fees,
  restarted intervals and activities account for. The current interval began within
  it, and time passes at `Select` only while no fee is due.
* `PeriodKept`: `PeriodInv`, that the period's timer is set for the period's end or for
  a moment that has come, and that past the end only a fee that is due, and its
  attempts, are still served.
* `TotalOfFees` and `TotalExact`: wrapping after each fee is wrapping once, after all of
  them (`RemainderOfSum`, `WrapAgain`); and nothing wraps while the sum fits.

Of creations and runs, for every set of ids (colliding or not), every number of
requests, keys, months and customers and every choice of activities that give up, from
`RequestAssumption`:

* `TypeCorrect`: `Spec => []TypeOK`. `RunInv` adds that a run with a bill's work to do
  stands under that bill's own id (so two such runs of a bill are one, `OneRun`), and that
  its terms were validated once its policy is built.
* `BillsAreLedgers` and `OncePostProcessed`:
  `Prompt => (Spec => EachBillIsALedger)` and `Prompt => (Spec => []PostProcessedOnce)`,
  from `LedgerInv`. Its idea is `Sealed`: from the end of its loop on, a bill has a row and
  no creation past its check, so only the cron can start another run for it, which its
  policy refuses. `Over` adds that no run can close it any more; a closed bill is over, and
  so is the bill of an update that may still commit, which bills what a close in time would
  have billed.
* `PostProcessFollows`: `[]ClosedIsPostProcessed`, without `Prompt`, when no two workflows
  share an id (`NoSharedIds`) and at most the insert of the row gives up. `PostInv`: under
  a post-process id stands only the bill's own child, counted in `invoiced`, and a closed bill
  with something to pay has had one or has a run on the way to it.
* `ClosedIsForGood`: `Prompt => (Spec => ClosedIsFinal)`, from `LedgerInv` too: what may still
  be written to a closed bill is what was written.
* `OpenBillHasRun`: `[]OpenHasRun` when only `GetBillDetail` may be given up, also without
  `Prompt` and with ids that collide. `OpenInv`: nothing is late, and the run of an open
  bill is between its insert and its closing.
* `AnsweredCreationHasRun`: `[]AnsweredHasRun` when ids do not collide and the insert is not
  given up. `AnsweredInv`: a run past its insert has its row, and under the id of a bill
  that is no customer's a run starts on validated terms only.
* `RowsAreRequested`: `Spec => []RowIsRequested`, from no assumption on faults, speed or ids.
  `RequestedInv` follows the terms from the request to the run that took them, to the
  statement it left behind, to the row.

`Prompt` is an assumption of `BillsAreLedgers`, `OncePostProcessed` and `ClosedIsForGood`, not of
the code: `closed_reopened` shows the ledger broken without it.

Of listings and details, for any finite set of bills, any clients, any requests and any
number of pages, from `QueryAssumption`:

* `TypeCorrect`: `Spec => []TypeOK`. `BillInv` says how far a workflow's total is from its
  rows at each point it may be at, and that a closed row has the total of both.
* `OrderedListing`: `[]ListedInOrder`. `NewestSorted` is what the statement returns and
  `PageScanned` what a page is made of: bills that match, each once, newest first, and what
  is left out no newer. `OrderInv`: what was shown is no older than the page, and before the
  next one is asked for no older than the cursor, which the next page is older than.
* `NothingMissed`: `[]NoneMissed`. `MissInv` accounts for each bill that must be shown: seen
  (it, or one of its very time), or older than all that was while the page promises more,
  or older than the cursor. A page that promises nothing more holds all that match; that
  needs the cardinality of a finite set (`FS_Injection`).
* `CurrentTotals`: `ListedTotalIsCurrent`. `TotalInv`: while a page is filled the total of
  every bill is among those noted, and those of its closed rows are too.
* `DetailAddsUp`: `[]ClosedDetailAddsUp`. `DetailInv`: a row read CLOSED is still the row
  when the line items are read.
* `ListingProgress`: `ListingMovesOn`, for every limit. `FillInv`: a page holds only bills
  older than the cursor it was asked for with, and one that promises more has shown, or
  will show, such a bill, so that the next one is asked for with an older cursor.

Only model-checked: the liveness properties (fairness and ENABLED are out of the prover's
reach), the refinement's among them (`ImplementsFairLedger`). What is proved of them is
their safety: `RunsMakeProgress` of `EveryRunEnds`, `OpenBillHasRun` of `OpenIsClosed`,
`AnsweredCreationHasRun` of `AnsweredIsCreated`, `ListingProgress` of `ListingEnds` say that what
is to happen has a run, or a request, on the way to it that never goes back; that the
remaining steps are taken is what fairness adds and TLC checks. Every safety property that
a passing run checks is stated by a theorem.

## 5. Where the code and its documentation disagree

Each is a run whose expected outcome is a violation; the trace is the scenario.

| Run | What happens |
|---|---|
| `late_add_lost` | A request accepted while the run closes is answered with an id and never recorded. |
| `void_reply_lost` | The reply of a void is lost, its retry finds no ACTIVE row, the total keeps the amount. |
| `close_dropped` | A close signal buffered when the run continues as new is dropped; the request waits for the period's end. |
| `fee_charged_twice` | A fee given up after its insert committed is charged again under a new uuid. |
| `closed_reopened` | A creation checks the table, stalls until the bill was created and closed, and starts a second run whose total replaces the first. |

Other behaviour of the models a reader of the documentation would not expect, in
each case a condition that a property above states or a run excludes:

* Two concurrent creations of one id are both answered OPEN, and the second one's
  terms are dropped (`ExecuteWorkflow` answers with the open run).
* A creation answered with a run that the cron started gets no bill
  (`AnsweredIsCreated` needs ids that are no customer's).
* While a bill `x-postprocess` is open the bill `x` is not post-processed when it
  closes (`ClosedIsPostProcessed` needs ids that do not collide).
* The cron's request has no recurring fee: `NewBillingPolicy` refuses it and its runs
  fail before they create a bill, although `README.md` and the cron's title speak of a
  monthly cycle (`CronTerms` in `BillRequests`).
* The detail of an open bill has the total of its row, 0 until it is closed, beside its
  line items; `README.md:194` says it is queried from the workflow. The listing does
  query it.
* The middleware passes on every request whatever its key, although `README.md:234` says
  retries are stopped there: an add sent again is a second line item. It reads
  `Idempotency-Key`, the requests declare `X-Idempotency-Key`.
* The interval of the example request at `README.md:101`, `30d`, is refused:
  `time.ParseDuration` knows no day. A currency given in lower case is accepted and
  stored as it was given.
* A bill id longer than 64 characters is answered OPEN and never stored
  (`AcceptedRuns` excepts it).
* Past the threshold each signal that a subscription refuses starts the interval of the
  fee again (`lost` in `FeesKeepUp`): a client that signals often enough is not charged.
* A listing skips bills created at the very instant of the last one of a page
  (`NoneMissed` excepts them), panics on a limit of -1, answers an error below it, and
  wraps at the largest int (`ListingEnds` excepts these).
* Rows that break off are taken for the end of the result, since `rows.Err()` is not
  asked (`cut` excepts them).
* When `GetBillDetail` gives up, a closed bill is not post-processed
  (`ClosedBillIsInvoiced`); when `CloseBillFromState` does, it stays OPEN.
* An insert given up after it committed is on the bill and not in its total; voided
  afterwards it is taken off the total all the same, which may become negative
  (`lost.insert` in `DifferenceIsAccountedFor`).
* A fee that falls due in the workflow task of the event that closes the bill, after that
  event reached the blocked `Select`, is not charged, although its case was added first
  (`EveryIntervalCharged` allows for one).
* A bill whose row commits after a page that covers its `created_at` was read is not in that
  listing (`NoneMissed` requires the bills visible when the listing began).

## 6. Not modelled

Not modelled: `InsertLineItem`, `GetBillStatus` and `GetBillIDs`, which nothing calls;
`FormatAmount`, which only formats; `UUID`, modelled as a value drawn once.

Left out: the header the idempotency middleware reads; service wiring (with the client and the two workers every month's cron leaves
running), generated mocks, the hello sample. Temporal and
Postgres are modelled by what the code relies on (signals delivered once and in
order per channel, activities at least once, single statements atomic).

A fee whose insert keeps failing stays due and is served before closes and the
period's timer, so the bill is not closed meanwhile; the runs bound the number of
such failures (`MaxFailures` in `PeriodIsKept`), and the runs that check liveness and
`RunsMakeProgress` exclude them: a fee given up leaves as much to do as before.
