----------------------------- MODULE BillRequests -----------------------------
(***************************************************************************)
(* How bills come to be: the creation requests, which check the table and  *)
(* then start a workflow; the monthly cron, which starts one without a     *)
(* check; the runs that Temporal keeps under workflow ids, each writing    *)
(* its bill's row in its own time; and the post-process run that a closed  *)
(* bill asks for.                                                          *)
(*                                                                         *)
(* BillLifecycle has the detail of one run. Here a run is the sequence of  *)
(* points where it blocks, an add request is its signal and its insert in  *)
(* one step, every amount is 1, and the question is what several requests  *)
(* and several runs about the same ids do to each other.                   *)
(***************************************************************************)
EXTENDS Integers, Sequences, FiniteSets

CONSTANTS
  BillID,                       \* sequences of parts, so that ids may collide
  CustomerID,                   \* getAllCustomerIDs, billed by the cron
  Creation, BillOf, TermsOf,    \* creation requests: their bill and terms
  Key, KeyBill,                 \* idempotency keys of adds, each for one bill
  Resends,                      \* how often a client sends an add again
  Months,                       \* how often the cron fires
  NoTerms, CronTerms,           \* no terms; a SUBSCRIPTION without recurring
  GivesUp,                      \* activities that may fail for good
  Prompt                        \* no creation outlasts the run of its bill

Terms == {TermsOf[r] : r \in Creation}
Activities == {"CreateBill", "CloseBillFromState", "GetBillDetail"}

ASSUME RequestAssumption ==
  /\ BillID \subseteq Seq(STRING) /\ CustomerID \subseteq BillID
  /\ BillOf \in [Creation -> BillID]
  /\ {NoTerms, CronTerms} \cap Terms = {}
  /\ KeyBill \in [Key -> BillID]
  /\ Resends \in Nat /\ Months \in Nat
  /\ GivesUp \subseteq Activities
  /\ Prompt \in BOOLEAN

VARIABLES
  row,                          \* table bills
  lines,                        \* rows of line_items inserted under each key
  late,                         \* statements the database may still commit
  run,                          \* the latest run of each workflow id
  creator,                      \* progress of the creation requests
  cron, month,                  \* customers left in this month's loop
  invoiced                      \* post-process runs started for each bill

vars == <<row, lines, late, run, creator, cron, month, invoiced>>

\* Mutant: the suffix is left out
BillPostprocessWorkflowIDPlain(b) == <<"bill-">> \o b

BillCycleWorkflowID(b)       == <<"bill-">> \o b
BillPostprocessWorkflowID(b) == <<"bill-">> \o b \o <<"-postprocess">>

WorkflowID == {BillCycleWorkflowID(b) : b \in BillID}
                \cup {BillPostprocessWorkflowID(b) : b \in BillID}

BlockedAt == Activities \cup {"NewBillingPolicy", "Loop", "StartPostProcess", "PostProcess"}

Open(w) == run[w].at \in BlockedAt

BillRow == [status : {"absent", "OPEN", "CLOSED"},
            terms : Terms \cup {NoTerms}, total : Nat]
Run == [at : BlockedAt \cup {"none", "Completed", "Failed"},
        bill : BillID \cup {<<>>}, terms : Terms \cup {NoTerms, CronTerms}, total : Nat]

\* Besides the types: terms that no request validated never reach the table.
TypeOK ==
  /\ row \in [BillID -> BillRow]
  /\ lines \in [Key -> 0..Resends + 1]
  /\ \A s \in late : s.bill \in BillID /\ s.terms \in Terms /\ s.total \in Nat
  /\ run \in [WorkflowID -> Run]
  /\ creator \in [Creation -> {"idle", "checked", "answered", "refused", "failed"}]
  /\ cron \subseteq CustomerID /\ month \in 0..Months
  /\ invoiced \in [BillID -> Nat]

Init ==
  /\ row = [b \in BillID |-> [status |-> "absent", terms |-> NoTerms, total |-> 0]]
  /\ lines = [k \in Key |-> 0]
  /\ late = {}
  /\ run = [w \in WorkflowID |->
              [at |-> "none", bill |-> <<>>, terms |-> NoTerms, total |-> 0]]
  /\ creator = [r \in Creation |-> "idle"]
  /\ cron = {} /\ month = 0
  /\ invoiced = [b \in BillID |-> 0]
-----------------------------------------------------------------------------
(***************************************************************************)
(* Statements and Temporal.                                                *)
(***************************************************************************)
\* INSERT ... ON CONFLICT (bill_id) DO NOTHING
InsertBill(b, t) ==
  [row EXCEPT ![b] = IF @.status = "absent"
                     THEN [status |-> "OPEN", terms |-> t, total |-> 0] ELSE @]

\* UPDATE bills SET status, total_amount WHERE bill_id, whatever the status
UpdateBillClosed(b, n) ==
  [row EXCEPT ![b] = IF @.status = "absent" THEN @
                     ELSE [@ EXCEPT !.status = "CLOSED", !.total = n]]

\* Mutant: AND status = 'OPEN' is added to the query
IsBillExistsOpen(b) == row[b].status = "OPEN"

IsBillExists(b) == row[b].status # "absent"

\* A workflow id has at most one open run, and the client's ExecuteWorkflow
\* answers with that run, whoever started it; otherwise a new run is started.
ExecuteWorkflow(w, b, t) ==
  IF Open(w) THEN run
  ELSE [run EXCEPT ![w] = [at |-> "NewBillingPolicy", bill |-> b, terms |-> t, total |-> 0]]

\* The run under w goes on to p.
Reaches(w, p) == run' = [run EXCEPT ![w].at = p]
-----------------------------------------------------------------------------
(***************************************************************************)
(* Creation requests.                                                      *)
(***************************************************************************)
CreateBillCheck(r) ==
  /\ creator[r] = "idle"
  /\ creator' = [creator EXCEPT ![r] =
                   IF IsBillExists(BillOf[r]) THEN "refused" ELSE "checked"]
  /\ UNCHANGED <<row, lines, late, run, cron, month, invoiced>>

\* The client's call may fail although the server started the run.
CreateBillStart(r) ==
  /\ creator[r] = "checked"
  /\ run' = ExecuteWorkflow(BillCycleWorkflowID(BillOf[r]), BillOf[r], TermsOf[r])
  /\ \E answer \in {"answered", "failed"} : creator' = [creator EXCEPT ![r] = answer]
  /\ UNCHANGED <<row, lines, late, cron, month, invoiced>>

\* The request ends with an error before anything was started.
CreateBillFails(r) ==
  /\ creator[r] \in {"idle", "checked"}
  /\ creator' = [creator EXCEPT ![r] = "refused"]
  /\ UNCHANGED <<row, lines, late, run, cron, month, invoiced>>

\* Bound: the cron fires Months times.
CronFires ==
  /\ cron = {} /\ month < Months
  /\ cron' = CustomerID /\ month' = month + 1
  /\ UNCHANGED <<row, lines, late, run, creator, invoiced>>

\* One customer of the loop; an error only skips the customer.
StartMonthlyBilling(c) ==
  /\ c \in cron
  /\ cron' = cron \ {c}
  /\ run' \in {run, ExecuteWorkflow(BillCycleWorkflowID(c), c, CronTerms)}
  /\ UNCHANGED <<row, lines, late, creator, month, invoiced>>

\* An add that reaches the loop, whatever its key was used for before: the idempotency
\* middleware passes every request on. Bound: a client sends it Resends times again.
AddLineItem(k) ==
  LET w == BillCycleWorkflowID(KeyBill[k]) IN
  /\ lines[k] <= Resends
  /\ run[w].at = "Loop"
  /\ lines' = [lines EXCEPT ![k] = @ + 1]
  /\ run' = [run EXCEPT ![w].total = @ + 1]
  /\ UNCHANGED <<row, late, creator, cron, month, invoiced>>
-----------------------------------------------------------------------------
(***************************************************************************)
(* The runs.                                                               *)
(***************************************************************************)
\* Mutant: a subscription needs no recurring fee
NewBillingPolicyAny(w) ==
  /\ run[w].at = "NewBillingPolicy"
  /\ Reaches(w, "CreateBill")
  /\ UNCHANGED <<row, lines, late, creator, cron, month, invoiced>>

\* A subscription without a recurring interval fails the run.
NewBillingPolicy(w) ==
  /\ run[w].at = "NewBillingPolicy"
  /\ Reaches(w, IF run[w].terms = CronTerms THEN "Failed" ELSE "CreateBill")
  /\ UNCHANGED <<row, lines, late, creator, cron, month, invoiced>>

\* Mutant: the loop starts before the row is inserted, and nothing inserts it
CreateBillSkipped(w) ==
  /\ run[w].at = "CreateBill"
  /\ Reaches(w, "Loop")
  /\ UNCHANGED <<row, lines, late, creator, cron, month, invoiced>>

CreateBill(w) ==
  /\ run[w].at = "CreateBill"
  /\ row' = InsertBill(run[w].bill, run[w].terms)
  /\ Reaches(w, "Loop")
  /\ UNCHANGED <<lines, late, creator, cron, month, invoiced>>

\* Mutant: the run returns when the loop is left
LeaveLoopAtOnce(w) ==
  /\ run[w].at = "Loop"
  /\ Reaches(w, "Completed")
  /\ UNCHANGED <<row, lines, late, creator, cron, month, invoiced>>

\* The period ended or a close request came. Prompt is an assumption, not a guard
\* of the code: by then no creation of this bill is between its check and its
\* start (a billing period is at least a minute long).
LeaveLoop(w) ==
  /\ run[w].at = "Loop"
  /\ Prompt => \A r \in Creation : BillOf[r] = run[w].bill => creator[r] # "checked"
  /\ Reaches(w, "CloseBillFromState")
  /\ UNCHANGED <<row, lines, late, creator, cron, month, invoiced>>

CloseBillFromState(w) ==
  /\ run[w].at = "CloseBillFromState"
  /\ row' = UpdateBillClosed(run[w].bill, run[w].total)
  /\ Reaches(w, "GetBillDetail")
  /\ UNCHANGED <<lines, late, creator, cron, month, invoiced>>

GetBillDetail(w) ==
  /\ run[w].at = "GetBillDetail"
  /\ Reaches(w, IF row[run[w].bill].total > 0 THEN "StartPostProcess" ELSE "Completed")
  /\ UNCHANGED <<row, lines, late, creator, cron, month, invoiced>>

\* A child's id that has an open run is refused, and that is only logged.
StartPostProcess(w) ==
  LET b == run[w].bill
      p == BillPostprocessWorkflowID(b)
  IN
  /\ run[w].at = "StartPostProcess"
  /\ \/ /\ ~Open(p)
        /\ run' = [run EXCEPT ![w].at = "Completed",
                              ![p] = [at |-> "PostProcess", bill |-> b,
                                      terms |-> NoTerms, total |-> 0]]
        /\ invoiced' = [invoiced EXCEPT ![b] = @ + 1]
     \/ /\ Open(p)
        /\ Reaches(w, "Completed")
        /\ UNCHANGED invoiced
  /\ UNCHANGED <<row, lines, late, creator, cron, month>>

\* Reads the bill and calls stubs that change nothing.
ClosedBillPostProcess(w) ==
  /\ run[w].at = "PostProcess"
  /\ \E end \in {"Completed", "Failed"} : Reaches(w, end)
  /\ UNCHANGED <<row, lines, late, creator, cron, month, invoiced>>

\* The activity's last attempt was lost: its statement may commit all the same.
GiveUp(w) ==
  /\ run[w].at \in GivesUp
  /\ late' = IF run[w].at = "GetBillDetail" THEN late
             ELSE late \cup {[op |-> run[w].at, bill |-> run[w].bill,
                              terms |-> run[w].terms, total |-> run[w].total]}
  /\ Reaches(w, "Failed")
  /\ UNCHANGED <<row, lines, creator, cron, month, invoiced>>

LateCommit ==
  /\ \E s \in late :
       /\ row' = IF s.op = "CreateBill" THEN InsertBill(s.bill, s.terms)
                                        ELSE UpdateBillClosed(s.bill, s.total)
       /\ late' = late \ {s}
  /\ UNCHANGED <<lines, run, creator, cron, month, invoiced>>
-----------------------------------------------------------------------------
RunStep(w) ==
  \/ NewBillingPolicy(w) \/ CreateBill(w) \/ LeaveLoop(w) \/ CloseBillFromState(w)
  \/ GetBillDetail(w) \/ StartPostProcess(w) \/ ClosedBillPostProcess(w) \/ GiveUp(w)

RequestStep(r) == CreateBillCheck(r) \/ CreateBillStart(r) \/ CreateBillFails(r)

Next ==
  \/ \E r \in Creation : RequestStep(r)
  \/ \E c \in CustomerID : StartMonthlyBilling(c)
  \/ CronFires
  \/ \E k \in Key : AddLineItem(k)
  \/ \E w \in WorkflowID : RunStep(w)
  \/ LateCommit

Spec == Init /\ [][Next]_vars

\* Temporal keeps scheduling every run, and the timer of its period fires; a
\* request ends. Nobody is bound to send one, and the cron may never fire.
FairSpec ==
  /\ Spec
  /\ \A w \in WorkflowID : WF_vars(RunStep(w))
  /\ \A r \in Creation : WF_vars(CreateBillStart(r) \/ (creator[r] = "checked" /\ CreateBillFails(r)))
-----------------------------------------------------------------------------
(***************************************************************************)
(* What must hold.                                                         *)
(***************************************************************************)
LinesOf(b) == {l \in Key \X (1..Resends + 1) : KeyBill[l[1]] = b /\ l[2] <= lines[l[1]]}

Ledger(b) == INSTANCE BillLedger WITH
               LineItemID <- Key \X (1..Resends + 1), SumOf <- Cardinality,
               status <- row[b].status, billed <- row[b].total,
               active <- LinesOf(b), voided <- {}

\* However many requests, runs and late statements name a bill, its row and its
\* line items are one ledger: nothing is charged before it is opened or after it
\* is closed, and it is closed once, for what was charged. Holds when Prompt.
EachBillIsALedger ==
  /\ \A b \in BillID : Ledger(b)!Init
  /\ [][\A b \in BillID : Ledger(b)!Next \/ UNCHANGED Ledger(b)!vars]_vars

\* A bill is post-processed once: no second run closes it. Holds when Prompt.
PostProcessedOnce == \A b \in BillID : invoiced[b] <= 1

\* A bill closed with something to pay has been post-processed once its run is
\* over. Holds when no two workflows of different bills share an id, and closing
\* the bill and reading its detail do not give up.
ClosedIsPostProcessed ==
  \A b \in BillID :
    row[b].status = "CLOSED" /\ row[b].total > 0 /\ ~Open(BillCycleWorkflowID(b))
      => invoiced[b] > 0

\* A bill is in the table only on the terms of a creation request about that bill which
\* passed its check and reached Temporal with them, whatever run, retry or late statement
\* inserted it; never on those of a request that ended before, nor on the cron's, nor on
\* those of a run of another bill.
RowIsRequested ==
  \A b \in BillID : row[b].status # "absent" =>
    \E r \in Creation : /\ BillOf[r] = b /\ TermsOf[r] = row[b].terms
                        /\ creator[r] \in {"answered", "failed"}

\* An open bill has a run, its own, that has yet to close it: no second creation, cron,
\* child of the same id or end of a run leaves it without one. Holds when neither the
\* insert of the row nor its closing gives up.
OpenHasRun ==
  \A b \in BillID :
    row[b].status = "OPEN" =>
      LET r == run[BillCycleWorkflowID(b)] IN
        r.bill = b /\ r.at \in {"Loop", "CloseBillFromState"}

\* A creation answered with OPEN has its row, or a run that is about to insert it on
\* terms some request stated. Holds when the insert does not give up, no two workflows
\* share an id and the bill is no customer's.
AnsweredHasRun ==
  \A r \in Creation :
    creator[r] = "answered" /\ BillOf[r] \notin CustomerID =>
      \/ row[BillOf[r]].status # "absent"
      \/ LET own == run[BillCycleWorkflowID(BillOf[r])] IN
           /\ own.at \in {"NewBillingPolicy", "CreateBill"}
           /\ own.bill = BillOf[r] /\ own.terms \in Terms

\* A creation answered with OPEN leads to a row, although the row is written by
\* the run and the answer does not wait for it. Holds when nothing gives up, no
\* two workflows share an id and the bill is no customer's: the run the request
\* is answered with may be one the cron started, which fails.
AnsweredIsCreated ==
  \A r \in Creation : creator[r] = "answered" ~> row[BillOf[r]].status # "absent"

\* An open bill has a run that will close it. Holds when nothing gives up.
OpenIsClosed == \A b \in BillID : row[b].status = "OPEN" ~> row[b].status = "CLOSED"

\* Promised of closed bills: their data is final. Holds when Prompt.
ClosedIsFinal == [][\A b \in BillID : row[b].status = "CLOSED" => row'[b] = row[b]]_vars
=============================================================================
