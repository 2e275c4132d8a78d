-------------------------- MODULE BillRequestsProofs --------------------------
(***************************************************************************)
(* Theorems about BillRequests for every set of bill ids, every number of  *)
(* creation requests, keys and months, and any choice of activities that   *)
(* give up.                                                                *)
(***************************************************************************)
EXTENDS BillRequests, FiniteSetTheorems, TLAPS

-----------------------------------------------------------------------------
(***************************************************************************)
(* Types. A run that has a bill's workflow to do is the bill's own, and    *)
(* past its policy it has terms that were validated.                       *)
(***************************************************************************)
Working == {"CreateBill", "Loop", "CloseBillFromState", "GetBillDetail", "StartPostProcess"}

RunInv ==
  \A w \in WorkflowID :
    /\ run[w].at \in Working \cup {"NewBillingPolicy"} =>
         run[w].bill \in BillID /\ w = BillCycleWorkflowID(run[w].bill)
    /\ run[w].at \in Working => run[w].terms \in Terms
    /\ run[w].at = "NewBillingPolicy" => run[w].terms \in Terms \cup {CronTerms}

TypeInv == TypeOK /\ RunInv

LEMMA WorkflowOfBill ==
  ASSUME NEW b \in BillID
  PROVE  BillCycleWorkflowID(b) \in WorkflowID /\ BillPostprocessWorkflowID(b) \in WorkflowID
BY DEF WorkflowID

LEMMA TypeInvInit == Init => TypeInv
BY RequestAssumption
   DEF Init, TypeInv, TypeOK, RunInv, Working, BillRow, Run, BlockedAt, Activities

\* A run that goes on to another point stays typed.
LEMMA TypedReaches ==
  ASSUME TypeInv, NEW w \in WorkflowID, NEW p \in BlockedAt \cup {"Completed", "Failed"},
         p \in Working => run[w].at \in Working \cup {"NewBillingPolicy"} /\ run[w].terms \in Terms,
         p # "NewBillingPolicy", Reaches(w, p)
  PROVE  run' \in [WorkflowID -> Run] /\ RunInv'
<1>1. run \in [WorkflowID -> Run] /\ run' = [run EXCEPT ![w].at = p]
  BY DEF TypeInv, TypeOK, Reaches
<1>2. run' \in [WorkflowID -> Run]
  BY <1>1 DEF Run
<1>3. ASSUME NEW v \in WorkflowID
      PROVE  /\ v # w => run'[v] = run[v]
             /\ run'[w].at = p /\ run'[w].bill = run[w].bill /\ run'[w].terms = run[w].terms
  BY <1>1 DEF Run
<1>4. RunInv'
  BY <1>3 DEF TypeInv, RunInv, Working, BlockedAt, Activities
<1> QED BY <1>2, <1>4

LEMMA TypedExecute ==
  ASSUME TypeInv, NEW b \in BillID, NEW t \in Terms \cup {CronTerms},
         run' = ExecuteWorkflow(BillCycleWorkflowID(b), b, t)
  PROVE  run' \in [WorkflowID -> Run] /\ RunInv'
<1> DEFINE w == BillCycleWorkflowID(b)
           started == [at |-> "NewBillingPolicy", bill |-> b, terms |-> t, total |-> 0]
<1>1. w \in WorkflowID
  BY WorkflowOfBill
<1>2. run \in [WorkflowID -> Run] /\ RunInv
  BY DEF TypeInv, TypeOK
<1>3. CASE Open(w)
  BY <1>2, <1>3 DEF ExecuteWorkflow, RunInv
<1>4. CASE ~Open(w)
  <2>1. run' = [run EXCEPT ![w] = started]
    BY <1>4 DEF ExecuteWorkflow
  <2>2. started \in Run
    BY DEF Run, BlockedAt
  <2>3. run'[w] = started /\ \A v \in WorkflowID : v # w => run'[v] = run[v]
    BY <1>1, <1>2, <2>1
  <2>4. run' \in [WorkflowID -> Run]
    BY <1>2, <2>1, <2>2
  <2>5. RunInv'
    BY <1>2, <2>3 DEF RunInv, Working
  <2> QED BY <2>4, <2>5
<1> QED BY <1>3, <1>4

LEMMA TypeInvRequests ==
  TypeInv /\ (\/ \E r \in Creation : RequestStep(r)
              \/ \E c \in CustomerID : StartMonthlyBilling(c)
              \/ CronFires \/ \E k \in Key : AddLineItem(k)) => TypeInv'
<1> SUFFICES ASSUME TypeInv,
                    \/ \E r \in Creation : RequestStep(r)
                    \/ \E c \in CustomerID : StartMonthlyBilling(c)
                    \/ CronFires \/ \E k \in Key : AddLineItem(k)
             PROVE  TypeInv'
  OBVIOUS
<1>1. ASSUME NEW r \in Creation, CreateBillCheck(r) \/ CreateBillFails(r) PROVE TypeInv'
  BY <1>1 DEF CreateBillCheck, CreateBillFails, TypeInv, TypeOK, RunInv
<1>2. ASSUME NEW r \in Creation, CreateBillStart(r) PROVE TypeInv'
  <2>1. BillOf[r] \in BillID /\ TermsOf[r] \in Terms
    BY RequestAssumption DEF Terms
  <2>2. run' \in [WorkflowID -> Run] /\ RunInv'
    BY <1>2, <2>1, TypedExecute DEF CreateBillStart
  <2> QED BY <1>2, <2>2 DEF CreateBillStart, TypeInv, TypeOK
<1>3. ASSUME NEW c \in CustomerID, StartMonthlyBilling(c) PROVE TypeInv'
  <2>1. c \in BillID
    BY RequestAssumption
  <2>2. run' \in [WorkflowID -> Run] /\ RunInv'
    <3>1. CASE run' = run
      BY <3>1 DEF TypeInv, TypeOK, RunInv
    <3>2. CASE run' = ExecuteWorkflow(BillCycleWorkflowID(c), c, CronTerms)
      BY <2>1, <3>2, TypedExecute
    <3> QED BY <1>3, <3>1, <3>2 DEF StartMonthlyBilling
  <2> QED BY <1>3, <2>2 DEF StartMonthlyBilling, TypeInv, TypeOK
<1>4. ASSUME CronFires PROVE TypeInv'
  BY <1>4, RequestAssumption DEF CronFires, TypeInv, TypeOK, RunInv
<1>5. ASSUME NEW k \in Key, AddLineItem(k) PROVE TypeInv'
  <2> DEFINE w == BillCycleWorkflowID(KeyBill[k])
  <2>1. w \in WorkflowID
    BY RequestAssumption, WorkflowOfBill
  <2>2. run \in [WorkflowID -> Run] /\ run' = [run EXCEPT ![w].total = @ + 1]
    BY <1>5 DEF AddLineItem, TypeInv, TypeOK
  <2>3. run' \in [WorkflowID -> Run]
    <3>1. run[w] \in Run
      BY <2>1, <2>2
    <3>2. run[w].total + 1 \in Nat
      BY <3>1 DEF Run
    <3>3. [run[w] EXCEPT !.total = @ + 1] \in Run
      BY <3>1, <3>2 DEF Run
    <3> QED BY <2>1, <2>2, <3>3
  <2>4. \A v \in WorkflowID : /\ run'[v].at = run[v].at /\ run'[v].bill = run[v].bill
                              /\ run'[v].terms = run[v].terms
    <3> SUFFICES ASSUME NEW v \in WorkflowID
                 PROVE  /\ run'[v].at = run[v].at /\ run'[v].bill = run[v].bill
                        /\ run'[v].terms = run[v].terms
      OBVIOUS
    <3>1. run \in [WorkflowID -> Run]
      BY DEF TypeInv, TypeOK
    <3>2. v # w => run'[v] = run[v]
      BY <2>2, <3>1
    <3>3. run'[w] = [run[w] EXCEPT !.total = @ + 1]
      BY <2>1, <2>2, <3>1
    <3> QED BY <3>1, <3>2, <3>3 DEF Run
  <2>5. RunInv'
    BY <2>4 DEF TypeInv, RunInv
  <2>6. lines' \in [Key -> 0..Resends + 1]
    BY <1>5, RequestAssumption DEF AddLineItem, TypeInv, TypeOK
  <2> QED BY <1>5, <2>3, <2>5, <2>6 DEF AddLineItem, TypeInv, TypeOK
<1> QED BY <1>1, <1>2, <1>3, <1>4, <1>5 DEF RequestStep

LEMMA InsertTyped ==
  ASSUME TypeInv, NEW b \in BillID, NEW t \in Terms
  PROVE  InsertBill(b, t) \in [BillID -> BillRow]
BY DEF InsertBill, TypeInv, TypeOK, BillRow

LEMMA CloseTyped ==
  ASSUME TypeInv, NEW b \in BillID, NEW n \in Nat
  PROVE  UpdateBillClosed(b, n) \in [BillID -> BillRow]
<1>1. row \in [BillID -> BillRow]
  BY DEF TypeInv, TypeOK
<1>2. [row[b] EXCEPT !.status = "CLOSED", !.total = n] \in BillRow
  BY <1>1 DEF BillRow
<1> QED BY <1>1, <1>2 DEF UpdateBillClosed

LEMMA TypeInvRuns ==
  TypeInv /\ ((\E w \in WorkflowID : RunStep(w)) \/ LateCommit) => TypeInv'
<1> SUFFICES ASSUME TypeInv, (\E w \in WorkflowID : RunStep(w)) \/ LateCommit
             PROVE  TypeInv'
  OBVIOUS
<1>1. ASSUME NEW w \in WorkflowID, RunStep(w) PROVE TypeInv'
  <2>t. /\ run \in [WorkflowID -> Run] /\ run[w] \in Run
        /\ run[w].at \in Working \cup {"NewBillingPolicy"} => run[w].bill \in BillID
        /\ run[w].at \in Working => run[w].terms \in Terms
        /\ run[w].at = "NewBillingPolicy" => run[w].terms \in Terms \cup {CronTerms}
        /\ run[w].total \in Nat
    BY DEF TypeInv, TypeOK, RunInv, Run
  <2>1. CASE NewBillingPolicy(w)
    <3>1. run' \in [WorkflowID -> Run] /\ RunInv'
      <4> DEFINE p == IF run[w].terms = CronTerms THEN "Failed" ELSE "CreateBill"
      <4>1. p \in BlockedAt \cup {"Completed", "Failed"} /\ p # "NewBillingPolicy"
        BY DEF BlockedAt, Activities
      <4>2. /\ Reaches(w, p) /\ run[w].at = "NewBillingPolicy"
            /\ p \in Working => run[w].terms \in Terms
        BY <2>1, <2>t DEF NewBillingPolicy, Working
      <4> QED BY <4>1, <4>2, TypedReaches
    <3> QED BY <2>1, <3>1 DEF NewBillingPolicy, TypeInv, TypeOK
  <2>2. CASE CreateBill(w)
    <3>1. run' \in [WorkflowID -> Run] /\ RunInv'
      BY <2>2, <2>t, TypedReaches DEF CreateBill, Working, BlockedAt, Activities
    <3>2. row' \in [BillID -> BillRow]
      BY <2>2, <2>t, InsertTyped DEF CreateBill, Working
    <3> QED BY <2>2, <3>1, <3>2 DEF CreateBill, TypeInv, TypeOK
  <2>3. CASE LeaveLoop(w)
    <3>1. run' \in [WorkflowID -> Run] /\ RunInv'
      BY <2>3, <2>t, TypedReaches DEF LeaveLoop, Working, BlockedAt, Activities
    <3> QED BY <2>3, <3>1 DEF LeaveLoop, TypeInv, TypeOK
  <2>4. CASE CloseBillFromState(w)
    <3>1. run' \in [WorkflowID -> Run] /\ RunInv'
      BY <2>4, <2>t, TypedReaches DEF CloseBillFromState, Working, BlockedAt, Activities
    <3>2. row' \in [BillID -> BillRow]
      BY <2>4, <2>t, CloseTyped DEF CloseBillFromState, Working
    <3> QED BY <2>4, <3>1, <3>2 DEF CloseBillFromState, TypeInv, TypeOK
  <2>5. CASE GetBillDetail(w)
    <3>1. run' \in [WorkflowID -> Run] /\ RunInv'
      <4> DEFINE p == IF row[run[w].bill].total > 0 THEN "StartPostProcess" ELSE "Completed"
      <4>1. p \in BlockedAt \cup {"Completed", "Failed"} /\ p # "NewBillingPolicy"
        BY DEF BlockedAt, Activities
      <4>2. /\ Reaches(w, p) /\ run[w].at \in Working /\ run[w].terms \in Terms
        BY <2>5, <2>t DEF GetBillDetail, Working
      <4> QED BY <4>1, <4>2, TypedReaches
    <3> QED BY <2>5, <3>1 DEF GetBillDetail, TypeInv, TypeOK
  <2>6. CASE StartPostProcess(w)
    <3> DEFINE b == run[w].bill
               p == BillPostprocessWorkflowID(b)
               child == [at |-> "PostProcess", bill |-> b, terms |-> NoTerms, total |-> 0]
    <3>1. b \in BillID /\ p \in WorkflowID /\ child \in Run
      BY <2>6, <2>t, WorkflowOfBill DEF StartPostProcess, Working, Run, BlockedAt
    <3>2. CASE Reaches(w, "Completed") /\ UNCHANGED invoiced
      <4>1. run' \in [WorkflowID -> Run] /\ RunInv'
        BY <3>2, TypedReaches DEF Working
      <4> QED BY <2>6, <3>2, <4>1 DEF StartPostProcess, TypeInv, TypeOK
    <3>3. CASE /\ run' = [run EXCEPT ![w].at = "Completed", ![p] = child]
               /\ invoiced' = [invoiced EXCEPT ![b] = @ + 1]
      <4>1. [run[w] EXCEPT !.at = "Completed"] \in Run
        BY <2>t DEF Run
      <4>2. run' \in [WorkflowID -> Run]
        BY <2>t, <3>1, <3>3, <4>1
      <4>3. ASSUME NEW v \in WorkflowID
            PROVE  run'[v] = run[v] \/ run'[v] = child \/ run'[v].at = "Completed"
        <5>1. v # w /\ v # p => run'[v] = run[v]
          BY <2>t, <3>3
        <5>2. v = p => run'[v] = child
          BY <2>t, <3>1, <3>3
        <5>3. v = w /\ v # p => run'[v] = [run[w] EXCEPT !.at = "Completed"]
          BY <2>t, <3>3
        <5>4. [run[w] EXCEPT !.at = "Completed"].at = "Completed"
          BY <2>t DEF Run
        <5> QED BY <5>1, <5>2, <5>3, <5>4
      <4>4. RunInv'
        BY <4>3 DEF TypeInv, RunInv, Working
      <4>5. invoiced' \in [BillID -> Nat]
        BY <3>1, <3>3 DEF TypeInv, TypeOK
      <4> QED BY <2>6, <4>2, <4>4, <4>5 DEF StartPostProcess, TypeInv, TypeOK
    <3> QED BY <2>6, <3>2, <3>3 DEF StartPostProcess
  <2>7. CASE ClosedBillPostProcess(w)
    <3>1. run' \in [WorkflowID -> Run] /\ RunInv'
      BY <2>7, TypedReaches DEF ClosedBillPostProcess, Working
    <3> QED BY <2>7, <3>1 DEF ClosedBillPostProcess, TypeInv, TypeOK
  <2>8. CASE GiveUp(w)
    <3>1. run' \in [WorkflowID -> Run] /\ RunInv'
      BY <2>8, TypedReaches DEF GiveUp, Working
    <3>2. run[w].at \in Working
      BY <2>8, RequestAssumption DEF GiveUp, Activities, Working
    <3> QED BY <2>8, <2>t, <3>1, <3>2 DEF GiveUp, TypeInv, TypeOK
  <2> QED BY <1>1, <2>1, <2>2, <2>3, <2>4, <2>5, <2>6, <2>7, <2>8 DEF RunStep
<1>2. ASSUME LateCommit PROVE TypeInv'
  <2>1. PICK s \in late :
          /\ row' = IF s.op = "CreateBill" THEN InsertBill(s.bill, s.terms)
                                           ELSE UpdateBillClosed(s.bill, s.total)
          /\ late' = late \ {s}
    BY <1>2 DEF LateCommit
  <2>2. s.bill \in BillID /\ s.terms \in Terms /\ s.total \in Nat
    BY DEF TypeInv, TypeOK
  <2>3. row' \in [BillID -> BillRow]
    BY <2>1, <2>2, InsertTyped, CloseTyped
  <2> QED BY <1>2, <2>1, <2>3 DEF LateCommit, TypeInv, TypeOK, RunInv
<1> QED BY <1>1, <1>2

LEMMA TypeInvStep == TypeInv /\ [Next]_vars => TypeInv'
<1>1. TypeInv /\ UNCHANGED vars => TypeInv'
  BY DEF TypeInv, TypeOK, RunInv, vars
<1> QED BY <1>1, TypeInvRequests, TypeInvRuns DEF Next

\* Every variable keeps its type, and terms no request validated, like the cron's, never
\* reach the table (NewBillingPolicy stands before Activities.CreateBill).
THEOREM TypeCorrect == Spec => []TypeOK
<1>1. Spec => []TypeInv
  BY TypeInvInit, TypeInvStep, PTL DEF Spec
<1>2. TypeInv => TypeOK
  BY DEF TypeInv
<1> QED BY <1>1, <1>2, PTL

-----------------------------------------------------------------------------
(***************************************************************************)
(* One bill, one ledger. When no creation outlasts the run of its bill, a  *)
(* bill that was left by its loop is sealed: its row exists, so a creation *)
(* is refused by its check, and none is past its check. Only the cron can  *)
(* start another run, which its policy refuses.                            *)
(***************************************************************************)
Counted(b) == Cardinality(LinesOf(b))

Sealed(b) == /\ row[b].status # "absent"
             /\ \A r \in Creation : BillOf[r] = b => creator[r] # "checked"

\* A run that will close its bill unless it fails.
Unclosed(w) == \/ run[w].at = "NewBillingPolicy" /\ run[w].terms # CronTerms
               \/ run[w].at \in {"CreateBill", "Loop", "CloseBillFromState"}

Over(b) == Sealed(b) /\ \A w \in WorkflowID : run[w].bill = b => ~Unclosed(w)

BillInv(b) ==
  /\ row[b].status = "absent" => row[b].total = 0
  /\ row[b].status = "CLOSED" => Over(b) /\ row[b].total = Counted(b)
  /\ LinesOf(b) # {} => Sealed(b) \/ run[BillCycleWorkflowID(b)].at = "Loop"
  /\ IsFiniteSet(LinesOf(b))

WorkInv(w) == LET b == run[w].bill IN
  /\ Unclosed(w) /\ run[w].at \in {"NewBillingPolicy", "CreateBill"} =>
       run[w].total = 0 /\ LinesOf(b) = {}
  /\ run[w].at \in {"Loop", "CloseBillFromState"} =>
       row[b].status = "OPEN" /\ run[w].total = Counted(b)
  /\ run[w].at = "CloseBillFromState" => Sealed(b)
  /\ run[w].at \in {"GetBillDetail", "StartPostProcess"} => row[b].status = "CLOSED"

LateInv(s) ==
  /\ s.op \in {"CreateBill", "CloseBillFromState"}
  /\ s.op = "CloseBillFromState" => Over(s.bill) /\ s.total = Counted(s.bill)

OnceInv(b) ==
  \/ invoiced[b] = 0
  \/ /\ invoiced[b] = 1 /\ row[b].status = "CLOSED"
     /\ \A w \in WorkflowID :
          run[w].bill = b => run[w].at \notin {"GetBillDetail", "StartPostProcess"}

LedgerInv ==
  /\ \A b \in BillID : BillInv(b) /\ OnceInv(b)
  /\ \A w \in WorkflowID : WorkInv(w)
  /\ \A s \in late : LateInv(s)

\* Two runs about one bill are one run.
LEMMA OneRun ==
  ASSUME TypeInv, NEW v \in WorkflowID, NEW w \in WorkflowID, run[v].bill = run[w].bill,
         run[v].at \in Working \cup {"NewBillingPolicy"},
         run[w].at \in Working \cup {"NewBillingPolicy"}
  PROVE  v = w
BY DEF TypeInv, RunInv

\* A workflow id tells its bill.
LEMMA BillOfWorkflow ==
  ASSUME NEW b \in BillID, NEW c \in BillID, BillCycleWorkflowID(b) = BillCycleWorkflowID(c)
  PROVE  b = c
<1>1. b \in Seq(STRING) /\ c \in Seq(STRING)
  BY RequestAssumption
<1>2. /\ Len(BillCycleWorkflowID(b)) = 1 + Len(b)
      /\ Len(BillCycleWorkflowID(c)) = 1 + Len(c)
  BY <1>1 DEF BillCycleWorkflowID
<1>3. /\ \A i \in 1..Len(b) : BillCycleWorkflowID(b)[i + 1] = b[i]
      /\ \A i \in 1..Len(c) : BillCycleWorkflowID(c)[i + 1] = c[i]
  BY <1>1 DEF BillCycleWorkflowID
<1>4. Len(b) = Len(c)
  BY <1>1, <1>2
<1>5. \A i \in 1..Len(b) : b[i] = c[i]
  BY <1>3, <1>4
<1> QED BY <1>1, <1>4, <1>5

\* What a run keeps when it goes on.
LEMMA AfterReaches ==
  ASSUME TypeInv, NEW w \in WorkflowID, NEW p, Reaches(w, p)
  PROVE  /\ run'[w].at = p
         /\ \A v \in WorkflowID :
              /\ run'[v].bill = run[v].bill /\ run'[v].terms = run[v].terms
              /\ run'[v].total = run[v].total
              /\ v # w => run'[v].at = run[v].at
<1>1. run \in [WorkflowID -> Run] /\ run' = [run EXCEPT ![w].at = p]
  BY DEF TypeInv, TypeOK, Reaches
<1> QED BY <1>1 DEF Run

\* What an ExecuteWorkflow leaves: the runs, or a new one where there was none.
LEMMA AfterExecute ==
  ASSUME TypeInv, NEW b \in BillID, NEW t, run' = ExecuteWorkflow(BillCycleWorkflowID(b), b, t)
  PROVE  \/ run' = run /\ Open(BillCycleWorkflowID(b))
         \/ /\ run[BillCycleWorkflowID(b)].at \notin BlockedAt
            /\ run'[BillCycleWorkflowID(b)] =
                 [at |-> "NewBillingPolicy", bill |-> b, terms |-> t, total |-> 0]
            /\ \A v \in WorkflowID : v # BillCycleWorkflowID(b) => run'[v] = run[v]
<1>1. run \in [WorkflowID -> Run] /\ BillCycleWorkflowID(b) \in WorkflowID
  BY WorkflowOfBill DEF TypeInv, TypeOK
<1> QED BY <1>1 DEF ExecuteWorkflow, Open

\* Rows are not deleted, a closed one stays closed, and a sealed bill stays sealed.
LEMMA SealedKept ==
  ASSUME TypeInv, Next, NEW b \in BillID
  PROVE  /\ row[b].status # "absent" => row'[b].status # "absent"
         /\ row[b].status = "CLOSED" => row'[b].status = "CLOSED"
         /\ Sealed(b) => Sealed(b)'
<1>1. /\ row \in [BillID -> BillRow]
      /\ creator \in [Creation -> {"idle", "checked", "answered", "refused", "failed"}]
  BY DEF TypeInv, TypeOK
<1>2. ASSUME NEW c \in BillID, NEW t, row' = InsertBill(c, t)
      PROVE  row[b].status # "absent" => row'[b] = row[b]
  BY <1>1, <1>2 DEF InsertBill
<1>3. ASSUME NEW c \in BillID, NEW n, row' = UpdateBillClosed(c, n)
      PROVE  row[b].status # "absent" => row'[b] = row[b] \/ row'[b].status = "CLOSED"
  <2>1. b # c => row'[b] = row[b]
    BY <1>1, <1>3 DEF UpdateBillClosed
  <2>2. b = c /\ row[b].status # "absent" =>
          row'[b] = [row[b] EXCEPT !.status = "CLOSED", !.total = n]
    BY <1>1, <1>3 DEF UpdateBillClosed
  <2>3. [row[b] EXCEPT !.status = "CLOSED", !.total = n].status = "CLOSED"
    BY <1>1 DEF BillRow
  <2> QED BY <2>1, <2>2, <2>3
<1>4. \/ row' = row
      \/ \E c \in BillID : \E t : row' = InsertBill(c, t)
      \/ \E c \in BillID : \E n : row' = UpdateBillClosed(c, n)
  <2>1. ASSUME NEW w \in WorkflowID, CreateBill(w) \/ CloseBillFromState(w)
        PROVE  run[w].bill \in BillID
    BY <2>1 DEF TypeInv, RunInv, CreateBill, CloseBillFromState, Working
  <2>2. ASSUME LateCommit
        PROVE  \/ \E c \in BillID : \E t : row' = InsertBill(c, t)
               \/ \E c \in BillID : \E n : row' = UpdateBillClosed(c, n)
    BY <2>2 DEF LateCommit, TypeInv, TypeOK
  <2>3. ASSUME NEW w \in WorkflowID, RunStep(w)
        PROVE  row' = row \/ CreateBill(w) \/ CloseBillFromState(w)
    BY <2>3 DEF RunStep, NewBillingPolicy, LeaveLoop, GetBillDetail, StartPostProcess,
                ClosedBillPostProcess, GiveUp
  <2>4. ASSUME ~LateCommit, \A w \in WorkflowID : ~RunStep(w)
        PROVE  row' = row
    BY <2>4 DEF Next, RequestStep, CreateBillCheck, CreateBillStart, CreateBillFails,
                CronFires, StartMonthlyBilling, AddLineItem
  <2>5. ASSUME NEW w \in WorkflowID, CreateBill(w)
        PROVE  \E c \in BillID : \E t : row' = InsertBill(c, t)
    BY <2>1, <2>5 DEF CreateBill
  <2>6. ASSUME NEW w \in WorkflowID, CloseBillFromState(w)
        PROVE  \E c \in BillID : \E n : row' = UpdateBillClosed(c, n)
    BY <2>1, <2>6 DEF CloseBillFromState
  <2> QED BY <2>2, <2>3, <2>4, <2>5, <2>6
<1>5. row[b].status # "absent" => row'[b] = row[b] \/ row'[b].status = "CLOSED"
  BY <1>2, <1>3, <1>4
<1>6. ASSUME NEW r \in Creation, creator[r] # "checked", creator'[r] = "checked"
      PROVE  row[BillOf[r]].status = "absent"
  <2>1. ASSUME \A q \in Creation : ~RequestStep(q)
        PROVE  creator' = creator
    BY <2>1 DEF Next, CronFires, StartMonthlyBilling, AddLineItem, LateCommit, RunStep,
                NewBillingPolicy, CreateBill, LeaveLoop, CloseBillFromState, GetBillDetail,
                StartPostProcess, ClosedBillPostProcess, GiveUp
  <2>2. PICK q \in Creation : RequestStep(q)
    BY <1>6, <2>1
  <2>3. CreateBillCheck(q) /\ q = r
    BY <1>1, <1>6, <2>2 DEF RequestStep, CreateBillCheck, CreateBillStart, CreateBillFails
  <2> QED BY <1>1, <1>6, <2>3 DEF CreateBillCheck, IsBillExists
<1> QED BY <1>5, <1>6 DEF Sealed

LEMMA LedgerInvInit == Init => LedgerInv
<1> SUFFICES ASSUME Init PROVE LedgerInv
  OBVIOUS
<1>1. ASSUME NEW b \in BillID PROVE LinesOf(b) = {}
  BY RequestAssumption DEF Init, LinesOf
<1>2. IsFiniteSet({})
  BY FS_EmptySet
<1> QED BY <1>1, <1>2 DEF Init, LedgerInv, BillInv, OnceInv, WorkInv, Unclosed

\* A bill that is over stays over unless a run comes to work on it.
LEMMA OverKept ==
  ASSUME NEW b \in BillID, Over(b), Sealed(b) => Sealed(b)',
         \A v \in WorkflowID : run'[v].bill = b /\ Unclosed(v)' =>
                                 run[v].bill = b /\ Unclosed(v)
  PROVE  Over(b)'
BY DEF Over

\* A run that goes on to a point where it does no more than it did before, while
\* nothing else changes.
LEMMA LedgerInvMove ==
  ASSUME TypeInv, LedgerInv, Next, NEW w \in WorkflowID, NEW p, Reaches(w, p),
         \/ p = "CreateBill" /\ run[w].at = "NewBillingPolicy" /\ run[w].terms # CronTerms
         \/ p = "CloseBillFromState" /\ run[w].at = "Loop" /\ Sealed(run[w].bill)
         \/ p = "StartPostProcess" /\ run[w].at = "GetBillDetail"
         \/ p \in {"Completed", "Failed"} /\ run[w].at # "Loop",
         UNCHANGED <<row, lines, invoiced>>
  PROVE  /\ \A b \in BillID : BillInv(b)' /\ OnceInv(b)'
         /\ \A v \in WorkflowID : WorkInv(v)'
         /\ \A s \in late : LateInv(s)'
<1>1. /\ run'[w].at = p
      /\ \A v \in WorkflowID :
           /\ run'[v].bill = run[v].bill /\ run'[v].terms = run[v].terms
           /\ run'[v].total = run[v].total
           /\ v # w => run'[v].at = run[v].at
  BY AfterReaches
<1>2. \A v \in WorkflowID : Unclosed(v)' => Unclosed(v)
  BY <1>1 DEF Unclosed
<1>3. ASSUME NEW b \in BillID
      PROVE  /\ LinesOf(b)' = LinesOf(b) /\ Counted(b)' = Counted(b)
             /\ Over(b) => Over(b)'
             /\ Sealed(b) => Sealed(b)'
  <2>1. LinesOf(b)' = LinesOf(b) /\ Counted(b)' = Counted(b)
    BY DEF LinesOf, Counted
  <2>2. Sealed(b) => Sealed(b)'
    BY SealedKept
  <2>3. Over(b) => Over(b)'
    BY <1>1, <1>2, <2>2, OverKept
  <2> QED BY <2>1, <2>2, <2>3
<1>4. ASSUME NEW b \in BillID PROVE BillInv(b)'
  <2>1. BillInv(b)
    BY DEF LedgerInv
  <2>2. run[BillCycleWorkflowID(b)].at = "Loop" =>
          Sealed(b)' \/ run'[BillCycleWorkflowID(b)].at = "Loop"
    <3>1. BillCycleWorkflowID(b) \in WorkflowID
      BY WorkflowOfBill
    <3>2. CASE w = BillCycleWorkflowID(b) /\ run[w].at = "Loop"
      <4>1. Sealed(run[w].bill)
        BY <3>2
      <4>2. run[w].bill = b
        <5>1. run[w].bill \in BillID /\ w = BillCycleWorkflowID(run[w].bill)
          BY <3>2 DEF TypeInv, RunInv, Working
        <5> QED BY <3>2, <5>1, BillOfWorkflow
      <4> QED BY <1>3, <4>1, <4>2
    <3>3. CASE w # BillCycleWorkflowID(b)
      BY <1>1, <3>1, <3>3
    <3> QED BY <3>2, <3>3
  <2> QED BY <1>3, <2>1, <2>2 DEF BillInv
<1>5. ASSUME NEW b \in BillID PROVE OnceInv(b)'
  <2>1. OnceInv(b)
    BY DEF LedgerInv
  <2>2. \A v \in WorkflowID : run'[v].at \in {"GetBillDetail", "StartPostProcess"} =>
                                run[v].at \in {"GetBillDetail", "StartPostProcess"}
    BY <1>1
  <2> QED BY <1>1, <2>1, <2>2 DEF OnceInv
<1>6. ASSUME NEW v \in WorkflowID PROVE WorkInv(v)'
  <2>1. WorkInv(v) /\ TypeInv
    BY DEF LedgerInv
  <2>2. CASE run'[v].at \notin Working \cup {"NewBillingPolicy"}
    BY <2>2 DEF WorkInv, Unclosed, Working
  <2>3. CASE run'[v].at \in Working \cup {"NewBillingPolicy"}
    <3>1. run[v].at \in Working \cup {"NewBillingPolicy"}
      BY <1>1, <2>3 DEF Working
    <3>2. run[v].bill \in BillID
      BY <3>1 DEF TypeInv, RunInv
    <3>3. CASE v # w
      <4>1. run'[v].at = run[v].at /\ run'[v].bill = run[v].bill
            /\ run'[v].total = run[v].total /\ (Unclosed(v)' => Unclosed(v))
        BY <1>1, <1>2, <3>3
      <4> QED BY <1>3, <2>1, <3>2, <4>1 DEF WorkInv
    <3>4. CASE v = w
      <4>1. run'[v].at = p /\ run'[v].bill = run[v].bill
            /\ run'[v].total = run[v].total /\ (Unclosed(v)' => Unclosed(v))
        BY <1>1, <1>2, <3>4
      <4> QED BY <1>3, <2>1, <2>3, <3>2, <3>4, <4>1 DEF WorkInv, Working
    <3> QED BY <3>3, <3>4
  <2> QED BY <2>2, <2>3
<1>7. ASSUME NEW s \in late PROVE LateInv(s)'
  <2>1. LateInv(s) /\ s.bill \in BillID
    BY DEF LedgerInv, TypeInv, TypeOK
  <2> QED BY <1>3, <2>1 DEF LateInv
<1> QED BY <1>4, <1>5, <1>6, <1>7

\* A new run under a bill's id, of a bill that is not over, or on the cron's terms.
LEMMA LedgerInvExecute ==
  ASSUME TypeInv, LedgerInv, Next, NEW b \in BillID, NEW t,
         run' = ExecuteWorkflow(BillCycleWorkflowID(b), b, t),
         t = CronTerms \/ ~Sealed(b),
         UNCHANGED <<row, lines, late, invoiced>>
  PROVE  LedgerInv'
<1> DEFINE u == BillCycleWorkflowID(b)
<1>w. u \in WorkflowID
  BY WorkflowOfBill
<1>1. \/ run' = run /\ Open(u)
      \/ /\ run[u].at \notin BlockedAt
         /\ run'[u] = [at |-> "NewBillingPolicy", bill |-> b, terms |-> t, total |-> 0]
         /\ \A v \in WorkflowID : v # u => run'[v] = run[v]
  BY AfterExecute
<1>2. \A v \in WorkflowID : run'[v].at # "NewBillingPolicy" => run'[v] = run[v]
  BY <1>1, <1>w
<1>3. \A v \in WorkflowID, c \in BillID :
        run'[v].bill = c /\ Unclosed(v)' =>
          (run[v].bill = c /\ Unclosed(v)) \/ (c = b /\ ~Sealed(b))
  BY <1>1, <1>w DEF Unclosed
<1>4. ASSUME NEW c \in BillID
      PROVE  /\ LinesOf(c)' = LinesOf(c) /\ Counted(c)' = Counted(c)
             /\ Sealed(c) => Sealed(c)'
             /\ Over(c) => Over(c)'
  <2>1. LinesOf(c)' = LinesOf(c) /\ Counted(c)' = Counted(c)
    BY DEF LinesOf, Counted
  <2>2. Sealed(c) => Sealed(c)'
    BY SealedKept
  <2>3. Over(c) => Over(c)'
    <3>1. SUFFICES ASSUME Over(c) PROVE Over(c)'
      OBVIOUS
    <3>2. Sealed(c)
      BY <3>1 DEF Over
    <3> QED BY <1>3, <2>2, <3>1, <3>2, OverKept
  <2> QED BY <2>1, <2>2, <2>3
<1>5. ASSUME NEW c \in BillID PROVE BillInv(c)'
  <2>1. BillInv(c)
    BY DEF LedgerInv
  <2>2. run[BillCycleWorkflowID(c)].at = "Loop" => run'[BillCycleWorkflowID(c)].at = "Loop"
    BY <1>1, <1>w, WorkflowOfBill DEF BlockedAt
  <2> QED BY <1>4, <2>1, <2>2 DEF BillInv
<1>6. ASSUME NEW c \in BillID PROVE OnceInv(c)'
  <2>1. OnceInv(c)
    BY DEF LedgerInv
  <2>2. \A v \in WorkflowID :
          run'[v].at \in {"GetBillDetail", "StartPostProcess"} => run'[v] = run[v]
    BY <1>2
  <2> QED BY <2>1, <2>2 DEF OnceInv
<1>7. ASSUME NEW v \in WorkflowID PROVE WorkInv(v)'
  <2>1. WorkInv(v)
    BY DEF LedgerInv
  <2>2. CASE run'[v] = run[v]
    <3>1. CASE run[v].at \notin Working \cup {"NewBillingPolicy"}
      BY <2>2, <3>1 DEF WorkInv, Unclosed, Working
    <3>2. CASE run[v].at \in Working \cup {"NewBillingPolicy"}
      <4>1. run[v].bill \in BillID
        BY <3>2 DEF TypeInv, RunInv
      <4> QED BY <1>4, <2>1, <2>2, <4>1 DEF WorkInv, Unclosed
    <3> QED BY <3>1, <3>2
  <2>3. CASE run'[v] # run[v]
    <3>1. /\ v = u /\ run[u].at \notin BlockedAt
          /\ run'[v] = [at |-> "NewBillingPolicy", bill |-> b, terms |-> t, total |-> 0]
      BY <1>1, <2>3
    <3>2. t # CronTerms => LinesOf(b) = {}
      <4>1. BillInv(b) /\ run[u].at # "Loop"
        BY <3>1 DEF LedgerInv, BlockedAt
      <4> QED BY <4>1 DEF BillInv
    <3>3. /\ run'[v].at = "NewBillingPolicy" /\ run'[v].bill = b
          /\ run'[v].terms = t /\ run'[v].total = 0
      BY <3>1
    <3>4. Unclosed(v)' => t # CronTerms
      BY <3>3 DEF Unclosed
    <3> QED BY <1>4, <3>2, <3>3, <3>4 DEF WorkInv
  <2> QED BY <2>2, <2>3
<1>8. ASSUME NEW s \in late PROVE LateInv(s)'
  <2>1. LateInv(s) /\ s.bill \in BillID
    BY DEF LedgerInv, TypeInv, TypeOK
  <2> QED BY <1>4, <2>1 DEF LateInv
<1> QED BY <1>5, <1>6, <1>7, <1>8 DEF LedgerInv

LEMMA LedgerInvRequests ==
  TypeInv /\ LedgerInv /\ Next
    /\ (\/ \E r \in Creation : RequestStep(r)
        \/ \E c \in CustomerID : StartMonthlyBilling(c)
        \/ CronFires) => LedgerInv'
<1> SUFFICES ASSUME TypeInv, LedgerInv, Next,
                    \/ \E r \in Creation : RequestStep(r)
                    \/ \E c \in CustomerID : StartMonthlyBilling(c)
                    \/ CronFires
             PROVE  LedgerInv'
  OBVIOUS
<1>1. ASSUME UNCHANGED <<row, lines, late, run, invoiced>> PROVE LedgerInv'
  <2>1. ASSUME NEW b \in BillID
        PROVE  /\ LinesOf(b)' = LinesOf(b) /\ Counted(b)' = Counted(b)
               /\ Sealed(b) => Sealed(b)'
               /\ Over(b) => Over(b)'
    <3>1. LinesOf(b)' = LinesOf(b) /\ Counted(b)' = Counted(b)
      BY <1>1 DEF LinesOf, Counted
    <3>2. Sealed(b) => Sealed(b)'
      BY SealedKept
    <3>3. Over(b) => Over(b)'
      BY <1>1, <3>2 DEF Over, Unclosed
    <3> QED BY <3>1, <3>2, <3>3
  <2>2. ASSUME NEW b \in BillID PROVE BillInv(b)' /\ OnceInv(b)'
    BY <1>1, <2>1 DEF LedgerInv, BillInv, OnceInv
  <2>3. ASSUME NEW v \in WorkflowID PROVE WorkInv(v)'
    <3>1. WorkInv(v)
      BY DEF LedgerInv
    <3>2. CASE run[v].at \notin Working \cup {"NewBillingPolicy"}
      BY <1>1, <3>2 DEF WorkInv, Unclosed, Working
    <3>3. CASE run[v].at \in Working \cup {"NewBillingPolicy"}
      <4>1. run[v].bill \in BillID
        BY <3>3 DEF TypeInv, RunInv
      <4> QED BY <1>1, <2>1, <3>1, <4>1 DEF WorkInv, Unclosed
    <3> QED BY <3>2, <3>3
  <2>4. ASSUME NEW s \in late PROVE LateInv(s)'
    <3>1. LateInv(s) /\ s.bill \in BillID
      BY DEF LedgerInv, TypeInv, TypeOK
    <3> QED BY <2>1, <3>1 DEF LateInv
  <2> QED BY <1>1, <2>2, <2>3, <2>4 DEF LedgerInv
<1>2. ASSUME NEW r \in Creation, CreateBillStart(r) PROVE LedgerInv'
  <2>1. BillOf[r] \in BillID /\ ~Sealed(BillOf[r])
    BY <1>2, RequestAssumption DEF CreateBillStart, Sealed
  <2> QED BY <1>2, <2>1, LedgerInvExecute DEF CreateBillStart
<1>3. ASSUME NEW c \in CustomerID, StartMonthlyBilling(c) PROVE LedgerInv'
  <2>1. c \in BillID
    BY RequestAssumption
  <2>2. CASE run' = run
    BY <1>1, <1>3, <2>2 DEF StartMonthlyBilling
  <2>3. CASE run' = ExecuteWorkflow(BillCycleWorkflowID(c), c, CronTerms)
    BY <1>3, <2>1, <2>3, LedgerInvExecute DEF StartMonthlyBilling
  <2> QED BY <1>3, <2>2, <2>3 DEF StartMonthlyBilling
<1>4. ASSUME NEW r \in Creation, CreateBillCheck(r) \/ CreateBillFails(r) PROVE LedgerInv'
  BY <1>1, <1>4 DEF CreateBillCheck, CreateBillFails
<1>5. ASSUME CronFires PROVE LedgerInv'
  BY <1>1, <1>5 DEF CronFires
<1> QED BY <1>2, <1>3, <1>4, <1>5 DEF RequestStep

\* An add in the loop: one more row, one more in the total.
LEMMA LinesAfterAdd ==
  ASSUME TypeInv, NEW k \in Key, AddLineItem(k)
  PROVE  LET i == <<k, lines[k] + 1>> IN
         /\ i \in Key \X (1..Resends + 1) /\ i \notin LinesOf(KeyBill[k])
         /\ \A b \in BillID : LinesOf(b)' = IF b = KeyBill[k] THEN LinesOf(b) \cup {i}
                                                              ELSE LinesOf(b)
<1> DEFINE i == <<k, lines[k] + 1>>
<1>1. /\ lines \in [Key -> 0..Resends + 1] /\ Resends \in Nat
      /\ lines[k] <= Resends /\ lines' = [lines EXCEPT ![k] = @ + 1]
  BY RequestAssumption DEF TypeInv, TypeOK, AddLineItem
<1>2. lines[k] + 1 \in 1..Resends + 1
  BY <1>1
<1>3. i \notin LinesOf(KeyBill[k])
  BY <1>1 DEF LinesOf
<1>4. ASSUME NEW b \in BillID, NEW l \in Key \X (1..Resends + 1)
      PROVE  l \in LinesOf(b)' <=> l \in LinesOf(b) \/ (l = i /\ b = KeyBill[k])
  <2>1. PICK j \in Key, n \in 1..Resends + 1 : l = <<j, n>>
    OBVIOUS
  <2>2. /\ l \in LinesOf(b) <=> KeyBill[j] = b /\ n <= lines[j]
        /\ l \in LinesOf(b)' <=> KeyBill[j] = b /\ n <= lines'[j]
    BY <2>1 DEF LinesOf
  <2>3. CASE j # k
    <3>1. lines'[j] = lines[j] /\ l # i
      BY <1>1, <2>1, <2>3
    <3> QED BY <2>2, <3>1
  <2>4. CASE j = k
    <3>1. lines'[j] = lines[k] + 1 /\ (l = i <=> n = lines[k] + 1)
      BY <1>1, <2>1, <2>4
    <3>2. n <= lines[k] + 1 <=> n <= lines[k] \/ n = lines[k] + 1
      BY <1>1
    <3> QED BY <2>2, <2>4, <3>1, <3>2
  <2> QED BY <2>3, <2>4
<1>5. ASSUME NEW b \in BillID
      PROVE  LinesOf(b) \subseteq Key \X (1..Resends + 1)
             /\ LinesOf(b)' \subseteq Key \X (1..Resends + 1)
  BY DEF LinesOf
<1>6. i \in Key \X (1..Resends + 1)
  BY <1>2
<1>7. ASSUME NEW b \in BillID
      PROVE  LinesOf(b)' = IF b = KeyBill[k] THEN LinesOf(b) \cup {i} ELSE LinesOf(b)
  BY <1>4, <1>5, <1>6
<1> QED BY <1>3, <1>6, <1>7

LEMMA LedgerInvAdd ==
  ASSUME TypeInv, LedgerInv, Next, NEW k \in Key, AddLineItem(k)
  PROVE  LedgerInv'
<1> DEFINE c == KeyBill[k]
           u == BillCycleWorkflowID(c)
<1>1. /\ c \in BillID /\ u \in WorkflowID
      /\ run[u].at = "Loop" /\ run[u].bill = c
  <2>1. c \in BillID /\ u \in WorkflowID /\ run[u].at = "Loop"
    BY RequestAssumption, WorkflowOfBill DEF AddLineItem
  <2>2. run[u].bill \in BillID /\ u = BillCycleWorkflowID(run[u].bill)
    BY <2>1 DEF TypeInv, RunInv, Working
  <2> QED BY <2>1, <2>2, BillOfWorkflow
<1>2. /\ run'[u].at = run[u].at /\ run'[u].bill = run[u].bill
      /\ run'[u].terms = run[u].terms /\ run'[u].total = run[u].total + 1
      /\ \A v \in WorkflowID : v # u => run'[v] = run[v]
  <2>1. run \in [WorkflowID -> Run] /\ run' = [run EXCEPT ![u].total = @ + 1]
    BY DEF AddLineItem, TypeInv, TypeOK
  <2> QED BY <1>1, <2>1 DEF Run
<1>3. \A v \in WorkflowID :
        /\ run'[v].at = run[v].at /\ run'[v].bill = run[v].bill
        /\ run'[v].terms = run[v].terms /\ Unclosed(v)' = Unclosed(v)
  BY <1>2 DEF Unclosed
<1>4. Unclosed(u) /\ ~Over(c) /\ row[c].status = "OPEN" /\ run[u].total = Counted(c)
  BY <1>1 DEF Unclosed, Over, LedgerInv, WorkInv
<1>5. /\ IsFiniteSet(LinesOf(c)') /\ Counted(c)' = Counted(c) + 1
  <2>1. PICK i : i \notin LinesOf(c) /\ LinesOf(c)' = LinesOf(c) \cup {i}
    BY <1>1, LinesAfterAdd
  <2>2. IsFiniteSet(LinesOf(c))
    BY <1>1 DEF LedgerInv, BillInv
  <2>3. /\ IsFiniteSet(LinesOf(c) \cup {i})
        /\ Cardinality(LinesOf(c) \cup {i}) = Cardinality(LinesOf(c)) + 1
    BY <2>1, <2>2, FS_AddElement
  <2>4. Counted(c)' = Cardinality(LinesOf(c)')
    BY DEF Counted
  <2> QED BY <2>1, <2>3, <2>4 DEF Counted
<1>6. ASSUME NEW b \in BillID, b # c
      PROVE  LinesOf(b)' = LinesOf(b) /\ Counted(b)' = Counted(b)
  <2>1. LinesOf(b)' = LinesOf(b)
    BY <1>6, LinesAfterAdd
  <2> QED BY <2>1 DEF Counted
<1>7. ASSUME NEW b \in BillID
      PROVE  (Sealed(b) => Sealed(b)') /\ (Over(b) => Over(b)')
  <2>1. Sealed(b) => Sealed(b)'
    BY SealedKept
  <2> QED BY <1>3, <2>1, OverKept
<1>8. row' = row /\ late' = late /\ invoiced' = invoiced
  BY DEF AddLineItem
<1>9. ASSUME NEW b \in BillID PROVE BillInv(b)' /\ OnceInv(b)'
  <2>1. BillInv(b) /\ OnceInv(b) /\ BillCycleWorkflowID(b) \in WorkflowID
    BY WorkflowOfBill DEF LedgerInv
  <2>2. OnceInv(b)'
    BY <1>3, <1>8, <2>1 DEF OnceInv
  <2>3. CASE b = c
    BY <1>1, <1>2, <1>4, <1>5, <1>8, <2>1, <2>2, <2>3 DEF BillInv
  <2>4. CASE b # c
    BY <1>3, <1>6, <1>7, <1>8, <2>1, <2>2, <2>4 DEF BillInv
  <2> QED BY <2>3, <2>4
<1>10. ASSUME NEW v \in WorkflowID PROVE WorkInv(v)'
  <2>1. WorkInv(v)
    BY DEF LedgerInv
  <2>2. CASE v = u
    BY <1>1, <1>2, <1>4, <1>5, <1>8, <2>2 DEF WorkInv
  <2>3. CASE v # u /\ run[v].at \in Working \cup {"NewBillingPolicy"}
    <3>1. run[v].bill \in BillID /\ run[v].bill # c /\ run'[v] = run[v]
      BY <1>1, <1>2, <2>3, OneRun DEF TypeInv, RunInv, Working
    <3> QED BY <1>3, <1>6, <1>7, <1>8, <2>1, <3>1 DEF WorkInv
  <2>4. CASE run[v].at \notin Working \cup {"NewBillingPolicy"}
    BY <1>3, <2>4 DEF WorkInv, Unclosed, Working
  <2> QED BY <2>2, <2>3, <2>4
<1>11. ASSUME NEW s \in late PROVE LateInv(s)'
  <2>1. LateInv(s) /\ s.bill \in BillID
    BY DEF LedgerInv, TypeInv, TypeOK
  <2>2. s.op = "CloseBillFromState" => s.bill # c
    BY <1>4, <2>1 DEF LateInv
  <2> QED BY <1>6, <1>7, <2>1, <2>2 DEF LateInv
<1> QED BY <1>8, <1>9, <1>10, <1>11 DEF LedgerInv

\* A statement that inserts a row inserts one for a bill that has none.
LEMMA AfterInsert ==
  ASSUME TypeInv, NEW b \in BillID, NEW t, row' = InsertBill(b, t)
  PROVE  /\ \A c \in BillID : c # b => row'[c] = row[c]
         /\ row[b].status # "absent" => row'[b] = row[b]
         /\ row[b].status = "absent" =>
              row'[b].status = "OPEN" /\ row'[b].total = 0
BY DEF InsertBill, TypeInv, TypeOK

LEMMA AfterClose ==
  ASSUME TypeInv, NEW b \in BillID, NEW n, row' = UpdateBillClosed(b, n)
  PROVE  /\ \A c \in BillID : c # b => row'[c] = row[c]
         /\ row[b].status = "absent" => row'[b] = row[b]
         /\ row[b].status # "absent" =>
              row'[b].status = "CLOSED" /\ row'[b].total = n /\ row'[b].terms = row[b].terms
<1>1. row \in [BillID -> BillRow]
  BY DEF TypeInv, TypeOK
<1>2. /\ \A c \in BillID : c # b => row'[c] = row[c]
      /\ row[b].status = "absent" => row'[b] = row[b]
      /\ row[b].status # "absent" => row'[b] = [row[b] EXCEPT !.status = "CLOSED", !.total = n]
  BY <1>1 DEF UpdateBillClosed
<1>3. row[b] \in BillRow
  BY <1>1
<1> QED BY <1>2, <1>3 DEF BillRow

LEMMA LedgerInvCreateBill ==
  ASSUME TypeInv, LedgerInv, Next, NEW w \in WorkflowID, CreateBill(w)
  PROVE  LedgerInv'
<1>c. PICK c \in BillID : run[w].bill = c
  BY DEF CreateBill, CloseBillFromState, TypeInv, RunInv, Working
<1>1. /\ run[w].bill = c /\ w = BillCycleWorkflowID(c) /\ run[w].at = "CreateBill"
      /\ row' = InsertBill(c, run[w].terms) /\ Reaches(w, "Loop")
      /\ lines' = lines /\ late' = late /\ invoiced' = invoiced
  BY <1>c DEF CreateBill, TypeInv, RunInv, Working
<1>2. /\ run'[w].at = "Loop"
      /\ \A v \in WorkflowID :
           /\ run'[v].bill = run[v].bill /\ run'[v].terms = run[v].terms
           /\ run'[v].total = run[v].total
           /\ v # w => run'[v].at = run[v].at
  BY <1>1, AfterReaches
<1>3. \A v \in WorkflowID : Unclosed(v)' = Unclosed(v)
  BY <1>1, <1>2 DEF Unclosed
<1>4. ASSUME NEW b \in BillID
      PROVE  /\ LinesOf(b)' = LinesOf(b) /\ Counted(b)' = Counted(b)
             /\ Sealed(b) => Sealed(b)'
             /\ Over(b) => Over(b)'
  <2>1. LinesOf(b)' = LinesOf(b) /\ Counted(b)' = Counted(b)
    BY <1>1 DEF LinesOf, Counted
  <2>2. Sealed(b) => Sealed(b)'
    BY SealedKept
  <2> QED BY <1>2, <1>3, <2>1, <2>2, OverKept
<1>5. run[w].total = 0 /\ LinesOf(c) = {} /\ Counted(c) = 0
  <2>1. run[w].total = 0 /\ LinesOf(c) = {}
    BY <1>1 DEF LedgerInv, WorkInv, Unclosed
  <2> QED BY <2>1, FS_EmptySet DEF Counted
<1>6. row'[c].status = "OPEN"
  <2>1. row[c].status # "CLOSED"
    BY <1>1 DEF LedgerInv, BillInv, Over, Unclosed
  <2>2. row[c].status \in {"absent", "OPEN", "CLOSED"}
    BY <1>1 DEF TypeInv, TypeOK, BillRow
  <2>3. CASE row[c].status = "OPEN"
    BY <1>1, <2>3, AfterInsert
  <2>4. CASE row[c].status = "absent"
    BY <1>1, <2>4, AfterInsert
  <2> QED BY <2>1, <2>2, <2>3, <2>4
<1>7. \A b \in BillID : row[b].status # "absent" => row'[b] = row[b]
  BY <1>1, AfterInsert
<1>8. \A b \in BillID : b # c => row'[b] = row[b]
  BY <1>1, AfterInsert
<1>9. ASSUME NEW b \in BillID PROVE BillInv(b)' /\ OnceInv(b)'
  <2>1. BillInv(b) /\ OnceInv(b) /\ BillCycleWorkflowID(b) \in WorkflowID
    BY WorkflowOfBill DEF LedgerInv
  <2>2. OnceInv(b)'
    BY <1>1, <1>2, <1>7, <2>1 DEF OnceInv
  <2>3. CASE b = c
    BY <1>4, <1>5, <1>6, <2>1, <2>2, <2>3 DEF BillInv
  <2>4. CASE b # c
    <3>1. run[BillCycleWorkflowID(b)].at = "Loop" => run'[BillCycleWorkflowID(b)].at = "Loop"
      BY <1>2, <2>1
    <3> QED BY <1>4, <1>8, <2>1, <2>2, <2>4, <3>1 DEF BillInv
  <2> QED BY <2>3, <2>4
<1>10. ASSUME NEW v \in WorkflowID PROVE WorkInv(v)'
  <2>1. WorkInv(v)
    BY DEF LedgerInv
  <2>2. CASE v = w
    BY <1>1, <1>2, <1>4, <1>5, <1>6, <2>2 DEF WorkInv
  <2>3. CASE v # w /\ run[v].at \in Working \cup {"NewBillingPolicy"}
    <3>1. run[v].bill \in BillID
      BY <2>3 DEF TypeInv, RunInv
    <3>2. run[v].bill # c
      BY <1>1, <2>3, OneRun DEF Working
    <3> QED BY <1>2, <1>3, <1>4, <1>8, <2>1, <2>3, <3>1, <3>2 DEF WorkInv
  <2>4. CASE v # w /\ run[v].at \notin Working \cup {"NewBillingPolicy"}
    BY <1>2, <1>3, <2>4 DEF WorkInv, Unclosed, Working
  <2> QED BY <2>2, <2>3, <2>4
<1>11. ASSUME NEW s \in late PROVE LateInv(s)'
  <2>1. LateInv(s) /\ s.bill \in BillID
    BY DEF LedgerInv, TypeInv, TypeOK
  <2> QED BY <1>4, <2>1 DEF LateInv
<1> QED BY <1>1, <1>9, <1>10, <1>11 DEF LedgerInv

LEMMA LedgerInvClose ==
  ASSUME TypeInv, LedgerInv, Next, NEW w \in WorkflowID, CloseBillFromState(w)
  PROVE  LedgerInv'
<1>c. PICK c \in BillID : run[w].bill = c
  BY DEF CreateBill, CloseBillFromState, TypeInv, RunInv, Working
<1>1. /\ run[w].bill = c /\ w = BillCycleWorkflowID(c) /\ run[w].at = "CloseBillFromState"
      /\ row' = UpdateBillClosed(c, run[w].total) /\ Reaches(w, "GetBillDetail")
      /\ lines' = lines /\ late' = late /\ invoiced' = invoiced
  BY <1>c DEF CloseBillFromState, TypeInv, RunInv, Working
<1>2. /\ run'[w].at = "GetBillDetail"
      /\ \A v \in WorkflowID :
           /\ run'[v].bill = run[v].bill /\ run'[v].terms = run[v].terms
           /\ run'[v].total = run[v].total
           /\ v # w => run'[v].at = run[v].at
  BY <1>1, AfterReaches
<1>3. \A v \in WorkflowID : Unclosed(v)' <=> v # w /\ Unclosed(v)
  BY <1>1, <1>2 DEF Unclosed
<1>4. ASSUME NEW b \in BillID
      PROVE  /\ LinesOf(b)' = LinesOf(b) /\ Counted(b)' = Counted(b)
             /\ Sealed(b) => Sealed(b)'
             /\ Over(b) => Over(b)'
  <2>1. LinesOf(b)' = LinesOf(b) /\ Counted(b)' = Counted(b)
    BY <1>1 DEF LinesOf, Counted
  <2>2. Sealed(b) => Sealed(b)'
    BY SealedKept
  <2> QED BY <1>2, <1>3, <2>1, <2>2, OverKept
<1>5. /\ row[c].status = "OPEN" /\ run[w].total = Counted(c) /\ Sealed(c)
  BY <1>1 DEF LedgerInv, WorkInv
<1>6. /\ row'[c].status = "CLOSED" /\ row'[c].total = Counted(c)
      /\ \A b \in BillID : b # c => row'[b] = row[b]
  BY <1>1, <1>5, AfterClose
<1>7. Over(c)'
  <2>1. ASSUME NEW v \in WorkflowID, run'[v].bill = c, Unclosed(v)' PROVE FALSE
    <3>1. v # w /\ Unclosed(v) /\ run[v].bill = c
      BY <1>2, <1>3, <2>1
    <3> QED BY <1>1, <3>1, OneRun DEF Unclosed, Working
  <2>2. Sealed(c)'
    BY <1>1, <1>4, <1>5
  <2> QED BY <2>1, <2>2 DEF Over
<1>8. ASSUME NEW b \in BillID PROVE BillInv(b)' /\ OnceInv(b)'
  <2>1. BillInv(b) /\ OnceInv(b) /\ BillCycleWorkflowID(b) \in WorkflowID
    BY WorkflowOfBill DEF LedgerInv
  <2>2. CASE b = c
    <3>1. invoiced'[b] = 0
      BY <1>1, <1>5, <2>1, <2>2 DEF OnceInv
    <3>2. Sealed(c)'
      BY <1>7 DEF Over
    <3> QED BY <1>4, <1>6, <1>7, <2>1, <2>2, <3>1, <3>2 DEF BillInv, OnceInv
  <2>3. CASE b # c
    <3>1. run[BillCycleWorkflowID(b)].at = "Loop" => run'[BillCycleWorkflowID(b)].at = "Loop"
      BY <1>1, <1>2, <2>1
    <3>2. BillInv(b)'
      BY <1>4, <1>6, <2>1, <2>3, <3>1 DEF BillInv
    <3>3. \A v \in WorkflowID :
            run'[v].bill = b => run[v].bill = b /\ run'[v].at = run[v].at
      BY <1>1, <1>2, <2>3
    <3>4. row'[b] = row[b] /\ invoiced'[b] = invoiced[b]
      BY <1>1, <1>6, <2>3
    <3>5. OnceInv(b)'
      BY <2>1, <3>3, <3>4 DEF OnceInv
    <3> QED BY <3>2, <3>5
  <2> QED BY <2>2, <2>3
<1>9. ASSUME NEW v \in WorkflowID PROVE WorkInv(v)'
  <2>1. WorkInv(v)
    BY DEF LedgerInv
  <2>2. CASE v = w
    BY <1>1, <1>2, <1>3, <1>6, <2>2 DEF WorkInv
  <2>3. CASE v # w /\ run[v].at \in Working \cup {"NewBillingPolicy"}
    <3>1. run[v].bill \in BillID
      BY <2>3 DEF TypeInv, RunInv
    <3>2. run[v].bill # c
      BY <1>1, <2>3, OneRun DEF Working
    <3> QED BY <1>2, <1>3, <1>4, <1>6, <2>1, <2>3, <3>1, <3>2 DEF WorkInv
  <2>4. CASE v # w /\ run[v].at \notin Working \cup {"NewBillingPolicy"}
    BY <1>2, <1>3, <2>4 DEF WorkInv, Unclosed, Working
  <2> QED BY <2>2, <2>3, <2>4
<1>10. ASSUME NEW s \in late PROVE LateInv(s)'
  <2>1. LateInv(s) /\ s.bill \in BillID
    BY DEF LedgerInv, TypeInv, TypeOK
  <2> QED BY <1>4, <2>1 DEF LateInv
<1> QED BY <1>1, <1>8, <1>9, <1>10 DEF LedgerInv

\* The started branch. The child may stand under another bill's id, but only when
\* that bill has no open run.
LEMMA LedgerInvStarted ==
  ASSUME TypeInv, LedgerInv, Next, NEW w \in WorkflowID, StartPostProcess(w),
         ~Open(BillPostprocessWorkflowID(run[w].bill))
  PROVE  LedgerInv'
<1>c. PICK c \in BillID : run[w].bill = c
  BY DEF StartPostProcess, TypeInv, RunInv, Working
<1> DEFINE p == BillPostprocessWorkflowID(c)
<1>1. /\ run[w].at = "StartPostProcess" /\ run[w].bill = c
      /\ p \in WorkflowID /\ p # w /\ run[p].at \notin BlockedAt
      /\ invoiced' = [invoiced EXCEPT ![c] = @ + 1]
      /\ row' = row /\ lines' = lines /\ late' = late
  BY <1>c, WorkflowOfBill DEF StartPostProcess, Open, BlockedAt
<1>2. /\ run'[w].at = "Completed" /\ run'[w].bill = c
      /\ run'[p].at = "PostProcess" /\ run'[p].bill = c
      /\ \A v \in WorkflowID : v # w /\ v # p => run'[v] = run[v]
  <2>1. /\ run \in [WorkflowID -> Run]
        /\ run' = [run EXCEPT ![w].at = "Completed",
                              ![p] = [at |-> "PostProcess", bill |-> c,
                                      terms |-> NoTerms, total |-> 0]]
    BY <1>1, <1>c DEF StartPostProcess, TypeInv, TypeOK
  <2>2. /\ run'[w] = [run[w] EXCEPT !.at = "Completed"]
        /\ run'[p] = [at |-> "PostProcess", bill |-> c, terms |-> NoTerms, total |-> 0]
        /\ \A v \in WorkflowID : v # w /\ v # p => run'[v] = run[v]
    BY <1>1, <2>1
  <2>3. run[w] \in Run
    BY <2>1
  <2> QED BY <1>1, <2>2, <2>3 DEF Run
<1>3. \A v \in WorkflowID :
        run'[v].at \in Working \cup {"NewBillingPolicy"} => v # w /\ v # p /\ run'[v] = run[v]
  BY <1>2 DEF Working
<1>4. ASSUME NEW b \in BillID
      PROVE  /\ LinesOf(b)' = LinesOf(b) /\ Counted(b)' = Counted(b)
             /\ Sealed(b) => Sealed(b)'
             /\ Over(b) => Over(b)'
  <2>1. LinesOf(b)' = LinesOf(b) /\ Counted(b)' = Counted(b)
    BY <1>1 DEF LinesOf, Counted
  <2>2. Sealed(b) => Sealed(b)'
    BY SealedKept
  <2>3. \A v \in WorkflowID : Unclosed(v)' => Unclosed(v) /\ run'[v] = run[v]
    BY <1>3 DEF Unclosed, Working
  <2> QED BY <2>1, <2>2, <2>3, OverKept
<1>5. row[c].status = "CLOSED"
  BY <1>1 DEF LedgerInv, WorkInv
<1>6. invoiced[c] = 0 /\ invoiced \in [BillID -> Nat]
  BY <1>1 DEF LedgerInv, OnceInv, TypeInv, TypeOK
<1>7. ASSUME NEW b \in BillID PROVE BillInv(b)'
  <2>1. BillInv(b) /\ BillCycleWorkflowID(b) \in WorkflowID
    BY WorkflowOfBill DEF LedgerInv
  <2>2. run[BillCycleWorkflowID(b)].at = "Loop" => run'[BillCycleWorkflowID(b)].at = "Loop"
    BY <1>1, <1>2, <2>1 DEF BlockedAt
  <2> QED BY <1>1, <1>4, <2>1, <2>2 DEF BillInv
<1>8. ASSUME NEW b \in BillID PROVE OnceInv(b)'
  <2>1. OnceInv(b)
    BY DEF LedgerInv
  <2>2. ASSUME NEW v \in WorkflowID, run'[v].at \in {"GetBillDetail", "StartPostProcess"}
        PROVE  v # w /\ run'[v] = run[v]
    BY <1>3, <2>2 DEF Working
  <2>3. CASE b = c
    <3>1. invoiced'[b] = 1 /\ row'[b].status = "CLOSED"
      BY <1>1, <1>5, <1>6, <2>3
    <3>2. ASSUME NEW v \in WorkflowID, run'[v].bill = c,
                 run'[v].at \in {"GetBillDetail", "StartPostProcess"}
          PROVE  FALSE
      <4>1. v # w /\ run[v].bill = c /\ run[v].at \in Working
        BY <2>2, <3>2 DEF Working
      <4> QED BY <1>1, <4>1, OneRun DEF Working
    <3> QED BY <2>3, <3>1, <3>2 DEF OnceInv
  <2>4. CASE b # c
    <3>1. invoiced'[b] = invoiced[b] /\ row'[b] = row[b]
      BY <1>1, <1>6, <2>4
    <3> QED BY <2>1, <2>2, <3>1 DEF OnceInv
  <2> QED BY <2>3, <2>4
<1>9. ASSUME NEW v \in WorkflowID PROVE WorkInv(v)'
  <2>1. WorkInv(v)
    BY DEF LedgerInv
  <2>2. CASE run'[v].at \in Working \cup {"NewBillingPolicy"}
    <3>1. run'[v] = run[v] /\ run[v].bill \in BillID
      BY <1>3, <2>2 DEF TypeInv, RunInv
    <3> QED BY <1>1, <1>4, <2>1, <3>1 DEF WorkInv, Unclosed
  <2>3. CASE run'[v].at \notin Working \cup {"NewBillingPolicy"}
    BY <2>3 DEF WorkInv, Unclosed, Working
  <2> QED BY <2>2, <2>3
<1>10. ASSUME NEW s \in late PROVE LateInv(s)'
  <2>1. LateInv(s) /\ s.bill \in BillID
    BY DEF LedgerInv, TypeInv, TypeOK
  <2> QED BY <1>4, <2>1 DEF LateInv
<1> QED BY <1>1, <1>7, <1>8, <1>9, <1>10 DEF LedgerInv

\* The attempt that was given up leaves a statement, and no run that could close the bill.
LEMMA LedgerInvGiveUp ==
  ASSUME TypeInv, LedgerInv, Next, NEW w \in WorkflowID, GiveUp(w)
  PROVE  LedgerInv'
<1> DEFINE lost == [op |-> run[w].at, bill |-> run[w].bill,
                    terms |-> run[w].terms, total |-> run[w].total]
<1>1. /\ run[w].at \in Activities /\ Reaches(w, "Failed")
      /\ late' = IF run[w].at = "GetBillDetail" THEN late ELSE late \cup {lost}
      /\ UNCHANGED <<row, lines, invoiced>>
  BY RequestAssumption DEF GiveUp
<1>2. /\ \A b \in BillID : BillInv(b)' /\ OnceInv(b)'
      /\ \A v \in WorkflowID : WorkInv(v)'
      /\ \A s \in late : LateInv(s)'
  BY <1>1, LedgerInvMove DEF Activities
<1>c. PICK c \in BillID : run[w].bill = c
  BY <1>1 DEF TypeInv, RunInv, Activities, Working
<1>3. /\ run'[w].at = "Failed"
      /\ \A v \in WorkflowID : /\ run'[v].bill = run[v].bill /\ run'[v].terms = run[v].terms
                               /\ v # w => run'[v].at = run[v].at
  BY <1>1, AfterReaches
<1>4. CASE run[w].at = "CloseBillFromState"
  <2>1. Sealed(c)' /\ Counted(c)' = Counted(c)
    <3>1. Sealed(c)
      BY <1>4, <1>c DEF LedgerInv, WorkInv
    <3>2. Sealed(c)'
      BY <3>1, SealedKept
    <3>3. Counted(c)' = Counted(c)
      BY <1>1 DEF Counted, LinesOf
    <3> QED BY <3>2, <3>3
  <2>2. ASSUME NEW v \in WorkflowID, run'[v].bill = c, Unclosed(v)' PROVE FALSE
    <3>1. v # w /\ Unclosed(v) /\ run[v].bill = c
      BY <1>3, <2>2 DEF Unclosed
    <3> QED BY <1>4, <1>c, <3>1, OneRun DEF Unclosed, Working
  <2>3. Over(c)'
    BY <2>1, <2>2 DEF Over
  <2>4. run[w].total = Counted(c)
    BY <1>4, <1>c DEF LedgerInv, WorkInv
  <2>5. PICK s : s = lost
    OBVIOUS
  <2>6. s.op = "CloseBillFromState" /\ s.bill = c /\ s.total = Counted(c)
    BY <1>4, <1>c, <2>4, <2>5
  <2>7. LateInv(s)'
    BY <2>1, <2>3, <2>6 DEF LateInv
  <2>8. late' = late \cup {s}
    BY <1>1, <1>4, <2>5
  <2> QED BY <1>2, <2>7, <2>8 DEF LedgerInv
<1>5. CASE run[w].at = "CreateBill"
  <2>1. PICK s : s = lost
    OBVIOUS
  <2>2. s.op = "CreateBill"
    BY <1>5, <2>1
  <2>3. LateInv(s)'
    BY <2>2 DEF LateInv
  <2>4. late' = late \cup {s}
    BY <1>1, <1>5, <2>1
  <2> QED BY <1>2, <2>3, <2>4 DEF LedgerInv
<1>6. CASE run[w].at = "GetBillDetail"
  BY <1>1, <1>2, <1>6 DEF LedgerInv
<1> QED BY <1>1, <1>4, <1>5, <1>6 DEF Activities

\* A statement that commits late finds the row it names, or none and inserts it; an
\* update finds the bill over, and bills what a close in time would have billed.
LEMMA LedgerInvLate ==
  ASSUME TypeInv, LedgerInv, Next, LateCommit
  PROVE  LedgerInv'
<1>1. PICK s \in late :
        /\ row' = IF s.op = "CreateBill" THEN InsertBill(s.bill, s.terms)
                                         ELSE UpdateBillClosed(s.bill, s.total)
        /\ late' = late \ {s}
  BY DEF LateCommit
<1>c. PICK c \in BillID : s.bill = c
  BY DEF TypeInv, TypeOK
<1>2. UNCHANGED <<lines, run, invoiced>>
  BY DEF LateCommit
<1>3. LateInv(s)
  BY DEF LedgerInv
<1>4. ASSUME NEW b \in BillID
      PROVE  /\ LinesOf(b)' = LinesOf(b) /\ Counted(b)' = Counted(b)
             /\ Sealed(b) => Sealed(b)'
             /\ Over(b) => Over(b)'
  <2>1. LinesOf(b)' = LinesOf(b) /\ Counted(b)' = Counted(b)
    BY <1>2 DEF LinesOf, Counted
  <2>2. Sealed(b) => Sealed(b)'
    BY SealedKept
  <2>3. Over(b) => Over(b)'
    BY <1>2, <2>2 DEF Over, Unclosed
  <2> QED BY <2>1, <2>2, <2>3
<1>5. \A v \in WorkflowID : Unclosed(v)' = Unclosed(v)
  BY <1>2 DEF Unclosed
<1>6. ASSUME NEW b \in BillID PROVE BillInv(b) /\ OnceInv(b)
  BY DEF LedgerInv
<1>7. ASSUME NEW r \in late PROVE LateInv(r)'
  <2>1. LateInv(r) /\ r.bill \in BillID
    BY DEF LedgerInv, TypeInv, TypeOK
  <2> QED BY <1>4, <2>1 DEF LateInv
<1>8. CASE s.op = "CreateBill"
  <2>1. /\ \A b \in BillID : row[b].status # "absent" => row'[b] = row[b]
        /\ \A b \in BillID : row'[b] = row[b] \/ row'[b].status = "OPEN"
    <3>1. row' = InsertBill(c, s.terms)
      BY <1>1, <1>c, <1>8
    <3> QED BY <3>1, AfterInsert
  <2>2. ASSUME NEW b \in BillID PROVE BillInv(b)' /\ OnceInv(b)'
    <3>1. BillInv(b)'
      BY <1>2, <1>4, <1>6, <2>1 DEF BillInv
    <3>2. OnceInv(b)'
      BY <1>2, <1>6, <2>1 DEF OnceInv
    <3> QED BY <3>1, <3>2
  <2>3. ASSUME NEW v \in WorkflowID PROVE WorkInv(v)'
    <3>1. WorkInv(v)
      BY DEF LedgerInv
    <3>2. CASE run[v].at \in Working \cup {"NewBillingPolicy"}
      <4>1. run[v].bill \in BillID
        BY <3>2 DEF TypeInv, RunInv
      <4> QED BY <1>2, <1>4, <1>5, <2>1, <3>1, <4>1 DEF WorkInv
    <3>3. CASE run[v].at \notin Working \cup {"NewBillingPolicy"}
      BY <1>2, <1>5, <3>3 DEF WorkInv, Unclosed, Working
    <3> QED BY <3>2, <3>3
  <2> QED BY <1>1, <1>7, <2>2, <2>3 DEF LedgerInv
<1>9. CASE s.op = "CloseBillFromState"
  <2>1. Over(c) /\ s.total = Counted(c) /\ row[c].status # "absent"
    BY <1>3, <1>9, <1>c DEF LateInv, Over, Sealed
  <2>2. /\ row'[c].status = "CLOSED" /\ row'[c].total = Counted(c)
        /\ \A b \in BillID : b # c => row'[b] = row[b]
    <3>1. row' = UpdateBillClosed(c, s.total)
      BY <1>1, <1>c, <1>9
    <3> QED BY <2>1, <3>1, AfterClose
  <2>3. ASSUME NEW b \in BillID PROVE BillInv(b)' /\ OnceInv(b)'
    <3>1. CASE b = c
      <4>1. BillInv(b)'
        BY <1>2, <1>4, <1>6, <2>1, <2>2, <3>1 DEF BillInv
      <4>2. OnceInv(b)'
        BY <1>2, <1>6, <2>2, <3>1 DEF OnceInv
      <4> QED BY <4>1, <4>2
    <3>2. CASE b # c
      <4>1. BillInv(b)'
        BY <1>2, <1>4, <1>6, <2>2, <3>2 DEF BillInv
      <4>2. OnceInv(b)'
        BY <1>2, <1>6, <2>2, <3>2 DEF OnceInv
      <4> QED BY <4>1, <4>2
    <3> QED BY <3>1, <3>2
  <2>4. ASSUME NEW v \in WorkflowID PROVE WorkInv(v)'
    <3>1. WorkInv(v)
      BY DEF LedgerInv
    <3>2. CASE run[v].at \in Working \cup {"NewBillingPolicy"}
      <4>1. run[v].bill \in BillID
        BY <3>2 DEF TypeInv, RunInv
      <4>2. CASE run[v].bill = c
        <5>1. ~Unclosed(v)
          BY <2>1, <4>2 DEF Over
        <5> QED BY <1>2, <1>5, <2>2, <4>2, <5>1 DEF WorkInv, Unclosed
      <4>3. CASE run[v].bill # c
        BY <1>2, <1>4, <1>5, <2>2, <3>1, <4>1, <4>3 DEF WorkInv
      <4> QED BY <4>2, <4>3
    <3>3. CASE run[v].at \notin Working \cup {"NewBillingPolicy"}
      BY <1>2, <1>5, <3>3 DEF WorkInv, Unclosed, Working
    <3> QED BY <3>2, <3>3
  <2> QED BY <1>1, <1>7, <2>3, <2>4 DEF LedgerInv
<1> QED BY <1>3, <1>8, <1>9 DEF LateInv

LEMMA LedgerInvStep ==
  ASSUME Prompt, TypeInv, LedgerInv, [Next]_vars
  PROVE  LedgerInv'
<1>1. ASSUME Next, NEW w \in WorkflowID, RunStep(w) PROVE LedgerInv'
  <2>1. CASE NewBillingPolicy(w)
    <3>1. \E p : /\ Reaches(w, p)
                 /\ \/ p = "CreateBill" /\ run[w].at = "NewBillingPolicy"
                         /\ run[w].terms # CronTerms
                    \/ p = "Failed" /\ run[w].at # "Loop"
      BY <2>1 DEF NewBillingPolicy
    <3>2. UNCHANGED <<row, lines, late, invoiced>>
      BY <2>1 DEF NewBillingPolicy
    <3> QED BY <1>1, <3>1, <3>2, LedgerInvMove DEF LedgerInv
  <2>2. CASE CreateBill(w)
    BY <1>1, <2>2, LedgerInvCreateBill
  <2>3. CASE LeaveLoop(w)
    <3>1. Sealed(run[w].bill)
      <4>1. run[w].at = "Loop" /\ WorkInv(w)
        BY <2>3 DEF LeaveLoop, LedgerInv
      <4>2. row[run[w].bill].status = "OPEN"
        BY <4>1 DEF WorkInv
      <4> QED BY <2>3, <4>2 DEF LeaveLoop, Sealed
    <3>2. Reaches(w, "CloseBillFromState") /\ run[w].at = "Loop"
          /\ UNCHANGED <<row, lines, late, invoiced>>
      BY <2>3 DEF LeaveLoop
    <3> QED BY <1>1, <3>1, <3>2, LedgerInvMove DEF LedgerInv
  <2>4. CASE CloseBillFromState(w)
    BY <1>1, <2>4, LedgerInvClose
  <2>5. CASE GetBillDetail(w)
    <3>1. \E p \in {"StartPostProcess", "Completed"} : Reaches(w, p)
      BY <2>5 DEF GetBillDetail
    <3>2. run[w].at = "GetBillDetail" /\ UNCHANGED <<row, lines, late, invoiced>>
      BY <2>5 DEF GetBillDetail
    <3> QED BY <1>1, <3>1, <3>2, LedgerInvMove DEF LedgerInv
  <2>6. CASE StartPostProcess(w)
    <3>1. CASE ~Open(BillPostprocessWorkflowID(run[w].bill))
      BY <1>1, <2>6, <3>1, LedgerInvStarted
    <3>2. CASE Open(BillPostprocessWorkflowID(run[w].bill))
      <4>1. Reaches(w, "Completed") /\ run[w].at # "Loop"
            /\ UNCHANGED <<row, lines, late, invoiced>>
        BY <2>6, <3>2 DEF StartPostProcess
      <4> QED BY <1>1, <4>1, LedgerInvMove DEF LedgerInv
    <3> QED BY <3>1, <3>2
  <2>7. CASE ClosedBillPostProcess(w)
    <3>1. \E p \in {"Completed", "Failed"} : Reaches(w, p)
      BY <2>7 DEF ClosedBillPostProcess
    <3>2. run[w].at # "Loop" /\ UNCHANGED <<row, lines, late, invoiced>>
      BY <2>7 DEF ClosedBillPostProcess
    <3> QED BY <1>1, <3>1, <3>2, LedgerInvMove DEF LedgerInv
  <2>8. CASE GiveUp(w)
    BY <1>1, <2>8, LedgerInvGiveUp
  <2> QED BY <1>1, <2>1, <2>2, <2>3, <2>4, <2>5, <2>6, <2>7, <2>8 DEF RunStep
<1>2. CASE UNCHANGED vars
  <2>1. UNCHANGED <<row, lines, late, run, creator, invoiced>>
    BY <1>2 DEF vars
  <2>2. \A b : /\ LinesOf(b)' = LinesOf(b) /\ Counted(b)' = Counted(b)
               /\ Sealed(b)' = Sealed(b) /\ Over(b)' = Over(b)
    BY <2>1 DEF LinesOf, Counted, Sealed, Over, Unclosed
  <2>3. ASSUME NEW b \in BillID PROVE BillInv(b)' /\ OnceInv(b)'
    BY <2>1, <2>2 DEF LedgerInv, BillInv, OnceInv
  <2>4. ASSUME NEW w \in WorkflowID PROVE WorkInv(w)'
    BY <2>1, <2>2 DEF LedgerInv, WorkInv, Unclosed
  <2>5. ASSUME NEW s \in late PROVE LateInv(s)'
    BY <2>2 DEF LedgerInv, LateInv
  <2> QED BY <2>1, <2>3, <2>4, <2>5 DEF LedgerInv
<1>3. CASE Next
  BY <1>1, <1>3, LedgerInvRequests, LedgerInvAdd, LedgerInvLate DEF Next
<1> QED BY <1>2, <1>3

LEMMA LedgerInvAlways == Prompt => (Spec => [](TypeInv /\ LedgerInv))
<1> SUFFICES ASSUME Prompt PROVE Spec => [](TypeInv /\ LedgerInv)
  OBVIOUS
<1>1. Init => TypeInv /\ LedgerInv
  BY TypeInvInit, LedgerInvInit
<1>2. TypeInv /\ LedgerInv /\ [Next]_vars => (TypeInv /\ LedgerInv)'
  BY TypeInvStep, LedgerInvStep
<1> QED BY <1>1, <1>2, PTL DEF Spec

\* When no creation outlasts the run of its bill, no bill gets a second post-process run
\* (ExecuteChildWorkflow in BillLifecycleWorkflow), whatever else gives up or comes late.
THEOREM OncePostProcessed == Prompt => (Spec => []PostProcessedOnce)
<1> SUFFICES ASSUME Prompt PROVE Spec => []PostProcessedOnce
  OBVIOUS
<1>1. LedgerInv => PostProcessedOnce
  BY DEF LedgerInv, OnceInv, PostProcessedOnce
<1> QED BY <1>1, LedgerInvAlways, PTL

-----------------------------------------------------------------------------
(***************************************************************************)
(* The refinement, bill by bill.                                           *)
(***************************************************************************)
LEMMA LedgerKept ==
  ASSUME NEW b, row'[b] = row[b], LinesOf(b)' = LinesOf(b)
  PROVE  UNCHANGED Ledger(b)!vars
BY DEF Ledger!vars

\* A row that is inserted opens the bill, or was there and stays.
LEMMA LedgerOnInsert ==
  ASSUME TypeInv, LedgerInv, NEW b \in BillID, NEW c \in BillID, NEW t,
         row' = InsertBill(c, t), LinesOf(b)' = LinesOf(b)
  PROVE  Ledger(b)!Next \/ UNCHANGED Ledger(b)!vars
<1>1. CASE row'[b] = row[b]
  BY <1>1, LedgerKept
<1>2. CASE row'[b] # row[b]
  <2>1. row[b].status = "absent" /\ row'[b].status = "OPEN" /\ row'[b].total = 0
    BY <1>2, AfterInsert
  <2>2. row[b].total = 0
    BY <2>1 DEF LedgerInv, BillInv
  <2> QED BY <2>1, <2>2 DEF Ledger!Next, Ledger!Open
<1> QED BY <1>1, <1>2

\* An update for the counted total closes an open bill, and leaves a closed one as it is.
LEMMA LedgerOnClose ==
  ASSUME TypeInv, LedgerInv, NEW b \in BillID, NEW c \in BillID,
         row' = UpdateBillClosed(c, Counted(c)), LinesOf(b)' = LinesOf(b)
  PROVE  Ledger(b)!Next \/ UNCHANGED Ledger(b)!vars
<1>1. CASE row'[b] = row[b]
  BY <1>1, LedgerKept
<1>2. CASE row'[b] # row[b]
  <2>1. b = c /\ row[b].status # "absent"
        /\ row'[b].status = "CLOSED" /\ row'[b].total = Counted(b)
    BY <1>2, AfterClose
  <2>2. row[b].status \in {"OPEN", "CLOSED"}
    BY <2>1 DEF TypeInv, TypeOK, BillRow
  <2>3. CASE row[b].status = "OPEN"
    BY <2>1, <2>3 DEF Ledger!Next, Ledger!Close, Counted
  <2>4. CASE row[b].status = "CLOSED"
    <3>1. row[b].total = Counted(b)
      BY <2>4 DEF LedgerInv, BillInv
    <3> QED BY <2>1, <2>4, <3>1 DEF Ledger!vars
  <2> QED BY <2>2, <2>3, <2>4
<1> QED BY <1>1, <1>2

LEMMA LedgerStep ==
  ASSUME TypeInv, LedgerInv, Next, NEW b \in BillID
  PROVE  Ledger(b)!Next \/ UNCHANGED Ledger(b)!vars
<1>1. ASSUME row' = row, lines' = lines PROVE Ledger(b)!Next \/ UNCHANGED Ledger(b)!vars
  <2>1. LinesOf(b)' = LinesOf(b)
    BY <1>1 DEF LinesOf
  <2> QED BY <1>1, <2>1, LedgerKept
<1>2. ASSUME NEW k \in Key, AddLineItem(k)
      PROVE  Ledger(b)!Next \/ UNCHANGED Ledger(b)!vars
  <2>1. row' = row
    BY <1>2 DEF AddLineItem
  <2>2. CASE b # KeyBill[k]
    <3>1. LinesOf(b)' = LinesOf(b)
      BY <1>2, <2>2, LinesAfterAdd
    <3> QED BY <2>1, <3>1, LedgerKept
  <2>3. CASE b = KeyBill[k]
    <3>1. PICK i \in Key \X (1..Resends + 1) :
            i \notin LinesOf(b) /\ LinesOf(b)' = LinesOf(b) \cup {i}
      BY <1>2, <2>3, LinesAfterAdd
    <3>2. row[b].status = "OPEN"
      <4>1. BillCycleWorkflowID(b) \in WorkflowID /\ run[BillCycleWorkflowID(b)].at = "Loop"
        BY <1>2, <2>3, WorkflowOfBill DEF AddLineItem
      <4>2. run[BillCycleWorkflowID(b)].bill = b
        <5>1. /\ run[BillCycleWorkflowID(b)].bill \in BillID
              /\ BillCycleWorkflowID(b) =
                   BillCycleWorkflowID(run[BillCycleWorkflowID(b)].bill)
          BY <4>1 DEF TypeInv, RunInv, Working
        <5> QED BY <5>1, BillOfWorkflow
      <4> QED BY <4>1, <4>2 DEF LedgerInv, WorkInv
    <3> QED BY <2>1, <3>1, <3>2 DEF Ledger!Next, Ledger!Charge
  <2> QED BY <2>2, <2>3
<1>3. ASSUME NEW w \in WorkflowID, CreateBill(w)
      PROVE  Ledger(b)!Next \/ UNCHANGED Ledger(b)!vars
  <2>1. run[w].bill \in BillID /\ row' = InsertBill(run[w].bill, run[w].terms)
        /\ LinesOf(b)' = LinesOf(b)
    BY <1>3 DEF CreateBill, TypeInv, RunInv, Working, LinesOf
  <2> QED BY <2>1, LedgerOnInsert
<1>4. ASSUME NEW w \in WorkflowID, CloseBillFromState(w)
      PROVE  Ledger(b)!Next \/ UNCHANGED Ledger(b)!vars
  <2>1. run[w].bill \in BillID /\ row' = UpdateBillClosed(run[w].bill, Counted(run[w].bill))
        /\ LinesOf(b)' = LinesOf(b)
    BY <1>4 DEF CloseBillFromState, TypeInv, RunInv, LedgerInv, WorkInv, Working, LinesOf
  <2> QED BY <2>1, LedgerOnClose
<1>5. ASSUME LateCommit
      PROVE  Ledger(b)!Next \/ UNCHANGED Ledger(b)!vars
  <2>1. PICK s \in late :
          row' = IF s.op = "CreateBill" THEN InsertBill(s.bill, s.terms)
                                        ELSE UpdateBillClosed(s.bill, s.total)
    BY <1>5 DEF LateCommit
  <2>2. s.bill \in BillID /\ LateInv(s) /\ LinesOf(b)' = LinesOf(b)
    BY <1>5 DEF TypeInv, TypeOK, LedgerInv, LateCommit, LinesOf
  <2>3. CASE s.op = "CreateBill"
    BY <2>1, <2>2, <2>3, LedgerOnInsert
  <2>4. CASE s.op = "CloseBillFromState"
    BY <2>1, <2>2, <2>4, LedgerOnClose DEF LateInv
  <2> QED BY <2>2, <2>3, <2>4 DEF LateInv
<1>6. ASSUME NEW w \in WorkflowID, RunStep(w), ~CreateBill(w), ~CloseBillFromState(w)
      PROVE  row' = row /\ lines' = lines
  BY <1>6 DEF RunStep, NewBillingPolicy, LeaveLoop, GetBillDetail, StartPostProcess,
              ClosedBillPostProcess, GiveUp
<1>7. ASSUME \/ \E r \in Creation : RequestStep(r)
             \/ \E c \in CustomerID : StartMonthlyBilling(c)
             \/ CronFires
      PROVE  row' = row /\ lines' = lines
  BY <1>7 DEF RequestStep, CreateBillCheck, CreateBillStart, CreateBillFails,
              StartMonthlyBilling, CronFires
<1> QED BY <1>1, <1>2, <1>3, <1>4, <1>5, <1>6, <1>7 DEF Next

\* When no creation outlasts the run of its bill, every bill's row and line items implement
\* BillLedger, however many requests, runs, adds sent again and late statements name it:
\* InsertBill keeps what it finds, and UpdateBillClosed never changes a closed bill.
THEOREM BillsAreLedgers == Prompt => (Spec => EachBillIsALedger)
<1> SUFFICES ASSUME Prompt PROVE Spec => EachBillIsALedger
  OBVIOUS
<1> DEFINE LedgersInit == \A b \in BillID : Ledger(b)!Init
           LedgersNext == \A b \in BillID : Ledger(b)!Next \/ UNCHANGED Ledger(b)!vars
<1>1. Init => LedgersInit
  <2> SUFFICES ASSUME Init, NEW b \in BillID PROVE Ledger(b)!Init
    OBVIOUS
  <2>1. LinesOf(b) = {}
    BY RequestAssumption DEF Init, LinesOf
  <2> QED BY <2>1 DEF Init, Ledger!Init
<1>2. TypeInv /\ LedgerInv /\ [Next]_vars => [LedgersNext]_vars
  BY LedgerStep
<1>3. Spec => LedgersInit /\ [][LedgersNext]_vars
  <2> HIDE DEF LedgersInit, LedgersNext
  <2> QED BY <1>1, <1>2, LedgerInvAlways, PTL DEF Spec
<1> QED BY <1>3 DEF EachBillIsALedger

-----------------------------------------------------------------------------
(***************************************************************************)
(* What is closed is post-processed, also when creations are late and      *)
(* bills are closed again: the child's id, where it is no bill's own, is   *)
(* taken only by an earlier child of the same bill.                        *)
(***************************************************************************)
NoSharedIds == \A b, c \in BillID : BillCycleWorkflowID(b) # BillPostprocessWorkflowID(c)

PostInv ==
  /\ \A w \in WorkflowID : run[w].at = "PostProcess" =>
       /\ run[w].bill \in BillID /\ w = BillPostprocessWorkflowID(run[w].bill)
       /\ invoiced[run[w].bill] > 0
  /\ \A b \in BillID : row[b].status = "CLOSED" /\ row[b].total > 0 =>
       \/ invoiced[b] > 0
       \/ run[BillCycleWorkflowID(b)].at \in {"GetBillDetail", "StartPostProcess"}
  /\ \A s \in late : s.op = "CreateBill"

LEMMA BillOfPostprocess ==
  ASSUME NEW b \in BillID, NEW c \in BillID,
         BillPostprocessWorkflowID(b) = BillPostprocessWorkflowID(c)
  PROVE  b = c
<1>1. b \in Seq(STRING) /\ c \in Seq(STRING)
  BY RequestAssumption
<1>2. /\ Len(BillPostprocessWorkflowID(b)) = 2 + Len(b)
      /\ Len(BillPostprocessWorkflowID(c)) = 2 + Len(c)
  BY <1>1 DEF BillPostprocessWorkflowID
<1>3. /\ \A i \in 1..Len(b) : BillPostprocessWorkflowID(b)[i + 1] = b[i]
      /\ \A i \in 1..Len(c) : BillPostprocessWorkflowID(c)[i + 1] = c[i]
  BY <1>1 DEF BillPostprocessWorkflowID
<1>4. Len(b) = Len(c)
  BY <1>1, <1>2
<1>5. \A i \in 1..Len(b) : b[i] = c[i]
  BY <1>3, <1>4
<1> QED BY <1>1, <1>4, <1>5

\* Every step but the start of a child: no bill is closed, or left without its child, by
\* a run that does not go on to see to it.
LEMMA PostInvKept ==
  ASSUME PostInv, invoiced' = invoiced, \A s \in late' \ late : s.op = "CreateBill",
         \A v \in WorkflowID : run'[v].at = "PostProcess" =>
           run[v].at = "PostProcess" /\ run'[v].bill = run[v].bill,
         \A b \in BillID :
           \/ row'[b] = row[b]
           \/ row'[b].total = 0
           \/ run'[BillCycleWorkflowID(b)].at = "GetBillDetail",
         \A b \in BillID :
           run[BillCycleWorkflowID(b)].at \in {"GetBillDetail", "StartPostProcess"} =>
             \/ run'[BillCycleWorkflowID(b)].at \in {"GetBillDetail", "StartPostProcess"}
             \/ ~(row'[b].total > 0) \/ invoiced[b] > 0
  PROVE  PostInv'
<1>1. ASSUME NEW w \in WorkflowID, run'[w].at = "PostProcess"
      PROVE  /\ run'[w].bill \in BillID /\ w = BillPostprocessWorkflowID(run'[w].bill)
             /\ invoiced'[run'[w].bill] > 0
  BY <1>1 DEF PostInv
<1>2. ASSUME NEW b \in BillID, row'[b].status = "CLOSED", row'[b].total > 0
      PROVE  \/ invoiced'[b] > 0
             \/ run'[BillCycleWorkflowID(b)].at \in {"GetBillDetail", "StartPostProcess"}
  <2>1. row'[b].total # 0
    BY <1>2
  <2> QED BY <1>2, <2>1 DEF PostInv
<1>3. ASSUME NEW s \in late' PROVE s.op = "CreateBill"
  BY DEF PostInv
<1> QED BY <1>1, <1>2, <1>3 DEF PostInv

LEMMA PostInvRequests ==
  ASSUME TypeInv, PostInv,
         \/ \E r \in Creation : RequestStep(r)
         \/ \E c \in CustomerID : StartMonthlyBilling(c)
         \/ CronFires \/ \E k \in Key : AddLineItem(k)
  PROVE  PostInv'
<1>1. UNCHANGED <<row, late, invoiced>>
  BY DEF RequestStep, CreateBillCheck, CreateBillStart, CreateBillFails,
         StartMonthlyBilling, CronFires, AddLineItem
<1>2. \A v \in WorkflowID :
        \/ run'[v].at = run[v].at /\ run'[v].bill = run[v].bill
        \/ run[v].at \notin BlockedAt /\ run'[v].at = "NewBillingPolicy"
  <2>1. ASSUME NEW b \in BillID, NEW t, run' = ExecuteWorkflow(BillCycleWorkflowID(b), b, t),
               NEW v \in WorkflowID
        PROVE  \/ run'[v].at = run[v].at /\ run'[v].bill = run[v].bill
               \/ run[v].at \notin BlockedAt /\ run'[v].at = "NewBillingPolicy"
    <3>1. \/ run'[v] = run[v]
          \/ /\ run[v].at \notin BlockedAt
             /\ run'[v] = [at |-> "NewBillingPolicy", bill |-> b, terms |-> t, total |-> 0]
      BY <2>1, AfterExecute
    <3> QED BY <3>1
  <2>2. ASSUME NEW k \in Key, AddLineItem(k), NEW v \in WorkflowID
        PROVE  run'[v].at = run[v].at /\ run'[v].bill = run[v].bill
    <3>1. /\ run \in [WorkflowID -> Run]
          /\ run' = [run EXCEPT ![BillCycleWorkflowID(KeyBill[k])].total = @ + 1]
      BY <2>2 DEF AddLineItem, TypeInv, TypeOK
    <3>2. run'[v] = run[v] \/ run'[v] = [run[v] EXCEPT !.total = @ + 1]
      BY <3>1
    <3> QED BY <3>1, <3>2 DEF Run
  <2>3. \/ run' = run
        \/ \E b \in BillID : \E t : run' = ExecuteWorkflow(BillCycleWorkflowID(b), b, t)
        \/ \E k \in Key : AddLineItem(k)
    BY RequestAssumption DEF RequestStep, CreateBillCheck, CreateBillStart, CreateBillFails,
         StartMonthlyBilling, CronFires
  <2> QED BY <2>1, <2>2, <2>3
<1> QED BY <1>1, <1>2, WorkflowOfBill, PostInvKept DEF BlockedAt, Activities

LEMMA PostInvRuns ==
  ASSUME NoSharedIds, GivesUp \subseteq {"CreateBill"}, TypeInv, PostInv,
         NEW w \in WorkflowID, RunStep(w)
  PROVE  PostInv'
<1>1. ASSUME NEW p, Reaches(w, p)
      PROVE  /\ run'[w].at = p
             /\ \A v \in WorkflowID :
                  run'[v].bill = run[v].bill /\ (v # w => run'[v].at = run[v].at)
  BY <1>1, AfterReaches
<1>2. CASE /\ NewBillingPolicy(w) \/ LeaveLoop(w) \/ ClosedBillPostProcess(w) \/ GiveUp(w)
                \/ CreateBill(w)
  <2>1. \E p \in {"CreateBill", "CloseBillFromState", "Loop", "Completed", "Failed"} :
          Reaches(w, p)
    BY <1>2 DEF NewBillingPolicy, LeaveLoop, ClosedBillPostProcess, GiveUp, CreateBill
  <2>2. run[w].at \notin {"GetBillDetail", "StartPostProcess"} /\ invoiced' = invoiced
    BY <1>2 DEF NewBillingPolicy, LeaveLoop, ClosedBillPostProcess, GiveUp, CreateBill
  <2>3. \A b \in BillID : row'[b] = row[b] \/ row'[b].total = 0
    <3>1. CASE CreateBill(w)
      <4>1. run[w].bill \in BillID /\ row' = InsertBill(run[w].bill, run[w].terms)
        BY <3>1 DEF CreateBill, TypeInv, RunInv, Working
      <4> QED BY <4>1, AfterInsert
    <3>2. CASE row' = row
      BY <3>2
    <3> QED BY <1>2, <3>1, <3>2 DEF NewBillingPolicy, LeaveLoop, ClosedBillPostProcess, GiveUp
  <2>4. \A s \in late' \ late : s.op = "CreateBill"
    <3>1. CASE GiveUp(w)
      <4>1. /\ run[w].at = "CreateBill"
            /\ late' = late \cup {[op |-> run[w].at, bill |-> run[w].bill,
                                   terms |-> run[w].terms, total |-> run[w].total]}
        BY <3>1 DEF GiveUp
      <4> QED BY <4>1
    <3>2. CASE late' = late
      BY <3>2
    <3> QED BY <1>2, <3>1, <3>2
            DEF NewBillingPolicy, LeaveLoop, ClosedBillPostProcess, CreateBill
  <2>5. \A v \in WorkflowID :
          /\ run'[v].at = "PostProcess" => run[v].at = "PostProcess"
          /\ run'[v].bill = run[v].bill
          /\ run[v].at \in {"GetBillDetail", "StartPostProcess"} => run'[v].at = run[v].at
    BY <1>1, <2>1, <2>2
  <2> QED BY <2>2, <2>3, <2>4, <2>5, WorkflowOfBill, PostInvKept
<1>c. CASE CloseBillFromState(w) \/ GetBillDetail(w) \/ StartPostProcess(w)
  <2>c. PICK c \in BillID : run[w].bill = c /\ w = BillCycleWorkflowID(c)
    BY <1>c DEF CloseBillFromState, GetBillDetail, StartPostProcess, TypeInv, RunInv, Working
  <2>o. ASSUME NEW b \in BillID, b # c
        PROVE  BillCycleWorkflowID(b) \in WorkflowID /\ BillCycleWorkflowID(b) # w
    BY <2>c, <2>o, WorkflowOfBill, BillOfWorkflow
  <2>1. CASE CloseBillFromState(w)
    <3>1. /\ run[w].at = "CloseBillFromState" /\ Reaches(w, "GetBillDetail")
          /\ row' = UpdateBillClosed(c, run[w].total) /\ late' = late /\ invoiced' = invoiced
      BY <2>1, <2>c DEF CloseBillFromState
    <3>2. \A b \in BillID : b # c => row'[b] = row[b]
      BY <3>1, AfterClose
    <3>3. run'[w].at = "GetBillDetail"
          /\ \A v \in WorkflowID : run'[v].bill = run[v].bill /\ (v # w => run'[v].at = run[v].at)
      BY <1>1, <3>1
    <3> QED BY <2>c, <2>o, <3>1, <3>2, <3>3, PostInvKept
  <2>2. CASE GetBillDetail(w)
    <3>1. /\ Reaches(w, IF row[c].total > 0 THEN "StartPostProcess" ELSE "Completed")
          /\ row' = row /\ late' = late /\ invoiced' = invoiced
      BY <2>2, <2>c DEF GetBillDetail
    <3>2. /\ run'[w].at = IF row[c].total > 0 THEN "StartPostProcess" ELSE "Completed"
          /\ \A v \in WorkflowID : run'[v].bill = run[v].bill /\ (v # w => run'[v].at = run[v].at)
      BY <1>1, <3>1
    <3> QED BY <2>c, <2>o, <3>1, <3>2, PostInvKept
  <2>3. CASE StartPostProcess(w) /\ Open(BillPostprocessWorkflowID(c))
    <3> DEFINE p == BillPostprocessWorkflowID(c)
    <3>1. /\ Reaches(w, "Completed") /\ row' = row /\ late' = late /\ invoiced' = invoiced
      BY <2>3, <2>c DEF StartPostProcess
    <3>2. invoiced[c] > 0
      <4>1. p \in WorkflowID /\ run[p].at \in BlockedAt
        BY <2>3, WorkflowOfBill DEF Open
      <4>2. run[p].at = "PostProcess"
        BY <4>1 DEF TypeInv, RunInv, NoSharedIds, Working, BlockedAt, Activities
      <4>3. /\ run[p].bill \in BillID /\ p = BillPostprocessWorkflowID(run[p].bill)
            /\ invoiced[run[p].bill] > 0
        BY <4>1, <4>2 DEF PostInv
      <4> QED BY <4>3, BillOfPostprocess
    <3>3. /\ run'[w].at = "Completed"
          /\ \A v \in WorkflowID : run'[v].bill = run[v].bill /\ (v # w => run'[v].at = run[v].at)
      BY <1>1, <3>1
    <3> QED BY <2>c, <2>o, <3>1, <3>2, <3>3, PostInvKept
  <2>4. CASE StartPostProcess(w) /\ ~Open(BillPostprocessWorkflowID(c))
    <3> DEFINE p == BillPostprocessWorkflowID(c)
    <3>1. /\ run \in [WorkflowID -> Run] /\ invoiced \in [BillID -> Nat]
          /\ run' = [run EXCEPT ![w].at = "Completed",
                                ![p] = [at |-> "PostProcess", bill |-> c,
                                        terms |-> NoTerms, total |-> 0]]
          /\ invoiced' = [invoiced EXCEPT ![c] = @ + 1]
          /\ row' = row /\ late' = late /\ p \in WorkflowID /\ p # w
      BY <2>4, <2>c, WorkflowOfBill DEF StartPostProcess, TypeInv, TypeOK, NoSharedIds
    <3>2. /\ run'[w].at = "Completed"
          /\ run'[p].at = "PostProcess" /\ run'[p].bill = c
          /\ \A v \in WorkflowID : v # w /\ v # p => run'[v] = run[v]
      <4>1. /\ run'[w] = [run[w] EXCEPT !.at = "Completed"]
            /\ run'[p] = [at |-> "PostProcess", bill |-> c, terms |-> NoTerms, total |-> 0]
            /\ \A v \in WorkflowID : v # w /\ v # p => run'[v] = run[v]
        BY <3>1
      <4>2. run[w] \in Run
        BY <3>1
      <4> QED BY <4>1, <4>2 DEF Run
    <3>3. invoiced'[c] > 0 /\ \A b \in BillID : invoiced[b] > 0 => invoiced'[b] > 0
      <4>1. invoiced[c] \in Nat /\ invoiced'[c] = invoiced[c] + 1
        BY <3>1
      <4>2. \A b \in BillID : b # c => invoiced'[b] = invoiced[b]
        BY <3>1
      <4> QED BY <4>1, <4>2
    <3>4. ASSUME NEW v \in WorkflowID, run'[v].at = "PostProcess"
          PROVE  /\ run'[v].bill \in BillID /\ v = BillPostprocessWorkflowID(run'[v].bill)
                 /\ invoiced'[run'[v].bill] > 0
      BY <3>2, <3>3, <3>4 DEF PostInv
    <3>5. ASSUME NEW b \in BillID, row'[b].status = "CLOSED", row'[b].total > 0
          PROVE  \/ invoiced'[b] > 0
                 \/ run'[BillCycleWorkflowID(b)].at \in {"GetBillDetail", "StartPostProcess"}
      <4>1. CASE b = c
        BY <3>3, <4>1
      <4>2. CASE b # c
        <5>1. BillCycleWorkflowID(b) # p /\ BillCycleWorkflowID(b) # w
              /\ BillCycleWorkflowID(b) \in WorkflowID
          BY <2>o, <4>2 DEF NoSharedIds
        <5>2. run'[BillCycleWorkflowID(b)] = run[BillCycleWorkflowID(b)]
          BY <3>2, <5>1
        <5> QED BY <3>1, <3>3, <3>5, <5>2 DEF PostInv
      <4> QED BY <4>1, <4>2
    <3> QED BY <3>1, <3>4, <3>5 DEF PostInv
  <2> QED BY <1>c, <2>1, <2>2, <2>3, <2>4
<1> QED BY <1>2, <1>c DEF RunStep

LEMMA PostInvLate ==
  ASSUME TypeInv, PostInv, LateCommit
  PROVE  PostInv'
<1>1. PICK s \in late :
        /\ row' = IF s.op = "CreateBill" THEN InsertBill(s.bill, s.terms)
                                         ELSE UpdateBillClosed(s.bill, s.total)
        /\ late' = late \ {s}
  BY DEF LateCommit
<1>2. s.bill \in BillID /\ row' = InsertBill(s.bill, s.terms)
  BY <1>1 DEF PostInv, TypeInv, TypeOK
<1>3. \A b \in BillID : row'[b] = row[b] \/ row'[b].total = 0
  BY <1>2, AfterInsert
<1>4. run' = run /\ invoiced' = invoiced
  BY DEF LateCommit
<1> QED BY <1>1, <1>3, <1>4, PostInvKept

\* However many runs about a bill there are, in any order, a bill closed with something to
\* pay is post-processed when its run is over, unless ids are shared or closing it or
\* reading it gives up (the total > 0 test and ExecuteChildWorkflow in workflow.go).
THEOREM PostProcessFollows ==
  NoSharedIds /\ GivesUp \subseteq {"CreateBill"} => (Spec => []ClosedIsPostProcessed)
<1> SUFFICES ASSUME NoSharedIds, GivesUp \subseteq {"CreateBill"}
             PROVE  Spec => []ClosedIsPostProcessed
  OBVIOUS
<1>1. Init => TypeInv /\ PostInv
  BY TypeInvInit DEF Init, PostInv
<1>2. TypeInv /\ PostInv /\ [Next]_vars => (TypeInv /\ PostInv)'
  <2>1. TypeInv /\ PostInv /\ UNCHANGED vars => PostInv'
    BY DEF vars, PostInv
  <2>2. TypeInv /\ PostInv /\ Next => PostInv'
    BY PostInvRequests, PostInvRuns, PostInvLate DEF Next
  <2> QED BY <2>1, <2>2, TypeInvStep
<1>3. PostInv => ClosedIsPostProcessed
  BY DEF PostInv, ClosedIsPostProcessed, Open, BlockedAt, Activities
<1> QED BY <1>1, <1>2, <1>3, PTL DEF Spec

\* The steps that execute a statement on bills; all others leave every row alone.
LEMMA RowsOfStatements ==
  ASSUME Next
  PROVE  \/ row' = row \/ LateCommit
         \/ \E w \in WorkflowID : CreateBill(w) \/ CloseBillFromState(w)
BY DEF Next, RequestStep, CreateBillCheck, CreateBillStart, CreateBillFails,
       StartMonthlyBilling, CronFires, AddLineItem, RunStep, NewBillingPolicy, LeaveLoop,
       GetBillDetail, StartPostProcess, ClosedBillPostProcess, GiveUp

-----------------------------------------------------------------------------
(***************************************************************************)
(* Closed for good. A closed bill's ledger has no step but a stutter; no   *)
(* statement deletes a row or changes its terms.                           *)
(***************************************************************************)
LEMMA RowKept ==
  ASSUME TypeInv, Next, NEW b \in BillID, row[b].status # "absent"
  PROVE  row'[b].status # "absent" /\ row'[b].terms = row[b].terms
<1> DEFINE Kept == row'[b].status # "absent" /\ row'[b].terms = row[b].terms
<1>1. ASSUME NEW c \in BillID, NEW t, row' = InsertBill(c, t)
      PROVE  Kept
  BY <1>1, AfterInsert
<1>2. ASSUME NEW c \in BillID, NEW n, row' = UpdateBillClosed(c, n)
      PROVE  Kept
  BY <1>2, AfterClose
<1>3. ASSUME NEW w \in WorkflowID, CreateBill(w) PROVE Kept
  BY <1>1, <1>3 DEF CreateBill, TypeInv, RunInv, Working
<1>4. ASSUME NEW w \in WorkflowID, CloseBillFromState(w) PROVE Kept
  BY <1>2, <1>4 DEF CloseBillFromState, TypeInv, RunInv, Working
<1>5. ASSUME LateCommit PROVE Kept
  <2>1. PICK s \in late :
          row' = IF s.op = "CreateBill" THEN InsertBill(s.bill, s.terms)
                                        ELSE UpdateBillClosed(s.bill, s.total)
    BY <1>5 DEF LateCommit
  <2>2. s.bill \in BillID
    BY DEF TypeInv, TypeOK
  <2> QED BY <1>1, <1>2, <2>1, <2>2
<1> QED BY <1>3, <1>4, <1>5, RowsOfStatements

\* When no creation outlasts the run of its bill, a closed bill is final: run
\* closed_reopened fails for the late creation alone (UpdateBillClosed has no condition on
\* the status; that it meets a closed row with another total is what cannot happen).
THEOREM ClosedIsForGood == Prompt => (Spec => ClosedIsFinal)
<1> SUFFICES ASSUME Prompt PROVE Spec => ClosedIsFinal
  OBVIOUS
<1> DEFINE Final == \A b \in BillID : row[b].status = "CLOSED" => row'[b] = row[b]
<1>1. TypeInv /\ TypeInv' /\ LedgerInv /\ [Next]_vars => [Final]_vars
  <2> SUFFICES ASSUME TypeInv, TypeInv', LedgerInv, Next,
                      NEW b \in BillID, row[b].status = "CLOSED"
               PROVE  row'[b] = row[b]
    OBVIOUS
  <2>1. row'[b].status = row[b].status /\ row'[b].total = row[b].total
    BY LedgerStep DEF Ledger!Next, Ledger!Open, Ledger!Charge, Ledger!Void, Ledger!Close,
                      Ledger!vars
  <2>2. row'[b].terms = row[b].terms
    BY RowKept
  <2>3. row[b] \in BillRow /\ row'[b] \in BillRow
    BY DEF TypeInv, TypeOK
  <2> QED BY <2>1, <2>2, <2>3 DEF BillRow
<1>2. Spec => [][Final]_vars
  <2> HIDE DEF Final
  <2> QED BY <1>1, LedgerInvAlways, TypeInvInit, TypeInvStep, PTL DEF Spec
<1> QED BY <1>2 DEF ClosedIsFinal

-----------------------------------------------------------------------------
(***************************************************************************)
(* What is open has a run, and what was answered too: the safety part of   *)
(* OpenIsClosed and AnsweredIsCreated, without fairness and without Prompt.*)
(***************************************************************************)
\* The step starts a run of b on terms t: the cron's, or those of a request about b.
SentFor(b, t) ==
  \/ b \in CustomerID /\ t = CronTerms
  \/ \E r \in Creation : CreateBillStart(r) /\ BillOf[r] = b /\ t = TermsOf[r]

\* Whose step changes a run: its own, or one that starts it where none is open.
LEMMA RunMoves ==
  ASSUME TypeInv, Next, NEW v \in WorkflowID
  PROVE  \/ /\ run'[v].at = run[v].at /\ run'[v].bill = run[v].bill
            /\ run'[v].terms = run[v].terms
         \/ /\ ~Open(v) /\ run'[v].at = "NewBillingPolicy"
            /\ \E b \in BillID : v = BillCycleWorkflowID(b) /\ run'[v].bill = b
                                 /\ SentFor(b, run'[v].terms)
         \/ /\ ~Open(v) /\ run'[v].at = "PostProcess"
            /\ \E b \in BillID : v = BillPostprocessWorkflowID(b)
         \/ RunStep(v) /\ run'[v].bill = run[v].bill /\ run'[v].terms = run[v].terms
<1> DEFINE Same == /\ run'[v].at = run[v].at /\ run'[v].bill = run[v].bill
                   /\ run'[v].terms = run[v].terms
           Started == /\ ~Open(v) /\ run'[v].at = "NewBillingPolicy"
                      /\ \E b \in BillID : v = BillCycleWorkflowID(b) /\ run'[v].bill = b
                                           /\ SentFor(b, run'[v].terms)
           Child == /\ ~Open(v) /\ run'[v].at = "PostProcess"
                    /\ \E b \in BillID : v = BillPostprocessWorkflowID(b)
           Own == RunStep(v) /\ run'[v].bill = run[v].bill /\ run'[v].terms = run[v].terms
<1>1. ASSUME NEW b \in BillID, NEW t, SentFor(b, t),
             run' = ExecuteWorkflow(BillCycleWorkflowID(b), b, t)
      PROVE  Same \/ Started
  <2>1. CASE run' = run
    BY <2>1
  <2>2. CASE /\ run[BillCycleWorkflowID(b)].at \notin BlockedAt
             /\ run'[BillCycleWorkflowID(b)] =
                  [at |-> "NewBillingPolicy", bill |-> b, terms |-> t, total |-> 0]
             /\ \A u \in WorkflowID : u # BillCycleWorkflowID(b) => run'[u] = run[u]
    BY <1>1, <2>2 DEF Open
  <2> QED BY <1>1, <2>1, <2>2, AfterExecute
<1>2. ASSUME NEW r \in Creation, RequestStep(r) PROVE Same \/ Started
  <2>1. CASE CreateBillStart(r)
    <3>1. BillOf[r] \in BillID /\ SentFor(BillOf[r], TermsOf[r])
      BY <2>1, RequestAssumption DEF SentFor
    <3> QED BY <1>1, <2>1, <3>1 DEF CreateBillStart
  <2>2. CASE CreateBillCheck(r) \/ CreateBillFails(r)
    BY <2>2 DEF CreateBillCheck, CreateBillFails
  <2> QED BY <1>2, <2>1, <2>2 DEF RequestStep
<1>3. ASSUME NEW c \in CustomerID, StartMonthlyBilling(c) PROVE Same \/ Started
  <2>1. c \in BillID /\ SentFor(c, CronTerms)
    BY RequestAssumption DEF SentFor
  <2> QED BY <1>1, <1>3, <2>1 DEF StartMonthlyBilling
<1>4. CASE CronFires \/ LateCommit
  BY <1>4 DEF CronFires, LateCommit
<1>5. ASSUME NEW k \in Key, AddLineItem(k) PROVE Same
  <2>1. /\ run \in [WorkflowID -> Run]
        /\ run' = [run EXCEPT ![BillCycleWorkflowID(KeyBill[k])].total = @ + 1]
    BY <1>5 DEF AddLineItem, TypeInv, TypeOK
  <2>2. run'[v] = run[v] \/ run'[v] = [run[v] EXCEPT !.total = @ + 1]
    BY <2>1
  <2> QED BY <2>1, <2>2 DEF Run
<1>6. ASSUME NEW w \in WorkflowID, RunStep(w) PROVE Same \/ Child \/ Own
  <2>1. CASE \E p : Reaches(w, p)
    BY <1>6, <2>1, AfterReaches
  <2>2. CASE StartPostProcess(w) /\ ~Open(BillPostprocessWorkflowID(run[w].bill))
    <3> DEFINE b == run[w].bill
               p == BillPostprocessWorkflowID(b)
    <3>1. /\ run \in [WorkflowID -> Run] /\ b \in BillID /\ p \in WorkflowID
          /\ run' = [run EXCEPT ![w].at = "Completed",
                                ![p] = [at |-> "PostProcess", bill |-> b,
                                        terms |-> NoTerms, total |-> 0]]
          /\ p # w
      BY <2>2, WorkflowOfBill
         DEF StartPostProcess, TypeInv, TypeOK, RunInv, Working, Open, BlockedAt
    <3>2. CASE v = p
      <4>1. run'[p] = [at |-> "PostProcess", bill |-> b, terms |-> NoTerms, total |-> 0]
        BY <3>1
      <4>2. run'[p].at = "PostProcess"
        BY <4>1
      <4> QED BY <2>2, <3>1, <3>2, <4>2
    <3>3. CASE v = w
      <4>1. run'[w] = [run[w] EXCEPT !.at = "Completed"] /\ run[w] \in Run
        BY <3>1
      <4> QED BY <1>6, <3>3, <4>1 DEF Run
    <3>4. CASE v # p /\ v # w
      BY <3>1, <3>4
    <3> QED BY <3>2, <3>3, <3>4
  <2> QED BY <1>6, <2>1, <2>2
          DEF RunStep, NewBillingPolicy, CreateBill, LeaveLoop, CloseBillFromState,
              GetBillDetail, StartPostProcess, ClosedBillPostProcess, GiveUp
<1> QED BY <1>2, <1>3, <1>4, <1>5, <1>6 DEF Next

\* Whose step changes a row: that of its bill's own run, while no statement is late.
LEMMA RowMoves ==
  ASSUME TypeInv, Next, NEW b \in BillID, row'[b] # row[b]
  PROVE  \/ late # {}
         \/ CreateBill(BillCycleWorkflowID(b)) /\ row[b].status = "absent"
         \/ CloseBillFromState(BillCycleWorkflowID(b)) /\ row'[b].status = "CLOSED"
<1>1. ASSUME NEW w \in WorkflowID, CreateBill(w)
      PROVE  CreateBill(BillCycleWorkflowID(b)) /\ row[b].status = "absent"
  <2>1. /\ run[w].bill \in BillID /\ w = BillCycleWorkflowID(run[w].bill)
        /\ row' = InsertBill(run[w].bill, run[w].terms)
    BY <1>1 DEF CreateBill, TypeInv, RunInv, Working
  <2>2. run[w].bill = b /\ row[b].status = "absent"
    BY <2>1, AfterInsert
  <2> QED BY <1>1, <2>1, <2>2
<1>2. ASSUME NEW w \in WorkflowID, CloseBillFromState(w)
      PROVE  CloseBillFromState(BillCycleWorkflowID(b)) /\ row'[b].status = "CLOSED"
  <2>1. /\ run[w].bill \in BillID /\ w = BillCycleWorkflowID(run[w].bill)
        /\ row' = UpdateBillClosed(run[w].bill, run[w].total)
    BY <1>2 DEF CloseBillFromState, TypeInv, RunInv, Working
  <2>2. run[w].bill = b /\ row'[b].status = "CLOSED"
    BY <2>1, AfterClose
  <2> QED BY <1>2, <2>1, <2>2
<1>3. LateCommit => late # {}
  BY DEF LateCommit
<1> QED BY <1>1, <1>2, <1>3, RowsOfStatements

OpenInv ==
  /\ late = {}
  /\ \A b \in BillID : row[b].status = "OPEN" =>
       run[BillCycleWorkflowID(b)].at \in {"Loop", "CloseBillFromState"}

LEMMA OpenInvStep ==
  ASSUME GivesUp \subseteq {"GetBillDetail"}, TypeInv, OpenInv, Next
  PROVE  OpenInv'
<1>1. late' = {}
  BY DEF OpenInv, Next, RequestStep, CreateBillCheck, CreateBillStart, CreateBillFails,
         StartMonthlyBilling, CronFires, AddLineItem, RunStep, NewBillingPolicy, CreateBill,
         LeaveLoop, CloseBillFromState, GetBillDetail, StartPostProcess,
         ClosedBillPostProcess, GiveUp, LateCommit
<1>2. ASSUME NEW b \in BillID, row'[b].status = "OPEN"
      PROVE  run'[BillCycleWorkflowID(b)].at \in {"Loop", "CloseBillFromState"}
  <2> DEFINE w == BillCycleWorkflowID(b)
  <2>w. w \in WorkflowID
    BY WorkflowOfBill
  <2>1. CASE row'[b] # row[b]
    <3>1. CreateBill(w)
      BY <1>2, <2>1, RowMoves DEF OpenInv
    <3> QED BY <2>w, <3>1, AfterReaches DEF CreateBill
  <2>2. CASE row'[b] = row[b]
    <3>1. run[w].at \in {"Loop", "CloseBillFromState"} /\ Open(w)
      BY <1>2, <2>2 DEF OpenInv, Open, BlockedAt, Activities
    <3>2. CASE RunStep(w)
      <4>1. CASE LeaveLoop(w)
        BY <2>w, <4>1, AfterReaches DEF LeaveLoop
      <4>2. ~CloseBillFromState(w)
        <5>1. ASSUME CloseBillFromState(w) PROVE FALSE
          <6>1. /\ run[w].bill \in BillID /\ w = BillCycleWorkflowID(run[w].bill)
                /\ row' = UpdateBillClosed(run[w].bill, run[w].total)
            BY <2>w, <5>1 DEF CloseBillFromState, TypeInv, RunInv, Working
          <6>2. run[w].bill = b
            BY <6>1, BillOfWorkflow
          <6> QED BY <1>2, <2>2, <6>1, <6>2, AfterClose
        <5> QED BY <5>1
      <4> QED BY <3>1, <3>2, <4>1, <4>2
              DEF RunStep, NewBillingPolicy, CreateBill, GetBillDetail, StartPostProcess,
                  ClosedBillPostProcess, GiveUp
    <3> QED BY <2>w, <3>1, <3>2, RunMoves
  <2> QED BY <2>1, <2>2
<1> QED BY <1>1, <1>2 DEF OpenInv

\* If neither the row's insert nor its closing gives up, an open bill has its own run,
\* in its loop or about to close it, whatever requests, the cron and children of the same
\* id do: that the bill is closed in the end is then only a matter of that run's progress.
THEOREM OpenBillHasRun == GivesUp \subseteq {"GetBillDetail"} => (Spec => []OpenHasRun)
<1> SUFFICES ASSUME GivesUp \subseteq {"GetBillDetail"} PROVE Spec => []OpenHasRun
  OBVIOUS
<1>1. Init => TypeInv /\ OpenInv
  BY TypeInvInit DEF Init, OpenInv
<1>2. TypeInv /\ OpenInv /\ [Next]_vars => (TypeInv /\ OpenInv)'
  <2>1. TypeInv /\ OpenInv /\ UNCHANGED vars => OpenInv'
    BY DEF vars, OpenInv
  <2> QED BY <2>1, TypeInvStep, OpenInvStep
<1>3. TypeInv /\ OpenInv => OpenHasRun
  <2> SUFFICES ASSUME TypeInv, OpenInv, NEW b \in BillID, row[b].status = "OPEN"
               PROVE  /\ run[BillCycleWorkflowID(b)].bill = b
                      /\ run[BillCycleWorkflowID(b)].at \in {"Loop", "CloseBillFromState"}
    BY DEF OpenHasRun
  <2>1. /\ BillCycleWorkflowID(b) \in WorkflowID
        /\ run[BillCycleWorkflowID(b)].at \in {"Loop", "CloseBillFromState"}
    BY WorkflowOfBill DEF OpenInv
  <2>2. /\ run[BillCycleWorkflowID(b)].bill \in BillID
        /\ BillCycleWorkflowID(b) = BillCycleWorkflowID(run[BillCycleWorkflowID(b)].bill)
    BY <2>1 DEF TypeInv, RunInv, Working
  <2> QED BY <2>1, <2>2, BillOfWorkflow
<1> QED BY <1>1, <1>2, <1>3, PTL DEF Spec

\* Past its policy a run's bill has a row, or is about to; a run under an id that is no
\* customer's and no child's is some request's.
Inserted == {"Loop", "CloseBillFromState", "GetBillDetail", "StartPostProcess"}

AnsweredInv ==
  /\ AnsweredHasRun
  /\ \A b \in BillID \ CustomerID :
       run[BillCycleWorkflowID(b)].at = "NewBillingPolicy" =>
         run[BillCycleWorkflowID(b)].terms \in Terms
  /\ \A b \in BillID : run[BillCycleWorkflowID(b)].at \in Inserted => row[b].status # "absent"
  /\ \A w \in WorkflowID :
       run[w].at = "PostProcess" => \E c \in BillID : w = BillPostprocessWorkflowID(c)

\* The step of a run that stands where the row is not yet there.
LEMMA RunInserts ==
  ASSUME TypeInv, Next, NEW b \in BillID, RunStep(BillCycleWorkflowID(b)),
         run[BillCycleWorkflowID(b)].at \in Working \cup {"NewBillingPolicy"}
  PROVE  /\ run'[BillCycleWorkflowID(b)].at \in Inserted =>
              \/ run[BillCycleWorkflowID(b)].at \in Inserted
              \/ row'[b].status # "absent"
         /\ run'[BillCycleWorkflowID(b)].at \notin {"NewBillingPolicy", "PostProcess"}
         /\ run[BillCycleWorkflowID(b)].at \in {"NewBillingPolicy", "CreateBill"} =>
              \/ row'[b].status # "absent"
              \/ run'[BillCycleWorkflowID(b)].at = "CreateBill"
              \/ run[BillCycleWorkflowID(b)].terms = CronTerms
              \/ "CreateBill" \in GivesUp
<1> DEFINE w == BillCycleWorkflowID(b)
<1>w. w \in WorkflowID /\ run[w].bill = b
  <2>1. w \in WorkflowID
    BY WorkflowOfBill
  <2>2. run[w].bill \in BillID /\ w = BillCycleWorkflowID(run[w].bill)
    BY <2>1 DEF TypeInv, RunInv
  <2> QED BY <2>1, <2>2, BillOfWorkflow
<1>1. CASE NewBillingPolicy(w)
  <2>1. /\ run[w].at = "NewBillingPolicy"
        /\ Reaches(w, IF run[w].terms = CronTerms THEN "Failed" ELSE "CreateBill")
    BY <1>1 DEF NewBillingPolicy
  <2>2. run'[w].at = IF run[w].terms = CronTerms THEN "Failed" ELSE "CreateBill"
    BY <1>w, <2>1, AfterReaches
  <2> QED BY <2>1, <2>2 DEF Inserted
<1>2. CASE CreateBill(w)
  <2>1. run'[w].at = "Loop"
    BY <1>w, <1>2, AfterReaches DEF CreateBill
  <2>2. row' = InsertBill(b, run[w].terms)
    BY <1>w, <1>2 DEF CreateBill
  <2>3. row'[b].status # "absent"
    BY <2>2, AfterInsert
  <2> QED BY <2>1, <2>3
<1>3. CASE GiveUp(w)
  <2>1. run[w].at \in GivesUp /\ run'[w].at = "Failed"
    BY <1>w, <1>3, AfterReaches DEF GiveUp
  <2> QED BY <2>1, RequestAssumption DEF Inserted, Activities
<1>4. CASE LeaveLoop(w) \/ CloseBillFromState(w) \/ GetBillDetail(w)
  <2>1. /\ run[w].at \in Inserted /\ run[w].at \notin {"NewBillingPolicy", "CreateBill"}
        /\ \E p \in Inserted \cup {"Completed"} : Reaches(w, p)
    BY <1>4 DEF LeaveLoop, CloseBillFromState, GetBillDetail, Inserted
  <2>2. run'[w].at \in Inserted \cup {"Completed"}
    BY <1>w, <2>1, AfterReaches
  <2> QED BY <2>1, <2>2 DEF Inserted
<1>5. CASE StartPostProcess(w)
  <2>1. run[w].at = "StartPostProcess" /\ Open(w)
    BY <1>5 DEF StartPostProcess, Open, BlockedAt
  <2>2. run'[w].at = "Completed"
    <3> DEFINE p == BillPostprocessWorkflowID(b)
    <3>1. CASE Reaches(w, "Completed")
      BY <1>w, <3>1, AfterReaches
    <3>2. CASE /\ ~Open(p)
               /\ run' = [run EXCEPT ![w].at = "Completed",
                                     ![p] = [at |-> "PostProcess", bill |-> b,
                                             terms |-> NoTerms, total |-> 0]]
      <4>1. run \in [WorkflowID -> Run] /\ p # w
        BY <2>1, <3>2 DEF TypeInv, TypeOK
      <4>2. run'[w] = [run[w] EXCEPT !.at = "Completed"] /\ run[w] \in Run
        BY <1>w, <3>2, <4>1
      <4> QED BY <4>2 DEF Run
    <3> QED BY <1>5, <1>w, <3>1, <3>2 DEF StartPostProcess
  <2> QED BY <2>1, <2>2 DEF Inserted
<1>6. ~ClosedBillPostProcess(w)
  BY DEF ClosedBillPostProcess, Working
<1> QED BY <1>1, <1>2, <1>3, <1>4, <1>5, <1>6 DEF RunStep

LEMMA AnsweredInvStep ==
  ASSUME NoSharedIds, "CreateBill" \notin GivesUp, TypeInv, AnsweredInv, Next
  PROVE  AnsweredInv'
<1>w. \A b \in BillID : BillCycleWorkflowID(b) \in WorkflowID
  BY WorkflowOfBill
<1>1. ASSUME NEW b \in BillID \ CustomerID, run'[BillCycleWorkflowID(b)].at = "NewBillingPolicy"
      PROVE  run'[BillCycleWorkflowID(b)].terms \in Terms
  <2> DEFINE w == BillCycleWorkflowID(b)
  <2>1. CASE RunStep(w)
    <3>1. run[w].at \in Working \cup {"NewBillingPolicy"} => FALSE
      BY <1>1, <2>1, RunInserts
    <3>2. run[w].at = "PostProcess" => FALSE
      BY <1>w DEF AnsweredInv, NoSharedIds
    <3> QED BY <2>1, <3>1, <3>2, RequestAssumption
            DEF RunStep, NewBillingPolicy, CreateBill, LeaveLoop, CloseBillFromState,
                GetBillDetail, StartPostProcess, ClosedBillPostProcess, GiveUp, Working,
                Activities
  <2>2. CASE run'[w].at = run[w].at /\ run'[w].terms = run[w].terms
    BY <1>1, <2>2 DEF AnsweredInv
  <2>3. ASSUME NEW c \in BillID, w = BillCycleWorkflowID(c),
               SentFor(c, run'[w].terms)
        PROVE  run'[w].terms \in Terms
    BY <2>3, BillOfWorkflow DEF SentFor, Terms
  <2> QED BY <1>1, <1>w, <2>1, <2>2, <2>3, RunMoves
<1>2. ASSUME NEW b \in BillID, run'[BillCycleWorkflowID(b)].at \in Inserted
      PROVE  row'[b].status # "absent"
  <2> DEFINE w == BillCycleWorkflowID(b)
  <2>1. CASE run[w].at \in Inserted
    BY <2>1, RowKept DEF AnsweredInv
  <2>2. CASE run[w].at \notin Inserted
    <3>1. RunStep(w)
      BY <1>2, <1>w, <2>2, RunMoves DEF Inserted
    <3>2. run[w].at # "PostProcess"
      BY <1>w DEF AnsweredInv, NoSharedIds
    <3>3. run[w].at \in Working \cup {"NewBillingPolicy"}
      BY <3>1, <3>2, RequestAssumption
         DEF RunStep, NewBillingPolicy, CreateBill, LeaveLoop, CloseBillFromState,
             GetBillDetail, StartPostProcess, ClosedBillPostProcess, GiveUp, Working,
             Activities
    <3> QED BY <1>2, <2>2, <3>1, <3>3, RunInserts
  <2> QED BY <2>1, <2>2
<1>3. ASSUME NEW w \in WorkflowID, run'[w].at = "PostProcess"
      PROVE  \E c \in BillID : w = BillPostprocessWorkflowID(c)
  <2>1. CASE RunStep(w)
    <3>1. run[w].at = "PostProcess" \/ run[w].at \in Working \cup {"NewBillingPolicy"}
      BY <2>1, RequestAssumption
         DEF RunStep, NewBillingPolicy, CreateBill, LeaveLoop, CloseBillFromState,
             GetBillDetail, StartPostProcess, ClosedBillPostProcess, GiveUp, Working,
             Activities
    <3>2. run[w].at \in Working \cup {"NewBillingPolicy"} =>
            \E b \in BillID : w = BillCycleWorkflowID(b)
      BY DEF TypeInv, RunInv
    <3> QED BY <1>3, <2>1, <3>1, <3>2, RunInserts DEF AnsweredInv
  <2>2. CASE run'[w].at = run[w].at
    BY <1>3, <2>2 DEF AnsweredInv
  <2> QED BY <1>3, <2>1, <2>2, RunMoves
<1>4. ASSUME NEW r \in Creation, creator'[r] = "answered", BillOf[r] \notin CustomerID
      PROVE  LET b == BillOf[r]
                 own == run'[BillCycleWorkflowID(b)]
             IN  \/ row'[b].status # "absent"
                 \/ /\ own.at \in {"NewBillingPolicy", "CreateBill"}
                    /\ own.bill = b /\ own.terms \in Terms
  <2> DEFINE b == BillOf[r]
             w == BillCycleWorkflowID(b)
  <2>b. b \in BillID /\ w \in WorkflowID
    BY <1>w, RequestAssumption
  <2>1. CASE creator[r] = "answered"
    <3>1. CASE row[b].status # "absent"
      BY <2>b, <3>1, RowKept
    <3>2. CASE /\ run[w].at \in {"NewBillingPolicy", "CreateBill"}
               /\ run[w].bill = b /\ run[w].terms \in Terms
      <4>1. Open(w) /\ run[w].at \in Working \cup {"NewBillingPolicy"}
        BY <3>2 DEF Open, BlockedAt, Activities, Working
      <4>2. CASE RunStep(w) /\ run'[w].bill = run[w].bill /\ run'[w].terms = run[w].terms
        <5>1. run[w].terms # CronTerms
          BY <3>2, RequestAssumption
        <5> QED BY <2>b, <3>2, <4>1, <4>2, <5>1, RunInserts
      <4> QED BY <2>b, <3>2, <4>1, <4>2, RunMoves
    <3> QED BY <1>4, <2>1, <3>1, <3>2 DEF AnsweredInv, AnsweredHasRun
  <2>2. CASE creator[r] # "answered"
    <3>1. CreateBillStart(r)
      <4>1. PICK q \in Creation : RequestStep(q)
        BY <1>4, <2>2 DEF Next, StartMonthlyBilling, CronFires, AddLineItem, RunStep,
             NewBillingPolicy, CreateBill, LeaveLoop, CloseBillFromState, GetBillDetail,
             StartPostProcess, ClosedBillPostProcess, GiveUp, LateCommit
      <4>2. creator \in [Creation -> {"idle", "checked", "answered", "refused", "failed"}]
        BY DEF TypeInv, TypeOK
      <4>3. ~CreateBillCheck(r) /\ ~CreateBillFails(r)
        BY <1>4, <4>2 DEF CreateBillCheck, CreateBillFails
      <4>4. q = r
        BY <1>4, <2>2, <4>1, <4>2
           DEF RequestStep, CreateBillCheck, CreateBillStart, CreateBillFails
      <4> QED BY <4>1, <4>3, <4>4 DEF RequestStep
    <3>2. run' = ExecuteWorkflow(w, b, TermsOf[r]) /\ row' = row
          /\ TermsOf[r] \in Terms
      BY <3>1 DEF CreateBillStart, Terms
    <3>3. CASE run' = run /\ Open(w)
      <4>1. run[w].at # "PostProcess"
        BY <2>b DEF AnsweredInv, NoSharedIds
      <4>2. run[w].at \in Working \cup {"NewBillingPolicy"}
        BY <3>3, <4>1 DEF Open, BlockedAt, Activities, Working
      <4>3. run[w].at \in Inserted \/ run[w].at \in {"NewBillingPolicy", "CreateBill"}
        BY <4>2 DEF Working, Inserted
      <4>4. CASE run[w].at \in Inserted
        BY <2>b, <3>2, <4>4 DEF AnsweredInv
      <4>5. CASE run[w].at \in {"NewBillingPolicy", "CreateBill"}
        <5>1. run[w].bill \in BillID /\ w = BillCycleWorkflowID(run[w].bill)
          BY <2>b, <4>2 DEF TypeInv, RunInv
        <5>2. run[w].bill = b
          BY <2>b, <5>1, BillOfWorkflow
        <5>3. run[w].terms \in Terms
          BY <1>4, <2>b, <4>5 DEF AnsweredInv, TypeInv, RunInv, Working
        <5> QED BY <3>3, <4>5, <5>2, <5>3
      <4> QED BY <4>3, <4>4, <4>5
    <3>4. CASE run'[w] = [at |-> "NewBillingPolicy", bill |-> b,
                          terms |-> TermsOf[r], total |-> 0]
      <4>1. /\ run'[w].at = "NewBillingPolicy" /\ run'[w].bill = b
            /\ run'[w].terms = TermsOf[r]
        BY <3>4
      <4> QED BY <3>2, <4>1
    <3> QED BY <2>b, <3>2, <3>3, <3>4, AfterExecute
  <2> QED BY <2>1, <2>2
<1> QED BY <1>1, <1>2, <1>3, <1>4 DEF AnsweredInv, AnsweredHasRun

\* If the row's insert does not give up and no two workflows share an id, a creation that was
\* answered OPEN has its row or a run about to insert it, on validated terms, unless the
\* bill is a customer's: what is left of AnsweredIsCreated is that run's progress.
THEOREM AnsweredCreationHasRun ==
  NoSharedIds /\ "CreateBill" \notin GivesUp => (Spec => []AnsweredHasRun)
<1> SUFFICES ASSUME NoSharedIds, "CreateBill" \notin GivesUp
             PROVE  Spec => []AnsweredHasRun
  OBVIOUS
<1>1. Init => TypeInv /\ AnsweredInv
  <2>1. Init => AnsweredInv
    BY WorkflowOfBill DEF Init, AnsweredInv, AnsweredHasRun, Inserted
  <2> QED BY <2>1, TypeInvInit
<1>2. TypeInv /\ AnsweredInv /\ [Next]_vars => (TypeInv /\ AnsweredInv)'
  <2>1. TypeInv /\ AnsweredInv /\ UNCHANGED vars => AnsweredInv'
    BY DEF vars, AnsweredInv, AnsweredHasRun
  <2> QED BY <2>1, TypeInvStep, AnsweredInvStep
<1>3. AnsweredInv => AnsweredHasRun
  BY DEF AnsweredInv
<1> QED BY <1>1, <1>2, <1>3, PTL DEF Spec

-----------------------------------------------------------------------------
(***************************************************************************)
(* Where a row's terms come from: from the request that started the run    *)
(* that sent the statement, however long ago.                              *)
(***************************************************************************)
Requested(made, b, t) ==
  \E r \in Creation : /\ BillOf[r] = b /\ TermsOf[r] = t
                      /\ made[r] \in {"answered", "failed"}

RequestedInv ==
  /\ RowIsRequested
  /\ \A w \in WorkflowID :
       run[w].at \in Working \cup {"NewBillingPolicy"} /\ run[w].terms # CronTerms =>
         Requested(creator, run[w].bill, run[w].terms)
  /\ \A s \in late : s.op = "CreateBill" => Requested(creator, s.bill, s.terms)

\* Requests do not go back.
LEMMA RequestedStays ==
  ASSUME TypeInv, Next, NEW b, NEW t, Requested(creator, b, t)
  PROVE  Requested(creator', b, t)
<1>1. PICK r \in Creation : /\ BillOf[r] = b /\ TermsOf[r] = t
                            /\ creator[r] \in {"answered", "failed"}
  BY DEF Requested
<1>2. creator \in [Creation -> {"idle", "checked", "answered", "refused", "failed"}]
  BY DEF TypeInv, TypeOK
<1>3. creator'[r] = creator[r]
  BY <1>1, <1>2
     DEF Next, RequestStep, CreateBillCheck, CreateBillStart, CreateBillFails,
         StartMonthlyBilling, CronFires, AddLineItem, RunStep, NewBillingPolicy, CreateBill,
         LeaveLoop, CloseBillFromState, GetBillDetail, StartPostProcess,
         ClosedBillPostProcess, GiveUp, LateCommit
<1> QED BY <1>1, <1>3 DEF Requested

LEMMA RequestedSent ==
  ASSUME TypeInv, NEW b, NEW t, SentFor(b, t), t # CronTerms
  PROVE  Requested(creator', b, t)
<1>1. PICK r \in Creation : CreateBillStart(r) /\ BillOf[r] = b /\ t = TermsOf[r]
  BY DEF SentFor
<1>2. creator'[r] \in {"answered", "failed"}
  BY <1>1 DEF CreateBillStart, TypeInv, TypeOK
<1> QED BY <1>1, <1>2 DEF Requested

LEMMA RequestedInvStep ==
  ASSUME TypeInv, RequestedInv, Next
  PROVE  RequestedInv'
<1>1. ASSUME NEW w \in WorkflowID, run'[w].at \in Working \cup {"NewBillingPolicy"},
             run'[w].terms # CronTerms
      PROVE  Requested(creator', run'[w].bill, run'[w].terms)
  <2>1. CASE /\ run[w].at \in Working \cup {"NewBillingPolicy"}
             /\ run'[w].bill = run[w].bill /\ run'[w].terms = run[w].terms
    BY <1>1, <2>1, RequestedStays DEF RequestedInv
  <2>2. ASSUME NEW b \in BillID, run'[w].bill = b, SentFor(b, run'[w].terms)
        PROVE  Requested(creator', run'[w].bill, run'[w].terms)
    BY <1>1, <2>2, RequestedSent
  <2>3. CASE RunStep(w) /\ run[w].at \notin Working \cup {"NewBillingPolicy"}
    <3>1. ClosedBillPostProcess(w)
      BY <2>3, RequestAssumption
         DEF RunStep, NewBillingPolicy, CreateBill, LeaveLoop, CloseBillFromState,
             GetBillDetail, StartPostProcess, GiveUp, Working, Activities
    <3>2. run'[w].at \in {"Completed", "Failed"}
      BY <3>1, AfterReaches DEF ClosedBillPostProcess
    <3> QED BY <1>1, <3>2 DEF Working
  <2>4. "PostProcess" \notin Working \cup {"NewBillingPolicy"}
    BY DEF Working
  <2> QED BY <1>1, <2>1, <2>2, <2>3, <2>4, RunMoves
<1>2. ASSUME NEW s \in late', s.op = "CreateBill" PROVE Requested(creator', s.bill, s.terms)
  <2>1. CASE s \in late
    BY <1>2, <2>1, RequestedStays DEF RequestedInv
  <2>2. CASE s \notin late
    <3>1. PICK w \in WorkflowID : GiveUp(w)
      BY <2>2 DEF Next, RequestStep, CreateBillCheck, CreateBillStart, CreateBillFails,
           StartMonthlyBilling, CronFires, AddLineItem, RunStep, NewBillingPolicy,
           CreateBill, LeaveLoop, CloseBillFromState, GetBillDetail, StartPostProcess,
           ClosedBillPostProcess, LateCommit
    <3>2. s = [op |-> run[w].at, bill |-> run[w].bill,
               terms |-> run[w].terms, total |-> run[w].total]
      BY <2>2, <3>1 DEF GiveUp
    <3>3. run[w].at = "CreateBill" /\ s.bill = run[w].bill /\ s.terms = run[w].terms
      BY <1>2, <3>2
    <3>4. run[w].at \in Working /\ run[w].terms # CronTerms
      BY <3>3, RequestAssumption DEF Working, TypeInv, RunInv
    <3> QED BY <3>3, <3>4, RequestedStays DEF RequestedInv
  <2> QED BY <2>1, <2>2
<1>3. ASSUME NEW b \in BillID, row'[b].status # "absent"
      PROVE  Requested(creator', b, row'[b].terms)
  <2>1. CASE row[b].status # "absent"
    <3>1. Requested(creator, b, row[b].terms) /\ row'[b].terms = row[b].terms
      BY <2>1, RowKept DEF RequestedInv, RowIsRequested, Requested
    <3> QED BY <3>1, RequestedStays
  <2>2. CASE row[b].status = "absent"
    <3>1. ASSUME NEW c \in BillID, NEW t, row' = InsertBill(c, t), Requested(creator', c, t)
          PROVE  Requested(creator', b, row'[b].terms)
      <4>1. row \in [BillID -> BillRow]
        BY DEF TypeInv, TypeOK
      <4>2. b = c /\ row'[b] = [status |-> "OPEN", terms |-> t, total |-> 0]
        BY <1>3, <2>2, <3>1, <4>1 DEF InsertBill
      <4>3. row'[b].terms = t
        BY <4>2
      <4> QED BY <3>1, <4>2, <4>3
    <3>2. ASSUME NEW w \in WorkflowID, CreateBill(w)
          PROVE  Requested(creator', b, row'[b].terms)
      <4>1. /\ run[w].at \in Working /\ run[w].bill \in BillID /\ run[w].terms # CronTerms
            /\ row' = InsertBill(run[w].bill, run[w].terms)
        BY <3>2, RequestAssumption DEF CreateBill, TypeInv, RunInv, Working
      <4>2. Requested(creator', run[w].bill, run[w].terms)
        BY <4>1, RequestedStays DEF RequestedInv
      <4> QED BY <3>1, <4>1, <4>2
    <3>3. ASSUME NEW c \in BillID, NEW n, row' = UpdateBillClosed(c, n)
          PROVE  row'[b] = row[b]
      BY <2>2, <3>3, AfterClose
    <3>4. ASSUME NEW w \in WorkflowID, CloseBillFromState(w)
          PROVE  row'[b] = row[b]
      BY <3>3, <3>4 DEF CloseBillFromState, TypeInv, RunInv, Working
    <3>5. ASSUME LateCommit
          PROVE  row'[b] = row[b] \/ Requested(creator', b, row'[b].terms)
      <4>1. PICK s \in late :
              row' = IF s.op = "CreateBill" THEN InsertBill(s.bill, s.terms)
                                            ELSE UpdateBillClosed(s.bill, s.total)
        BY <3>5 DEF LateCommit
      <4>2. s.bill \in BillID
        BY DEF TypeInv, TypeOK
      <4>3. CASE s.op = "CreateBill"
        <5>1. Requested(creator', s.bill, s.terms)
          BY <4>3, RequestedStays DEF RequestedInv
        <5> QED BY <3>1, <4>1, <4>2, <4>3, <5>1
      <4>4. CASE s.op # "CreateBill"
        BY <3>3, <4>1, <4>2, <4>4
      <4> QED BY <4>3, <4>4
    <3> QED BY <1>3, <2>2, <3>2, <3>4, <3>5, RowsOfStatements
  <2> QED BY <2>1, <2>2
<1> QED BY <1>1, <1>2, <1>3 DEF RequestedInv, RowIsRequested, Requested

\* Whatever is raced, given up or late, and also where ids are shared, a row has the terms of
\* a creation request about its own bill that passed its check (the terms travel from
\* createBill through ExecuteWorkflow, which may drop them, to Activities.CreateBill).
THEOREM RowsAreRequested == Spec => []RowIsRequested
<1>1. Init => TypeInv /\ RequestedInv
  <2>1. Init => RequestedInv
    BY DEF Init, RequestedInv, RowIsRequested, Working
  <2> QED BY <2>1, TypeInvInit
<1>2. TypeInv /\ RequestedInv /\ [Next]_vars => (TypeInv /\ RequestedInv)'
  <2>1. TypeInv /\ RequestedInv /\ UNCHANGED vars => RequestedInv'
    BY DEF vars, RequestedInv, RowIsRequested, Requested
  <2> QED BY <2>1, TypeInvStep, RequestedInvStep
<1>3. RequestedInv => RowIsRequested
  BY DEF RequestedInv
<1> QED BY <1>1, <1>2, <1>3, PTL DEF Spec
=============================================================================
