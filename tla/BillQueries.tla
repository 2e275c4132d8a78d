----------------------------- MODULE BillQueries -----------------------------
(***************************************************************************)
(* Reading bills while they are created, charged and closed: GetBills      *)
(* lists the rows of one status page by page, newest first, and asks the   *)
(* workflow of every open bill for its total; GetBillDetail reads a row,   *)
(* then its line items.                                                    *)
(*                                                                         *)
(* BillLifecycle has the detail of what is read here. A bill is its row,   *)
(* the number of its ACTIVE line items, each worth 1, and the point its    *)
(* workflow has reached.                                                   *)
(***************************************************************************)
EXTENDS Integers, Sequences, FiniteSets, SequencesExt

CONSTANTS
  BillID,
  Charged,                      \* the bills line items are added to
  MaxLines, MaxClock,           \* bounds: items of a bill, time
  Lister, Request,              \* clients that list, what they may ask for
  Getter,                       \* the bills that are asked for singly
  DefaultLimit, MaxInt,         \* 10; the largest int
  Unknown                       \* the total of a bill that did not answer

ASSUME QueryAssumption ==
  /\ IsFiniteSet(BillID) /\ Charged \subseteq BillID /\ Getter \subseteq BillID
  /\ {MaxLines, MaxClock, DefaultLimit, MaxInt} \subseteq Nat \ {0}
  /\ \A r \in Request : r.limit \in -(MaxInt + 1)..MaxInt
  /\ Unknown \notin Int

VARIABLES
  clock,                        \* now(), in the database and in the service
  row,                          \* table bills
  lines,                        \* how many ACTIVE rows line_items has for each
  live,                         \* the workflow of each bill
  lister, getter                \* progress of the requests

bills == <<row, lines, live>>
vars == <<clock, bills, lister, getter>>

\* A row exists for others once its insert is committed.
Visible(b) == row[b].status \in {"OPEN", "CLOSED"}

\* The workflow registers its query handler once CreateBill has returned.
Answers(b) == live[b].at \notin {"none", "creating"}

BillRow == [status : {"absent", "inserting", "OPEN", "CLOSED"},
            createdAt : 0..MaxClock, total : Nat]
Workflow == [at : {"none", "creating", "loop", "added", "voided", "closed", "failed"},
             total : Nat]
Entry == [bill : BillID, row : BillRow, total : Nat \cup {Unknown}]

TypeOK ==
  /\ clock \in 0..MaxClock
  /\ row \in [BillID -> BillRow]
  /\ lines \in [BillID -> 0..MaxLines]
  /\ live \in [BillID -> Workflow]
  /\ \A l \in Lister :
       /\ lister[l].cursor \in 0..MaxClock
       /\ lister[l].page \in Seq(Entry) /\ lister[l].shown \in Seq(Entry)
       /\ lister[l].due \subseteq BillID
  /\ \A g \in Getter : getter[g].row \in BillRow /\ getter[g].lines \in 0..MaxLines

\* The totals a bill has had while a request read it: none is reading.
NoTotals == [b \in BillID |-> {}]
NoRow == [status |-> "absent", createdAt |-> 0, total |-> 0]

Init ==
  /\ clock = 0
  /\ row = [b \in BillID |-> NoRow]
  /\ lines = [b \in BillID |-> 0]
  /\ live = [b \in BillID |-> [at |-> "none", total |-> 0]]
  /\ lister = [l \in Lister |->
       [stage |-> "idle", status |-> "none", limit |-> 0, cursor |-> 0, page |-> <<>>,
        more |-> FALSE, shown |-> <<>>, due |-> {}, cut |-> FALSE, since |-> NoTotals]]
  /\ getter = [g \in Getter |->
       [stage |-> "idle", row |-> NoRow, lines |-> 0, cut |-> FALSE]]
-----------------------------------------------------------------------------
(***************************************************************************)
(* What happens to the bills.                                              *)
(***************************************************************************)
\* Bound: MaxClock.
Tick ==
  /\ clock < MaxClock
  /\ clock' = clock + 1
  /\ UNCHANGED <<bills, lister, getter>>

\* created_at DEFAULT now() is fixed when the insert starts, not when it commits.
CreateBillBegins(b) ==
  /\ live[b].at = "none"
  /\ live' = [live EXCEPT ![b].at = "creating"]
  /\ row' = [row EXCEPT ![b].status = "inserting", ![b].createdAt = clock]
  /\ UNCHANGED <<clock, lines, lister, getter>>

CreateBillCommits(b) ==
  /\ row[b].status = "inserting"
  /\ row' = [row EXCEPT ![b].status = "OPEN"]
  /\ UNCHANGED <<clock, lines, live, lister, getter>>

\* The reply reaches the workflow, which registers its query handler.
CreateBillReturns(b) ==
  /\ live[b].at = "creating" /\ row[b].status = "OPEN"
  /\ live' = [live EXCEPT ![b].at = "loop"]
  /\ UNCHANGED <<clock, row, lines, lister, getter>>

\* Mutant: AND li.status = 'ACTIVE' is dropped
InsertOrVoidAgain(b) ==
  /\ live[b].at = "loop" /\ b \in Charged
  /\ lines' = [lines EXCEPT ![b] = @ - 1]
  /\ live' = [live EXCEPT ![b].at = "voided"]
  /\ UNCHANGED <<clock, row, lister, getter>>

\* The activity's transaction; the handler goes on when it hears of it.
InsertOrVoid(b) ==
  /\ live[b].at = "loop" /\ b \in Charged
  /\ \/ /\ lines[b] < MaxLines
        /\ lines' = [lines EXCEPT ![b] = @ + 1]
        /\ live' = [live EXCEPT ![b].at = "added"]
     \/ /\ lines[b] > 0
        /\ lines' = [lines EXCEPT ![b] = @ - 1]
        /\ live' = [live EXCEPT ![b].at = "voided"]
  /\ UNCHANGED <<clock, row, lister, getter>>

\* state.Total moves; whoever is reading the bill may see either total.
Count(b) ==
  /\ live[b].at \in {"added", "voided"}
  /\ live' = [live EXCEPT ![b] = [at |-> "loop",
                total |-> IF @.at = "added" THEN @.total + 1 ELSE @.total - 1]]
  /\ lister' = [l \in Lister |-> IF lister[l].since = NoTotals THEN lister[l]
                  ELSE [lister[l] EXCEPT !.since[b] = @ \cup {live'[b].total}]]
  /\ UNCHANGED <<clock, row, lines, getter>>

\* CloseBillFromState; when it gives up the run fails and the row stays OPEN.
Close(b) ==
  /\ live[b].at = "loop"
  /\ \/ /\ row' = [row EXCEPT ![b].status = "CLOSED", ![b].total = live[b].total]
        /\ live' = [live EXCEPT ![b].at = "closed"]
     \/ /\ live' = [live EXCEPT ![b].at = "failed"]
        /\ UNCHANGED row
  /\ UNCHANGED <<clock, lines, lister, getter>>
-----------------------------------------------------------------------------
(***************************************************************************)
(* Listing.                                                                *)
(***************************************************************************)
\* strings.ToUpper on the statuses a client may name.
ToUpper == [open |-> "OPEN", OPEN |-> "OPEN", closed |-> "CLOSED", CLOSED |-> "CLOSED",
            settled |-> "SETTLED", draft |-> "DRAFT"]

ToBillStatus(s) == IF s \in {"OPEN", "CLOSED", "SETTLED"} THEN s ELSE "invalid"

\* Mutant: a limit that is left out stays 0
LimitAsGiven(n) == n

LimitOf(n) == IF n = 0 THEN DefaultLimit ELSE n

\* The handler up to its query; a first page starts at the present moment.
GetBills(l) ==
  /\ lister[l].stage = "idle"
  /\ \E r \in Request :
       LET s == ToBillStatus(ToUpper[r.status]) IN
       lister' = [lister EXCEPT ![l].status = s, ![l].limit = LimitOf(r.limit),
                    ![l].cursor = clock,
                    ![l].stage = IF s = "invalid" \/ r.cursor = "garbled"
                                 THEN "refused" ELSE "asked"]
  /\ UNCHANGED <<clock, bills, getter>>

\* Mutant: created_at <= $1
MatchingInclusive(l) == {b \in BillID : /\ Visible(b)
                                        /\ row[b].createdAt <= lister[l].cursor
                                        /\ row[b].status = lister[l].status}

\* WHERE created_at < $1 AND status = $2
Matching(l) == {b \in BillID : /\ Visible(b)
                               /\ row[b].createdAt < lister[l].cursor
                               /\ row[b].status = lister[l].status}

\* ORDER BY created_at DESC LIMIT n: equal times come in any order.
Newest(S, n) ==
  {q \in SetToAllKPermutations(S) :
     /\ Len(q) = IF Cardinality(S) < n THEN Cardinality(S) ELSE n
     /\ \A i \in DOMAIN q, b \in S :
          (\A j \in 1..i : q[j] # b) => row[q[i]].createdAt >= row[b].createdAt}

\* Mutant: LIMIT limit
LookAheadNone(n) == n

\* limit + 1, in the width of an int
LookAhead(n) == IF n = MaxInt THEN -(MaxInt + 1) ELSE n + 1

\* A negative LIMIT is an error; bills[:-1] panics. The rows may break off: after
\* the loop rows.Err() is not asked, and what was scanned is taken for the result.
ReadPage(l) ==
  LET limit == lister[l].limit
      first == lister[l].shown = <<>>
  IN
  /\ lister[l].stage = "asked"
  /\ \/ /\ LookAhead(limit) < 0
        /\ lister' = [lister EXCEPT ![l].stage = "error"]
     \/ /\ LookAhead(limit) >= 0
        /\ \E all \in Newest(Matching(l), LookAhead(limit)), k \in 0..Cardinality(BillID) :
             k <= Len(all) /\
             LET q == SubSeq(all, 1, k)
                 more == Len(q) > limit
                 entries == [i \in DOMAIN q |->
                               [bill |-> q[i], row |-> row[q[i]], total |-> row[q[i]].total]]
             IN
             lister' = [lister EXCEPT ![l] = [@ EXCEPT
               !.stage = IF more /\ limit < 0 THEN "panicked" ELSE "filling",
               !.more = more,
               !.page = IF more THEN SubSeq(entries, 1, limit) ELSE entries,
               !.due = IF first THEN Matching(l) ELSE lister[l].due,
               !.cut = lister[l].cut \/ k < Len(all),
               !.since = [b \in BillID |-> {live[b].total}]]]
  /\ UNCHANGED <<clock, bills, getter>>

\* Mutant: the query is left out
LiveTotalNone(b) == {row[b].total}

\* QueryWorkflow may fail at any time, and fails before there is a handler.
LiveTotal(b) == {Unknown} \cup {live[b].total : x \in {y \in {b} : Answers(y)}}

\* One bill of the page: a row read OPEN is completed by its workflow.
ShowBill(l) ==
  /\ lister[l].stage = "filling"
  /\ lister[l].page # <<>>
  /\ LET e == Head(lister[l].page) IN
     \E t \in IF e.row.status = "OPEN" THEN LiveTotal(e.bill) ELSE {e.row.total} :
       lister' = [lister EXCEPT ![l].page = Tail(@),
                                ![l].shown = Append(@, [e EXCEPT !.total = t])]
  /\ UNCHANGED <<clock, bills, getter>>

\* The page is answered. A client goes on from the last bill it was given.
AnswerPage(l) ==
  /\ lister[l].stage = "filling"
  /\ lister[l].page = <<>>
  /\ lister' = [lister EXCEPT
       ![l].stage = IF lister[l].more THEN "asked" ELSE "done",
       ![l].since = NoTotals,
       ![l].cursor = IF lister[l].more /\ lister[l].shown # <<>>
                     THEN Last(lister[l].shown).row.createdAt ELSE @]
  /\ UNCHANGED <<clock, bills, getter>>
-----------------------------------------------------------------------------
(***************************************************************************)
(* A single bill: two statements.                                          *)
(***************************************************************************)
\* A row that is not there is answered NotFound.
GetBillRow(g) ==
  /\ getter[g].stage = "idle"
  /\ getter' = [getter EXCEPT ![g].row = row[g],
                              ![g].stage = IF Visible(g) THEN "row" ELSE "NotFound"]

\* Also here the rows may break off unnoticed.
GetLineItemsForBill(g) ==
  /\ getter[g].stage = "row"
  /\ \E n \in 0..lines[g] :
       getter' = [getter EXCEPT ![g].stage = "done", ![g].lines = n,
                                ![g].cut = n < lines[g]]

\* Mutant: the line items are read first
GetBillDetailLinesFirst(g) ==
  /\ \/ /\ getter[g].stage = "idle"
        /\ getter' = [getter EXCEPT ![g].stage = "row", ![g].lines = lines[g]]
     \/ /\ getter[g].stage = "row"
        /\ getter' = [getter EXCEPT ![g].stage = "done", ![g].row = row[g]]
  /\ UNCHANGED <<clock, bills, lister>>

GetBillDetail(g) ==
  /\ GetBillRow(g) \/ GetLineItemsForBill(g)
  /\ UNCHANGED <<clock, bills, lister>>
-----------------------------------------------------------------------------
BillStep(b) ==
  \/ CreateBillBegins(b) \/ CreateBillCommits(b) \/ CreateBillReturns(b)
  \/ InsertOrVoid(b) \/ Count(b) \/ Close(b)

ListStep(l) == ReadPage(l) \/ ShowBill(l) \/ AnswerPage(l)

Next ==
  \/ Tick
  \/ \E b \in BillID : BillStep(b)
  \/ \E l \in Lister : GetBills(l) \/ ListStep(l)
  \/ \E g \in Getter : GetBillDetail(g)

Spec == Init /\ [][Next]_vars

\* A request that was accepted is worked on, and a client reads to the end.
FairSpec == Spec /\ \A l \in Lister : WF_vars(ListStep(l))
-----------------------------------------------------------------------------
(***************************************************************************)
(* What must hold.                                                         *)
(***************************************************************************)
\* Over all its pages a listing goes back in time and shows no bill twice,
\* whatever is created or closed between two pages (the cursor of GetBills).
ListedInOrder ==
  \A l \in Lister : LET s == lister[l].shown IN
    \A i, j \in DOMAIN s : i < j =>
      /\ s[i].bill # s[j].bill
      /\ s[i].row.createdAt >= s[j].row.createdAt

\* A listing that reached its last page has shown every bill that had the status
\* when it began and still has it; only one created at the very instant of a bill
\* that was shown may be missing (pages are cut by created_at alone). Holds where the
\* rows of no page broke off.
NoneMissed ==
  \A l \in Lister : lister[l].stage = "done" /\ ~lister[l].cut =>
    \A b \in lister[l].due :
      row[b].status = lister[l].status =>
        \E i \in DOMAIN lister[l].shown : LET e == lister[l].shown[i] IN
          e.bill = b \/ e.row.createdAt = row[b].createdAt

\* The total listed for a bill, live or persisted, is one the bill has had since
\* its page was read, also when it was charged or closed in between; only an open
\* bill may be listed without one.
ListedTotalIsCurrent ==
  [][\A l \in Lister : lister'[l].shown # lister[l].shown =>
       LET e == Last(lister'[l].shown) IN
       IF e.total = Unknown THEN e.row.status = "OPEN"
                            ELSE e.total \in lister[l].since[e.bill]]_vars

\* A listing never reads in circles, whatever limit it was asked for and whatever is
\* created or closed meanwhile: it goes back to the table only from an older bill
\* than before (the cursor is cut from the last one of the page), and each bill of a
\* page is shown once. The order is well-founded: a listing takes finitely many steps.
ListingMovesOn ==
  [][\A l \in Lister : ListStep(l) =>
       \/ lister'[l].cursor < lister[l].cursor
       \/ /\ lister'[l].cursor = lister[l].cursor
          /\ \/ lister[l].stage = "asked" /\ lister'[l].stage # "asked"
             \/ lister[l].stage = "filling" /\ lister'[l].stage = "done"
             \/ /\ lister'[l].stage = lister[l].stage
                /\ Len(lister'[l].page) < Len(lister[l].page)]_vars

\* Every listing whose limit is not negative and not the largest int comes to an
\* end, although bills are created meanwhile. A page that promises more without a
\* bill to go on from would be asked for for ever.
ListingEnds ==
  \A l \in Lister :
    (lister[l].stage = "asked" /\ lister[l].limit \in 0..MaxInt - 1) ~> lister[l].stage = "done"

\* The detail of a closed bill adds up, although its row and its line items are
\* read by two statements. Holds where the total billed is that of the rows
\* (LedgerAgrees of BillLifecycle) and the rows did not break off.
ClosedDetailAddsUp ==
  \A g \in Getter :
    getter[g].stage = "done" /\ getter[g].row.status = "CLOSED" /\ ~getter[g].cut
    => getter[g].row.total = getter[g].lines
=============================================================================
