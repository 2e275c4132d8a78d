--------------------------- MODULE BillQueriesProofs ---------------------------
(***************************************************************************)
(* Theorems about BillQueries for any number of bills, of clients and of   *)
(* pages, whatever the clients ask for.                                    *)
(***************************************************************************)
EXTENDS BillQueries, FiniteSetTheorems, TLAPS

-----------------------------------------------------------------------------
(***************************************************************************)
(* Types, and the bills themselves: where a workflow stands tells how far  *)
(* its total is from its rows.                                             *)
(***************************************************************************)
Listing ==
  [stage : {"idle", "refused", "asked", "error", "panicked", "filling", "done"},
   status : {"none", "OPEN", "CLOSED", "SETTLED", "invalid"}, limit : Int,
   cursor : 0..MaxClock, page : Seq(Entry), more : BOOLEAN, shown : Seq(Entry),
   due : SUBSET BillID, cut : BOOLEAN, since : [BillID -> SUBSET Int]]

Detail == [stage : {"idle", "row", "done", "NotFound"}, row : BillRow,
           lines : 0..MaxLines, cut : BOOLEAN]

Requested ==
  /\ lister \in [Lister -> Listing]
  /\ getter \in [Getter -> Detail]
  /\ \A l \in Lister : lister[l].stage # "idle" => lister[l].limit # 0

BillInv(b) ==
  /\ live[b].at = "none" => row[b].status = "absent"
  /\ live[b].at \in {"none", "creating"} => lines[b] = 0 /\ live[b].total = 0
  /\ live[b].at \in {"loop", "closed", "failed"} => live[b].total = lines[b]
  /\ live[b].at = "added" => live[b].total + 1 = lines[b]
  /\ live[b].at = "voided" => live[b].total = lines[b] + 1
  /\ row[b].status = "CLOSED" => live[b].at = "closed" /\ row[b].total = live[b].total

BillsInv ==
  /\ clock \in 0..MaxClock
  /\ row \in [BillID -> BillRow]
  /\ lines \in [BillID -> 0..MaxLines]
  /\ live \in [BillID -> Workflow]
  /\ \A b \in BillID : BillInv(b)

TypeInv == BillsInv /\ Requested

LEMMA TypeInvOK == TypeInv => TypeOK
BY DEF TypeInv, TypeOK, BillsInv, Requested, Listing, Detail

LEMMA TypeInvInit == Init => TypeInv
<1> SUFFICES ASSUME Init PROVE TypeInv
  OBVIOUS
<1>1. BillsInv
  BY QueryAssumption DEF Init, BillsInv, BillInv, BillRow, Workflow, NoRow
<1>2. <<>> \in Seq(Entry) /\ NoTotals \in [BillID -> SUBSET Int] /\ NoRow \in BillRow
  BY QueryAssumption DEF NoTotals, NoRow, BillRow
<1>3. Requested
  BY <1>2, QueryAssumption DEF Init, Requested, Listing, Detail
<1> QED BY <1>1, <1>3 DEF TypeInv

\* What a step may do to a bill: a row that others see keeps its time, and one that
\* is closed keeps everything.
Keeps(b) ==
  /\ Visible(b) => Visible(b)' /\ row'[b].createdAt = row[b].createdAt
  /\ Visible(b) => row'[b].status \in {row[b].status, "CLOSED"}
  /\ row[b].status = "CLOSED" => row'[b] = row[b]

LEMMA OtherBill ==
  ASSUME BillsInv, NEW b \in BillID, BillInv(b), row'[b] = row[b],
         live'[b] = live[b], lines'[b] = lines[b]
  PROVE  BillInv(b)' /\ Keeps(b)
BY DEF BillInv, Keeps, Visible

LEMMA BillStepKeeps ==
  ASSUME BillsInv, NEW b \in BillID, BillStep(b)
  PROVE  BillsInv' /\ \A c \in BillID : Keeps(c)
<1>0. /\ row \in [BillID -> BillRow] /\ lines \in [BillID -> 0..MaxLines]
      /\ live \in [BillID -> Workflow] /\ clock \in 0..MaxClock
      /\ BillInv(b)
  BY DEF BillsInv
<1>1. /\ row' \in [BillID -> BillRow] /\ lines' \in [BillID -> 0..MaxLines]
      /\ live' \in [BillID -> Workflow] /\ clock' = clock
      /\ BillInv(b)' /\ Keeps(b)
      /\ \A c \in BillID \ {b} : row'[c] = row[c] /\ live'[c] = live[c] /\ lines'[c] = lines[c]
  <2>1. CASE CreateBillBegins(b)
    <3>1. PICK r \in BillRow : r.status = "inserting" /\ row' = [row EXCEPT ![b] = r]
      <4>1. [row[b] EXCEPT !.status = "inserting", !.createdAt = clock] \in BillRow
        BY <1>0 DEF BillRow
      <4> QED BY <1>0, <2>1, <4>1 DEF CreateBillBegins, BillRow
    <3>2. PICK w \in Workflow : /\ w.at = "creating" /\ w.total = live[b].total
                                /\ live' = [live EXCEPT ![b] = w]
      <4>1. [live[b] EXCEPT !.at = "creating"] \in Workflow
        BY <1>0 DEF Workflow
      <4> QED BY <1>0, <2>1, <4>1 DEF CreateBillBegins, Workflow
    <3>3. live[b].at = "none" /\ UNCHANGED <<lines, clock>>
      BY <2>1 DEF CreateBillBegins
    <3> QED BY <1>0, <3>1, <3>2, <3>3 DEF BillInv, Keeps, Visible
  <2>2. CASE CreateBillCommits(b)
    BY <1>0, <2>2 DEF CreateBillCommits, BillRow, Workflow, BillInv, Keeps, Visible
  <2>3. CASE CreateBillReturns(b)
    BY <1>0, <2>3 DEF CreateBillReturns, BillRow, Workflow, BillInv, Keeps, Visible
  <2>4. CASE InsertOrVoid(b)
    <3>1. live[b] \in Workflow /\ lines[b] \in 0..MaxLines /\ MaxLines \in Nat
      BY <1>0, QueryAssumption
    <3>2. PICK p \in {"added", "voided"} : live' = [live EXCEPT ![b].at = p]
      BY <2>4 DEF InsertOrVoid
    <3>3. PICK n \in 0..MaxLines :
            /\ lines' = [lines EXCEPT ![b] = n]
            /\ live'[b].at = "added" => n = lines[b] + 1
            /\ live'[b].at = "voided" => lines[b] = n + 1
      <4>1. CASE lines[b] < MaxLines /\ lines' = [lines EXCEPT ![b] = @ + 1]
                   /\ live' = [live EXCEPT ![b].at = "added"]
        <5>1. lines[b] + 1 \in 0..MaxLines /\ live'[b].at = "added"
          BY <1>0, <3>1, <4>1 DEF Workflow
        <5> QED BY <4>1, <5>1
      <4>2. CASE lines[b] > 0 /\ lines' = [lines EXCEPT ![b] = @ - 1]
                   /\ live' = [live EXCEPT ![b].at = "voided"]
        <5>1. /\ lines[b] - 1 \in 0..MaxLines /\ lines[b] = (lines[b] - 1) + 1
              /\ live'[b].at = "voided"
          BY <1>0, <3>1, <4>2 DEF Workflow
        <5> QED BY <4>2, <5>1
      <4> QED BY <2>4, <4>1, <4>2 DEF InsertOrVoid
    <3>4. PICK w \in Workflow : /\ w.at = p /\ w.total = live[b].total
                                /\ live' = [live EXCEPT ![b] = w]
      <4>1. [live[b] EXCEPT !.at = p] \in Workflow
        BY <3>1 DEF Workflow
      <4> QED BY <3>1, <3>2, <4>1 DEF Workflow
    <3>5. UNCHANGED <<row, clock>> /\ live[b].at = "loop"
      BY <2>4 DEF InsertOrVoid
    <3> QED BY <1>0, <3>3, <3>4, <3>5 DEF BillInv, Keeps, Visible
  <2>5. CASE Count(b)
    <3>1. /\ live[b].total \in Nat /\ lines[b] \in Nat
          /\ live[b].at = "voided" => live[b].total - 1 = lines[b]
      BY <1>0, QueryAssumption DEF Workflow, BillInv
    <3>2. PICK w \in Workflow : /\ w.at = "loop" /\ w.total = lines[b]
                                /\ live' = [live EXCEPT ![b] = w]
      <4>1. [at |-> "loop", total |-> lines[b]] \in Workflow
        BY <3>1 DEF Workflow
      <4>2. live' = [live EXCEPT ![b] = [at |-> "loop", total |-> lines[b]]]
        BY <1>0, <2>5, <3>1 DEF Count, BillInv
      <4> QED BY <4>1, <4>2
    <3> QED BY <1>0, <2>5, <3>2 DEF Count, BillInv, Keeps, Visible
  <2>6. CASE Close(b)
    <3>1. live[b].at = "loop" /\ UNCHANGED <<lines, clock>>
      BY <2>6 DEF Close
    <3>2. PICK p \in {"closed", "failed"} : /\ live' = [live EXCEPT ![b].at = p]
                                            /\ p = "failed" => row' = row
                                            /\ p = "closed" => row' = [row EXCEPT
                                                 ![b].status = "CLOSED",
                                                 ![b].total = live[b].total]
      BY <2>6 DEF Close
    <3>3. PICK w \in Workflow : /\ w.at = p /\ w.total = live[b].total
                                /\ live' = [live EXCEPT ![b] = w]
      <4>1. [live[b] EXCEPT !.at = p] \in Workflow
        BY <1>0 DEF Workflow
      <4> QED BY <1>0, <3>2, <4>1 DEF Workflow
    <3>4. CASE p = "failed"
      BY <1>0, <3>1, <3>2, <3>3, <3>4 DEF BillInv, Keeps, Visible
    <3>5. CASE p = "closed"
      <4>1. PICK r \in BillRow : /\ r.status = "CLOSED" /\ r.total = live[b].total
                                 /\ r.createdAt = row[b].createdAt
                                 /\ row' = [row EXCEPT ![b] = r]
        <5>0. live[b].total \in Nat /\ row[b] \in BillRow
          BY <1>0 DEF Workflow
        <5>1. [row[b] EXCEPT !.status = "CLOSED", !.total = live[b].total] \in BillRow
          BY <5>0 DEF BillRow
        <5> QED BY <1>0, <3>2, <3>5, <5>1 DEF BillRow
      <4> QED BY <1>0, <3>1, <3>3, <3>5, <4>1 DEF BillInv, Keeps, Visible
    <3> QED BY <3>4, <3>5
  <2> QED BY <2>1, <2>2, <2>3, <2>4, <2>5, <2>6 DEF BillStep
<1>2. \A c \in BillID \ {b} : BillInv(c)' /\ Keeps(c)
  BY <1>1, OtherBill DEF BillsInv
<1> QED BY <1>0, <1>1, <1>2 DEF BillsInv

LEMMA BillsNext ==
  ASSUME BillsInv, [Next]_vars
  PROVE  BillsInv' /\ \A b \in BillID : Keeps(b)
<1>1. CASE UNCHANGED bills /\ clock' \in 0..MaxClock
  BY <1>1, OtherBill DEF bills, BillsInv
<1>2. CASE \E b \in BillID : BillStep(b)
  BY <1>2, BillStepKeeps
<1>3. CASE Tick
  BY <1>1, <1>3, QueryAssumption DEF Tick, BillsInv
<1>4. CASE \E l \in Lister : GetBills(l) \/ ListStep(l)
  BY <1>1, <1>4 DEF GetBills, ListStep, ReadPage, ShowBill, AnswerPage, BillsInv
<1>5. CASE \E g \in Getter : GetBillDetail(g)
  BY <1>1, <1>5 DEF GetBillDetail, BillsInv
<1>6. CASE UNCHANGED vars
  BY <1>1, <1>6 DEF vars, BillsInv
<1> QED BY <1>2, <1>3, <1>4, <1>5, <1>6 DEF Next
-----------------------------------------------------------------------------
(***************************************************************************)
(* A page: the newest bills that match, each of them once; what is left    *)
(* out is no newer than any of them.                                       *)
(***************************************************************************)
LEMMA NewestSorted ==
  ASSUME NEW S \in SUBSET BillID, NEW n \in Nat, NEW q \in Newest(S, n)
  PROVE  /\ q \in Seq(S) /\ Len(q) <= n
         /\ \A i, j \in 1..Len(q) : i # j => q[i] # q[j]
         /\ \A i \in 1..Len(q), b \in S :
              (\A j \in 1..i : q[j] # b) => row[q[i]].createdAt >= row[b].createdAt
         /\ Len(q) < n => \A b \in S : \E i \in 1..Len(q) : q[i] = b
<1>1. IsFiniteSet(S) /\ Cardinality(S) \in Nat
  BY QueryAssumption, FS_Subset, FS_CardinalityType
<1>2. PICK T \in SUBSET S : q \in SetToSeqs(T)
  BY DEF Newest, SetToAllKPermutations
<1>3. Cardinality(T) \in Nat
  BY <1>1, FS_Subset, FS_CardinalityType
<1>4. q \in [1..Cardinality(T) -> S] /\ \A i, j \in DOMAIN q : i # j => q[i] # q[j]
  BY <1>2 DEF SetToSeqs
<1>5. q \in Seq(S) /\ DOMAIN q = 1..Len(q) /\ Len(q) = Cardinality(T)
  BY <1>3, <1>4
<1>6. Len(q) = IF Cardinality(S) < n THEN Cardinality(S) ELSE n
  BY DEF Newest
<1>7. Len(q) < n => \A b \in S : \E i \in 1..Len(q) : q[i] = b
  <2> SUFFICES ASSUME Len(q) < n PROVE \A b \in S : \E i \in 1..Len(q) : q[i] = b
    OBVIOUS
  <2>1. Len(q) = Cardinality(S)
    BY <1>6
  <2>2. Cardinality(1..Len(q)) = Cardinality(S)
    BY <1>1, <2>1, FS_Interval
  <2>3. q \in Injection(1..Len(q), S)
    BY <1>4, <1>5 DEF Injection, IsInjective
  <2>4. q \in Surjection(1..Len(q), S)
    BY <1>1, <2>2, <2>3, FS_Injection
  <2> QED BY <2>4 DEF Surjection
<1> QED BY <1>1, <1>4, <1>5, <1>6, <1>7 DEF Newest

LEMMA FirstOf ==
  ASSUME NEW S, NEW s \in Seq(S), NEW k \in Nat, k <= Len(s)
  PROVE  /\ SubSeq(s, 1, k) \in Seq(S) /\ Len(SubSeq(s, 1, k)) = k
         /\ DOMAIN SubSeq(s, 1, k) = 1..k
         /\ \A i \in 1..k : SubSeq(s, 1, k)[i] = s[i]
OBVIOUS

\* A request whose record becomes r.
LEMMA RequestBecomes ==
  ASSUME lister \in [Lister -> Listing], NEW l \in Lister, NEW r \in Listing,
         lister' = [lister EXCEPT ![l] = r]
  PROVE  /\ lister' \in [Lister -> Listing] /\ lister'[l] = r
         /\ \A m \in Lister \ {l} : lister'[m] = lister[m]
OBVIOUS

LEMMA PageScanned ==
  ASSUME TypeInv, NEW l \in Lister, ReadPage(l), LookAhead(lister[l].limit) >= 0
  PROVE  LET p == lister'[l].page IN
         /\ lister' \in [Lister -> Listing]
         /\ lister'[l].stage \in {"filling", "panicked"}
         /\ lister'[l].status = lister[l].status /\ lister'[l].shown = lister[l].shown
         /\ lister'[l].cursor = lister[l].cursor /\ lister'[l].limit = lister[l].limit
         /\ lister'[l].due = IF lister[l].shown = <<>> THEN Matching(l) ELSE lister[l].due
         /\ lister'[l].since = [b \in BillID |-> {live[b].total}]
         /\ ~lister'[l].cut => ~lister[l].cut
         /\ p \in Seq(Entry)
         /\ \A i \in 1..Len(p) : /\ p[i].bill \in Matching(l) /\ p[i].row = row[p[i].bill]
                                 /\ p[i].total = row[p[i].bill].total
         /\ \A i, j \in 1..Len(p) : i < j =>
              p[i].bill # p[j].bill /\ p[i].row.createdAt >= p[j].row.createdAt
         /\ \A b \in Matching(l) :
              \/ \E i \in 1..Len(p) : p[i].bill = b
              \/ \A i \in 1..Len(p) : p[i].row.createdAt >= row[b].createdAt
         /\ lister'[l].stage = "filling" /\ lister'[l].more => p # <<>>
         /\ lister'[l].stage = "filling" /\ ~lister'[l].more /\ ~lister'[l].cut =>
              \A b \in Matching(l) : \E i \in 1..Len(p) : p[i].bill = b
<1> DEFINE limit == lister[l].limit
           S == Matching(l)
           Scanned(q) == [i \in DOMAIN q |->
                            [bill |-> q[i], row |-> row[q[i]], total |-> row[q[i]].total]]
<1>0. /\ lister \in [Lister -> Listing] /\ row \in [BillID -> BillRow]
      /\ live \in [BillID -> Workflow] /\ lister[l] \in Listing
      /\ limit \in Int /\ limit # 0
  BY DEF TypeInv, BillsInv, Requested, Listing, ReadPage
<1>1. S \in SUBSET BillID
  BY DEF Matching
<1>2. limit \in Nat \ {0} \/ limit < 0
  BY <1>0
<1>3. LookAhead(limit) \in Nat /\ LookAhead(limit) = limit + 1
        /\ ~(LookAhead(lister[l].limit) < 0)
  BY <1>0, QueryAssumption DEF LookAhead
<1>4. PICK all \in Newest(S, LookAhead(limit)), k \in 0..Cardinality(BillID) :
        /\ k <= Len(all)
        /\ LET q == SubSeq(all, 1, k) IN
           lister' = [lister EXCEPT ![l] = [@ EXCEPT
             !.stage = IF Len(q) > limit /\ limit < 0 THEN "panicked" ELSE "filling",
             !.more = (Len(q) > limit),
             !.page = IF Len(q) > limit THEN SubSeq(Scanned(q), 1, limit) ELSE Scanned(q),
             !.due = IF lister[l].shown = <<>> THEN Matching(l) ELSE lister[l].due,
             !.cut = lister[l].cut \/ k < Len(all),
             !.since = [b \in BillID |-> {live[b].total}]]]
  BY <1>3 DEF ReadPage
<1> DEFINE q == SubSeq(all, 1, k)
           p == lister'[l].page
<1>5. all \in Newest(S, LookAhead(limit)) /\ k \in 0..Cardinality(BillID) /\ k <= Len(all)
  BY <1>4
<1> HIDE DEF limit, S, p
<1>6. /\ all \in Seq(S) /\ Len(all) <= limit + 1 /\ Len(all) \in Nat
      /\ \A i, j \in 1..Len(all) : i # j => all[i] # all[j]
      /\ \A i \in 1..Len(all), b \in S :
           (\A j \in 1..i : all[j] # b) => row[all[i]].createdAt >= row[b].createdAt
      /\ Len(all) < limit + 1 => \A b \in S : \E i \in 1..Len(all) : all[i] = b
  BY <1>1, <1>3, <1>5, NewestSorted
<1>7. k \in Nat /\ k <= Len(all)
  BY <1>5, <1>6, FS_CardinalityType, QueryAssumption
<1>8. q \in Seq(S) /\ Len(q) = k /\ DOMAIN q = 1..k /\ \A i \in 1..k : q[i] = all[i]
  BY <1>6, <1>7, FirstOf
<1> HIDE DEF q
<1>9. \A b \in S : b \in BillID /\ row[b] \in BillRow
  BY <1>0, <1>1
<1> DEFINE Scan == Scanned(q)
<1>10. /\ Scan \in Seq(Entry) /\ Len(Scan) = k
       /\ \A i \in 1..k : Scan[i] = [bill |-> q[i], row |-> row[q[i]], total |-> row[q[i]].total]
  BY <1>7, <1>8, <1>9 DEF Entry, BillRow
<1>11. k > limit => (limit \in Nat \ {0} /\ k = limit + 1) \/ limit < 0
  BY <1>2, <1>6, <1>7
<1>12. lister[l].due \in SUBSET BillID /\ lister[l].cut \in BOOLEAN
  BY <1>0 DEF Listing
\* How many bills the page has, and what else becomes of the request.
<1> DEFINE n == IF k > limit THEN IF limit < 0 THEN 0 ELSE limit ELSE k
           page == IF k > limit THEN SubSeq(Scan, 1, limit) ELSE Scan
           stage == IF k > limit /\ limit < 0 THEN "panicked" ELSE "filling"
           due == IF lister[l].shown = <<>> THEN Matching(l) ELSE lister[l].due
           cut == lister[l].cut \/ k < Len(all)
           more == k > limit
           since == [b \in BillID |-> {live[b].total}]
<1>13. n \in Nat /\ n <= k
  BY <1>0, <1>7
<1>14. /\ page \in Seq(Entry) /\ Len(page) = n
       /\ \A i \in 1..n :
            page[i] = [bill |-> q[i], row |-> row[q[i]], total |-> row[q[i]].total]
  <2> HIDE DEF Scan
  <2>1. CASE k > limit /\ limit < 0
    BY <1>0, <1>10, <2>1
  <2>2. CASE ~(k > limit /\ limit < 0)
    BY <1>0, <1>10, <1>13, <2>2, FirstOf
  <2> QED BY <2>1, <2>2
<1> DEFINE r == [lister[l] EXCEPT !.stage = stage, !.more = more, !.page = page,
                   !.due = due, !.cut = cut, !.since = since]
<1>15. lister' = [lister EXCEPT ![l] = r]
  <2>1. Len(q) = k
    BY <1>8
  <2>2. lister' = [lister EXCEPT ![l] = [@ EXCEPT
          !.stage = IF k > limit /\ limit < 0 THEN "panicked" ELSE "filling",
          !.more = (k > limit),
          !.page = IF k > limit THEN SubSeq(Scanned(q), 1, limit) ELSE Scanned(q),
          !.due = IF lister[l].shown = <<>> THEN Matching(l) ELSE lister[l].due,
          !.cut = lister[l].cut \/ k < Len(all),
          !.since = [b \in BillID |-> {live[b].total}]]]
    BY <1>4, <2>1 DEF q, limit
  <2> QED BY <2>2, Zenon
<1> HIDE DEF r
<1>16. due \in SUBSET BillID /\ since \in [BillID -> SUBSET Int]
  BY <1>0, <1>1, <1>12 DEF Workflow, S
<1> HIDE DEF n, page, due, since, stage, cut, more
<1>17. stage \in {"filling", "panicked"} /\ cut \in BOOLEAN /\ more \in BOOLEAN
  BY <1>12 DEF stage, cut, more
<1>18. /\ lister' \in [Lister -> Listing]
       /\ p = page /\ lister'[l].stage = stage /\ lister'[l].more = more
       /\ lister'[l].cut = cut /\ lister'[l].due = due /\ lister'[l].since = since
       /\ lister'[l].status = lister[l].status /\ lister'[l].shown = lister[l].shown
       /\ lister'[l].cursor = lister[l].cursor /\ lister'[l].limit = lister[l].limit
  <2>1. /\ r \in Listing
        /\ r.stage = stage /\ r.more = more /\ r.page = page /\ r.due = due
        /\ r.cut = cut /\ r.since = since /\ r.status = lister[l].status
        /\ r.shown = lister[l].shown /\ r.cursor = lister[l].cursor
        /\ r.limit = lister[l].limit
    <3>1. /\ lister[l] \in Listing /\ page \in Seq(Entry) /\ due \in SUBSET BillID
          /\ stage \in {"filling", "panicked"} /\ cut \in BOOLEAN /\ more \in BOOLEAN
          /\ since \in [BillID -> SUBSET Int]
      BY <1>0, <1>14, <1>16, <1>17
    <3> QED BY <3>1 DEF Listing, r
  <2>2. lister' \in [Lister -> Listing] /\ lister'[l] = r
    BY <1>0, <1>15, <2>1, RequestBecomes
  <2> QED BY <2>1, <2>2 DEF p
<1>19. \A i \in 1..n : i \in 1..k /\ i \in 1..Len(all) /\ q[i] = all[i] /\ all[i] \in S
  BY <1>6, <1>7, <1>8, <1>13
<1>20. \A i, j \in 1..n : i < j =>
         p[i].bill # p[j].bill /\ p[i].row.createdAt >= p[j].row.createdAt
  <2> SUFFICES ASSUME NEW i \in 1..n, NEW j \in 1..n, i < j
               PROVE  /\ p[i].bill # p[j].bill
                      /\ p[i].row.createdAt >= p[j].row.createdAt
    OBVIOUS
  <2>1. p[i].bill = all[i] /\ p[j].bill = all[j]
        /\ p[i].row = row[all[i]] /\ p[j].row = row[all[j]]
    BY <1>14, <1>18, <1>19
  <2>2. all[i] # all[j] /\ \A m \in 1..i : all[m] # all[j]
    BY <1>6, <1>13, <1>19
  <2>3. row[all[i]].createdAt >= row[all[j]].createdAt
    BY <1>6, <1>19, <2>2
  <2> QED BY <2>1, <2>2, <2>3
<1>21. \A b \in S : \/ \E i \in 1..n : p[i].bill = b
                    \/ \A i \in 1..n : p[i].row.createdAt >= row[b].createdAt
  <2> SUFFICES ASSUME NEW b \in S, \A i \in 1..n : p[i].bill # b, NEW i \in 1..n
               PROVE  p[i].row.createdAt >= row[b].createdAt
    OBVIOUS
  <2>1. \A m \in 1..n : all[m] # b
    BY <1>14, <1>18, <1>19
  <2>2. \A m \in 1..i : all[m] # b
    BY <1>13, <2>1
  <2>3. row[all[i]].createdAt >= row[b].createdAt
    BY <1>6, <1>19, <2>2
  <2> QED BY <1>14, <1>18, <1>19, <2>3
<1>22. stage = "filling" /\ k > limit => p # <<>>
  <2>1. stage = "filling" /\ k > limit => n >= 1
    BY <1>0, <1>11 DEF n, stage
  <2> QED BY <1>14, <1>18, <2>1
<1>23. stage = "filling" /\ ~(k > limit) /\ ~cut => \A b \in S : \E i \in 1..n : p[i].bill = b
  <2>1. ~(k > limit) /\ ~cut => n = k /\ k = Len(all) /\ Len(all) < limit + 1
    BY <1>0, <1>6, <1>7 DEF n, cut
  <2> QED BY <1>6, <1>14, <1>18, <1>19, <2>1
<1>24. \A i \in 1..n : /\ p[i].bill \in S /\ p[i].row = row[p[i].bill]
                       /\ p[i].total = row[p[i].bill].total
  BY <1>14, <1>18, <1>19
<1> QED BY <1>14, <1>18, <1>20, <1>21, <1>17, <1>22, <1>23, <1>24 DEF p, S, due, since, cut, more
-----------------------------------------------------------------------------
(***************************************************************************)
(* What the other steps make of a request.                                 *)
(***************************************************************************)
\* Nothing but the totals noted for the bills on its page.
Unmoved(m) ==
  /\ lister'[m].stage = lister[m].stage /\ lister'[m].status = lister[m].status
  /\ lister'[m].limit = lister[m].limit /\ lister'[m].cursor = lister[m].cursor
  /\ lister'[m].page = lister[m].page /\ lister'[m].shown = lister[m].shown
  /\ lister'[m].more = lister[m].more /\ lister'[m].due = lister[m].due
  /\ lister'[m].cut = lister[m].cut

\* A request that notes totals misses none.
Noted(m) == \A b \in BillID : live[b].total \in lister[m].since[b]
Notes(m) ==
  Noted(m) => Noted(m)' /\ \A b \in BillID : lister[m].since[b] \subseteq lister'[m].since[b]

LEMMA AskedListing ==
  ASSUME TypeInv, NEW l \in Lister, GetBills(l)
  PROVE  /\ lister' \in [Lister -> Listing]
         /\ lister[l].stage = "idle" /\ lister'[l].stage \in {"refused", "asked"}
         /\ lister'[l].limit # 0
         /\ lister'[l].page = lister[l].page /\ lister'[l].shown = lister[l].shown
         /\ lister'[l].due = lister[l].due
<1>0. lister \in [Lister -> Listing] /\ lister[l] \in Listing /\ clock \in 0..MaxClock
  BY DEF TypeInv, Requested, BillsInv
<1>1. PICK r \in Request :
        LET s == ToBillStatus(ToUpper[r.status]) IN
        lister' = [lister EXCEPT ![l].status = s, ![l].limit = LimitOf(r.limit),
                     ![l].cursor = clock,
                     ![l].stage = IF s = "invalid" \/ r.cursor = "garbled"
                                  THEN "refused" ELSE "asked"]
  BY DEF GetBills
<1> DEFINE status == ToBillStatus(ToUpper[r.status])
           limit == LimitOf(r.limit)
           stage == IF status = "invalid" \/ r.cursor = "garbled" THEN "refused" ELSE "asked"
           n == [lister[l] EXCEPT !.status = status, !.limit = limit, !.cursor = clock,
                                  !.stage = stage]
<1>2. /\ status \in {"OPEN", "CLOSED", "SETTLED", "invalid"} /\ stage \in {"refused", "asked"}
      /\ limit \in Int /\ limit # 0
  BY QueryAssumption DEF ToBillStatus, LimitOf
<1>3. lister' = [lister EXCEPT ![l] = n]
  BY <1>0, <1>1
<1> HIDE DEF status, limit, stage
<1>4. /\ n \in Listing /\ n.stage = stage /\ n.limit = limit
      /\ n.page = lister[l].page /\ n.shown = lister[l].shown /\ n.due = lister[l].due
  BY <1>0, <1>2 DEF Listing
<1> HIDE DEF n
<1>5. lister[l].stage = "idle"
  BY DEF GetBills
<1> QED BY <1>0, <1>2, <1>3, <1>4, <1>5, RequestBecomes

LEMMA LiveTotals ==
  ASSUME NEW b, NEW t \in LiveTotal(b)
  PROVE  t = Unknown \/ t = live[b].total
BY DEF LiveTotal

LEMMA ShownBill ==
  ASSUME TypeInv, NEW l \in Lister, ShowBill(l)
  PROVE  LET e == Head(lister[l].page) IN
         /\ lister' \in [Lister -> Listing]
         /\ lister[l].stage = "filling" /\ lister[l].page # <<>> /\ e \in Entry
         /\ lister'[l].page = Tail(lister[l].page)
         /\ \E n \in Entry :
              /\ n.bill = e.bill /\ n.row = e.row
              /\ n.total \in IF e.row.status = "OPEN" THEN LiveTotal(e.bill)
                                                      ELSE {e.row.total}
              /\ lister'[l].shown = Append(lister[l].shown, n)
         /\ lister'[l].stage = "filling" /\ lister'[l].status = lister[l].status
         /\ lister'[l].more = lister[l].more /\ lister'[l].due = lister[l].due
         /\ lister'[l].cut = lister[l].cut /\ lister'[l].since = lister[l].since
         /\ lister'[l].limit = lister[l].limit /\ lister'[l].cursor = lister[l].cursor
<1> DEFINE e == Head(lister[l].page)
<1>0. /\ lister \in [Lister -> Listing] /\ lister[l] \in Listing
      /\ lister[l].stage = "filling" /\ lister[l].page # <<>>
      /\ lister[l].page \in Seq(Entry) /\ lister[l].shown \in Seq(Entry)
  BY DEF TypeInv, Requested, ShowBill, Listing
<1>1. e \in Entry /\ Tail(lister[l].page) \in Seq(Entry)
  BY <1>0
<1>2. PICK t \in IF e.row.status = "OPEN" THEN LiveTotal(e.bill) ELSE {e.row.total} :
        lister' = [lister EXCEPT ![l].page = Tail(@),
                                 ![l].shown = Append(@, [e EXCEPT !.total = t])]
  BY DEF ShowBill
<1>3. t \in Nat \cup {Unknown}
  <2>1. live \in [BillID -> Workflow]
    BY DEF TypeInv, BillsInv
  <2>2. e.bill \in BillID /\ e.row \in BillRow
    <3> HIDE DEF e
    <3> QED BY <1>1 DEF Entry
  <2> HIDE DEF e
  <2>3. e.row.total \in Nat /\ live[e.bill].total \in Nat
    BY <2>1, <2>2 DEF BillRow, Workflow
  <2>4. t = Unknown \/ t = live[e.bill].total \/ t = e.row.total
    BY <1>2, LiveTotals
  <2> QED BY <2>3, <2>4
<1>4. PICK x : x = [e EXCEPT !.total = t]
  OBVIOUS
<1>5. x \in Entry /\ x.bill = e.bill /\ x.row = e.row /\ x.total = t
  BY <1>1, <1>3, <1>4 DEF Entry
<1> DEFINE shown == Append(lister[l].shown, x)
           page == Tail(lister[l].page)
           n == [lister[l] EXCEPT !.page = page, !.shown = shown]
<1>6. shown \in Seq(Entry)
  BY <1>0, <1>5
<1>7. lister' = [lister EXCEPT ![l] = n]
  BY <1>0, <1>2, <1>4
<1> HIDE DEF page, shown
<1>8. /\ n \in Listing /\ n.page = page /\ n.shown = shown /\ n.stage = lister[l].stage
      /\ n.status = lister[l].status /\ n.more = lister[l].more /\ n.due = lister[l].due
      /\ n.cut = lister[l].cut /\ n.since = lister[l].since /\ n.limit = lister[l].limit
      /\ n.cursor = lister[l].cursor
  BY <1>0, <1>1, <1>6 DEF Listing, page
<1> HIDE DEF n
<1>9. lister' \in [Lister -> Listing] /\ lister'[l] = n
  BY <1>0, <1>7, <1>8, RequestBecomes
<1> QED BY <1>0, <1>1, <1>2, <1>5, <1>8, <1>9 DEF page, shown

LEMMA PageAnswered ==
  ASSUME TypeInv, NEW l \in Lister, AnswerPage(l)
  PROVE  /\ lister' \in [Lister -> Listing]
         /\ lister[l].stage = "filling" /\ lister[l].page = <<>>
         /\ lister'[l].stage = IF lister[l].more THEN "asked" ELSE "done"
         /\ lister'[l].cursor = IF lister[l].more /\ lister[l].shown # <<>>
                                THEN Last(lister[l].shown).row.createdAt ELSE lister[l].cursor
         /\ lister'[l].page = <<>> /\ lister'[l].shown = lister[l].shown
         /\ lister'[l].status = lister[l].status /\ lister'[l].due = lister[l].due
         /\ lister'[l].cut = lister[l].cut /\ lister'[l].limit = lister[l].limit
<1> DEFINE stage == IF lister[l].more THEN "asked" ELSE "done"
           cursor == IF lister[l].more /\ lister[l].shown # <<>>
                     THEN Last(lister[l].shown).row.createdAt ELSE lister[l].cursor
           n == [lister[l] EXCEPT !.stage = stage, !.since = NoTotals, !.cursor = cursor]
<1>0. /\ lister \in [Lister -> Listing] /\ lister[l] \in Listing
      /\ lister[l].stage = "filling" /\ lister[l].page = <<>>
      /\ lister[l].shown \in Seq(Entry) /\ lister[l].cursor \in 0..MaxClock
  BY DEF TypeInv, Requested, AnswerPage, Listing
<1>1. stage \in {"asked", "done"} /\ cursor \in 0..MaxClock
  <2>1. lister[l].shown # <<>> => Last(lister[l].shown) \in Entry
    BY <1>0 DEF Last
  <2> QED BY <1>0, <2>1 DEF Entry, BillRow
<1>2. lister' = [lister EXCEPT ![l] = n]
  BY <1>0 DEF AnswerPage
<1>3. NoTotals \in [BillID -> SUBSET Int]
  BY DEF NoTotals
<1> HIDE DEF stage, cursor
<1>4. /\ n \in Listing /\ n.stage = stage /\ n.cursor = cursor /\ n.page = lister[l].page
      /\ n.shown = lister[l].shown /\ n.status = lister[l].status /\ n.due = lister[l].due
      /\ n.cut = lister[l].cut /\ n.limit = lister[l].limit
  BY <1>0, <1>1, <1>3 DEF Listing
<1> HIDE DEF n
<1>5. lister' \in [Lister -> Listing] /\ lister'[l] = n
  BY <1>0, <1>2, <1>4, RequestBecomes
<1> QED BY <1>0, <1>4, <1>5 DEF stage, cursor

\* Every other step leaves a request where it is.
LEMMA Others ==
  ASSUME TypeInv, NEW l \in Lister, GetBills(l) \/ ListStep(l)
  PROVE  /\ \A m \in Lister \ {l} : lister'[m] = lister[m]
         /\ UNCHANGED <<bills, getter>>
<1>1. lister \in [Lister -> Listing]
  BY DEF TypeInv, Requested
<1>2. \A m \in Lister \ {l} : lister'[m] = lister[m]
  BY <1>1 DEF GetBills, ListStep, ReadPage, ShowBill, AnswerPage
<1>3. UNCHANGED <<bills, getter>>
  BY DEF GetBills, ListStep, ReadPage, ShowBill, AnswerPage
<1> QED BY <1>2, <1>3

LEMMA BillStepNotes ==
  ASSUME TypeInv, NEW b \in BillID, BillStep(b)
  PROVE  /\ lister' \in [Lister -> Listing] /\ getter' = getter
         /\ \A m \in Lister : Unmoved(m) /\ Notes(m)
<1>0. lister \in [Lister -> Listing] /\ live \in [BillID -> Workflow]
  BY DEF TypeInv, Requested, BillsInv
<1>1. CASE Count(b)
  <2>1. /\ lister' = [l \in Lister |-> IF lister[l].since = NoTotals THEN lister[l]
                        ELSE [lister[l] EXCEPT !.since[b] = @ \cup {live'[b].total}]]
        /\ UNCHANGED getter /\ \A c \in BillID \ {b} : live'[c] = live[c]
    BY <1>0, <1>1 DEF Count
  <2>2. live'[b].total \in Int
    BY <1>1, BillStepKeeps DEF TypeInv, BillStep, BillsInv, Workflow
  <2>3. ASSUME NEW m \in Lister
        PROVE  lister'[m] \in Listing /\ Unmoved(m) /\ Notes(m)
    <3>0. lister[m] \in Listing
      BY <1>0
    <3>1. CASE lister[m].since = NoTotals
      <4>1. lister'[m] = lister[m]
        BY <2>1, <3>1
      <4>2. ~Noted(m)
        BY <3>1 DEF Noted, NoTotals
      <4> QED BY <3>0, <4>1, <4>2 DEF Unmoved, Notes
    <3>2. CASE lister[m].since # NoTotals
      <4> DEFINE since == [lister[m].since EXCEPT ![b] = @ \cup {live'[b].total}]
                 n == [lister[m] EXCEPT !.since = since]
      <4>1. lister'[m] = n
        BY <2>1, <3>2
      <4>2. /\ since \in [BillID -> SUBSET Int]
            /\ \A c \in BillID : lister[m].since[c] \subseteq since[c]
            /\ live'[b].total \in since[b]
        BY <2>2, <3>0 DEF Listing
      <4> HIDE DEF since
      <4>3. /\ n \in Listing /\ n.since = since
            /\ n.stage = lister[m].stage /\ n.status = lister[m].status
            /\ n.limit = lister[m].limit /\ n.cursor = lister[m].cursor
            /\ n.page = lister[m].page /\ n.shown = lister[m].shown
            /\ n.more = lister[m].more /\ n.due = lister[m].due /\ n.cut = lister[m].cut
        BY <3>0, <4>2 DEF Listing
      <4> HIDE DEF n
      <4>4. Noted(m) => \A c \in BillID : live'[c].total \in lister'[m].since[c]
        BY <2>1, <4>1, <4>2, <4>3 DEF Noted
      <4> QED BY <4>1, <4>2, <4>3, <4>4 DEF Unmoved, Notes, Noted
    <3> QED BY <3>1, <3>2
  <2>4. lister' = [m \in Lister |-> lister'[m]]
    BY <2>1
  <2>5. lister' \in [Lister -> Listing]
    BY <2>3, <2>4
  <2> QED BY <2>1, <2>3, <2>5
<1>2. CASE CreateBillBegins(b) \/ CreateBillCommits(b) \/ CreateBillReturns(b)
             \/ InsertOrVoid(b) \/ Close(b)
  <2>1. UNCHANGED <<lister, getter>>
    BY <1>2 DEF CreateBillBegins, CreateBillCommits, CreateBillReturns, InsertOrVoid, Close
  <2>2. \A c \in BillID : live'[c].total = live[c].total
    <3>1. live' = live \/ \E p : live' = [live EXCEPT ![b].at = p]
      BY <1>2 DEF CreateBillBegins, CreateBillCommits, CreateBillReturns, InsertOrVoid, Close
    <3> QED BY <1>0, <3>1 DEF Workflow
  <2> QED BY <1>0, <2>1, <2>2 DEF Unmoved, Notes, Noted
<1> QED BY <1>1, <1>2 DEF BillStep

LEMMA PageRefused ==
  ASSUME TypeInv, NEW l \in Lister, ReadPage(l), ~(LookAhead(lister[l].limit) >= 0)
  PROVE  /\ lister' \in [Lister -> Listing]
         /\ lister'[l].stage = "error" /\ lister'[l].limit = lister[l].limit
         /\ lister'[l].page = lister[l].page /\ lister'[l].shown = lister[l].shown
         /\ lister'[l].due = lister[l].due /\ lister'[l].status = lister[l].status
         /\ lister'[l].cursor = lister[l].cursor
<1> DEFINE n == [lister[l] EXCEPT !.stage = "error"]
<1>0. lister \in [Lister -> Listing] /\ lister[l] \in Listing
  BY DEF TypeInv, Requested
<1>1. lister' = [lister EXCEPT ![l] = n]
  BY <1>0 DEF ReadPage
<1>2. /\ n \in Listing /\ n.stage = "error" /\ n.limit = lister[l].limit
      /\ n.page = lister[l].page /\ n.shown = lister[l].shown /\ n.due = lister[l].due
      /\ n.status = lister[l].status /\ n.cursor = lister[l].cursor
  BY <1>0 DEF Listing
<1> HIDE DEF n
<1> QED BY <1>0, <1>1, <1>2, RequestBecomes

\* What a step may be for a request.
LEMMA ListingStep ==
  ASSUME TypeInv, [Next]_vars
  PROVE  /\ lister' \in [Lister -> Listing]
         /\ \A m \in Lister : (Unmoved(m) /\ Notes(m)) \/ GetBills(m) \/ ListStep(m)
<1>0. lister \in [Lister -> Listing]
  BY DEF TypeInv, Requested
<1>1. CASE \E b \in BillID : BillStep(b)
  BY <1>1, BillStepNotes
<1>2. ASSUME NEW m \in Lister, lister'[m] = lister[m], UNCHANGED live
      PROVE  Unmoved(m) /\ Notes(m)
  BY <1>2 DEF Unmoved, Notes, Noted
<1>3. ASSUME NEW l \in Lister, GetBills(l) \/ ListStep(l)
      PROVE  /\ lister' \in [Lister -> Listing]
             /\ \A m \in Lister : (Unmoved(m) /\ Notes(m)) \/ GetBills(m) \/ ListStep(m)
  <2>1. lister' \in [Lister -> Listing]
    BY <1>3, AskedListing, PageRefused, PageScanned, ShownBill, PageAnswered DEF ListStep
  <2>2. (\A m \in Lister \ {l} : lister'[m] = lister[m]) /\ UNCHANGED live
    BY <1>3, Others DEF bills
  <2> QED BY <1>2, <1>3, <2>1, <2>2
<1>4. CASE Tick \/ (\E g \in Getter : GetBillDetail(g)) \/ UNCHANGED vars
  <2>1. UNCHANGED <<lister, live>>
    BY <1>4 DEF Tick, GetBillDetail, bills, vars
  <2> QED BY <1>0, <1>2, <2>1
<1> QED BY <1>1, <1>3, <1>4 DEF Next

LEMMA DetailStep ==
  ASSUME TypeInv, [Next]_vars
  PROVE  /\ getter' \in [Getter -> Detail]
         /\ \A g \in Getter : getter'[g] = getter[g] \/ GetBillDetail(g)
<1>0. /\ getter \in [Getter -> Detail] /\ row \in [BillID -> BillRow]
      /\ lines \in [BillID -> 0..MaxLines]
  BY DEF TypeInv, Requested, BillsInv
<1>1. ASSUME NEW g \in Getter, GetBillDetail(g)
      PROVE  /\ getter' \in [Getter -> Detail]
             /\ \A h \in Getter : getter'[h] = getter[h] \/ GetBillDetail(h)
  <2>0. row[g] \in BillRow /\ lines[g] \in 0..MaxLines /\ MaxLines \in Nat
    BY <1>0, QueryAssumption
  <2>1. CASE GetBillRow(g)
    BY <1>0, <1>1, <2>0, <2>1 DEF GetBillRow, Detail
  <2>2. CASE GetLineItemsForBill(g)
    <3>1. PICK n \in 0..lines[g] :
            getter' = [getter EXCEPT ![g].stage = "done", ![g].lines = n,
                                     ![g].cut = n < lines[g]]
      BY <2>2 DEF GetLineItemsForBill
    <3> DEFINE cut == n < lines[g]
               d == [getter[g] EXCEPT !.stage = "done", !.lines = n, !.cut = cut]
    <3>2. getter' = [getter EXCEPT ![g] = d]
      BY <1>0, <3>1
    <3>3. n \in 0..MaxLines /\ cut \in BOOLEAN
      BY <2>0
    <3> HIDE DEF cut
    <3>4. d \in Detail
      BY <1>0, <3>3 DEF Detail
    <3> HIDE DEF d
    <3> QED BY <1>0, <1>1, <3>2, <3>4
  <2> QED BY <1>1, <2>1, <2>2 DEF GetBillDetail
<1>2. CASE ~ \E g \in Getter : GetBillDetail(g)
  <2>1. getter' = getter
    BY <1>2, BillStepNotes, Others DEF Next, Tick, vars
  <2> QED BY <1>0, <2>1
<1> QED BY <1>1, <1>2

LEMMA TypeInvNext ==
  ASSUME TypeInv, [Next]_vars
  PROVE  TypeInv'
<1>1. \A l \in Lister : lister'[l].stage # "idle" => lister'[l].limit # 0
  <2> SUFFICES ASSUME NEW l \in Lister, lister'[l].stage # "idle"
               PROVE  lister'[l].limit # 0
    OBVIOUS
  <2>1. lister[l].stage # "idle" => lister[l].limit # 0
    BY DEF TypeInv, Requested
  <2>2. CASE Unmoved(l)
    BY <2>1, <2>2 DEF Unmoved
  <2>3. CASE GetBills(l)
    BY <2>3, AskedListing
  <2>4. CASE ReadPage(l)
    BY <2>1, <2>4, PageRefused, PageScanned DEF ReadPage
  <2>5. CASE ShowBill(l)
    BY <2>1, <2>5, ShownBill
  <2>6. CASE AnswerPage(l)
    BY <2>1, <2>6, PageAnswered
  <2> QED BY <2>2, <2>3, <2>4, <2>5, <2>6, ListingStep DEF ListStep
<1> QED BY <1>1, BillsNext, ListingStep, DetailStep DEF TypeInv, Requested

LEMMA Typed == Spec => []TypeInv
BY TypeInvInit, TypeInvNext, PTL DEF Spec

\* No step, of a bill or of a request, with whatever limit, status or cursor it asks,
\* takes a variable out of its type: a void never leaves fewer items than none.
THEOREM TypeCorrect == Spec => []TypeOK
BY Typed, TypeInvOK, PTL
-----------------------------------------------------------------------------
(***************************************************************************)
(* The order of a listing. What was shown is older with every bill, and    *)
(* what is still to come is older than the cursor.                         *)
(***************************************************************************)
InOrder(s) ==
  \A i, j \in 1..Len(s) : i < j =>
    s[i].bill # s[j].bill /\ s[i].row.createdAt >= s[j].row.createdAt

\* The entries of a listing are rows others see, with their times.
Dated(s) ==
  \A i \in 1..Len(s) : /\ s[i].bill \in BillID /\ Visible(s[i].bill)
                       /\ s[i].row.createdAt = row[s[i].bill].createdAt

Before(s, p) ==
  \A i \in 1..Len(s), j \in 1..Len(p) :
    s[i].bill # p[j].bill /\ s[i].row.createdAt >= p[j].row.createdAt

OrderInv(l) ==
  /\ InOrder(lister[l].shown) /\ InOrder(lister[l].page)
  /\ Before(lister[l].shown, lister[l].page)
  /\ Dated(lister[l].shown) /\ Dated(lister[l].page)
  /\ lister[l].stage = "idle" => lister[l].shown = <<>>
  /\ lister[l].stage \in {"idle", "asked", "done"} => lister[l].page = <<>>
  /\ lister[l].stage = "asked" =>
       \A i \in 1..Len(lister[l].shown) : lister[l].shown[i].row.createdAt >= lister[l].cursor

LEMMA DatedStays ==
  ASSUME \A b \in BillID : Keeps(b), NEW s, Dated(s)
  PROVE  Dated(s)'
BY DEF Dated, Keeps

LEMMA EmptyInOrder == InOrder(<<>>) /\ Dated(<<>>) /\ \A s : Before(s, <<>>) /\ Before(<<>>, s)
BY DEF InOrder, Dated, Before

\* One bill goes from the page to what was shown.
LEMMA OrderShown ==
  ASSUME NEW s \in Seq(Entry), NEW p \in Seq(Entry), p # <<>>, NEW e \in Entry,
         e.bill = Head(p).bill, e.row = Head(p).row,
         InOrder(s), InOrder(p), Before(s, p), Dated(s), Dated(p)
  PROVE  /\ InOrder(Append(s, e)) /\ InOrder(Tail(p)) /\ Before(Append(s, e), Tail(p))
         /\ Dated(Append(s, e)) /\ Dated(Tail(p))
<1> DEFINE a == Append(s, e)
           t == Tail(p)
<1>1. /\ Len(s) \in Nat /\ Len(a) = Len(s) + 1 /\ a[Len(s) + 1] = e
      /\ \A i \in 1..Len(s) : a[i] = s[i]
  OBVIOUS
<1>2. /\ Len(p) \in Nat \ {0} /\ Len(t) = Len(p) - 1 /\ Head(p) = p[1]
      /\ \A j \in 1..Len(t) : t[j] = p[j + 1] /\ j + 1 \in 1..Len(p)
  OBVIOUS
<1> HIDE DEF a, t
<1>3. \A i \in 1..Len(a) : i \in 1..Len(s) \/ i = Len(s) + 1
  BY <1>1
<1>4. 1 \in 1..Len(p) /\ \A j \in 1..Len(t) : 1 < j + 1
  BY <1>2
<1>5. InOrder(a)
  <2> SUFFICES ASSUME NEW i \in 1..Len(a), NEW j \in 1..Len(a), i < j
               PROVE  /\ a[i].bill # a[j].bill
                      /\ a[i].row.createdAt >= a[j].row.createdAt
    BY DEF InOrder
  <2>1. i \in 1..Len(s) /\ (j \in 1..Len(s) \/ j = Len(s) + 1)
    BY <1>1, <1>3
  <2>2. CASE j \in 1..Len(s)
    BY <1>1, <2>1, <2>2 DEF InOrder
  <2>3. CASE j = Len(s) + 1
    <3>1. a[i] = s[i] /\ a[j].bill = p[1].bill /\ a[j].row = p[1].row
      BY <1>1, <1>2, <2>1, <2>3
    <3> QED BY <1>4, <2>1, <3>1 DEF Before
  <2> QED BY <2>1, <2>2, <2>3
<1>6. InOrder(t)
  <2> SUFFICES ASSUME NEW i \in 1..Len(t), NEW j \in 1..Len(t), i < j
               PROVE  /\ t[i].bill # t[j].bill
                      /\ t[i].row.createdAt >= t[j].row.createdAt
    BY DEF InOrder
  <2>1. /\ t[i] = p[i + 1] /\ i + 1 \in 1..Len(p)
        /\ t[j] = p[j + 1] /\ j + 1 \in 1..Len(p)
    BY <1>2
  <2>2. i + 1 < j + 1
    OBVIOUS
  <2> QED BY <2>1, <2>2 DEF InOrder
<1>7. Before(a, t)
  <2> SUFFICES ASSUME NEW i \in 1..Len(a), NEW j \in 1..Len(t)
               PROVE  /\ a[i].bill # t[j].bill
                      /\ a[i].row.createdAt >= t[j].row.createdAt
    BY DEF Before
  <2>1. CASE i \in 1..Len(s)
    <3>1. a[i] = s[i] /\ t[j] = p[j + 1] /\ j + 1 \in 1..Len(p)
      BY <1>1, <1>2, <2>1
    <3> QED BY <2>1, <3>1 DEF Before
  <2>2. CASE i = Len(s) + 1
    <3>1. /\ a[i].bill = p[1].bill /\ a[i].row = p[1].row
          /\ t[j] = p[j + 1] /\ j + 1 \in 1..Len(p) /\ 1 < j + 1
      BY <1>1, <1>2, <1>4, <2>2
    <3> QED BY <1>4, <3>1 DEF InOrder
  <2> QED BY <1>3, <2>1, <2>2
<1>8. Dated(t)
  BY <1>2 DEF Dated
<1>9. Dated(a)
  <2> SUFFICES ASSUME NEW i \in 1..Len(a)
               PROVE  /\ a[i].bill \in BillID /\ Visible(a[i].bill)
                      /\ a[i].row.createdAt = row[a[i].bill].createdAt
    BY DEF Dated
  <2>1. CASE i \in 1..Len(s)
    BY <1>1, <2>1 DEF Dated
  <2>2. CASE i = Len(s) + 1
    <3>1. a[i] = e /\ e.bill = p[1].bill /\ e.row = p[1].row
      BY <1>1, <1>2, <2>2
    <3> QED BY <1>4, <3>1 DEF Dated
  <2> QED BY <1>3, <2>1, <2>2
<1> QED BY <1>5, <1>6, <1>7, <1>8, <1>9 DEF a, t

LEMMA OrderNext ==
  ASSUME TypeInv, [Next]_vars, NEW l \in Lister, OrderInv(l)
  PROVE  OrderInv(l)'
<1>0. /\ lister[l] \in Listing /\ \A b \in BillID : Keeps(b)
      /\ lister' \in [Lister -> Listing] /\ row \in [BillID -> BillRow]
  BY BillsNext, ListingStep DEF TypeInv, Requested, BillsInv
<1>1. lister[l].shown \in Seq(Entry) /\ lister[l].page \in Seq(Entry)
  BY <1>0 DEF Listing
<1>2. CASE Unmoved(l)
  BY <1>0, <1>2, DatedStays DEF Unmoved, OrderInv
<1>3. CASE GetBills(l)
  BY <1>0, <1>3, AskedListing, DatedStays DEF OrderInv
<1>4. CASE ReadPage(l)
  <2>1. CASE ~(LookAhead(lister[l].limit) >= 0)
    BY <1>0, <1>4, <2>1, PageRefused, DatedStays DEF OrderInv
  <2>2. CASE LookAhead(lister[l].limit) >= 0
    <3> DEFINE p == lister'[l].page
               s == lister[l].shown
    <3>1. /\ p \in Seq(Entry) /\ lister'[l].shown = s
          /\ lister'[l].stage \in {"filling", "panicked"}
          /\ \A i \in 1..Len(p) : p[i].bill \in Matching(l) /\ p[i].row = row[p[i].bill]
          /\ \A i, j \in 1..Len(p) : i < j =>
               p[i].bill # p[j].bill /\ p[i].row.createdAt >= p[j].row.createdAt
      BY <1>4, <2>2, PageScanned, ZenonT(40)
    <3> HIDE DEF p
    <3>6. InOrder(p)
      BY <3>1 DEF InOrder
    <3>2. \A i \in 1..Len(p) : /\ p[i].bill \in BillID /\ Visible(p[i].bill)
                               /\ row[p[i].bill].createdAt < lister[l].cursor
                               /\ p[i].row.createdAt < lister[l].cursor
      BY <3>1 DEF Matching
    <3>3. Dated(p)
      BY <3>1, <3>2 DEF Dated
    <3>4. \A i \in 1..Len(s) : /\ s[i].row.createdAt >= lister[l].cursor
                               /\ s[i].row.createdAt = row[s[i].bill].createdAt
                               /\ s[i].row.createdAt \in Int
      <4>1. /\ Dated(s) /\ lister[l].stage = "asked"
            /\ \A i \in 1..Len(s) : s[i].row.createdAt >= lister[l].cursor
        BY <1>4 DEF OrderInv, ReadPage
      <4> QED BY <1>0, <4>1 DEF Dated, BillRow
    <3>5. Before(s, p)
      <4> SUFFICES ASSUME NEW i \in 1..Len(s), NEW j \in 1..Len(p)
                   PROVE  /\ s[i].bill # p[j].bill
                          /\ s[i].row.createdAt >= p[j].row.createdAt
        BY DEF Before
      <4>1. p[j].row \in BillRow
        <5>1. p[j].row = row[p[j].bill] /\ p[j].bill \in BillID
          BY <3>1, <3>2
        <5> QED BY <1>0, <5>1
      <4>2. p[j].row.createdAt \in Int /\ lister[l].cursor \in Int
        <5>1. p[j].row.createdAt \in 0..MaxClock
          BY <4>1 DEF BillRow
        <5>2. lister[l].cursor \in 0..MaxClock
          BY <1>0 DEF Listing
        <5> QED BY <5>1, <5>2
      <4>3. /\ row[p[j].bill].createdAt < lister[l].cursor
            /\ p[j].row.createdAt < lister[l].cursor
        BY <3>2
      <4>4. /\ s[i].row.createdAt >= lister[l].cursor
            /\ s[i].row.createdAt = row[s[i].bill].createdAt
            /\ s[i].row.createdAt \in Int
        BY <3>4
      <4>5. s[i].bill # p[j].bill
        <5> SUFFICES ASSUME s[i].bill = p[j].bill PROVE FALSE
          OBVIOUS
        <5>1. s[i].row.createdAt < lister[l].cursor
          BY <4>3, <4>4
        <5> HIDE DEF s
        <5> QED BY <4>2, <4>4, <5>1
      <4>6. s[i].row.createdAt >= p[j].row.createdAt
        BY <4>2, <4>3, <4>4
      <4> QED BY <4>5, <4>6
    <3> QED BY <1>0, <3>1, <3>6, <3>3, <3>5, DatedStays DEF OrderInv, p
  <2> QED BY <2>1, <2>2
<1>5. CASE ShowBill(l)
  <2>1. /\ lister[l].page # <<>> /\ lister'[l].stage = "filling"
        /\ lister'[l].page = Tail(lister[l].page)
    BY <1>5, ShownBill
  <2>2. PICK n \in Entry : /\ n.bill = Head(lister[l].page).bill
                           /\ n.row = Head(lister[l].page).row
                           /\ lister'[l].shown = Append(lister[l].shown, n)
    BY <1>5, ShownBill
  <2>3. /\ InOrder(lister'[l].shown) /\ InOrder(lister'[l].page)
        /\ Before(lister'[l].shown, lister'[l].page)
        /\ Dated(lister'[l].shown) /\ Dated(lister'[l].page)
    BY <1>1, <2>1, <2>2, OrderShown DEF OrderInv
  <2> QED BY <1>0, <2>1, <2>3, DatedStays DEF OrderInv
<1>6. CASE AnswerPage(l)
  <2>1. lister[l].shown # <<>> =>
          \A i \in 1..Len(lister[l].shown) :
            lister[l].shown[i].row.createdAt >= Last(lister[l].shown).row.createdAt
    <3> SUFFICES ASSUME lister[l].shown # <<>>, NEW i \in 1..Len(lister[l].shown)
                 PROVE  lister[l].shown[i].row.createdAt
                          >= Last(lister[l].shown).row.createdAt
      OBVIOUS
    <3>1. /\ Len(lister[l].shown) \in 1..Len(lister[l].shown)
          /\ i < Len(lister[l].shown) \/ i = Len(lister[l].shown)
      BY <1>1
    <3>2. lister[l].shown[i] \in Entry
      BY <1>1
    <3> QED BY <3>1, <3>2 DEF OrderInv, InOrder, Last, Entry, BillRow
  <2>2. Len(<<>>) = 0
    OBVIOUS
  <2> QED BY <1>0, <1>6, <2>1, <2>2, PageAnswered, DatedStays DEF OrderInv
<1> QED BY <1>2, <1>3, <1>4, <1>5, <1>6, ListingStep DEF ListStep

LEMMA OrderInit == Init => \A l \in Lister : OrderInv(l)
BY EmptyInOrder DEF Init, OrderInv

LEMMA Ordered == Spec => [](TypeInv /\ \A l \in Lister : OrderInv(l))
<1>1. Init => TypeInv /\ \A l \in Lister : OrderInv(l)
  BY TypeInvInit, OrderInit
<1>2. TypeInv /\ (\A l \in Lister : OrderInv(l)) /\ [Next]_vars
        => (TypeInv /\ \A l \in Lister : OrderInv(l))'
  BY TypeInvNext, OrderNext
<1> QED BY <1>1, <1>2, PTL DEF Spec

\* Over all its pages a listing goes back in time and shows no bill twice, whatever is
\* created, charged or closed between its pages, and also when rows break off.
THEOREM OrderedListing == Spec => []ListedInOrder
<1>1. TypeInv /\ (\A l \in Lister : OrderInv(l)) => ListedInOrder
  <2> SUFFICES ASSUME TypeInv, NEW l \in Lister, OrderInv(l)
               PROVE  LET s == lister[l].shown IN
                      \A i, j \in DOMAIN s : i < j =>
                        s[i].bill # s[j].bill /\ s[i].row.createdAt >= s[j].row.createdAt
    BY DEF ListedInOrder
  <2>1. lister[l].shown \in Seq(Entry)
    BY DEF TypeInv, Requested, Listing
  <2> QED BY <2>1 DEF OrderInv, InOrder
<1> QED BY <1>1, Ordered, PTL
-----------------------------------------------------------------------------
(***************************************************************************)
(* Completeness. A bill the listing must show has been shown, or is on the *)
(* page, or is older than anything that is; then the next page has it.     *)
(***************************************************************************)
SeenIn(s, b) == \E i \in 1..Len(s) : s[i].bill = b \/ s[i].row.createdAt = row[b].createdAt
OlderThan(b, s) == \A i \in 1..Len(s) : s[i].row.createdAt > row[b].createdAt

Accounted(l, b) ==
  \/ SeenIn(lister[l].shown, b) \/ SeenIn(lister[l].page, b)
  \/ /\ lister[l].stage = "filling" /\ lister[l].more
     /\ OlderThan(b, lister[l].shown) /\ OlderThan(b, lister[l].page)
  \/ lister[l].stage = "asked" /\ row[b].createdAt < lister[l].cursor

MissInv(l) ==
  /\ \A b \in lister[l].due :
       Visible(b) /\ (lister[l].status = "CLOSED" => row[b].status = "CLOSED")
  /\ lister[l].stage = "idle" => lister[l].due = {}
  /\ lister[l].stage = "filling" /\ lister[l].more =>
       lister[l].shown # <<>> \/ lister[l].page # <<>>
  /\ lister[l].stage \in {"asked", "filling", "done"} /\ ~lister[l].cut =>
       \A b \in lister[l].due : row[b].status = lister[l].status => Accounted(l, b)

LEMMA SeenShown ==
  ASSUME NEW s \in Seq(Entry), NEW p \in Seq(Entry), p # <<>>, NEW e \in Entry,
         e.bill = Head(p).bill, e.row = Head(p).row, NEW b \in BillID
  PROVE  /\ SeenIn(s, b) \/ SeenIn(p, b) => SeenIn(Append(s, e), b) \/ SeenIn(Tail(p), b)
         /\ OlderThan(b, s) /\ OlderThan(b, p) =>
              OlderThan(b, Append(s, e)) /\ OlderThan(b, Tail(p))
<1> DEFINE a == Append(s, e)
           t == Tail(p)
<1>1. /\ Len(s) \in Nat /\ Len(a) = Len(s) + 1 /\ a[Len(s) + 1] = e
      /\ \A i \in 1..Len(s) : a[i] = s[i]
  OBVIOUS
<1>2. /\ Len(p) \in Nat \ {0} /\ Len(t) = Len(p) - 1 /\ Head(p) = p[1]
      /\ \A j \in 1..Len(t) : t[j] = p[j + 1] /\ j + 1 \in 1..Len(p)
      /\ \A j \in 1..Len(p) : j = 1 \/ (j - 1 \in 1..Len(t) /\ t[j - 1] = p[j])
  OBVIOUS
<1> HIDE DEF a, t
<1>3. /\ \A i \in 1..Len(a) : i \in 1..Len(s) \/ i = Len(s) + 1
      /\ \A i \in 1..Len(s) : i \in 1..Len(a)
      /\ Len(s) + 1 \in 1..Len(a) /\ 1 \in 1..Len(p)
  BY <1>1, <1>2
<1>4. SeenIn(s, b) => SeenIn(a, b)
  BY <1>1, <1>3 DEF SeenIn
<1>5. SeenIn(p, b) => SeenIn(a, b) \/ SeenIn(t, b)
  <2> SUFFICES ASSUME NEW j \in 1..Len(p),
                      p[j].bill = b \/ p[j].row.createdAt = row[b].createdAt
               PROVE  SeenIn(a, b) \/ SeenIn(t, b)
    BY DEF SeenIn
  <2>1. CASE j = 1
    BY <1>1, <1>2, <1>3, <2>1 DEF SeenIn
  <2>2. CASE j - 1 \in 1..Len(t) /\ t[j - 1] = p[j]
    BY <2>2 DEF SeenIn
  <2> QED BY <1>2, <2>1, <2>2
<1>6. OlderThan(b, p) => OlderThan(b, t)
  BY <1>2 DEF OlderThan
<1>7. OlderThan(b, s) /\ OlderThan(b, p) => OlderThan(b, a)
  BY <1>1, <1>2, <1>3 DEF OlderThan
<1> QED BY <1>4, <1>5, <1>6, <1>7 DEF a, t

\* The bill and the request stay what they were, up to the total.
LEMMA AccountedStays ==
  ASSUME NEW l \in Lister, NEW b \in BillID, Accounted(l, b), Visible(b), Keeps(b),
         Unmoved(l)
  PROVE  Accounted(l, b)'
<1>1. row'[b].createdAt = row[b].createdAt
  BY DEF Keeps
<1>2. \A s : (SeenIn(s, b) => SeenIn(s, b)') /\ (OlderThan(b, s) => OlderThan(b, s)')
  BY <1>1 DEF SeenIn, OlderThan
<1> QED BY <1>1, <1>2 DEF Accounted, Unmoved

\* A bill that still has the status asked for has had it since.
LEMMA StatusKept ==
  ASSUME NEW l \in Lister, NEW b \in BillID, Visible(b), Keeps(b), Visible(b)',
         lister[l].status = "CLOSED" => row[b].status = "CLOSED"
  PROVE  /\ lister[l].status = "CLOSED" => row'[b].status = "CLOSED"
         /\ row'[b].status = lister[l].status => row[b].status = lister[l].status
BY DEF Keeps, Visible

LEMMA MissNext ==
  ASSUME TypeInv, [Next]_vars, NEW l \in Lister, OrderInv(l), MissInv(l)
  PROVE  MissInv(l)'
<1>0. /\ lister[l] \in Listing /\ \A b \in BillID : Keeps(b)
      /\ lister' \in [Lister -> Listing] /\ row \in [BillID -> BillRow]
      /\ lister[l].due \subseteq BillID
  BY BillsNext, ListingStep DEF TypeInv, Requested, BillsInv, Listing
<1>1. lister[l].shown \in Seq(Entry) /\ lister[l].page \in Seq(Entry)
  BY <1>0 DEF Listing
<1>2. \A b \in lister[l].due :
        /\ Visible(b) /\ Visible(b)' /\ row'[b].createdAt = row[b].createdAt
        /\ lister[l].status = "CLOSED" => row'[b].status = "CLOSED"
        /\ row'[b].status = lister[l].status => row[b].status = lister[l].status
  <2> SUFFICES ASSUME NEW b \in lister[l].due
               PROVE  /\ Visible(b) /\ Visible(b)' /\ row'[b].createdAt = row[b].createdAt
                      /\ lister[l].status = "CLOSED" => row'[b].status = "CLOSED"
                      /\ row'[b].status = lister[l].status => row[b].status = lister[l].status
    OBVIOUS
  <2>1. b \in BillID /\ Keeps(b) /\ Visible(b)
    BY <1>0 DEF MissInv
  <2>2. Visible(b)' /\ row'[b].createdAt = row[b].createdAt
    BY <2>1 DEF Keeps
  <2> QED BY <2>1, <2>2, StatusKept DEF MissInv
<1>3. CASE Unmoved(l)
  <2>1. \A b \in lister[l].due : Accounted(l, b) => Accounted(l, b)'
    BY <1>0, <1>2, <1>3, AccountedStays
  <2> QED BY <1>2, <1>3, <2>1 DEF MissInv, Unmoved
<1>4. CASE GetBills(l)
  BY <1>4, AskedListing DEF MissInv
<1>5. CASE ReadPage(l)
  <2>1. CASE ~(LookAhead(lister[l].limit) >= 0)
    <3>1. lister'[l].stage = "error" /\ lister'[l].due = lister[l].due
          /\ lister'[l].status = lister[l].status
      BY <1>5, <2>1, PageRefused
    <3> QED BY <1>2, <3>1 DEF MissInv
  <2>2. CASE LookAhead(lister[l].limit) >= 0
    <3> DEFINE p == lister'[l].page
               s == lister[l].shown
    <3>1. /\ lister'[l].stage \in {"filling", "panicked"}
          /\ lister'[l].status = lister[l].status /\ lister'[l].shown = s
          /\ lister'[l].due = IF s = <<>> THEN Matching(l) ELSE lister[l].due
          /\ ~lister'[l].cut => ~lister[l].cut
          /\ p \in Seq(Entry)
          /\ \A i \in 1..Len(p) : p[i].bill \in Matching(l) /\ p[i].row = row[p[i].bill]
          /\ \A b \in Matching(l) :
               \/ \E i \in 1..Len(p) : p[i].bill = b
               \/ \A i \in 1..Len(p) : p[i].row.createdAt >= row[b].createdAt
          /\ lister'[l].stage = "filling" /\ lister'[l].more => p # <<>>
          /\ lister'[l].stage = "filling" /\ ~lister'[l].more /\ ~lister'[l].cut =>
               \A b \in Matching(l) : \E i \in 1..Len(p) : p[i].bill = b
      BY <1>5, <2>2, PageScanned, ZenonT(40)
    <3>2. UNCHANGED row /\ lister[l].stage = "asked" /\ lister[l].page = <<>>
          /\ lister[l].cursor \in Int /\ lister'[l].page = p
      <4>1. UNCHANGED row
        BY <1>5, Others DEF bills, ListStep
      <4>2. lister[l].stage = "asked"
        BY <1>5 DEF ReadPage
      <4> QED BY <1>0, <4>1, <4>2 DEF OrderInv, Listing
    <3> HIDE DEF p, s
    \* What this page accounts for.
    <3>3. ASSUME NEW b \in Matching(l), lister'[l].stage = "filling", ~lister'[l].cut
          PROVE  Accounted(l, b)'
      <4>1. b \in BillID /\ row[b].createdAt \in Int /\ row[b].createdAt < lister[l].cursor
        BY <1>0 DEF Matching, BillRow
      <4>2. CASE SeenIn(p, b)
        BY <3>1, <3>2, <4>2 DEF Accounted, SeenIn
      <4>3. CASE ~SeenIn(p, b)
        <5>1. lister'[l].more
          BY <3>1, <3>3, <4>3 DEF SeenIn
        <5>2. OlderThan(b, p)
          <6> SUFFICES ASSUME NEW i \in 1..Len(p) PROVE p[i].row.createdAt > row[b].createdAt
            BY DEF OlderThan
          <6>1. p[i] \in Entry
            BY <3>1
          <6> QED BY <3>1, <4>1, <4>3, <6>1 DEF SeenIn, Entry, BillRow
        <5>3. OlderThan(b, s)
          <6> SUFFICES ASSUME NEW i \in 1..Len(s) PROVE s[i].row.createdAt > row[b].createdAt
            BY DEF OlderThan
          <6>1. s[i] \in Entry /\ s[i].row.createdAt >= lister[l].cursor
            BY <1>1, <3>2 DEF OrderInv, s
          <6> QED BY <3>2, <4>1, <6>1 DEF Entry, BillRow
        <5> QED BY <3>1, <3>2, <3>3, <5>1, <5>2, <5>3 DEF Accounted, OlderThan
      <4> QED BY <4>2, <4>3
    <3>4. CASE s = <<>>
      <4>1. \A b \in Matching(l) : Visible(b)' /\ row'[b].status = lister[l].status
        BY <3>2 DEF Matching, Visible
      <4> QED BY <3>1, <3>2, <3>3, <3>4, <4>1 DEF MissInv
    <3>5. CASE s # <<>>
      <4>1. ASSUME NEW b \in lister[l].due, row'[b].status = lister[l].status,
                   lister'[l].stage = "filling", ~lister'[l].cut
            PROVE  Accounted(l, b)'
        <5>1. b \in BillID /\ Visible(b) /\ Accounted(l, b)
              /\ row[b].status = lister[l].status
          BY <1>0, <1>2, <3>1, <3>2, <4>1 DEF MissInv
        <5>2. ~SeenIn(<<>>, b)
          BY DEF SeenIn
        <5>3. CASE SeenIn(s, b)
          BY <3>1, <3>2, <5>3 DEF Accounted, SeenIn
        <5>4. CASE row[b].createdAt < lister[l].cursor
          BY <3>3, <4>1, <5>1, <5>4 DEF Matching
        <5> QED BY <3>2, <5>1, <5>2, <5>3, <5>4 DEF Accounted, s
      <4> QED BY <1>2, <3>1, <3>2, <3>5, <4>1 DEF MissInv
    <3> QED BY <3>4, <3>5
  <2> QED BY <2>1, <2>2
<1>6. CASE ShowBill(l)
  <2>1. /\ lister[l].stage = "filling" /\ lister[l].page # <<>>
        /\ lister'[l].page = Tail(lister[l].page)
        /\ lister'[l].stage = "filling" /\ lister'[l].status = lister[l].status
        /\ lister'[l].more = lister[l].more /\ lister'[l].due = lister[l].due
        /\ lister'[l].cut = lister[l].cut
    BY <1>6, ShownBill
  <2>2. PICK n \in Entry : /\ n.bill = Head(lister[l].page).bill
                           /\ n.row = Head(lister[l].page).row
                           /\ lister'[l].shown = Append(lister[l].shown, n)
    BY <1>6, ShownBill
  <2>3. lister'[l].shown # <<>>
    BY <1>1, <2>2
  <2>4. UNCHANGED row
    BY <1>6, Others DEF bills, ListStep
  <2>5. ASSUME NEW b \in lister[l].due, Accounted(l, b)
        PROVE  Accounted(l, b)'
    <3>1. /\ SeenIn(lister[l].shown, b) \/ SeenIn(lister[l].page, b)
               => SeenIn(lister'[l].shown, b) \/ SeenIn(lister'[l].page, b)
          /\ OlderThan(b, lister[l].shown) /\ OlderThan(b, lister[l].page)
               => OlderThan(b, lister'[l].shown) /\ OlderThan(b, lister'[l].page)
      BY <1>0, <1>1, <2>1, <2>2, SeenShown
    <3> QED BY <2>1, <2>4, <2>5, <3>1 DEF Accounted, SeenIn, OlderThan
  <2> QED BY <1>2, <2>1, <2>3, <2>4, <2>5 DEF MissInv
<1>7. CASE AnswerPage(l)
  <2>1. /\ lister[l].stage = "filling" /\ lister[l].page = <<>>
        /\ lister'[l].stage = IF lister[l].more THEN "asked" ELSE "done"
        /\ lister'[l].cursor = IF lister[l].more /\ lister[l].shown # <<>>
                               THEN Last(lister[l].shown).row.createdAt ELSE lister[l].cursor
        /\ lister'[l].shown = lister[l].shown
        /\ lister'[l].status = lister[l].status /\ lister'[l].due = lister[l].due
        /\ lister'[l].cut = lister[l].cut
    BY <1>7, PageAnswered
  <2>2. UNCHANGED row
    BY <1>7, Others DEF bills, ListStep
  <2>3. ASSUME NEW b \in lister[l].due, Accounted(l, b)
        PROVE  Accounted(l, b)'
    <3>1. ~SeenIn(<<>>, b)
      BY DEF SeenIn
    <3>2. CASE SeenIn(lister[l].shown, b)
      BY <2>1, <2>2, <3>2 DEF Accounted, SeenIn
    <3>3. CASE lister[l].more /\ OlderThan(b, lister[l].shown)
      <4>1. lister[l].shown # <<>>
        BY <2>1, <3>3 DEF MissInv
      <4>2. Len(lister[l].shown) \in 1..Len(lister[l].shown)
        BY <1>1, <4>1
      <4>3. Last(lister[l].shown) \in Entry
        BY <1>1, <4>2 DEF Last
      <4>4. Last(lister[l].shown).row.createdAt > row[b].createdAt
        BY <3>3, <4>2 DEF OlderThan, Last
      <4>5. row[b].createdAt \in Int /\ Last(lister[l].shown).row.createdAt \in Int
        BY <1>0, <4>3 DEF Entry, BillRow
      <4>6. lister'[l].cursor > row[b].createdAt /\ lister'[l].stage = "asked"
        BY <2>1, <3>3, <4>1, <4>4
      <4> QED BY <2>1, <2>2, <4>1, <4>5, <4>6 DEF Accounted
    <3> QED BY <2>1, <2>3, <3>1, <3>2, <3>3 DEF Accounted
  <2> QED BY <1>2, <2>1, <2>2, <2>3 DEF MissInv
<1> QED BY <1>3, <1>4, <1>5, <1>6, <1>7, ListingStep DEF ListStep

LEMMA MissInit == Init => \A l \in Lister : MissInv(l)
BY DEF Init, MissInv

\* A listing that reached its last page, no page of which broke off, has shown every bill
\* that had the status when it began and has it still, but for bills of the very same time.
THEOREM NothingMissed == Spec => []NoneMissed
<1> DEFINE Inv == TypeInv /\ \A l \in Lister : OrderInv(l) /\ MissInv(l)
<1>1. Init => Inv
  BY TypeInvInit, OrderInit, MissInit
<1>2. Inv /\ [Next]_vars => Inv'
  BY TypeInvNext, OrderNext, MissNext
<1>3. Inv => NoneMissed
  <2> SUFFICES ASSUME TypeInv, NEW l \in Lister, OrderInv(l), MissInv(l),
                      lister[l].stage = "done", ~lister[l].cut,
                      NEW b \in lister[l].due, row[b].status = lister[l].status
               PROVE  \E i \in DOMAIN lister[l].shown : LET e == lister[l].shown[i] IN
                        e.bill = b \/ e.row.createdAt = row[b].createdAt
    BY DEF NoneMissed
  <2>1. lister[l].shown \in Seq(Entry) /\ lister[l].page = <<>>
    BY DEF TypeInv, Requested, Listing, OrderInv
  <2>2. Accounted(l, b) /\ ~SeenIn(<<>>, b)
    BY DEF MissInv, SeenIn
  <2>3. SeenIn(lister[l].shown, b)
    BY <2>1, <2>2 DEF Accounted
  <2> QED BY <2>1, <2>3 DEF SeenIn
<1> QED BY <1>1, <1>2, <1>3, PTL DEF Spec
-----------------------------------------------------------------------------
(***************************************************************************)
(* Totals. From the reading of a page to its answer every total a bill of  *)
(* the page has is noted, and those of closed rows are among them.         *)
(***************************************************************************)
TotalInv(l) ==
  lister[l].stage = "filling" =>
    /\ Noted(l)
    /\ \A i \in 1..Len(lister[l].page) : LET e == lister[l].page[i] IN
         /\ e.row.status \in {"OPEN", "CLOSED"} /\ e.total = e.row.total
         /\ e.row.status = "CLOSED" => e.row.total \in lister[l].since[e.bill]

LEMMA TotalNext ==
  ASSUME TypeInv, [Next]_vars, NEW l \in Lister, TotalInv(l)
  PROVE  TotalInv(l)'
<1>0. /\ lister[l] \in Listing /\ lister[l].page \in Seq(Entry)
      /\ row \in [BillID -> BillRow] /\ live \in [BillID -> Workflow]
  BY DEF TypeInv, Requested, BillsInv, Listing
<1>1. CASE Unmoved(l) /\ Notes(l)
  <2>1. ASSUME lister'[l].stage = "filling"
        PROVE  /\ Noted(l)'
               /\ \A b \in BillID : lister[l].since[b] \subseteq lister'[l].since[b]
               /\ lister'[l].page = lister[l].page /\ lister[l].stage = "filling"
    BY <1>1, <2>1 DEF Unmoved, Notes, TotalInv
  <2>2. ASSUME NEW i \in 1..Len(lister[l].page) PROVE lister[l].page[i].bill \in BillID
    <3>1. lister[l].page[i] \in Entry
      BY <1>0
    <3> QED BY <3>1 DEF Entry
  <2> QED BY <2>1, <2>2 DEF TotalInv
<1>2. CASE GetBills(l)
  BY <1>2, AskedListing DEF TotalInv
<1>3. CASE ReadPage(l)
  <2>1. CASE ~(LookAhead(lister[l].limit) >= 0)
    BY <1>3, <2>1, PageRefused DEF TotalInv
  <2>2. CASE LookAhead(lister[l].limit) >= 0
    <3> DEFINE p == lister'[l].page
    <3>1. /\ lister'[l].since = [b \in BillID |-> {live[b].total}]
          /\ \A i \in 1..Len(p) : /\ p[i].bill \in Matching(l) /\ p[i].row = row[p[i].bill]
                                  /\ p[i].total = row[p[i].bill].total
      BY <1>3, <2>2, PageScanned
    <3>2. UNCHANGED <<row, live>>
      BY <1>3, Others DEF bills, ListStep
    <3>3. Noted(l)'
      BY <3>1, <3>2 DEF Noted
    <3> HIDE DEF p
    <3>4. ASSUME NEW i \in 1..Len(p)
          PROVE  /\ p[i].row.status \in {"OPEN", "CLOSED"} /\ p[i].total = p[i].row.total
                 /\ p[i].row.status = "CLOSED" => p[i].row.total \in lister'[l].since[p[i].bill]
      <4>1. /\ p[i].bill \in BillID /\ Visible(p[i].bill) /\ p[i].row = row[p[i].bill]
            /\ p[i].total = row[p[i].bill].total
        BY <3>1 DEF Matching
      <4>2. BillInv(p[i].bill)
        BY <4>1 DEF TypeInv, BillsInv
      <4> QED BY <3>1, <4>1, <4>2 DEF Visible, BillInv
    <3> QED BY <3>3, <3>4 DEF TotalInv, p
  <2> QED BY <2>1, <2>2
<1>4. CASE ShowBill(l)
  <2>1. /\ lister[l].stage = "filling" /\ lister[l].page # <<>>
        /\ lister'[l].page = Tail(lister[l].page) /\ lister'[l].since = lister[l].since
    BY <1>4, ShownBill
  <2>2. UNCHANGED live
    BY <1>4, Others DEF bills, ListStep
  <2>3. \A i \in 1..Len(Tail(lister[l].page)) :
          i + 1 \in 1..Len(lister[l].page) /\ Tail(lister[l].page)[i] = lister[l].page[i + 1]
    BY <1>0, <2>1
  <2> QED BY <2>1, <2>2, <2>3 DEF TotalInv, Noted
<1>5. CASE AnswerPage(l)
  BY <1>5, PageAnswered DEF TotalInv
<1> QED BY <1>1, <1>2, <1>3, <1>4, <1>5, ListingStep DEF ListStep

LEMMA TotalInit == Init => \A l \in Lister : TotalInv(l)
BY DEF Init, TotalInv

LEMMA ShownIsCurrent ==
  ASSUME TypeInv, [Next]_vars, NEW l \in Lister, TotalInv(l),
         lister'[l].shown # lister[l].shown
  PROVE  LET e == Last(lister'[l].shown) IN
         IF e.total = Unknown THEN e.row.status = "OPEN"
                              ELSE e.total \in lister[l].since[e.bill]
<1>1. ShowBill(l)
  <2>1. ~Unmoved(l)
    BY DEF Unmoved
  <2>2. ~GetBills(l)
    BY AskedListing
  <2>3. ~ReadPage(l)
    BY PageRefused, PageScanned
  <2>4. ~AnswerPage(l)
    BY PageAnswered
  <2> QED BY <2>1, <2>2, <2>3, <2>4, ListingStep DEF ListStep
<1> DEFINE p == lister[l].page
           h == Head(p)
<1>2. /\ lister[l].stage = "filling" /\ p # <<>> /\ h \in Entry /\ p \in Seq(Entry)
      /\ lister[l].shown \in Seq(Entry)
  BY <1>1, ShownBill DEF TypeInv, Requested, Listing
<1>3. PICK n \in Entry :
        /\ n.bill = h.bill /\ n.row = h.row
        /\ n.total \in IF h.row.status = "OPEN" THEN LiveTotal(h.bill) ELSE {h.row.total}
        /\ lister'[l].shown = Append(lister[l].shown, n)
  BY <1>1, ShownBill
<1>4. Last(lister'[l].shown) = n
  BY <1>2, <1>3 DEF Last
<1>5. 1 \in 1..Len(p) /\ h = p[1]
  BY <1>2
<1>6. /\ Noted(l) /\ h.row.status \in {"OPEN", "CLOSED"}
      /\ h.row.status = "CLOSED" => h.row.total \in lister[l].since[h.bill]
  BY <1>2, <1>5 DEF TotalInv
<1>7. h.bill \in BillID /\ h.row \in BillRow /\ h.row.total # Unknown
  <2> HIDE DEF h
  <2>1. h.bill \in BillID /\ h.row \in BillRow
    BY <1>2 DEF Entry
  <2>2. h.row.total \in Nat
    BY <2>1 DEF BillRow
  <2> QED BY <2>1, <2>2, QueryAssumption
<1> HIDE DEF h
<1>8. CASE h.row.status = "OPEN"
  <2>1. n.total = Unknown \/ n.total = live[h.bill].total
    BY <1>3, <1>8, LiveTotals
  <2> QED BY <1>3, <1>4, <1>6, <1>7, <1>8, <2>1 DEF Noted
<1>9. CASE h.row.status # "OPEN"
  BY <1>3, <1>4, <1>6, <1>7, <1>9
<1> QED BY <1>8, <1>9

\* The total listed for a bill is one that it has had since its page was read, and only an
\* open bill is listed without one, whatever is charged or closed while the page is filled.
THEOREM CurrentTotals == Spec => ListedTotalIsCurrent
<1> DEFINE Inv == TypeInv /\ \A l \in Lister : TotalInv(l)
<1>1. Init => Inv
  BY TypeInvInit, TotalInit
<1>2. Inv /\ [Next]_vars => Inv'
  BY TypeInvNext, TotalNext
<1>3. Inv /\ [Next]_vars =>
        [\A l \in Lister : lister'[l].shown # lister[l].shown =>
           LET e == Last(lister'[l].shown) IN
           IF e.total = Unknown THEN e.row.status = "OPEN"
                                ELSE e.total \in lister[l].since[e.bill]]_vars
  BY ShownIsCurrent
<1> QED BY <1>1, <1>2, <1>3, PTL DEF Spec, ListedTotalIsCurrent
-----------------------------------------------------------------------------
(***************************************************************************)
(* The detail of a bill. The row is read first; if it was closed by then   *)
(* no line item moves any more.                                            *)
(***************************************************************************)
DetailInv(g) ==
  getter[g].row.status = "CLOSED" =>
    /\ getter[g].stage = "row" => row[g] = getter[g].row
    /\ getter[g].stage = "done" /\ ~getter[g].cut => getter[g].row.total = getter[g].lines

LEMMA DetailNext ==
  ASSUME TypeInv, [Next]_vars, NEW g \in Getter, DetailInv(g)
  PROVE  DetailInv(g)'
<1>0. /\ getter \in [Getter -> Detail] /\ getter[g] \in Detail /\ g \in BillID /\ Keeps(g)
      /\ lines[g] \in 0..MaxLines /\ BillInv(g)
  BY BillsNext, QueryAssumption DEF TypeInv, Requested, BillsInv
<1>1. CASE getter'[g] = getter[g]
  BY <1>0, <1>1 DEF DetailInv, Keeps
<1>2. CASE GetBillDetail(g)
  <2>1. UNCHANGED <<row, lines>>
    BY <1>2 DEF GetBillDetail, bills
  <2>2. CASE GetBillRow(g)
    <3>1. getter'[g].row = row[g] /\ getter'[g].stage \in {"row", "NotFound"}
      BY <1>0, <2>2 DEF GetBillRow, Detail
    <3> QED BY <2>1, <3>1 DEF DetailInv
  <2>3. CASE GetLineItemsForBill(g)
    <3>1. /\ getter[g].stage = "row" /\ getter'[g].stage = "done"
          /\ getter'[g].row = getter[g].row
          /\ ~getter'[g].cut => getter'[g].lines = lines[g]
      <4>1. PICK n \in 0..lines[g] :
              getter' = [getter EXCEPT ![g].stage = "done", ![g].lines = n,
                                       ![g].cut = n < lines[g]]
        BY <2>3 DEF GetLineItemsForBill
      <4> DEFINE cut == n < lines[g]
                 d == [getter[g] EXCEPT !.stage = "done", !.lines = n, !.cut = cut]
      <4>2. getter'[g] = d
        BY <1>0, <4>1
      <4>3. ~cut => n = lines[g]
        BY <1>0, QueryAssumption
      <4>4. cut \in BOOLEAN
        OBVIOUS
      <4> HIDE DEF cut
      <4>5. d.stage = "done" /\ d.row = getter[g].row /\ d.lines = n /\ d.cut = cut
        BY <1>0, <4>4 DEF Detail
      <4> HIDE DEF d
      <4>6. getter[g].stage = "row"
        BY <2>3 DEF GetLineItemsForBill
      <4> QED BY <4>2, <4>3, <4>5, <4>6
    <3> QED BY <1>0, <3>1 DEF DetailInv, BillInv
  <2> QED BY <1>2, <2>2, <2>3 DEF GetBillDetail
<1> QED BY <1>1, <1>2, DetailStep

LEMMA DetailInit == Init => \A g \in Getter : DetailInv(g)
BY DEF Init, DetailInv, NoRow

\* The detail of a closed bill adds up, although its row and its line items are read by
\* two statements, between which anything may happen to an open bill.
THEOREM DetailAddsUp == Spec => []ClosedDetailAddsUp
<1> DEFINE Inv == TypeInv /\ \A g \in Getter : DetailInv(g)
<1>1. Init => Inv
  BY TypeInvInit, DetailInit
<1>2. Inv /\ [Next]_vars => Inv'
  BY TypeInvNext, DetailNext
<1>3. Inv => ClosedDetailAddsUp
  BY DEF ClosedDetailAddsUp, DetailInv
<1> QED BY <1>1, <1>2, <1>3, PTL DEF Spec
-----------------------------------------------------------------------------
(***************************************************************************)
(* Progress. What a page holds is older than the cursor it was read with,  *)
(* and a page that promises more has shown, or will show, such a bill.     *)
(***************************************************************************)
FillInv(l) ==
  lister[l].stage = "filling" =>
    /\ \A i \in 1..Len(lister[l].page) : lister[l].page[i].row.createdAt < lister[l].cursor
    /\ lister[l].more => \/ lister[l].page # <<>>
                         \/ /\ lister[l].shown # <<>>
                            /\ Last(lister[l].shown).row.createdAt < lister[l].cursor

LEMMA FillNext ==
  ASSUME TypeInv, [Next]_vars, NEW l \in Lister, FillInv(l)
  PROVE  FillInv(l)'
<1>0. /\ lister[l] \in Listing /\ lister' \in [Lister -> Listing]
      /\ lister[l].page \in Seq(Entry) /\ lister[l].shown \in Seq(Entry)
  BY ListingStep DEF TypeInv, Requested, Listing
<1>1. CASE Unmoved(l)
  BY <1>1 DEF Unmoved, FillInv
<1>2. CASE GetBills(l) \/ AnswerPage(l)
  BY <1>2, AskedListing, PageAnswered DEF FillInv
<1>3. CASE ReadPage(l)
  <2>1. CASE ~(LookAhead(lister[l].limit) >= 0)
    BY <1>3, <2>1, PageRefused DEF FillInv
  <2>2. CASE LookAhead(lister[l].limit) >= 0
    <3> DEFINE p == lister'[l].page
    <3>1. /\ lister'[l].cursor = lister[l].cursor
          /\ \A i \in 1..Len(p) : p[i].bill \in Matching(l) /\ p[i].row = row[p[i].bill]
          /\ lister'[l].stage = "filling" /\ lister'[l].more => p # <<>>
      BY <1>3, <2>2, PageScanned, ZenonT(40)
    <3>2. \A i \in 1..Len(p) : p[i].row.createdAt < lister[l].cursor
      BY <3>1 DEF Matching
    <3> QED BY <3>1, <3>2 DEF FillInv
  <2> QED BY <2>1, <2>2
<1>4. CASE ShowBill(l)
  <2> DEFINE p == lister[l].page
             s == lister[l].shown
  <2>1. /\ lister[l].stage = "filling" /\ p # <<>>
        /\ lister'[l].page = Tail(p) /\ lister'[l].cursor = lister[l].cursor
    BY <1>4, ShownBill
  <2>2. PICK n \in Entry : n.row = Head(p).row /\ lister'[l].shown = Append(s, n)
    BY <1>4, ShownBill
  <2>3. \A i \in 1..Len(Tail(p)) : Tail(p)[i] = p[i + 1] /\ i + 1 \in 1..Len(p)
    BY <1>0, <2>1
  <2>4. Head(p) = p[1] /\ 1 \in 1..Len(p)
    BY <1>0, <2>1
  <2>5. Append(s, n) # <<>> /\ Last(Append(s, n)) = n
    BY <1>0 DEF Last
  <2> QED BY <2>1, <2>2, <2>3, <2>4, <2>5 DEF FillInv
<1> QED BY <1>1, <1>2, <1>3, <1>4, ListingStep DEF ListStep

LEMMA ListingMoves ==
  ASSUME TypeInv, NEW l \in Lister, FillInv(l), ListStep(l)
  PROVE  \/ lister'[l].cursor < lister[l].cursor
         \/ /\ lister'[l].cursor = lister[l].cursor
            /\ \/ lister[l].stage = "asked" /\ lister'[l].stage # "asked"
               \/ lister[l].stage = "filling" /\ lister'[l].stage = "done"
               \/ /\ lister'[l].stage = lister[l].stage
                  /\ Len(lister'[l].page) < Len(lister[l].page)
<1>1. CASE ReadPage(l)
  <2>1. /\ lister'[l].cursor = lister[l].cursor
        /\ lister'[l].stage \in {"filling", "panicked", "error"}
    BY <1>1, PageRefused, PageScanned, ZenonT(40)
  <2> QED BY <1>1, <2>1 DEF ReadPage
<1>2. CASE ShowBill(l)
  <2>1. lister[l].page \in Seq(Entry)
    BY DEF TypeInv, Requested, Listing
  <2>2. /\ lister'[l].cursor = lister[l].cursor /\ lister'[l].stage = lister[l].stage
        /\ lister[l].page # <<>> /\ lister'[l].page = Tail(lister[l].page)
    BY <1>2, ShownBill
  <2>3. Len(Tail(lister[l].page)) < Len(lister[l].page)
    BY <2>1, <2>2
  <2> QED BY <2>2, <2>3
<1>3. CASE AnswerPage(l)
  BY <1>3, PageAnswered DEF FillInv
<1> QED BY <1>1, <1>2, <1>3 DEF ListStep

\* Whatever limit a client asks for, the limits that are left out, negative or the largest
\* int included, every step of its listing goes down a well-founded order: the table is read
\* again only for bills older than before (nextCursor in GetBills, the look-ahead of one
\* row). What is left of ListingEnds is that the steps are taken.
THEOREM ListingProgress == Spec => ListingMovesOn
<1> DEFINE Fills == \A l \in Lister : FillInv(l)
           Moves == \A l \in Lister : ListStep(l) =>
             \/ lister'[l].cursor < lister[l].cursor
             \/ /\ lister'[l].cursor = lister[l].cursor
                /\ \/ lister[l].stage = "asked" /\ lister'[l].stage # "asked"
                   \/ lister[l].stage = "filling" /\ lister'[l].stage = "done"
                   \/ /\ lister'[l].stage = lister[l].stage
                      /\ Len(lister'[l].page) < Len(lister[l].page)
<1>1. Init => TypeInv /\ Fills
  BY TypeInvInit DEF Init, FillInv
<1>2. TypeInv /\ Fills /\ [Next]_vars => (TypeInv /\ Fills)'
  BY TypeInvNext, FillNext
<1>3. TypeInv /\ Fills => Moves
  BY ListingMoves
<1>4. Spec => [][Moves]_vars
  <2> HIDE DEF Fills, Moves
  <2> QED BY <1>1, <1>2, <1>3, PTL DEF Spec
<1> QED BY <1>4 DEF ListingMovesOn
=============================================================================
