---------------------------- MODULE BillFaultsProofs ----------------------------
(***************************************************************************)
(* What each kind of fault costs: how far the total of a bill may be from  *)
(* its rows, in which direction, and what still holds when an activity     *)
(* that BillRecordsProofs takes to be reliable is not. Of the promise of   *)
(* one fee per interval, which the code breaks: the fault it breaks by.    *)
(***************************************************************************)
EXTENDS BillClosingProofs

-----------------------------------------------------------------------------
(***************************************************************************)
(* Sums. SumAssumption says what one item more does to a sum; what holds   *)
(* of all sets of items follows by taking a smallest one that it fails of. *)
(***************************************************************************)
LEMMA SmallestSet ==
  ASSUME NEW U, IsFiniteSet(U), NEW F \in SUBSET SUBSET U, F # {}
  PROVE  \E S \in F : \A T \in F : T \subseteq S => T = S
<1>1. F \subseteq FiniteSubsetsOf(U)
  BY FS_Subset DEF FiniteSubsetsOf
<1>2. PICK S \in F : \A T \in F : ~(<<T, S>> \in StrictSubsetOrdering(U))
  BY <1>1, FS_StrictSubsetOrderingWellFounded, WFMin
<1>3. \A T \in F : T \subseteq S => T = S
  BY <1>2 DEF StrictSubsetOrdering
<1> QED BY <1>3

LEMMA SumIsNat ==
  ASSUME NEW A \in SUBSET LineItemID
  PROVE  SumOf(A) \in Nat
<1> DEFINE F == {T \in SUBSET LineItemID : SumOf(T) \notin Nat}
<1> SUFFICES ASSUME F # {} PROVE FALSE
  OBVIOUS
<1>1. PICK S \in F : \A T \in F : T \subseteq S => T = S
  <2>1. F \in SUBSET SUBSET LineItemID
    OBVIOUS
  <2> HIDE DEF F
  <2> QED BY <2>1, SmallestSet, ItemAssumption
<1>2. S # {}
  <2>1. SumOf({}) \in Nat
    BY SumAssumption
  <2> QED BY <2>1
<1>3. PICK i : i \in S
  BY <1>2
<1> DEFINE T == S \ {i}
<1>4. /\ T \in SUBSET LineItemID /\ i \in LineItemID \ T /\ S = T \cup {i}
      /\ T \subseteq S /\ T # S
  BY <1>3
<1>5. SumOf(T) \in Nat
  BY <1>1, <1>4
<1>6. SumOf(S) = SumOf(T) + Amount[i] /\ Amount[i] \in Nat
  BY <1>4, SumAssumption, ItemAssumption
<1> HIDE DEF T
<1>7. SumOf(S) \in Nat
  BY <1>5, <1>6
<1> QED BY <1>7

LEMMA SumOfParts ==
  ASSUME NEW A \in SUBSET LineItemID, NEW B \in SUBSET LineItemID, A \cap B = {}
  PROVE  SumOf(A \cup B) = SumOf(A) + SumOf(B)
<1> DEFINE F == {T \in SUBSET B : SumOf(A \cup T) # SumOf(A) + SumOf(T)}
<1> SUFFICES ASSUME F # {} PROVE FALSE
  OBVIOUS
<1>1. PICK S \in F : \A T \in F : T \subseteq S => T = S
  <2>1. IsFiniteSet(B) /\ F \in SUBSET SUBSET B
    BY FS_Subset, ItemAssumption
  <2> HIDE DEF F
  <2> QED BY <2>1, SmallestSet
<1>2. S # {}
  <2>1. SumOf(A \cup {}) = SumOf(A) + 0
    <3>1. A \cup {} = A /\ SumOf(A) \in Int
      BY SumAssumption
    <3> QED BY <3>1
  <2> QED BY <2>1, SumAssumption
<1>3. PICK i : i \in S
  BY <1>2
<1> DEFINE T == S \ {i}
<1>4. /\ T \in SUBSET B /\ i \in LineItemID \ T /\ S = T \cup {i}
      /\ T \subseteq S /\ T # S
  BY <1>3
<1>5. SumOf(A \cup T) = SumOf(A) + SumOf(T)
  BY <1>1, <1>4
<1>6. /\ A \cup T \in SUBSET LineItemID /\ i \in LineItemID \ (A \cup T)
      /\ A \cup S = (A \cup T) \cup {i}
  BY <1>3, <1>4
<1>7. /\ SumOf(S) = SumOf(T) + Amount[i]
      /\ SumOf(A \cup S) = SumOf(A \cup T) + Amount[i]
  BY <1>4, <1>6, SumAssumption
<1>8. SumOf(A) \in Int /\ SumOf(T) \in Int /\ Amount[i] \in Int
  BY <1>4, SumAssumption, ItemAssumption
<1> HIDE DEF T
<1>9. SumOf(A \cup S) = SumOf(A) + SumOf(S)
  BY <1>5, <1>7, <1>8
<1> QED BY <1>1, <1>9
-----------------------------------------------------------------------------
(***************************************************************************)
(* The difference. Every row was counted, is being inserted, or is of an   *)
(* insert given up, whose uuid no later step inserts or counts; every      *)
(* VOIDED row was taken off the total, or is of a void without a reply.    *)
(***************************************************************************)
RowsInv ==
  /\ charged \subseteq Recorded
  /\ Recorded \cup late.insert \subseteq charged \cup BeingAdded \cup lost.insert
  /\ refunded \subseteq charged \cup lost.insert
  /\ lost.insert \subseteq issued \ charged
  /\ BeingAdded \cap lost.insert = {}
  /\ \A k \in 1..Len(addItemSignalChan) : addItemSignalChan[k] \notin lost.insert

VoidsInv == late.void \cup (Voided \ refunded) \subseteq lost.void

\* What the statements do to the rows that are there and to those that are VOIDED.
LEMMA RowsOfStatements ==
  ASSUME TypeOK
  PROVE  /\ UNCHANGED item => Recorded' = Recorded /\ Voided' = Voided
         /\ \A i \in LineItemID :
              /\ item' = InsertLineItem(i) =>
                   Recorded' = Recorded \cup {i} /\ Voided' = Voided
              /\ item' = VoidLineItem(i) =>
                   /\ Recorded' = Recorded
                   /\ Voided' = IF Voidable(i) THEN Voided \cup {i} ELSE Voided
<1>1. UNCHANGED item => Recorded' = Recorded /\ Voided' = Voided
  BY DEF Recorded, Voided
<1>2. ASSUME NEW i \in LineItemID, item' = InsertLineItem(i)
      PROVE  Recorded' = Recorded \cup {i} /\ Voided' = Voided
  BY <1>2 DEF TypeOK, ItemRows, InsertLineItem, Recorded, Voided
<1>3. ASSUME NEW i \in LineItemID, item' = VoidLineItem(i)
      PROVE  /\ Recorded' = Recorded
             /\ Voided' = IF Voidable(i) THEN Voided \cup {i} ELSE Voided
  <2>0. \A j \in LineItemID :
          item'[j] = IF j = i /\ Voidable(i) THEN "VOIDED" ELSE item[j]
    BY <1>3 DEF TypeOK, ItemRows, VoidLineItem
  <2>1. Recorded' = Recorded
    BY <2>0 DEF Recorded, Voidable
  <2>2. CASE Voidable(i)
    BY <2>0, <2>1, <2>2 DEF Voided
  <2>3. CASE ~Voidable(i)
    BY <2>0, <2>1, <2>3 DEF Voided
  <2> QED BY <2>2, <2>3
<1> QED BY <1>1, <1>2, <1>3

\* Steps that count nothing and give no insert up.
LEMMA RowsFrame ==
  ASSUME TypeInv, ItemsAdvance, RowsInv, UNCHANGED <<charged, refunded>>,
         lost'.insert = lost.insert, issued \subseteq issued',
         late'.insert \subseteq late.insert \cup BeingAdded,
         Recorded' \subseteq Recorded \cup late.insert,
         BeingAdded \subseteq BeingAdded', BeingAdded' \cap lost.insert = {},
         \A k \in 1..Len(addItemSignalChan') : addItemSignalChan'[k] \notin lost.insert
  PROVE  RowsInv'
<1>1. Recorded \subseteq Recorded'
  BY RecordedStays
<1>2. /\ charged' \subseteq Recorded'
      /\ refunded' \subseteq charged' \cup lost'.insert
      /\ lost'.insert \subseteq issued' \ charged'
  BY <1>1 DEF RowsInv
<1>3. Recorded' \cup late'.insert \subseteq charged' \cup BeingAdded' \cup lost'.insert
  BY DEF RowsInv
<1> QED BY <1>2, <1>3 DEF RowsInv

LEMMA RowsRequests ==
  ASSUME TypeInv, ItemsAdvance, RowsInv,
         ApiStep \/ PeriodEnds \/ RecurringTimerFires \/ LateCommit \/ Finished
           \/ UNCHANGED vars
  PROVE  RowsInv'
<1>0. /\ TypeOK /\ late \in LateStatements /\ addItemSignalChan \in Seq(LineItemID)
      /\ issued \in SUBSET LineItemID
  BY DEF TypeInv, TypeOK
<1>1. UNCHANGED <<pc, subject, charged, refunded, lost>>
  BY DEF ApiStep, ApiAddLineItem, ApiVoidCheck, ApiVoidSignal, ApiCloseBill,
         ApiCloseBillReturn, PeriodEnds, RecurringTimerFires, LateCommit, Finished,
         vars, run, history
<1>2. BeingAdded' = BeingAdded /\ BeingAdded \cap lost.insert = {}
  BY <1>1 DEF BeingAdded, RowsInv
<1>3. ASSUME NEW i \in LineItemID, ApiAddLineItem(i) PROVE RowsInv'
  <2>1. /\ i \notin issued /\ issued' = issued \cup {i} /\ UNCHANGED <<item, late>>
        /\ addItemSignalChan' = Append(addItemSignalChan, i)
    BY <1>3 DEF ApiAddLineItem, db
  <2>2. Recorded' = Recorded
    BY <1>0, <2>1, RowsOfStatements
  <2>3. ASSUME NEW k \in 1..Len(addItemSignalChan')
        PROVE  addItemSignalChan'[k] \notin lost.insert
    <3>1. k \in 1..Len(Append(addItemSignalChan, i))
      BY <2>1
    <3>2. Append(addItemSignalChan, i)[k] = i
            \/ (/\ k \in 1..Len(addItemSignalChan)
                /\ Append(addItemSignalChan, i)[k] = addItemSignalChan[k])
      BY <1>0, <3>1, AppendedItem
    <3> QED BY <2>1, <3>2 DEF RowsInv
  <2>4. issued \subseteq issued' /\ late'.insert \subseteq late.insert \cup BeingAdded
    BY <2>1
  <2> QED BY <1>1, <1>2, <2>2, <2>3, <2>4, RowsFrame
<1>4. CASE LateCommit
  <2>1. UNCHANGED <<addItemSignalChan, issued>>
    BY <1>4 DEF LateCommit, chans, clients
  <2>2. /\ late'.insert \subseteq late.insert
        /\ \/ UNCHANGED item
           \/ \E i \in late.insert : item' = InsertLineItem(i)
           \/ \E i \in LineItemID : item' = VoidLineItem(i)
    <3>1. late.void \subseteq LineItemID
      BY <1>0 DEF LateStatements
    <3> QED BY <1>0, <1>4, <3>1 DEF LateCommit, LateStatements
  <2>3. Recorded' \subseteq Recorded \cup late.insert
    <3>1. late.insert \subseteq LineItemID
      BY <1>0 DEF LateStatements
    <3> QED BY <1>0, <2>2, <3>1, RowsOfStatements
  <2> QED BY <1>1, <1>2, <2>1, <2>2, <2>3, RowsFrame DEF RowsInv
<1>5. CASE \/ \E v \in Voider : ApiVoidSignal(v) \/ \E i \in LineItemID : ApiVoidCheck(v, i)
           \/ \E c \in Closer : ApiCloseBill(c) \/ ApiCloseBillReturn(c)
           \/ PeriodEnds \/ RecurringTimerFires \/ Finished \/ UNCHANGED vars
  <2>1. UNCHANGED <<item, late, issued, addItemSignalChan>>
    BY <1>5 DEF ApiVoidSignal, ApiVoidCheck, ApiCloseBill, ApiCloseBillReturn, PeriodEnds,
                RecurringTimerFires, Finished, vars, db, chans, clients
  <2>2. Recorded' = Recorded
    BY <1>0, <2>1, RowsOfStatements
  <2> QED BY <1>1, <1>2, <2>1, <2>2, RowsFrame DEF RowsInv
<1> QED BY <1>3, <1>4, <1>5 DEF ApiStep

LEMMA RowsReceive ==
  ASSUME TypeInv, OnceInv, ItemsAdvance, RowsInv, ReceiveStep
  PROVE  RowsInv'
<1>0. /\ TypeOK /\ addItemSignalChan \in Seq(LineItemID) /\ BeingAdded = {}
      /\ UNCHANGED <<item, late, charged, refunded, lost>> /\ Recorded' = Recorded
  <2>1. BeingAdded = {} /\ UNCHANGED <<item, late, charged, refunded, lost>>
    BY TurnReady DEF ReceiveStep, ReceiveAddLineItem, ReceiveRecurring,
                     ReceiveUpdateLineItem, ReceiveCloseBill, TimerFired, db, history,
                     BeingAdded
  <2> QED BY <2>1, RowsOfStatements DEF TypeInv, TypeOK
<1>1. CASE ReceiveAddLineItem
  <2>1. /\ addItemSignalChan # <<>> /\ UNCHANGED issued
        /\ \/ pc' = "AddLineItem" /\ subject' = Head(addItemSignalChan)
                /\ addItemSignalChan' = Tail(addItemSignalChan)
           \/ pc' = "Select" /\ (\/ addItemSignalChan' = Tail(addItemSignalChan)
                                 \/ addItemSignalChan' = <<>>)
    BY <1>1, TurnReady DEF ReceiveAddLineItem, Execute, LoopAgain, clients
  <2>2. /\ 1 \in 1..Len(addItemSignalChan)
        /\ Head(addItemSignalChan) = addItemSignalChan[1]
    BY <1>0, <2>1
  <2>3. BeingAdded' \cap lost.insert = {}
    BY <2>1, <2>2 DEF BeingAdded, RowsInv
  <2>4. \A k \in 1..Len(Tail(addItemSignalChan)) :
          Tail(addItemSignalChan)[k] \notin lost.insert
    <3>1. \A k \in 1..Len(Tail(addItemSignalChan)) :
            \E j \in 1..Len(addItemSignalChan) :
              Tail(addItemSignalChan)[k] = addItemSignalChan[j]
      BY <1>0, <2>1, TailDistinct DEF OnceInv
    <3> QED BY <3>1 DEF RowsInv
  <2>5. \A k \in 1..Len(addItemSignalChan') : addItemSignalChan'[k] \notin lost.insert
    BY <2>1, <2>4
  <2> QED BY <1>0, <2>1, <2>3, <2>5, RowsFrame
<1>2. CASE ReceiveRecurring
  <2>1. PICK f \in FeeID \ issued :
          issued' = issued \cup {f} /\ pc' = "RecurringItem" /\ subject' = f
    BY <1>2 DEF ReceiveRecurring, Execute
  <2>2. UNCHANGED addItemSignalChan
    BY <1>2 DEF ReceiveRecurring, chans
  <2>3. BeingAdded' \cap lost.insert = {}
    BY <2>1 DEF BeingAdded, RowsInv
  <2>4. issued \subseteq issued'
    BY <2>1
  <2> QED BY <1>0, <2>2, <2>3, <2>4, RowsFrame DEF RowsInv
<1>3. CASE ReceiveUpdateLineItem \/ ReceiveCloseBill \/ TimerFired
  <2>1. /\ UNCHANGED issued /\ pc' \notin {"AddLineItem", "RecurringItem"}
        /\ addItemSignalChan' = addItemSignalChan \/ addItemSignalChan' = <<>>
    BY <1>3 DEF ReceiveUpdateLineItem, ReceiveCloseBill, TimerFired, Execute, LoopAgain,
                chans, clients
  <2>2. BeingAdded' = {}
    BY <2>1 DEF BeingAdded
  <2>3. \A k \in 1..Len(addItemSignalChan') : addItemSignalChan'[k] \notin lost.insert
    BY <2>1 DEF RowsInv
  <2> QED BY <1>0, <2>1, <2>2, <2>3, RowsFrame
<1> QED BY <1>1, <1>2, <1>3 DEF ReceiveStep

LEMMA RowsActivity ==
  ASSUME TypeInv, OnceInv, ItemsAdvance, RowsInv, ActivityStep \/ StartPostProcess
  PROVE  RowsInv'
<1>0. /\ TypeOK /\ late \in LateStatements /\ lost \in Losses /\ UNCHANGED issued
      /\ Recorded \subseteq Recorded'
  BY RecordedStays
     DEF TypeInv, TypeOK, ActivityStep, CreateBillDone, AddLineItemDone,
         RecurringItemDone, UpdateLineItemDone, CloseBillFromStateDone, GetBillDetailDone,
         Retry, GiveUp, StartPostProcess, clients
<1>1. addItemSignalChan' = addItemSignalChan \/ addItemSignalChan' = <<>>
  BY DEF ActivityStep, CreateBillDone, AddLineItemDone, RecurringItemDone,
         UpdateLineItemDone, CloseBillFromStateDone, GetBillDetailDone, Retry, GiveUp,
         StartPostProcess, LoopAgain, chans
<1>2. \A k \in 1..Len(addItemSignalChan') : addItemSignalChan'[k] \notin lost.insert
  BY <1>1 DEF RowsInv
<1>3. CASE AddLineItemDone \/ RecurringItemDone
  <2>1. /\ item' = InsertLineItem(subject) /\ charged' = charged \cup {subject}
        /\ UNCHANGED <<late, refunded, lost>> /\ subject \in LineItemID
        /\ BeingAdded = {subject} /\ pc' = "Select"
    BY <1>3 DEF AddLineItemDone, RecurringItemDone, TypeInv, LoopActivities, BeingAdded,
                LoopAgain
  <2>2. Recorded' = Recorded \cup {subject} /\ BeingAdded' = {}
    BY <1>0, <2>1, RowsOfStatements DEF BeingAdded
  <2>3. /\ charged' \subseteq Recorded'
        /\ Recorded' \cup late'.insert \subseteq charged' \cup BeingAdded' \cup lost'.insert
        /\ refunded' \subseteq charged' \cup lost'.insert
    BY <2>1, <2>2 DEF RowsInv
  <2>4. lost'.insert \subseteq issued' \ charged'
    BY <1>0, <2>1 DEF RowsInv
  <2> QED BY <1>2, <2>1, <2>2, <2>3, <2>4 DEF RowsInv
<1>4. CASE UpdateLineItemDone
  <2>1. /\ UNCHANGED <<late, charged, lost>> /\ subject \in LineItemID
        /\ pc = "UpdateLineItem" /\ pc' = "Select"
        /\ \/ Voidable(subject) /\ item' = VoidLineItem(subject)
                                /\ refunded' = refunded \cup {subject}
           \/ UNCHANGED <<item, refunded>>
    BY <1>4 DEF UpdateLineItemDone, TypeInv, LoopActivities, LoopAgain
  <2>2. Recorded' = Recorded /\ BeingAdded = {} /\ BeingAdded' = {}
    BY <1>0, <2>1, RowsOfStatements DEF BeingAdded
  <2>3. Voidable(subject) => subject \in charged \cup lost.insert
    BY <2>1, <2>2 DEF RowsInv, Recorded, Voidable
  <2> QED BY <1>0, <1>2, <2>1, <2>2, <2>3 DEF RowsInv
<1>5. CASE CreateBillDone \/ CloseBillFromStateDone \/ GetBillDetailDone \/ StartPostProcess
  <2>1. /\ UNCHANGED <<item, late, charged, refunded, lost>>
        /\ {pc, pc'} \cap {"AddLineItem", "RecurringItem"} = {}
    BY <1>5 DEF CreateBillDone, CloseBillFromStateDone, GetBillDetailDone,
                StartPostProcess, Execute, db, history
  <2>2. Recorded' = Recorded /\ BeingAdded = {} /\ BeingAdded' = {}
    BY <1>0, <2>1, RowsOfStatements DEF BeingAdded
  <2> QED BY <1>0, <1>2, <2>1, <2>2, RowsFrame
<1>6. CASE Retry \/ GiveUp
  <2>1. UNCHANGED <<item, charged, refunded>> /\ late' = Abandoned
    BY <1>6 DEF Retry, GiveUp
  <2>2. Recorded' = Recorded /\ late'.insert \subseteq late.insert \cup BeingAdded
    BY <1>0, <2>1, RowsOfStatements DEF Abandoned, LateStatements, BeingAdded
  <2>3. CASE /\ UNCHANGED <<pc, subject>> \/ (BeingAdded = {} /\ BeingAdded' = {})
             /\ lost'.insert = lost.insert
    <3>1. BeingAdded' = BeingAdded
      BY <2>3 DEF BeingAdded
    <3>2. BeingAdded' \cap lost.insert = {}
      BY <3>1 DEF RowsInv
    <3> QED BY <1>0, <1>2, <2>1, <2>2, <2>3, <3>1, <3>2, RowsFrame
  <2>4. CASE Retry
    <3>1. UNCHANGED <<pc, subject>> /\ lost'.insert = lost.insert
      BY <1>0, <2>4 DEF Retry, LostVoid, Losses
    <3> QED BY <2>3, <3>1
  <2>5. CASE GiveUp /\ ~Inserting
    <3>1. /\ pc' \in {"Select", "Failed"}
          /\ lost' = LostVoid \/ lost' = lost
      BY <2>5 DEF GiveUp, LoopAgain, LoopActivities, Inserting
    <3>2. lost'.insert = lost.insert /\ BeingAdded = {} /\ BeingAdded' = {}
      BY <1>0, <2>5, <3>1 DEF LostVoid, Losses, BeingAdded, Inserting
    <3> QED BY <2>3, <3>2
  <2>6. CASE GiveUp /\ Inserting
    <3>1. lost' = LostInsert /\ pc' = "Select"
      BY <2>6 DEF GiveUp, LoopAgain, LoopActivities, Inserting
    <3>2. /\ lost'.insert = lost.insert \cup {subject}
          /\ BeingAdded = {subject} /\ BeingAdded' = {}
      BY <1>0, <2>6, <3>1 DEF LostInsert, Losses, BeingAdded, Inserting
    <3>3. subject \in issued \ charged
      BY <2>6 DEF OnceInv
    <3>4. \A k \in 1..Len(addItemSignalChan) : addItemSignalChan[k] # subject
      BY <2>6 DEF OnceInv, Uncounted
    <3>5. \A k \in 1..Len(addItemSignalChan') : addItemSignalChan'[k] \notin lost'.insert
      BY <1>1, <3>2, <3>4 DEF RowsInv
    <3>6. /\ charged' \subseteq Recorded'
          /\ Recorded' \cup late'.insert \subseteq charged' \cup BeingAdded' \cup lost'.insert
          /\ refunded' \subseteq charged' \cup lost'.insert
      BY <2>1, <2>2, <3>2 DEF RowsInv
    <3>7. lost'.insert \subseteq issued' \ charged'
      BY <1>0, <2>1, <3>2, <3>3 DEF RowsInv
    <3> QED BY <3>2, <3>5, <3>6, <3>7 DEF RowsInv
  <2> QED BY <1>6, <2>4, <2>5, <2>6
<1> QED BY <1>3, <1>4, <1>5, <1>6 DEF ActivityStep

LEMMA RowsNext ==
  TypeInv /\ OnceInv /\ ItemsAdvance /\ RowsInv /\ [Next]_vars => RowsInv'
BY RowsRequests, RowsReceive, RowsActivity DEF Next, RunStep

LEMMA VoidsFrame ==
  ASSUME VoidsInv, lost.void \subseteq lost'.void, refunded \subseteq refunded',
         late'.void \subseteq late.void \cup lost'.void,
         Voided' \subseteq Voided \cup late.void \cup refunded'
  PROVE  VoidsInv'
BY DEF VoidsInv

LEMMA VoidsNext == TypeInv /\ VoidsInv /\ [Next]_vars => VoidsInv'
<1> SUFFICES ASSUME TypeInv, VoidsInv, [Next]_vars PROVE VoidsInv'
  OBVIOUS
<1>0. TypeOK /\ late \in LateStatements /\ lost \in Losses
  BY DEF TypeInv, TypeOK
<1>1. CASE ApiStep \/ PeriodEnds \/ RecurringTimerFires \/ Finished \/ UNCHANGED vars
  <2>1. UNCHANGED <<item, late, refunded, lost>>
    BY <1>1
       DEF ApiStep, ApiAddLineItem, ApiVoidCheck, ApiVoidSignal, ApiCloseBill,
           ApiCloseBillReturn, PeriodEnds, RecurringTimerFires, Finished, vars,
           db, history
  <2> QED BY <1>0, <2>1, RowsOfStatements, VoidsFrame
<1>2. CASE \/ ReceiveStep \/ CreateBillDone \/ CloseBillFromStateDone
           \/ GetBillDetailDone \/ StartPostProcess
  <2>1. UNCHANGED <<item, late, refunded, lost>>
    BY <1>2
       DEF ReceiveStep, ReceiveAddLineItem, ReceiveRecurring, ReceiveUpdateLineItem,
           ReceiveCloseBill, TimerFired, CreateBillDone, CloseBillFromStateDone,
           GetBillDetailDone, StartPostProcess, db, history
  <2> QED BY <1>0, <2>1, RowsOfStatements, VoidsFrame
<1>3. CASE AddLineItemDone \/ RecurringItemDone
  <2>1. item' = InsertLineItem(subject) /\ UNCHANGED <<late, refunded, lost>>
        /\ subject \in LineItemID
    BY <1>3 DEF AddLineItemDone, RecurringItemDone, TypeInv, LoopActivities
  <2> QED BY <1>0, <2>1, RowsOfStatements, VoidsFrame
<1>4. CASE UpdateLineItemDone
  <2>1. UNCHANGED <<late, lost>> /\ subject \in LineItemID
    BY <1>4 DEF UpdateLineItemDone, TypeInv, LoopActivities
  <2>2. CASE Voidable(subject)
    <3>1. item' = VoidLineItem(subject) /\ refunded' = refunded \cup {subject}
      BY <1>4, <2>2 DEF UpdateLineItemDone
    <3>2. Voided' = Voided \cup {subject}
      BY <1>0, <2>1, <2>2, <3>1, RowsOfStatements
    <3> QED BY <2>1, <3>1, <3>2, VoidsFrame
  <2>3. CASE ~Voidable(subject)
    <3>1. UNCHANGED <<item, refunded>>
      BY <1>4, <2>3 DEF UpdateLineItemDone
    <3> QED BY <1>0, <2>1, <3>1, RowsOfStatements, VoidsFrame
  <2> QED BY <2>2, <2>3
<1>5. CASE Retry \/ GiveUp
  <2>1. UNCHANGED <<item, refunded>> /\ late' = Abandoned
    BY <1>5 DEF Retry, GiveUp
  <2>2. /\ pc = "UpdateLineItem" => lost' = LostVoid
        /\ lost' = LostVoid \/ lost' = LostInsert \/ lost' = lost
    BY <1>5 DEF Retry, GiveUp, LoopActivities
  <2>3. /\ lost.void \subseteq lost'.void
        /\ pc = "UpdateLineItem" => subject \in lost'.void
    BY <1>0, <2>2 DEF LostVoid, LostInsert, Losses
  <2>4. late'.void \subseteq late.void \cup lost'.void
    BY <1>0, <2>1, <2>3 DEF Abandoned, LateStatements
  <2> QED BY <1>0, <2>1, <2>3, <2>4, RowsOfStatements, VoidsFrame
<1>6. CASE LateCommit
  <2>1. UNCHANGED <<refunded, lost>>
    BY <1>6 DEF LateCommit, history
  <2>2. /\ late'.void \subseteq late.void
        /\ \/ UNCHANGED item
           \/ \E i \in LineItemID : item' = InsertLineItem(i)
           \/ \E i \in late.void : item' = VoidLineItem(i)
    <3>1. late.insert \subseteq LineItemID
      BY <1>0 DEF LateStatements
    <3> QED BY <1>0, <1>6, <3>1 DEF LateCommit, LateStatements
  <2>3. Voided' \subseteq Voided \cup late.void
    <3>1. late.void \subseteq LineItemID
      BY <1>0 DEF LateStatements
    <3> QED BY <1>0, <2>2, <3>1, RowsOfStatements
  <2> QED BY <2>1, <2>2, <2>3, VoidsFrame
<1> QED BY <1>1, <1>2, <1>3, <1>4, <1>5, <1>6 DEF Next, RunStep, ActivityStep

\* A closed bill has the running total, and nothing is being added to it any more.
LEMMA BilledIsTotal ==
  ASSUME BilledInv, bill.status = "CLOSED"
  PROVE  bill.total = state.Total /\ Active \ BeingAdded = Active
<1>1. bill.total = state.Total /\ BeingAdded = {}
  BY DEF BilledInv, Closing, BeingAdded
<1> QED BY <1>1

\* The voids that the total still has: VOIDED rows that were not taken off.
Unrefunded == Voided \ (BeingAdded \cup refunded)

LEMMA Difference ==
  ASSUME TypeInv, OnceInv, RowsInv
  PROVE  state.Total + SumOf(lost.insert \cap Recorded)
           = SumOf(Active \ BeingAdded) + SumOf(Unrefunded)
<1> DEFINE Given  == lost.insert \cap Recorded
           Billed == Active \ BeingAdded
<1>0. /\ charged \in SUBSET LineItemID /\ refunded \in SUBSET LineItemID
      /\ state.Total \in Int /\ Recorded = Active \cup Voided
      /\ Active \in SUBSET LineItemID /\ Voided \in SUBSET LineItemID
      /\ Active \cap Voided = {}
  <2>1. item \in ItemRows
    BY DEF TypeInv, TypeOK
  <2>2. Recorded = Active \cup Voided
    BY <2>1 DEF Recorded, Active, Voided, ItemRows
  <2> QED BY <2>2 DEF TypeInv, TypeOK, BillState, Active, Voided
<1>1. refunded \subseteq Voided /\ BeingAdded \cap charged = {}
  <2>1. \A i \in refunded : item[i] = "VOIDED"
    BY DEF OnceInv
  <2>2. refunded \subseteq Voided
    BY <1>0, <2>1 DEF Voided
  <2> QED BY <2>2 DEF OnceInv, Inserting, BeingAdded
<1>2. refunded \cap BeingAdded = {}
  BY <1>1 DEF RowsInv
<1>3. charged \cup Given = Billed \cup (refunded \cup Unrefunded)
  BY <1>0, <1>1, <1>2 DEF RowsInv, Unrefunded
<1>4. /\ charged \cap Given = {} /\ refunded \cap Unrefunded = {}
      /\ Billed \cap (refunded \cup Unrefunded) = {}
  BY <1>0, <1>1 DEF RowsInv, Unrefunded
<1>5. /\ Given \in SUBSET LineItemID /\ Billed \in SUBSET LineItemID
      /\ Unrefunded \in SUBSET LineItemID /\ refunded \cup Unrefunded \in SUBSET LineItemID
  BY <1>0 DEF Unrefunded
<1> HIDE DEF Given, Billed
<1>6. SumOf(charged \cup Given) = SumOf(charged) + SumOf(Given)
  BY <1>0, <1>4, <1>5, SumOfParts
<1>7. SumOf(refunded \cup Unrefunded) = SumOf(refunded) + SumOf(Unrefunded)
  BY <1>0, <1>4, <1>5, SumOfParts
<1>8. SumOf(Billed \cup (refunded \cup Unrefunded))
        = SumOf(Billed) + SumOf(refunded \cup Unrefunded)
  BY <1>4, <1>5, SumOfParts
<1>9. /\ SumOf(charged) \in Int /\ SumOf(refunded) \in Int /\ SumOf(Given) \in Int
      /\ SumOf(Billed) \in Int /\ SumOf(Unrefunded) \in Int
  BY <1>0, <1>5, SumAssumption
<1>10. state.Total = SumOf(charged) - SumOf(refunded)
  BY DEF OnceInv, CountedOnce
<1>11. SumOf(charged \cup Given) = SumOf(Billed \cup (refunded \cup Unrefunded))
  BY <1>3
<1>12. SumOf(charged) + SumOf(Given) = SumOf(Billed) + (SumOf(refunded) + SumOf(Unrefunded))
  BY <1>6, <1>7, <1>8, <1>11
<1>13. state.Total \in Int
  BY <1>0
<1>14. state.Total + SumOf(Given) = SumOf(Billed) + SumOf(Unrefunded)
  BY <1>9, <1>10, <1>12, <1>13
<1> QED BY <1>14 DEF Given, Billed

\* Whatever is lost, repeated, given up or late, the total differs from the active rows
\* by inserts that were given up and by voids whose reply was never seen, and by nothing
\* else; and a closed bill has that total.
THEOREM DifferenceAccounted == Spec => []DifferenceIsAccountedFor
<1>1. Init => RowsInv /\ VoidsInv
  BY DEF Init, RowsInv, VoidsInv, Recorded, Voided, BeingAdded
<1>2. TypeInv /\ OnceInv /\ BilledInv /\ RowsInv /\ VoidsInv => DifferenceIsAccountedFor
  <2> SUFFICES ASSUME TypeInv, OnceInv, BilledInv, RowsInv, VoidsInv
               PROVE  DifferenceIsAccountedFor
    OBVIOUS
  <2>1. Unrefunded \in SUBSET (lost.void \cap Voided)
    BY DEF VoidsInv, Unrefunded
  <2>2. state.Total + SumOf(lost.insert \cap Recorded)
          = SumOf(Active \ BeingAdded) + SumOf(Unrefunded)
    BY Difference
  <2>3. \E V \in SUBSET (lost.void \cap Voided) :
          state.Total + SumOf(lost.insert \cap Recorded)
            = SumOf(Active \ BeingAdded) + SumOf(V)
    BY <2>1, <2>2
  <2> QED BY <2>3, BilledIsTotal DEF DifferenceIsAccountedFor
<1> QED
  BY <1>1, <1>2, TypeInvInit, TypeInvNext, OnceInit, OnceNext, BilledInit, BilledNext,
     ItemsAdvanceNext, RowsNext, VoidsNext, PTL DEF Spec
-----------------------------------------------------------------------------
(***************************************************************************)
(* Which way a total is wrong. When no insert is given up none is lost, so *)
(* only refunds can be missing; when no void loses its reply or is given   *)
(* up every VOIDED row was taken off the total.                            *)
(***************************************************************************)
InsertsKept == {"AddLineItem", "RecurringItem"} \cap GivesUp = {}
VoidsKept   == "UpdateLineItem" \notin Lossy \cup GivesUp

KeptInv ==
  /\ InsertsKept => lost.insert = {}
  /\ VoidsKept => lost.void = {}

\* Voids that lose their replies or give up cost the customer, never the biller:
\* neither the running total nor the one persisted falls short of the rows, also when
\* a void commits late. Holds when no insert is given up.
NeverUnderbilled ==
  /\ state.Total >= SumOf(Active \ BeingAdded)
  /\ bill.status = "CLOSED" => bill.total >= SumOf(Active)

\* Inserts that lose their replies or give up cost the biller, never the customer:
\* neither total exceeds what the active rows add up to, also when an insert commits
\* late. Holds when no void loses its reply or is given up.
NeverOverbilled ==
  /\ state.Total <= SumOf(Active \ BeingAdded)
  /\ bill.status = "CLOSED" => bill.total <= SumOf(Active)

LEMMA KeptNext == TypeInv /\ KeptInv /\ [Next]_vars => KeptInv'
<1> SUFFICES ASSUME TypeInv, KeptInv, [Next]_vars PROVE KeptInv'
  OBVIOUS
<1>0. lost \in Losses
  BY DEF TypeInv, TypeOK
<1>1. CASE UNCHANGED lost
  BY <1>1 DEF KeptInv
<1>2. CASE Retry \/ GiveUp
  <2>1. \/ UNCHANGED lost
        \/ lost' = LostVoid /\ pc = "UpdateLineItem" /\ pc \in Lossy \cup GivesUp
        \/ lost' = LostInsert /\ pc \in {"AddLineItem", "RecurringItem"} /\ pc \in GivesUp
    BY <1>2 DEF Retry, GiveUp, LoopActivities
  <2> QED BY <1>0, <1>1, <2>1 DEF KeptInv, LostVoid, LostInsert, Losses, InsertsKept,
                                  VoidsKept
<1>3. CASE RunStep /\ ~Retry /\ ~GiveUp
  <2>1. UNCHANGED lost
    BY <1>3
       DEF RunStep, ReceiveStep, ActivityStep, ReceiveAddLineItem, ReceiveRecurring,
           ReceiveUpdateLineItem, ReceiveCloseBill, TimerFired, CreateBillDone,
           AddLineItemDone, RecurringItemDone, UpdateLineItemDone, CloseBillFromStateDone,
           GetBillDetailDone, StartPostProcess, history
  <2> QED BY <1>1, <2>1
<1>4. CASE ApiStep \/ PeriodEnds \/ RecurringTimerFires \/ LateCommit \/ Finished
             \/ UNCHANGED vars
  <2>1. UNCHANGED lost
    BY <1>4
       DEF ApiStep, ApiAddLineItem, ApiVoidCheck, ApiVoidSignal, ApiCloseBill,
           ApiCloseBillReturn, PeriodEnds, RecurringTimerFires, LateCommit,
           Finished, vars, history
  <2> QED BY <1>1, <2>1
<1> QED BY <1>2, <1>3, <1>4 DEF Next, RunStep, ActivityStep

\* Without inserts that are given up no total falls short of the active rows, neither
\* the running one nor the one of a closed bill, whatever happens to the voids.
THEOREM InsertsKeptNeverUnderbilled == InsertsKept => (Spec => []NeverUnderbilled)
<1> SUFFICES ASSUME InsertsKept PROVE Spec => []NeverUnderbilled
  OBVIOUS
<1>1. Init => RowsInv /\ KeptInv
  BY DEF Init, RowsInv, KeptInv, Recorded, BeingAdded
<1>2. TypeInv /\ OnceInv /\ BilledInv /\ RowsInv /\ KeptInv => NeverUnderbilled
  <2> SUFFICES ASSUME TypeInv, OnceInv, BilledInv, RowsInv, KeptInv
               PROVE  NeverUnderbilled
    OBVIOUS
  <2>1. lost.insert \cap Recorded = {}
    BY DEF KeptInv
  <2>2. state.Total + SumOf({}) = SumOf(Active \ BeingAdded) + SumOf(Unrefunded)
    BY <2>1, Difference
  <2>3. SumOf(Unrefunded) \in Nat /\ SumOf(Active \ BeingAdded) \in Nat
    <3>1. Unrefunded \in SUBSET LineItemID /\ Active \ BeingAdded \in SUBSET LineItemID
      BY DEF Unrefunded, Voided, Active
    <3> QED BY <3>1, SumIsNat
  <2>4. state.Total \in Int
    BY DEF TypeInv, TypeOK, BillState
  <2>5. state.Total >= SumOf(Active \ BeingAdded)
    BY <2>2, <2>3, <2>4, SumAssumption
  <2> QED BY <2>5, BilledIsTotal DEF NeverUnderbilled
<1> QED
  BY <1>1, <1>2, TypeInvInit, TypeInvNext, OnceInit, OnceNext, BilledInit, BilledNext,
     ItemsAdvanceNext, RowsNext, KeptNext, PTL DEF Spec

\* Without voids that are lost or given up no total exceeds the active rows, neither
\* the running one nor the one of a closed bill, whatever happens to the inserts.
THEOREM VoidsKeptNeverOverbilled == VoidsKept => (Spec => []NeverOverbilled)
<1> SUFFICES ASSUME VoidsKept PROVE Spec => []NeverOverbilled
  OBVIOUS
<1>1. Init => RowsInv /\ VoidsInv /\ KeptInv
  BY DEF Init, RowsInv, VoidsInv, KeptInv, Recorded, Voided, BeingAdded
<1>2. TypeInv /\ OnceInv /\ BilledInv /\ RowsInv /\ VoidsInv /\ KeptInv => NeverOverbilled
  <2> SUFFICES ASSUME TypeInv, OnceInv, BilledInv, RowsInv, VoidsInv, KeptInv
               PROVE  NeverOverbilled
    OBVIOUS
  <2>1. Unrefunded = {}
    BY DEF KeptInv, VoidsInv, Unrefunded
  <2>2. state.Total + SumOf(lost.insert \cap Recorded)
          = SumOf(Active \ BeingAdded) + SumOf({})
    BY <2>1, Difference
  <2>3. SumOf(lost.insert \cap Recorded) \in Nat /\ SumOf(Active \ BeingAdded) \in Nat
    <3>1. /\ lost.insert \cap Recorded \in SUBSET LineItemID
          /\ Active \ BeingAdded \in SUBSET LineItemID
      BY DEF Recorded, Active
    <3> QED BY <3>1, SumIsNat
  <2>4. state.Total \in Int
    BY DEF TypeInv, TypeOK, BillState
  <2>5. state.Total <= SumOf(Active \ BeingAdded)
    BY <2>2, <2>3, <2>4, SumAssumption
  <2> QED BY <2>5, BilledIsTotal DEF NeverOverbilled
<1> QED
  BY <1>1, <1>2, TypeInvInit, TypeInvNext, OnceInit, OnceNext, BilledInit, BilledNext,
     ItemsAdvanceNext, RowsNext, VoidsNext, KeptNext, PTL DEF Spec
-----------------------------------------------------------------------------
(***************************************************************************)
(* One fee per interval, at any threshold. Every attempt inserts under the *)
(* uuid its fee was given, and a uuid is drawn once for each time the      *)
(* timer fired as long as no fee is given up: FeeAhead is the firing that  *)
(* has no uuid yet. A run continued as new can only lose a firing.         *)
(***************************************************************************)
Drawn == issued \cap FeeID

DrawnInv ==
  /\ Recorded \subseteq issued
  /\ late.insert \subseteq issued
  /\ Cardinality(Drawn) + FeeAhead <= fires

LEMMA DrawnFinite == IsFiniteSet(Drawn) /\ Cardinality(Drawn) \in Nat
<1>1. IsFiniteSet(Drawn)
  BY ItemAssumption, FS_Subset DEF Drawn
<1> QED BY <1>1, FS_CardinalityType

\* Steps that draw no uuid, record only what has one and bring no fee nearer.
LEMMA DrawnFrame ==
  ASSUME TypeInv, OnceInv, DrawnInv, UNCHANGED <<issued, fires>>,
         Recorded' \subseteq Recorded \cup late.insert \cup BeingAdded,
         late'.insert \subseteq late.insert \cup BeingAdded,
         recurring' = "due" /\ pc' # "RecurringItem" =>
           recurring = "due" /\ pc # "RecurringItem"
  PROVE  DrawnInv'
<1>1. BeingAdded \subseteq issued
  BY DEF OnceInv, Inserting, BeingAdded
<1>2. Drawn' = Drawn /\ Cardinality(Drawn) \in Nat /\ fires \in Nat
  BY DrawnFinite DEF Drawn, TypeInv, TypeOK
<1>3. FeeAhead \in {0, 1} /\ FeeAhead' \in {0, 1} /\ FeeAhead' <= FeeAhead
  BY DEF FeeAhead
<1>4. Cardinality(Drawn') + FeeAhead' <= fires'
  BY <1>2, <1>3 DEF DrawnInv
<1> QED BY <1>1, <1>4 DEF DrawnInv

LEMMA DrawnRequests ==
  ASSUME TypeInv, OnceInv, DrawnInv,
         ApiStep \/ PeriodEnds \/ RecurringTimerFires \/ LateCommit \/ Finished
           \/ UNCHANGED vars
  PROVE  DrawnInv'
<1>0. TypeOK /\ late \in LateStatements /\ fires \in Nat /\ Cardinality(Drawn) \in Nat
  BY DrawnFinite DEF TypeInv, TypeOK
<1>1. ASSUME NEW i \in LineItemID, ApiAddLineItem(i) PROVE DrawnInv'
  <2>1. /\ i \notin FeeID /\ issued' = issued \cup {i}
        /\ UNCHANGED <<item, late, pc, recurring, fires>>
    BY <1>1 DEF ApiAddLineItem, db, run, timers, history
  <2>2. Drawn' = Drawn /\ FeeAhead' = FeeAhead /\ Recorded' = Recorded
    BY <2>1 DEF Drawn, FeeAhead, Recorded
  <2> QED BY <2>1, <2>2 DEF DrawnInv
<1>2. CASE RecurringTimerFires
  <2>1. /\ recurring = "armed" /\ fires' = fires + 1
        /\ UNCHANGED <<item, late, issued>>
    BY <1>2 DEF RecurringTimerFires, db, clients
  <2>2. /\ Drawn' = Drawn /\ Recorded' = Recorded
        /\ FeeAhead = 0 /\ FeeAhead' \in {0, 1}
    BY <2>1 DEF Drawn, FeeAhead, Recorded
  <2>3. Cardinality(Drawn') + FeeAhead' <= fires'
    BY <1>0, <2>1, <2>2 DEF DrawnInv
  <2> QED BY <2>1, <2>2, <2>3 DEF DrawnInv
<1>3. CASE LateCommit
  <2>1. UNCHANGED <<issued, fires, pc, recurring>>
    BY <1>3 DEF LateCommit, run, timers, clients, history
  <2>2. /\ late'.insert \subseteq late.insert
        /\ \/ UNCHANGED item
           \/ \E i \in late.insert : item' = InsertLineItem(i)
           \/ \E i \in LineItemID : item' = VoidLineItem(i)
    <3>1. late.void \subseteq LineItemID
      BY <1>0 DEF LateStatements
    <3> QED BY <1>0, <1>3, <3>1 DEF LateCommit, LateStatements
  <2>3. Recorded' \subseteq Recorded \cup late.insert
    <3>1. late.insert \subseteq LineItemID
      BY <1>0 DEF LateStatements
    <3> QED BY <1>0, <2>2, <3>1, RowsOfStatements
  <2> QED BY <2>1, <2>2, <2>3, DrawnFrame
<1>4. CASE \/ \E v \in Voider : ApiVoidSignal(v) \/ \E i \in LineItemID : ApiVoidCheck(v, i)
           \/ \E c \in Closer : ApiCloseBill(c) \/ ApiCloseBillReturn(c)
           \/ PeriodEnds \/ Finished \/ UNCHANGED vars
  <2>1. UNCHANGED <<item, late, issued, fires, pc, recurring>>
    BY <1>4 DEF ApiVoidSignal, ApiVoidCheck, ApiCloseBill, ApiCloseBillReturn, PeriodEnds,
                Finished, vars, db, run, timers, clients, history
  <2>2. Recorded' = Recorded
    BY <2>1 DEF Recorded
  <2> QED BY <2>1, <2>2, DrawnFrame
<1> QED BY <1>1, <1>2, <1>3, <1>4 DEF ApiStep

LEMMA DrawnRun ==
  ASSUME "RecurringItem" \notin GivesUp, TypeInv, OnceInv, DrawnInv, RunStep
  PROVE  DrawnInv'
<1>0. /\ TypeOK /\ late \in LateStatements /\ fires \in Nat
      /\ IsFiniteSet(Drawn) /\ Cardinality(Drawn) \in Nat
  BY DrawnFinite DEF TypeInv, TypeOK
<1>1. CASE ReceiveRecurring
  <2>1. PICK f \in FeeID \ issued :
          issued' = issued \cup {f} /\ pc' = "RecurringItem" /\ subject' = f
    BY <1>1 DEF ReceiveRecurring, Execute
  <2>2. /\ pc = "Select" /\ recurring = "due" /\ UNCHANGED <<item, late, fires>>
    BY <1>1, TurnReady DEF ReceiveRecurring, db, history
  <2>3. Drawn' = Drawn \cup {f} /\ f \notin Drawn
    BY <2>1 DEF Drawn
  <2>4. Cardinality(Drawn') = Cardinality(Drawn) + 1
    BY <1>0, <2>3, FS_AddElement
  <2>5. FeeAhead = 1 /\ FeeAhead' = 0
    BY <2>1, <2>2 DEF FeeAhead
  <2>6. Cardinality(Drawn') + FeeAhead' <= fires'
    BY <1>0, <2>2, <2>4, <2>5 DEF DrawnInv
  <2>7. Recorded' = Recorded
    BY <2>2 DEF Recorded
  <2> QED BY <2>1, <2>2, <2>6, <2>7 DEF DrawnInv
<1>2. CASE ReceiveAddLineItem \/ ReceiveUpdateLineItem \/ ReceiveCloseBill \/ TimerFired
  <2>1. /\ pc = "Select" /\ UNCHANGED <<item, late, issued, fires>>
        /\ recurring' = recurring \/ recurring' = NewBillingPolicy
    BY <1>2, TurnReady
       DEF ReceiveAddLineItem, ReceiveUpdateLineItem, ReceiveCloseBill, TimerFired,
           LoopAgain, db, timers, chans, clients, history
  <2>2. Recorded' = Recorded /\ NewBillingPolicy # "due"
    BY <2>1 DEF Recorded, NewBillingPolicy
  <2> QED BY <2>1, <2>2, DrawnFrame
<1>3. CASE AddLineItemDone \/ RecurringItemDone \/ UpdateLineItemDone
  <2>1. /\ subject \in LineItemID /\ UNCHANGED <<late, issued, fires>>
        /\ \/ item' = InsertLineItem(subject) /\ BeingAdded = {subject}
           \/ item' = VoidLineItem(subject) \/ UNCHANGED item
    BY <1>3 DEF AddLineItemDone, RecurringItemDone, UpdateLineItemDone, TypeInv,
                LoopActivities, BeingAdded, clients
  <2>2. Recorded' \subseteq Recorded \cup BeingAdded
    BY <1>0, <2>1, RowsOfStatements
  <2>3. \/ pc # "RecurringItem"
             /\ LoopAgain(addItemSignalChan, updateItemSignalChan, recurring)
        \/ LoopAgain(addItemSignalChan, updateItemSignalChan, "armed")
    BY <1>3 DEF AddLineItemDone, RecurringItemDone, UpdateLineItemDone
  <2>4. recurring' = "due" => recurring = "due" /\ pc # "RecurringItem"
    BY <2>3 DEF LoopAgain, NewBillingPolicy
  <2> QED BY <2>1, <2>2, <2>4, DrawnFrame
<1>4. CASE CreateBillDone \/ CloseBillFromStateDone \/ GetBillDetailDone \/ StartPostProcess
  <2>1. UNCHANGED <<item, late, issued, fires, recurring>> /\ pc # "RecurringItem"
    BY <1>4 DEF CreateBillDone, CloseBillFromStateDone, GetBillDetailDone,
                StartPostProcess, db, timers, clients, history
  <2>2. Recorded' = Recorded
    BY <2>1 DEF Recorded
  <2> QED BY <2>1, <2>2, DrawnFrame
<1>5. CASE Retry \/ GiveUp
  <2>1. UNCHANGED <<item, issued, fires>> /\ late' = Abandoned
    BY <1>5 DEF Retry, GiveUp, clients, history
  <2>2. late'.insert \subseteq late.insert \cup BeingAdded
    BY <1>0, <2>1 DEF Abandoned, LateStatements, BeingAdded
  <2>3. recurring' = "due" /\ pc' # "RecurringItem" =>
          recurring = "due" /\ pc # "RecurringItem"
    <3>1. CASE Retry
      BY <3>1 DEF Retry, timers
    <3>2. CASE GiveUp
      <4>1. pc # "RecurringItem" /\ (recurring' = recurring \/ recurring' = NewBillingPolicy)
        BY <3>2 DEF GiveUp, LoopAgain
      <4> QED BY <4>1 DEF NewBillingPolicy
    <3> QED BY <1>5, <3>1, <3>2
  <2>4. Recorded' = Recorded
    BY <2>1 DEF Recorded
  <2> QED BY <2>1, <2>2, <2>3, <2>4, DrawnFrame
<1> QED BY <1>1, <1>2, <1>3, <1>4, <1>5 DEF RunStep, ReceiveStep, ActivityStep

\* An interval is charged at most once, however often the insert of its fee is lost and
\* tried again and however often the run continues as new, when no fee is given up.
THEOREM FeesChargedOnce == "RecurringItem" \notin GivesUp => (Spec => []OneFeePerInterval)
<1> SUFFICES ASSUME "RecurringItem" \notin GivesUp PROVE Spec => []OneFeePerInterval
  OBVIOUS
<1>1. Init => DrawnInv
  <2> SUFFICES ASSUME Init PROVE DrawnInv
    OBVIOUS
  <2>1. Drawn = {} /\ Recorded = {} /\ FeeAhead = 0 /\ fires = 0 /\ late.insert = {}
    BY DEF Init, Drawn, Recorded, FeeAhead, NewBillingPolicy
  <2>2. Cardinality(Drawn) = 0
    BY <2>1, FS_EmptySet
  <2> QED BY <2>1, <2>2 DEF DrawnInv
<1>2. TypeInv /\ OnceInv /\ DrawnInv /\ [Next]_vars => DrawnInv'
  <2> SUFFICES ASSUME TypeInv, OnceInv, DrawnInv, [Next]_vars PROVE DrawnInv'
    OBVIOUS
  <2> QED BY DrawnRequests, DrawnRun DEF Next
<1>3. TypeInv /\ DrawnInv => OneFeePerInterval
  <2> SUFFICES ASSUME TypeInv, DrawnInv PROVE OneFeePerInterval
    OBVIOUS
  <2>1. Recorded \cap FeeID \subseteq Drawn
    BY DEF DrawnInv, Drawn
  <2>2. /\ IsFiniteSet(Drawn) /\ Cardinality(Drawn) \in Nat
        /\ Cardinality(Recorded \cap FeeID) \in Nat
        /\ Cardinality(Recorded \cap FeeID) <= Cardinality(Drawn)
    BY <2>1, DrawnFinite, FS_Subset, FS_CardinalityType
  <2>3. FeeAhead \in {0, 1} /\ fires \in Nat
    BY DEF FeeAhead, TypeInv, TypeOK
  <2> QED BY <2>2, <2>3 DEF DrawnInv, OneFeePerInterval
<1> QED BY <1>1, <1>2, <1>3, TypeInvInit, TypeInvNext, OnceInit, OnceNext, PTL DEF Spec
-----------------------------------------------------------------------------
(***************************************************************************)
(* The steps of a run: none of them leaves it as much to do as before.     *)
(***************************************************************************)
LEMMA AheadTyped ==
  ASSUME TypeInv
  PROVE  /\ Len(addItemSignalChan) \in Nat /\ Len(updateItemSignalChan) \in Nat
         /\ closeChan \in Nat /\ FeeAhead \in {0, 1} /\ Waits \in Nat
         /\ Stage \in 0..5 /\ Ahead \in Nat
<1>1. /\ Len(addItemSignalChan) \in Nat /\ Len(updateItemSignalChan) \in Nat
      /\ closeChan \in Nat /\ FeeAhead \in {0, 1}
  BY DEF TypeInv, TypeOK, FeeAhead
<1>2. Waits \in Nat
  BY <1>1 DEF Waits
<1>3. Stage \in 0..5
  BY DEF Stage
<1>4. Ahead \in Nat
  BY <1>2, <1>3 DEF Ahead
<1> QED BY <1>1, <1>2, <1>3, <1>4

\* Selecting again takes nothing into the channels, and no fee is due that was not.
LEMMA LoopAgainAhead ==
  ASSUME TypeInv, NEW add \in Seq(LineItemID), NEW update \in Seq(LineItemID), NEW timer,
         LoopAgain(add, update, timer)
  PROVE  /\ Stage' = 4
         /\ Waits' <= Len(add) + Len(update) + closeChan + (IF timer = "due" THEN 1 ELSE 0)
<1>0. Len(add) \in Nat /\ Len(update) \in Nat /\ closeChan \in Nat
  BY DEF TypeInv, TypeOK
<1>1. pc' = "Select" /\ Stage' = 4
  BY DEF LoopAgain, Stage, LoopActivities
<1>2. CASE /\ addItemSignalChan' = add /\ updateItemSignalChan' = update
           /\ closeChan' = closeChan /\ recurring' = timer
  BY <1>0, <1>1, <1>2 DEF Waits, FeeAhead
<1>3. CASE /\ addItemSignalChan' = <<>> /\ updateItemSignalChan' = <<>>
           /\ closeChan' = 0 /\ recurring' = NewBillingPolicy
  <2>1. Waits' = 0
    BY <1>3 DEF Waits, FeeAhead, NewBillingPolicy
  <2> QED BY <1>0, <1>1, <2>1
<1> QED BY <1>1, <1>2, <1>3 DEF LoopAgain

LEMMA AheadTypedNext ==
  ASSUME TypeInv, [Next]_vars
  PROVE  Waits' \in Nat /\ Stage' \in 0..5 /\ FeeAhead' \in {0, 1}
<1>1. TypeInv'
  BY TypeInvNext
<1>2. /\ Len(addItemSignalChan') \in Nat /\ Len(updateItemSignalChan') \in Nat
      /\ closeChan' \in Nat /\ FeeAhead' \in {0, 1}
  BY <1>1 DEF TypeInv, TypeOK, FeeAhead
<1>3. Waits' \in Nat
  BY <1>2 DEF Waits
<1>4. Stage' \in 0..5
  BY DEF Stage
<1> QED BY <1>2, <1>3, <1>4

LEMMA ReceiveProgress == TypeInv /\ ReceiveStep => Ahead' < Ahead
<1> SUFFICES ASSUME TypeInv, ReceiveStep PROVE Ahead' < Ahead
  OBVIOUS
<1>0. /\ pc = "Select" /\ Stage = 4
      /\ addItemSignalChan \in Seq(LineItemID) /\ updateItemSignalChan \in Seq(LineItemID)
  <2>1. pc = "Select"
    BY TurnReady
       DEF ReceiveStep, ReceiveAddLineItem, ReceiveRecurring, ReceiveUpdateLineItem,
           ReceiveCloseBill, TimerFired
  <2> QED BY <2>1 DEF Stage, LoopActivities, TypeInv, TypeOK
<1>1. /\ Len(addItemSignalChan) \in Nat /\ Len(updateItemSignalChan) \in Nat
      /\ closeChan \in Nat /\ FeeAhead \in {0, 1} /\ Waits \in Nat
      /\ Waits = Len(addItemSignalChan) + Len(updateItemSignalChan) + closeChan + FeeAhead
      /\ FeeAhead = (IF recurring = "due" THEN 1 ELSE 0)
  BY <1>0, AheadTyped DEF Waits, FeeAhead
<1>2. Waits' \in Nat /\ Stage' \in 0..5
  BY AheadTypedNext DEF Next, RunStep
<1>3. CASE Waits' <= Waits - 1
  BY <1>0, <1>1, <1>2, <1>3 DEF Ahead
<1>4. ASSUME NEW s \in Seq(LineItemID), s # <<>>
      PROVE  Tail(s) \in Seq(LineItemID) /\ Len(Tail(s)) = Len(s) - 1
  BY <1>4
<1>5. CASE ReceiveAddLineItem
  <2>1. /\ Tail(addItemSignalChan) \in Seq(LineItemID)
        /\ Len(Tail(addItemSignalChan)) = Len(addItemSignalChan) - 1
    BY <1>0, <1>4, <1>5, TurnReady DEF ReceiveAddLineItem
  <2>2. CASE /\ Execute("AddLineItem", Head(addItemSignalChan))
             /\ addItemSignalChan' = Tail(addItemSignalChan)
             /\ UNCHANGED <<updateItemSignalChan, closeChan, recurring>>
    <3>1. FeeAhead' = FeeAhead
      BY <1>1, <2>2 DEF Execute, FeeAhead
    <3>2. Waits' = Waits - 1
      BY <1>1, <2>1, <2>2, <3>1 DEF Waits
    <3> QED BY <1>1, <1>3, <3>2
  <2>3. CASE LoopAgain(Tail(addItemSignalChan), updateItemSignalChan, recurring)
    <3>1. Waits' <= Len(Tail(addItemSignalChan)) + Len(updateItemSignalChan) + closeChan
                      + (IF recurring = "due" THEN 1 ELSE 0)
      BY <1>0, <2>1, <2>3, LoopAgainAhead
    <3> QED BY <1>1, <1>2, <1>3, <2>1, <3>1
  <2> QED BY <1>5, <2>2, <2>3 DEF ReceiveAddLineItem
<1>6. CASE ReceiveUpdateLineItem
  <2>1. /\ Tail(updateItemSignalChan) \in Seq(LineItemID)
        /\ Len(Tail(updateItemSignalChan)) = Len(updateItemSignalChan) - 1
    BY <1>0, <1>4, <1>6, TurnReady DEF ReceiveUpdateLineItem
  <2>2. CASE /\ Execute("UpdateLineItem", Head(updateItemSignalChan))
             /\ updateItemSignalChan' = Tail(updateItemSignalChan)
             /\ UNCHANGED <<addItemSignalChan, closeChan, recurring>>
    <3>1. FeeAhead' = FeeAhead
      BY <1>1, <2>2 DEF Execute, FeeAhead
    <3>2. Waits' = Waits - 1
      BY <1>1, <2>1, <2>2, <3>1 DEF Waits
    <3> QED BY <1>1, <1>3, <3>2
  <2>3. CASE LoopAgain(addItemSignalChan, Tail(updateItemSignalChan), recurring)
    <3>1. Waits' <= Len(addItemSignalChan) + Len(Tail(updateItemSignalChan)) + closeChan
                      + (IF recurring = "due" THEN 1 ELSE 0)
      BY <1>0, <2>1, <2>3, LoopAgainAhead
    <3> QED BY <1>1, <1>2, <1>3, <2>1, <3>1
  <2> QED BY <1>6, <2>2, <2>3 DEF ReceiveUpdateLineItem
<1>7. CASE ReceiveRecurring
  <2>1. /\ recurring = "due" /\ pc' = "RecurringItem"
        /\ UNCHANGED <<addItemSignalChan, updateItemSignalChan, closeChan>>
    BY <1>7, TurnReady DEF ReceiveRecurring, Execute, chans
  <2>2. FeeAhead' = 0 /\ FeeAhead = 1
    BY <1>1, <2>1 DEF FeeAhead
  <2>3. Waits' = Waits - 1
    BY <1>1, <2>1, <2>2 DEF Waits
  <2> QED BY <1>1, <1>3, <2>3
<1>8. CASE ReceiveCloseBill \/ TimerFired
  <2>1. /\ pc' = "CloseBillFromState" /\ UNCHANGED timers
        /\ UNCHANGED <<addItemSignalChan, updateItemSignalChan>>
        /\ closeChan' = closeChan - 1 \/ closeChan' = closeChan
    BY <1>8 DEF ReceiveCloseBill, TimerFired, Execute, chans
  <2>2. FeeAhead' = FeeAhead /\ Stage' = 3
    BY <1>1, <2>1 DEF FeeAhead, timers, Stage, LoopActivities
  <2>3. Waits' <= Waits
    BY <1>1, <2>1, <2>2 DEF Waits
  <2> QED BY <1>0, <1>1, <1>2, <2>2, <2>3 DEF Ahead
<1> QED BY <1>5, <1>6, <1>7, <1>8 DEF ReceiveStep

LEMMA ActivityProgress ==
  ASSUME "RecurringItem" \notin GivesUp, TypeInv, ActivityStep \/ StartPostProcess
  PROVE  \/ Ahead' < Ahead
         \/ Ahead' = Ahead /\ attempt < attempt' /\ attempt' <= maxRetryAttempt
<1>0. /\ addItemSignalChan \in Seq(LineItemID) /\ updateItemSignalChan \in Seq(LineItemID)
      /\ Len(addItemSignalChan) \in Nat /\ Len(updateItemSignalChan) \in Nat
      /\ closeChan \in Nat /\ FeeAhead \in {0, 1} /\ Waits \in Nat
      /\ Waits = Len(addItemSignalChan) + Len(updateItemSignalChan) + closeChan + FeeAhead
      /\ Stage \in 0..5
  BY AheadTyped DEF Waits, TypeInv, TypeOK
<1>1. Waits' \in Nat /\ Stage' \in 0..5
  BY AheadTypedNext DEF Next, RunStep
<1>2. CASE Waits' <= Waits /\ Stage' < Stage
  BY <1>0, <1>1, <1>2 DEF Ahead
<1>3. ASSUME NEW timer, LoopAgain(addItemSignalChan, updateItemSignalChan, timer),
             pc \in LoopActivities,
             timer = "due" => recurring = "due" /\ pc # "RecurringItem"
      PROVE  Ahead' < Ahead
  <2>1. /\ Stage' = 4
        /\ Waits' <= Len(addItemSignalChan) + Len(updateItemSignalChan) + closeChan
                       + (IF timer = "due" THEN 1 ELSE 0)
    BY <1>0, <1>3, LoopAgainAhead
  <2>2. (IF timer = "due" THEN 1 ELSE 0) <= FeeAhead
    BY <1>3 DEF FeeAhead
  <2>3. Stage = 5
    BY <1>3 DEF Stage, LoopActivities
  <2>4. Waits' <= Waits
    BY <1>0, <1>1, <2>1, <2>2
  <2> QED BY <1>0, <1>1, <2>1, <2>3, <2>4 DEF Ahead
<1>4. CASE AddLineItemDone \/ RecurringItemDone \/ UpdateLineItemDone
  <2>1. /\ pc \in LoopActivities
        /\ \/ pc # "RecurringItem"
                /\ LoopAgain(addItemSignalChan, updateItemSignalChan, recurring)
           \/ LoopAgain(addItemSignalChan, updateItemSignalChan, "armed")
    BY <1>4 DEF AddLineItemDone, RecurringItemDone, UpdateLineItemDone, LoopActivities
  <2>2. CASE /\ pc # "RecurringItem"
             /\ LoopAgain(addItemSignalChan, updateItemSignalChan, recurring)
    BY <1>3, <2>1, <2>2
  <2>3. CASE LoopAgain(addItemSignalChan, updateItemSignalChan, "armed")
    BY <1>3, <2>1, <2>3
  <2> QED BY <2>1, <2>2, <2>3
<1>5. CASE CreateBillDone \/ CloseBillFromStateDone \/ GetBillDetailDone \/ StartPostProcess
  <2>1. /\ UNCHANGED <<chans, timers>> /\ pc # "RecurringItem"
        /\ <<pc, pc'>> \in {<<"CreateBill", "Select">>,
             <<"CloseBillFromState", "GetBillDetail">>, <<"GetBillDetail", "StartPostProcess">>,
             <<"GetBillDetail", "Completed">>, <<"StartPostProcess", "Completed">>}
    BY <1>5 DEF CreateBillDone, CloseBillFromStateDone, GetBillDetailDone, StartPostProcess,
                Execute
  <2>2. Stage' < Stage
    BY <2>1 DEF Stage, LoopActivities
  <2>3. FeeAhead' = FeeAhead
    BY <2>1 DEF FeeAhead, timers
  <2>4. Waits' = Waits
    BY <2>1, <2>3 DEF Waits, chans
  <2> QED BY <1>0, <1>2, <2>2, <2>4
<1>6. CASE Retry
  <2>1. /\ UNCHANGED <<chans, timers, pc>>
        /\ attempt < maxRetryAttempt /\ attempt' = attempt + 1
        /\ attempt \in Nat
    BY <1>6, WorkflowAssumption DEF Retry, TypeInv, TypeOK
  <2>2. Stage' = Stage /\ FeeAhead' = FeeAhead
    BY <2>1 DEF Stage, FeeAhead, timers
  <2>3. Ahead' = Ahead
    BY <2>1, <2>2 DEF Ahead, Waits, chans
  <2> QED BY <2>1, <2>3, WorkflowAssumption
<1>7. CASE GiveUp
  <2>1. CASE pc \in LoopActivities
    <3>1. LoopAgain(addItemSignalChan, updateItemSignalChan, recurring)
          /\ pc # "RecurringItem"
      BY <1>7, <2>1 DEF GiveUp
    <3> QED BY <1>3, <2>1, <3>1
  <2>2. CASE pc \notin LoopActivities
    <3>1. /\ pc' = "Failed" /\ UNCHANGED <<chans, recurring>>
          /\ pc \in {"CreateBill", "CloseBillFromState", "GetBillDetail"}
      BY <1>7, <2>2, WorkflowAssumption DEF GiveUp, Activities
    <3>2. Stage' < Stage /\ FeeAhead' = FeeAhead
      BY <3>1 DEF Stage, LoopActivities, FeeAhead
    <3>3. Waits' = Waits
      BY <3>1, <3>2 DEF Waits, chans
    <3> QED BY <1>0, <1>2, <3>2, <3>3
  <2> QED BY <2>1, <2>2
<1> QED BY <1>4, <1>5, <1>6, <1>7 DEF ActivityStep

\* Under all faults but fees that are given up, with any selector and at any threshold,
\* each step of a run leaves it less to do or is one more of an activity's attempts: what
\* EveryRunEnds rests on besides its fairness.
THEOREM RunsMakeProgress == "RecurringItem" \notin GivesUp => (Spec => RunMakesProgress)
<1> SUFFICES ASSUME "RecurringItem" \notin GivesUp PROVE Spec => RunMakesProgress
  OBVIOUS
<1>1. TypeInv /\ [Next]_vars =>
        [RunStep => \/ Ahead' < Ahead
                    \/ Ahead' = Ahead /\ attempt < attempt'
                         /\ attempt' <= maxRetryAttempt]_vars
  BY ReceiveProgress, ActivityProgress DEF RunStep
<1> QED BY <1>1, TypeInvInit, TypeInvNext, PTL DEF Spec, RunMakesProgress
=============================================================================
