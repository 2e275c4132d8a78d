--------------------------- MODULE MCBillLifecycle ---------------------------
(***************************************************************************)
(* Instances of BillLifecycle for TLC. A line item added through the API   *)
(* is named by its amount, 1, 2, 4, so that different sets of items have   *)
(* different sums; every recurring fee, named from 11 on, is worth FeeOf.  *)
(***************************************************************************)
EXTENDS BillLifecycle, FiniteSetsExt, TLC

FeeOf == 8

MCAmount == [i \in LineItemID |-> IF i \in FeeID THEN FeeOf ELSE i]

MCSumOf(S) == MapThenSumSet(LAMBDA i : MCAmount[i], S)

Clients == Permutations(Closer) \cup Permutations(Voider)
=============================================================================
