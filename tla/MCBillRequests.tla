---------------------------- MODULE MCBillRequests ----------------------------
(***************************************************************************)
(* Instances of BillRequests for TLC: bill ids made of parts, which        *)
(* requests name which bill, and on which terms.                           *)
(***************************************************************************)
EXTENDS BillRequests

CONSTANTS c1, c2, c3, k1, k2    \* creation requests and keys

\* The id of a customer, also billed through the API.
OneBill == {<<"customer-1">>}

\* Two ids that have nothing to do with each other.
TwoBills == {<<"a">>, <<"b">>}

NoBill == {}

\* All requests are about the same bill, ...
AllOne == [r \in Creation |-> <<"customer-1">>]
KeysOne == [k \in Key |-> <<"customer-1">>]

\* ... or the first about one and the others about another.
OfTwoBills == [r \in Creation |-> IF r = c1 THEN <<"a">> ELSE <<"b">>]
KeysOfTwoBills == [k \in Key |-> IF k = k1 THEN <<"a">> ELSE <<"b">>]

\* Terms a request may state: here, the currency.
MixedTerms == [r \in Creation |-> IF r = c3 THEN "GEL" ELSE "USD"]
=============================================================================
