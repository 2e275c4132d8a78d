---------------------------- MODULE MCBillQueries ----------------------------
(***************************************************************************)
(* Instances of BillQueries for TLC: what a client asks for.               *)
(***************************************************************************)
EXTENDS BillQueries

Asks(s, n, c) == [status |-> s, limit |-> n, cursor |-> c]

\* Pages of one bill, the default limit, and what the handler lets through.
Requests ==
  {Asks("open", n, "none") : n \in {1, 0, -1, -2, MaxInt}}
    \cup {Asks("closed", 1, "none"), Asks("settled", 1, "none"),
          Asks("draft", 1, "none"), Asks("OPEN", 1, "garbled")}

=============================================================================
