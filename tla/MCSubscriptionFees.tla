-------------------------- MODULE MCSubscriptionFees --------------------------
(***************************************************************************)
(* Instances of SubscriptionFees for TLC: the creation requests.           *)
(***************************************************************************)
EXTENDS SubscriptionFees

Every(n, unit, amount) == [amount |-> amount, interval |-> [n |-> n, unit |-> unit]]
Asked(id, policy, currency, recurring, end) ==
  [billID |-> id, policy |-> policy, currency |-> currency, recurring |-> recurring,
   end |-> end]

\* Subscriptions that run, for some time or for a single interval, ...
Running ==
  {Asked("id", Subscription, "usd", Every(n, "m", 3), 7) : n \in 1..3}
    \cup {Asked("id", Subscription, "GEL", Every(1, "h", 3), 3)}

\* ... and requests of which nearly everything is to be refused.
Doubtful ==
  {Asked(id, p, c, r, e) :
     id \in {"empty", "long", "id"}, p \in {UsageBased, Subscription, "subscription"},
     c \in {"USD", "EUR"}, e \in {0, 1},
     r \in {NoRecurring, Every(30, "d", 3), Every(0, "m", 3), Every(-1, "h", 3),
            Every(1, "m", 0), Every(1, "h", 3)}}

Requests == Running \cup Doubtful
=============================================================================
