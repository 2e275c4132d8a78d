---------------------------- MODULE CreationTerms ----------------------------
(***************************************************************************)
(* What a creation request asks for, and what becomes of it on its way to  *)
(* the bill's workflow and its row: decoding, Validate, the workflow's     *)
(* request, the metadata that is stored. Texts are members of small sets;  *)
(* a duration is a number of minutes, its text a number and a unit.        *)
(***************************************************************************)
EXTENDS Integers

CONSTANTS
  Invalid,                      \* what a conversion answers with an error
  NoRecurring                   \* "recurring" is left out

UsageBased   == "USAGE_BASED"
Subscription == "SUBSCRIPTION"

\* strings.ToUpper on the currencies a client may name.
ToUpper == [usd |-> "USD", USD |-> "USD", GEL |-> "GEL", EUR |-> "EUR"]

ToCurrency(c) == IF ToUpper[c] \in {"USD", "GEL"} THEN ToUpper[c] ELSE Invalid

\* Unlike a currency, a policy is taken in upper case only.
ToPolicyType(p) == IF p \in {UsageBased, Subscription} THEN p ELSE Invalid

\* time.ParseDuration knows no unit longer than an hour.
UnitLength == [m |-> 1, h |-> 60]
ParseDuration(t) ==
  IF t.unit \in DOMAIN UnitLength THEN t.n * UnitLength[t.unit] ELSE Invalid

\* Duration.UnmarshalJSON: an interval that does not parse fails the decoding.
Decodes(p) ==
  p.recurring # NoRecurring => ParseDuration(p.recurring.interval) # Invalid

\* Mutant: the interval is not checked
RecurringIsValidAnyInterval(r) == r # NoRecurring /\ r.amount > 0

\* A subscription needs a fee; what else states one may state anything.
RecurringIsValid(r) ==
  r # NoRecurring /\ r.amount > 0 /\ ParseDuration(r.interval) > 0

\* The id's length is not looked at.
Validate(p, now) ==
  /\ p.billID # "empty"
  /\ ToCurrency(p.currency) # Invalid
  /\ p.end >= now + 1
  /\ ToPolicyType(p.policy) # Invalid
  /\ ToPolicyType(p.policy) = Subscription => RecurringIsValid(p.recurring)

\* Mutant: amount and interval are swapped
WorkflowRequestSwapped(p) ==
  [billID |-> p.billID, policy |-> p.policy, end |-> p.end, currency |-> p.currency,
   interval |-> IF p.recurring = NoRecurring THEN 0 ELSE p.recurring.amount,
   amount |-> IF p.recurring = NoRecurring THEN 0
              ELSE ParseDuration(p.recurring.interval)]

\* BillLifecycleWorkflowRequest. The currency is that of the request, not the one
\* ToCurrency answered; without recurring terms they are zero.
WorkflowRequest(p) ==
  [billID |-> p.billID, policy |-> p.policy, end |-> p.end, currency |-> p.currency,
   amount |-> IF p.recurring = NoRecurring THEN 0 ELSE p.recurring.amount,
   interval |-> IF p.recurring = NoRecurring THEN 0
                ELSE ParseDuration(p.recurring.interval)]

\* Whether the factory returns a policy.
NewBillingPolicy(req) ==
  \/ req.policy = UsageBased
  \/ req.policy = Subscription /\ req.interval > 0

\* Activities.CreateBill: recurring terms are stored when both are positive.
BillMetadata(req) ==
  IF req.amount > 0 /\ req.interval > 0
  THEN [amount |-> req.amount, interval |-> req.interval] ELSE NoRecurring

\* bill_id VARCHAR(64): the insert of a longer one fails, however often it is tried.
Fits(req) == req.billID # "long"
=============================================================================
