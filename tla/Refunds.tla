------------------------------ MODULE Refunds ------------------------------
(***************************************************************************)
(* Refunds and chargebacks on the invoices of one subscription             *)
(* (app/billing/refunds.py), recorded by a Super Admin or reported by the  *)
(* provider's webhooks (app/billing/provider.py), which are delivered at   *)
(* least once and in any order, and marked processed at the very end.      *)
(* Every step of a handler is one database call.                           *)
(*                                                                         *)
(* Invoices are numbered as they are created; each is worth Price.  Left   *)
(* out: notices and the audit, and how a reversal is spread over the       *)
(* commissions of an invoice (Payouts).                                    *)
(***************************************************************************)
EXTENDS Integers, FiniteSets, FiniteSetsExt

CONSTANTS Refunders,      \* handler executions: requests and deliveries
          Periods,        \* bound on the invoices
          Price,          \* what an invoice is worth
          EventKinds,     \* "cumulative", "single", "dispute": what the provider sends
          MaxEvents,      \* bound on those
          MaxRefunders,   \* bound on the handlers in flight
          MaxFailures       \* bound on the handlers that die, or fail, half way

ASSUME RefundsAssumption ==
  /\ IsFiniteSet(Refunders) /\ Periods \in Nat \ {0} /\ Price \in Nat \ {0}
  /\ EventKinds \subseteq {"cumulative", "single", "dispute"}

VARIABLES
  made,       \* the number of invoices so far
  invoice,    \* status and refunded_amount of each invoice
  log,        \* the sum of the refunds an invoice lists
  payment,    \* refunded_amount on the payment of the first invoice
  reversed,   \* what the partner programme was told to reverse, per invoice
  returned,   \* outside: what the provider has given back of each payment
  events,     \* outside: the events it has sent
  processed,  \* processed_webhooks
  refunder,   \* control point and locals of each handler
  byAdmin,    \* history: the part of each log that Super Admins recorded
  deaths

refundVars == <<made, invoice, log, payment, reversed, byAdmin, returned, events, processed, refunder, deaths>>
books == <<made, invoice, log, payment, reversed, byAdmin>>
outside == <<returned, events>>

Resting == [pc |-> "idle", event |-> [kind |-> "admin"], invoice |-> 0, asked |-> 0, seen |-> 0, amount |-> 0]

RefundsInit ==
  /\ made = 1
  /\ invoice = [i \in 1..Periods |-> [status |-> "paid", refunded |-> 0]]
  /\ log = [i \in 1..Periods |-> 0]
  /\ payment = 0 /\ byAdmin = [i \in 1..Periods |-> 0]
  /\ reversed = [i \in 1..Periods |-> 0]
  /\ returned = [i \in 1..Periods |-> 0]
  /\ events = {} /\ processed = {}
  /\ refunder = [h \in Refunders |-> Resting]
  /\ deaths = 0

-----------------------------------------------------------------------------
(* Outside: time and the provider *)

\* A paid renewal adds an invoice.
RenewInvoice ==
  /\ made < Periods
  /\ made' = made + 1
  /\ UNCHANGED <<invoice, log, payment, reversed, byAdmin, outside, processed, refunder, deaths>>

\* The provider gives back part of a payment and sends an event: its amount,
\* or for a cumulative one all that was given back so far.
ProviderReturns(i, n, kind) ==
  /\ i <= made /\ returned[i] + n <= Price /\ Cardinality(events) < MaxEvents
  /\ returned' = [returned EXCEPT ![i] = @ + n]
  /\ events' = events \cup {[kind |-> kind, payment |-> i, upto |-> returned'[i],
                             minor |-> IF kind = "cumulative" THEN returned'[i] ELSE n]}
  /\ UNCHANGED <<books, processed, refunder, deaths>>

-----------------------------------------------------------------------------
(* The handlers *)

Working == {h \in Refunders : refunder[h].pc # "idle"}
MayBegin(h) == refunder[h].pc = "idle" /\ Cardinality(Working) < MaxRefunders

Become(h, r) == refunder' = [refunder EXCEPT ![h] = r]
Goto(h, pc) == Become(h, [refunder[h] EXCEPT !.pc = pc])

\* Where a handler goes once the refund is recorded, or found recorded.
After(r) == IF r.event.kind = "admin" THEN Resting ELSE [r EXCEPT !.pc = "mark"]

\* A Super Admin records a refund of n, or with 0 of all that is left.
AdminRefund(h, i, n) ==
  /\ MayBegin(h) /\ i <= made
  /\ Become(h, [Resting EXCEPT !.pc = "read", !.invoice = i, !.asked = n])
  /\ UNCHANGED <<books, outside, processed, deaths>>

\* process_billing_webhook: an event marked as processed is skipped.
Deliver(h, e) ==
  /\ MayBegin(h) /\ e \notin processed
  /\ Become(h, [Resting EXCEPT !.pc = "find", !.event = e])
  /\ UNCHANGED <<books, outside, processed, deaths>>

Refundable(i) == i <= made /\ invoice[i].status \in {"paid", "partially_refunded"}

\* Slip: the cumulative amount is taken for the amount of this refund.
NewPartAll(e, i) == e.minor

\* What of an event is not yet recorded on the invoice.
NewPart(e, i) == IF e.kind = "cumulative" THEN e.minor - invoice[i].refunded ELSE e.minor

\* The latest invoice of the subscription that is paid, whichever was refunded.
FindInvoice(h) ==
  /\ refunder[h].pc = "find"
  /\ LET r == refunder[h]
         open == {i \in 1..Periods : Refundable(i)} IN
     Become(h, IF open = {} \/ NewPart(r.event, Max(open)) <= 0 THEN After(r)
               ELSE [r EXCEPT !.pc = "read", !.invoice = Max(open), !.asked = NewPart(r.event, Max(open))])
  /\ UNCHANGED <<books, outside, processed, deaths>>

\* refund_invoice reads the invoice again.  An invoice refunded in full ends
\* an event as processed; an amount that is too large is an error, and the
\* event stays unprocessed.
ReadInvoice(h) ==
  /\ refunder[h].pc = "read"
  /\ LET r == refunder[h]
         left == Price - invoice[r.invoice].refunded
         amount == IF r.asked = 0 THEN left ELSE r.asked IN
     Become(h, CASE left <= 0 -> After(r)
                 [] left > 0 /\ amount > left -> Resting
                 [] OTHER -> [r EXCEPT !.pc = "write", !.seen = Price - left, !.amount = amount])
  /\ UNCHANGED <<books, outside, processed, deaths>>

WriteInvoice(h) ==
  /\ refunder[h].pc = "write"
  /\ LET r == refunder[h]
         sum == r.seen + r.amount IN
     /\ invoice' = [invoice EXCEPT ![r.invoice] =
          [status |-> IF sum >= Price THEN "refunded" ELSE "partially_refunded", refunded |-> sum]]
     /\ log' = [log EXCEPT ![r.invoice] = @ + r.amount]
     /\ byAdmin' = [byAdmin EXCEPT ![r.invoice] = @ + IF r.event.kind = "admin" THEN r.amount ELSE 0]
  /\ Goto(h, "pay")
  /\ UNCHANGED <<made, payment, reversed, outside, processed, deaths>>

\* The payment of the first invoice is the one linked to the subscription.
WritePayments(h) ==
  /\ refunder[h].pc = "pay"
  /\ payment' = IF refunder[h].invoice = 1 THEN refunder[h].seen + refunder[h].amount ELSE payment
  /\ Goto(h, "reverse")
  /\ UNCHANGED <<made, invoice, log, reversed, byAdmin, outside, processed, deaths>>

TellPartners(h) ==
  /\ refunder[h].pc = "reverse"
  /\ reversed' = [reversed EXCEPT ![refunder[h].invoice] = @ + refunder[h].amount]
  /\ Become(h, After(refunder[h]))
  /\ UNCHANGED <<made, invoice, log, payment, byAdmin, outside, processed, deaths>>

MarkProcessed(h) ==
  /\ refunder[h].pc = "mark"
  /\ processed' = processed \cup {refunder[h].event}
  /\ Become(h, Resting)
  /\ UNCHANGED <<books, outside, deaths>>

\* The process dies or a call fails; the provider delivers the event again.
Dies(h) ==
  /\ refunder[h].pc # "idle" /\ deaths < MaxFailures
  /\ deaths' = deaths + 1
  /\ Become(h, Resting)
  /\ UNCHANGED <<books, outside, processed>>

RefundsNext ==
  \/ RenewInvoice
  \/ \E i \in 1..Periods, n \in 1..Price, k \in EventKinds : ProviderReturns(i, n, k)
  \/ \E h \in Refunders :
       \/ \E i \in 1..Periods, n \in 0..Price : AdminRefund(h, i, n)
       \/ \E e \in events : Deliver(h, e)
       \/ FindInvoice(h) \/ ReadInvoice(h) \/ WriteInvoice(h)
       \/ WritePayments(h) \/ TellPartners(h) \/ MarkProcessed(h) \/ Dies(h)

RefundsSpec == RefundsInit /\ [][RefundsNext]_refundVars

-----------------------------------------------------------------------------
\* However often and in whatever order events are delivered, and wherever a
\* handler dies: an invoice says what its refunds add up to, and neither the
\* partners nor the payment see more than that.  While the provider reports
\* running totals of one payment, nothing is recorded that neither it nor a
\* Super Admin gave back, and once all events are handled nothing is missing
\* (app/billing/refunds.py, app/billing/provider.py).
RefundsConverge ==
  /\ \A i \in 1..Periods : invoice[i].refunded = log[i] /\ log[i] <= Price /\ reversed[i] <= log[i]
  /\ payment <= log[1]
  /\ made = 1 /\ (\A e \in events : e.kind = "cumulative") =>
       /\ log[1] <= returned[1] + byAdmin[1]
       /\ events \subseteq processed /\ Working = {} => log[1] >= returned[1]

\* What the events record on an invoice is what the provider gave back of the
\* payment of that invoice: "find the payment, then its invoice"
\* (app/billing/refunds.py).  Violated: the code takes the latest paid invoice.
RefundOnItsInvoice == \A i \in 1..Periods : log[i] <= returned[i] + byAdmin[i]
=============================================================================
