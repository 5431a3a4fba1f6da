----------------------------- MODULE Lifecycle -----------------------------
(***************************************************************************)
(* What the subscription lifecycle promises (the docstrings of             *)
(* app/billing/subscriptions.py and app/lifecycle/maintenance.py): each    *)
(* subscription moves by itself, one documented edge at a time.            *)
(***************************************************************************)
CONSTANT Subs

VARIABLE status

Open == {"pending_payment", "payment_received", "pending_admin_confirmation"}
Statuses == Open \cup {"none", "active", "suspended", "expired", "cancelled",
                       "past_due", "trialing"}

\* ALLOWED_TRANSITIONS: the edges a request may ask for.
Allowed ==
  [pending_payment            |-> {"payment_received", "cancelled", "expired"},
   payment_received           |-> {"pending_admin_confirmation", "cancelled"},
   pending_admin_confirmation |-> {"active", "cancelled"},
   active                     |-> {"suspended", "expired", "cancelled"},
   suspended                  |-> {"active", "cancelled", "expired"},
   expired                    |-> {"cancelled"},
   cancelled                  |-> {},
   trialing                   |-> {"expired", "cancelled", "suspended"},
   past_due                   |-> {"suspended", "expired", "cancelled"},
   none                       |-> {}]

\* The two edges outside the table that the docstrings name: start_checkout
\* "only ever creates a PENDING_PAYMENT subscription", and an unpaid period
\* "becomes past_due".  There is none to "active": confirm_subscription is
\* "the ONLY way to ACTIVE", and resuming a suspended one is in the table.
Other == {<<"none", "pending_payment">>, <<"active", "past_due">>}

Edge(from, to) == to \in Allowed[from] \/ <<from, to>> \in Other

Init == status = [s \in Subs |-> "none"]

Next ==
  /\ status' \in [Subs -> Statuses]
  /\ \A s \in Subs : status'[s] # status[s] => Edge(status[s], status'[s])

Spec == Init /\ [][Next]_status
=============================================================================
