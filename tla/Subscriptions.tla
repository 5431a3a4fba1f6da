--------------------------- MODULE Subscriptions ---------------------------
(***************************************************************************)
(* The subscriptions of one organization: checkout, verified payment,      *)
(* confirmation by the Super Admin, status changes, plan changes, trials,  *)
(* renewals, cancellation, and the periodic sweep                          *)
(* (app/billing/subscriptions.py, app/billing/provider.py,                 *)
(* app/lifecycle/maintenance.py).                                          *)
(*                                                                         *)
(* Every handler is a sequence of separate MongoDB calls made on a         *)
(* document it has read before, so each call is a step here and the        *)
(* handlers of different actors interleave between them.  An actor serves  *)
(* one request at a time; MaxInFlight bounds how many overlap.  Dates are  *)
(* abstracted to what the guards tell apart: ends[s] numbers the value of  *)
(* current_period_end and due[s] says where the clock stands in it.        *)
(***************************************************************************)
EXTENDS Naturals, FiniteSets

CONSTANTS
  Subs,         \* subscription ids
  Tenants, Webhooks, Admins, Sweepers,
                \* the actors: requests of the organization, deliveries of the
                \* payment provider, requests of the Super Admin, sweeps
  MaxInFlight,  \* handlers running at once
  MaxPeriods,   \* no request that starts a period begins after this many
  Targets,      \* statuses the Super Admin asks for
  Extra,        \* the paths to include: renewals, plan changes, trials, and
                \* the end of billing periods ("time")
  Faults,       \* "crash": a handler may stop between two calls
  None

Actors == Tenants \cup Webhooks \cup Admins \cup Sweepers

Open == {"pending_payment", "payment_received", "pending_admin_confirmation"}
Live == {"active", "trialing", "past_due"}
Statuses == Open \cup Live \cup {"none", "suspended", "expired", "cancelled"}

ASSUME ConstantsAssumption ==
  /\ MaxInFlight \in Nat /\ MaxPeriods \in Nat
  /\ Targets \subseteq Statuses \ {"none", "trialing", "past_due"}
  /\ Extra \subseteq {"renew", "plan", "trial", "time"}
  /\ Faults \subseteq {"crash"}
  /\ None \notin Subs

ASSUME ActorsFinite == IsFiniteSet(Actors)

VARIABLES
  \* subscriptions
  status, atEnd, ends, due,
  older,      \* pairs of subscriptions whose created_at is in that order
  grants,     \* how often the plan's tokens were granted for a subscription
  activated,  \* history variable: the subscription has been active
  \* payments, one record per checkout
  payment, refundDue,
  captured,   \* the provider holds the money
  noted,      \* number of payment_for_closed_checkout events
  \* the organization
  orgStatus, orgSub,
  \* handlers: where they are, the subscription they read, its status and
  \* current_period_end then, the status asked for, the cursor of a confirmation
  pc, doc, was, end, to, others

subVars  == <<status, atEnd, ends, due, older, grants, activated>>
payVars  == <<payment, refundDue, captured, noted>>
orgVars  == <<orgStatus, orgSub>>
callVars == <<pc, doc, was, end, to, others>>
vars == <<subVars, payVars, orgVars, callVars>>

Steps == {"idle", "checkout", "billing", "verifying", "recording", "queueing", "closed", "noting",
          "declining", "confirming", "activated", "superseding", "asked", "setting", "marked",
          "following", "renewing", "changing", "changed", "granting", "extending", "extended",
          "expiring", "cancelling", "reactivating", "ending", "ended", "lapsing"}

TypeOK ==
  /\ status \in [Subs -> Statuses]
  /\ atEnd \in [Subs -> BOOLEAN]
  /\ ends \in [Subs -> Nat]
  /\ due \in [Subs -> {"none", "fresh", "late", "ended", "overdue"}]
  /\ older \subseteq Subs \X Subs
  /\ grants \in [Subs -> Nat]
  /\ activated \in [Subs -> BOOLEAN]
  /\ payment \in [Subs -> {"none", "pending", "failed", "succeeded"}]
  /\ refundDue \in [Subs -> BOOLEAN]
  /\ captured \in [Subs -> BOOLEAN]
  /\ noted \in [Subs -> Nat]
  /\ orgStatus \in {"demo", "trial", "active", "suspended", "cancelled"}
  /\ orgSub \in Subs \cup {None}
  /\ pc \in [Actors -> Steps]
  /\ doc \in [Actors -> Subs \cup {None}]
  /\ was \in [Actors -> Statuses]
  /\ end \in [Actors -> Nat]
  /\ to \in [Actors -> Statuses]
  /\ others \in [Actors -> SUBSET Subs]
  /\ \A a \in Actors : pc[a] \notin {"idle", "checkout"} => doc[a] \in Subs

Init ==
  /\ status = [s \in Subs |-> "none"]
  /\ atEnd = [s \in Subs |-> FALSE]
  /\ ends = [s \in Subs |-> 0]
  /\ due = [s \in Subs |-> "none"]
  /\ older = {}
  /\ grants = [s \in Subs |-> 0]
  /\ activated = [s \in Subs |-> FALSE]
  /\ payment = [s \in Subs |-> "none"]
  /\ refundDue = [s \in Subs |-> FALSE]
  /\ captured = [s \in Subs |-> FALSE]
  /\ noted = [s \in Subs |-> 0]
  /\ orgStatus = "demo" /\ orgSub = None
  /\ pc = [a \in Actors |-> "idle"]
  /\ doc = [a \in Actors |-> None]
  /\ was = [a \in Actors |-> "none"]
  /\ end = [a \in Actors |-> 0]
  /\ to = [a \in Actors |-> "none"]
  /\ others = [a \in Actors |-> {}]

-----------------------------------------------------------------------------
(* Handlers                                                                *)

Room == Cardinality({a \in Actors : pc[a] # "idle"}) < MaxInFlight

\* A request arrives and its handler reads subscription s.
Begin(a, step, s) ==
  /\ pc[a] = "idle" /\ Room
  /\ pc' = [pc EXCEPT ![a] = step]
  /\ doc' = [doc EXCEPT ![a] = s]
  /\ was' = [was EXCEPT ![a] = status[s]]
  /\ end' = [end EXCEPT ![a] = ends[s]]
  /\ UNCHANGED <<to, others>>

Go(a, step) == pc' = [pc EXCEPT ![a] = step] /\ UNCHANGED <<doc, was, end, to, others>>

\* The handler answers, or raises.
Leave(a) ==
  /\ pc' = [pc EXCEPT ![a] = "idle"]
  /\ doc' = [doc EXCEPT ![a] = None]
  /\ was' = [was EXCEPT ![a] = "none"]
  /\ end' = [end EXCEPT ![a] = 0]
  /\ to' = [to EXCEPT ![a] = "none"]
  /\ others' = [others EXCEPT ![a] = {}]

\* require_org_permission lets no request of an unusable organization in.
OrgUsable == orgStatus \in {"active", "demo", "trial"}

Exists(s) == status[s] # "none"
IsNewest(s, S) == s \in S /\ \A t \in S : <<s, t>> \notin older

-----------------------------------------------------------------------------
(* Writes to a subscription                                                *)

L == INSTANCE Lifecycle

\* Slip: the update is not conditional on the status read.
MayMoveBlind(a, st) == st \in L!Allowed[was[a]]

\* _transition refuses a move the table lacks or that lost a race.
MayMove(a, st) == st \in L!Allowed[was[a]] /\ status[doc[a]] = was[a]

SetStatusOf(s, st) ==
  /\ status' = [status EXCEPT ![s] = st]
  /\ activated' = [activated EXCEPT ![s] = @ \/ st = "active"]

NewPeriod(s) ==
  /\ ends' = [ends EXCEPT ![s] = @ + 1]
  /\ due' = [due EXCEPT ![s] = "fresh"]

-----------------------------------------------------------------------------
(* Checkout (start_checkout)                                               *)

\* Bound: a checkout starts only if an id of Subs is left for it.
IdsLeft == Cardinality({s \in Subs : ~Exists(s)}) > Cardinality({a \in Actors : pc[a] = "checkout"})

\* Older unpaid checkouts are superseded...
Checkout(a) ==
  /\ a \in Tenants /\ OrgUsable
  /\ pc[a] = "idle" /\ Room /\ IdsLeft
  /\ Go(a, "checkout")
  /\ status' = [s \in Subs |-> IF status[s] = "pending_payment" THEN "cancelled" ELSE status[s]]
  /\ UNCHANGED <<atEnd, ends, due, older, grants, activated, payVars, orgVars>>

\* ...then the new one is stored...
StoreCheckout(a) ==
  /\ pc[a] = "checkout"
  /\ \E s \in Subs :
       /\ ~Exists(s)
       /\ SetStatusOf(s, "pending_payment")
       /\ older' = older \cup {<<t, s>> : t \in {u \in Subs : Exists(u)}}
       /\ pc' = [pc EXCEPT ![a] = "billing"]
       /\ doc' = [doc EXCEPT ![a] = s]
  /\ UNCHANGED <<atEnd, ends, due, grants, payVars, orgVars, was, end, to, others>>

\* ...and its payment; the payment page opens after that.
StorePayment(a) ==
  /\ pc[a] = "billing"
  /\ payment' = [payment EXCEPT ![doc[a]] = "pending"]
  /\ Leave(a)
  /\ UNCHANGED <<subVars, refundDue, captured, noted, orgVars>>

\* The customer pays, possibly in the page of a checkout that is closed by now.
Pay(s) ==
  /\ payment[s] \in {"pending", "failed"} /\ ~captured[s]
  /\ captured' = [captured EXCEPT ![s] = TRUE]
  /\ UNCHANGED <<subVars, payment, refundDue, noted, orgVars, callVars>>

-----------------------------------------------------------------------------
(* Reports of the payment provider; each may come any number of times, and *)
(* the payment page reports the same payment as well.                      *)

Received == {"payment_received", "pending_admin_confirmation", "active"}

\* Slip: a report is believed although nothing was captured.
DeliverUnverified(a, s) ==
  /\ a \in Webhooks /\ payment[s] # "none" /\ status[s] \notin Received
  /\ Begin(a, IF status[s] = "pending_payment" THEN "verifying" ELSE "closed", s)
  /\ UNCHANGED <<subVars, payVars, orgVars>>

\* record_razorpay_payment
Deliver(a, s) ==
  /\ a \in Webhooks /\ captured[s] /\ status[s] \notin Received
  /\ Begin(a, IF status[s] = "pending_payment" THEN "verifying" ELSE "closed", s)
  /\ UNCHANGED <<subVars, payVars, orgVars>>

\* record_payment_verified
VerifyReceived(a) ==
  /\ pc[a] = "verifying"
  /\ IF MayMove(a, "payment_received")
     THEN /\ SetStatusOf(doc[a], "payment_received")
          /\ was' = [was EXCEPT ![a] = "payment_received"]
          /\ pc' = [pc EXCEPT ![a] = "recording"]
          /\ UNCHANGED <<doc, end, to, others>>
     ELSE Leave(a) /\ UNCHANGED <<status, activated>>
  /\ UNCHANGED <<atEnd, ends, due, older, grants, payVars, orgVars>>

VerifyRecord(a) ==
  /\ pc[a] = "recording"
  /\ payment' = [payment EXCEPT ![doc[a]] = IF @ \in {"pending", "failed"} THEN "succeeded" ELSE @]
  /\ Go(a, "queueing")
  /\ UNCHANGED <<subVars, refundDue, captured, noted, orgVars>>

\* Slip: the second transition is left to somebody else.
VerifyQueueSkips(a) ==
  /\ pc[a] = "queueing"
  /\ Leave(a)
  /\ UNCHANGED <<subVars, payVars, orgVars>>

VerifyQueue(a) ==
  /\ pc[a] = "queueing"
  /\ IF MayMove(a, "pending_admin_confirmation")
     THEN SetStatusOf(doc[a], "pending_admin_confirmation")
     ELSE UNCHANGED <<status, activated>>
  /\ Leave(a)
  /\ UNCHANGED <<atEnd, ends, due, older, grants, payVars, orgVars>>

\* Money for a checkout that is no longer open is noted for the Super Admin,
\* unless a note is found.
FindNote(a) ==
  /\ pc[a] = "closed"
  /\ IF noted[doc[a]] = 0 THEN Go(a, "noting") ELSE Leave(a)
  /\ UNCHANGED <<subVars, payVars, orgVars>>

\* Slip: the report is answered without a note.
NoteNothing(a) ==
  /\ pc[a] = "noting"
  /\ Leave(a)
  /\ UNCHANGED <<subVars, payVars, orgVars>>

NoteClosed(a) ==
  /\ pc[a] = "noting"
  /\ noted' = [noted EXCEPT ![doc[a]] = @ + 1]
  /\ Leave(a)
  /\ UNCHANGED <<subVars, payment, refundDue, captured, orgVars>>

\* A declined attempt is reported, perhaps late.
Decline(a, s) ==
  /\ a \in Webhooks /\ payment[s] # "none" /\ status[s] = "pending_payment"
  /\ Begin(a, "declining", s)
  /\ UNCHANGED <<subVars, payVars, orgVars>>

\* Slip: any payment record is marked.
DeclineAny(a) ==
  /\ pc[a] = "declining"
  /\ payment' = [payment EXCEPT ![doc[a]] = "failed"]
  /\ Leave(a)
  /\ UNCHANGED <<subVars, refundDue, captured, noted, orgVars>>

\* record_payment_failed
RecordDecline(a) ==
  /\ pc[a] = "declining"
  /\ payment' = [payment EXCEPT ![doc[a]] = IF @ = "pending" THEN "failed" ELSE @]
  /\ Leave(a)
  /\ UNCHANGED <<subVars, refundDue, captured, noted, orgVars>>

-----------------------------------------------------------------------------
(* Confirmation (confirm_subscription)                                     *)

Confirm(a, s) ==
  /\ a \in Admins /\ Exists(s) /\ ends[s] < MaxPeriods
  /\ Begin(a, "confirming", s)
  /\ UNCHANGED <<subVars, payVars, orgVars>>

ConfirmActivate(a) ==
  /\ pc[a] = "confirming"
  /\ IF MayMove(a, "active")
     THEN SetStatusOf(doc[a], "active") /\ NewPeriod(doc[a]) /\ Go(a, "activated")
     ELSE Leave(a) /\ UNCHANGED <<status, ends, due, activated>>
  /\ UNCHANGED <<atEnd, older, grants, payVars, orgVars>>

\* The organization's other live subscriptions are looked up...
FindSuperseded(a) ==
  /\ pc[a] = "activated"
  /\ others' = [others EXCEPT ![a] = {s \in Subs \ {doc[a]} : status[s] \in Live}]
  /\ pc' = [pc EXCEPT ![a] = "superseding"]
  /\ UNCHANGED <<subVars, payVars, orgVars, doc, was, end, to>>

\* ...and cancelled one by one, whatever they are by then.
Supersede(a) ==
  /\ pc[a] = "superseding"
  /\ \E s \in others[a] :
       /\ SetStatusOf(s, "cancelled")
       /\ others' = [others EXCEPT ![a] = @ \ {s}]
  /\ UNCHANGED <<atEnd, ends, due, older, grants, payVars, orgVars, pc, doc, was, end, to>>

Activate(a) ==
  /\ pc[a] = "superseding" /\ others[a] = {}
  /\ orgStatus' = "active" /\ orgSub' = doc[a]
  /\ Go(a, "granting")
  /\ UNCHANGED <<subVars, payVars>>

\* The last call of everything that starts a period: tokens.allocate.
Grant(a) ==
  /\ pc[a] = "granting"
  /\ grants' = [grants EXCEPT ![doc[a]] = @ + 1]
  /\ Leave(a)
  /\ UNCHANGED <<status, atEnd, ends, due, older, activated, payVars, orgVars>>

-----------------------------------------------------------------------------
(* Status changes by the Super Admin (set_subscription_status)             *)

\* A first read sends the activation of a pending one to Confirm.
AskStatus(a, s, st) ==
  /\ a \in Admins /\ st \in Targets /\ Exists(s)
  /\ ~(st = "active" /\ status[s] = "pending_admin_confirmation")
  /\ pc[a] = "idle" /\ Room
  /\ pc' = [pc EXCEPT ![a] = "asked"]
  /\ doc' = [doc EXCEPT ![a] = s]
  /\ to' = [to EXCEPT ![a] = st]
  /\ UNCHANGED <<subVars, payVars, orgVars, was, end, others>>

\* A second read decides the rest.
ReadStatus(a) ==
  /\ pc[a] = "asked"
  /\ was' = [was EXCEPT ![a] = status[doc[a]]]
  /\ pc' = [pc EXCEPT ![a] = "setting"]
  /\ UNCHANGED <<subVars, payVars, orgVars, doc, end, to, others>>

\* Slip: payments that are still pending are marked instead.
MarkRefundPending(a) ==
  /\ pc[a] = "setting" /\ to[a] = "cancelled" /\ was[a] \in Open
  /\ refundDue' = [refundDue EXCEPT ![doc[a]] = @ \/ payment[doc[a]] = "pending"]
  /\ Go(a, "marked")
  /\ UNCHANGED <<subVars, payment, captured, noted, orgVars>>

\* Rejecting a checkout marks its payment for a refund before it is cancelled.
MarkRefund(a) ==
  /\ pc[a] = "setting" /\ to[a] = "cancelled" /\ was[a] \in Open
  /\ refundDue' = [refundDue EXCEPT ![doc[a]] = @ \/ payment[doc[a]] = "succeeded"]
  /\ Go(a, "marked")
  /\ UNCHANGED <<subVars, payment, captured, noted, orgVars>>

WriteStatus(a) ==
  /\ \/ pc[a] = "marked"
     \/ pc[a] = "setting" /\ ~(to[a] = "cancelled" /\ was[a] \in Open)
  /\ IF MayMove(a, to[a])
     THEN /\ SetStatusOf(doc[a], to[a])
          /\ IF was[a] \in {"active", "suspended", "trialing", "past_due"}
             THEN Go(a, "following") ELSE Leave(a)
     ELSE Leave(a) /\ UNCHANGED <<status, activated>>
  /\ UNCHANGED <<atEnd, ends, due, older, grants, payVars, orgVars>>

\* The organization follows its subscription, whichever it was.
FollowStatus(a) ==
  /\ pc[a] = "following"
  /\ orgStatus' = CASE to[a] = "suspended" -> "suspended"
                    [] to[a] = "active"    -> "active"
                    [] to[a] \in {"expired", "cancelled"} -> "cancelled"
                    [] OTHER -> orgStatus
  /\ Leave(a)
  /\ UNCHANGED <<subVars, payVars, orgSub>>

-----------------------------------------------------------------------------
(* Renewals (renew_subscription): a paid invoice or the Super Admin        *)

Renewable(s) == status[s] \in {"active", "past_due"} /\ due[s] # "fresh"

StartRenewal(a, s) ==
  /\ "renew" \in Extra /\ a \in Webhooks \cup Admins
  /\ Renewable(s) /\ ends[s] < MaxPeriods
  /\ Begin(a, "renewing", s)
  /\ UNCHANGED <<subVars, payVars, orgVars>>

\* Slip: the update does not check that the period is still the one read.
RenewBlind(a) ==
  /\ pc[a] = "renewing"
  /\ SetStatusOf(doc[a], "active")
  /\ due' = [due EXCEPT ![doc[a]] = "fresh"]
  /\ ends' = [ends EXCEPT ![doc[a]] = end[a] + 1]
  /\ Go(a, "granting")
  /\ UNCHANGED <<atEnd, older, grants, payVars, orgVars>>

\* The update is conditional on current_period_end, not on the status.
Renew(a) ==
  /\ pc[a] = "renewing"
  /\ IF ends[doc[a]] = end[a]
     THEN SetStatusOf(doc[a], "active") /\ NewPeriod(doc[a]) /\ Go(a, "granting")
     ELSE Leave(a) /\ UNCHANGED <<status, ends, due, activated>>
  /\ UNCHANGED <<atEnd, older, grants, payVars, orgVars>>

-----------------------------------------------------------------------------
(* Plan changes and trials, on the organization's newest subscription      *)

ChangePlan(a, s) ==
  /\ "plan" \in Extra /\ a \in Admins
  /\ IsNewest(s, {t \in Subs : Exists(t)}) /\ status[s] \in {"active", "trialing"}
  /\ ends[s] < MaxPeriods
  /\ Begin(a, "changing", s)
  /\ UNCHANGED <<subVars, payVars, orgVars>>

WritePlan(a) ==
  /\ pc[a] = "changing"
  /\ SetStatusOf(doc[a], "active") /\ NewPeriod(doc[a])
  /\ atEnd' = [atEnd EXCEPT ![doc[a]] = FALSE]
  /\ Go(a, "changed")
  /\ UNCHANGED <<older, grants, payVars, orgVars>>

MoveOrg(a) ==
  /\ pc[a] = "changed"
  /\ orgStatus' = "active" /\ orgSub' = doc[a]
  /\ Go(a, "granting")
  /\ UNCHANGED <<subVars, payVars>>

\* extend_trial
ExtendTrial(a, s) ==
  /\ "trial" \in Extra /\ a \in Admins
  /\ IsNewest(s, {t \in Subs : Exists(t)}) /\ status[s] \in {"trialing", "expired"}
  /\ ends[s] < MaxPeriods
  /\ Begin(a, "extending", s)
  /\ UNCHANGED <<subVars, payVars, orgVars>>

WriteTrial(a) ==
  /\ pc[a] = "extending"
  /\ SetStatusOf(doc[a], "trialing") /\ NewPeriod(doc[a])
  /\ Go(a, "extended")
  /\ UNCHANGED <<atEnd, older, grants, payVars, orgVars>>

TrialOrg(a) ==
  /\ pc[a] = "extended"
  /\ orgStatus' = "trial"
  /\ Leave(a)
  /\ UNCHANGED <<subVars, payVars, orgSub>>

\* get_organization_subscription expires a trial it finds over.
ViewTrial(a, s) ==
  /\ a \in Tenants /\ OrgUsable
  /\ status[s] = "trialing" /\ due[s] \in {"ended", "overdue"}
  /\ IsNewest(s, {t \in Subs : status[t] \in Live \cup {"suspended"}})
  /\ Begin(a, "expiring", s)
  /\ UNCHANGED <<subVars, payVars, orgVars>>

ExpireTrial(a) ==
  /\ pc[a] = "expiring"
  /\ SetStatusOf(doc[a], "expired")
  /\ Leave(a)
  /\ UNCHANGED <<atEnd, ends, due, older, grants, payVars, orgVars>>

-----------------------------------------------------------------------------
(* Cancelling at the end of the period, and the sweep                      *)

\* cancel_subscription, as its only caller uses it.
Cancel(a, s) ==
  /\ a \in Tenants /\ OrgUsable
  /\ IsNewest(s, {t \in Subs : status[t] \in Live})
  /\ Begin(a, "cancelling", s)
  /\ UNCHANGED <<subVars, payVars, orgVars>>

SetAtEnd(a) ==
  /\ pc[a] = "cancelling"
  /\ atEnd' = [atEnd EXCEPT ![doc[a]] = TRUE]
  /\ Leave(a)
  /\ UNCHANGED <<status, ends, due, older, grants, activated, payVars, orgVars>>

Reactivate(a, s) ==
  /\ a \in Tenants /\ OrgUsable
  /\ IsNewest(s, {t \in Subs : status[t] = "active" /\ atEnd[t]})
  /\ Begin(a, "reactivating", s)
  /\ UNCHANGED <<subVars, payVars, orgVars>>

ClearAtEnd(a) ==
  /\ pc[a] = "reactivating"
  /\ atEnd' = [atEnd EXCEPT ![doc[a]] = @ /\ status[doc[a]] # "active"]
  /\ Leave(a)
  /\ UNCHANGED <<status, ends, due, older, grants, activated, payVars, orgVars>>

\* run_lifecycle_sweep finds what to cancel and what is overdue.
Sweepable(s) == status[s] = "active" /\ atEnd[s] /\ due[s] \in {"ended", "overdue"}

SweepFind(a, s) ==
  /\ a \in Sweepers
  /\ \/ Sweepable(s) /\ Begin(a, "ending", s)
     \/ status[s] = "active" /\ ~atEnd[s] /\ due[s] = "overdue" /\ Begin(a, "lapsing", s)
  /\ UNCHANGED <<subVars, payVars, orgVars>>

\* Both updates are conditional on the status alone: a change of mind or a
\* renewal since the sweep looked is overridden.
SweepEnd(a) ==
  /\ pc[a] = "ending"
  /\ IF status[doc[a]] = "active"
     THEN SetStatusOf(doc[a], "cancelled") /\ Go(a, "ended")
     ELSE Leave(a) /\ UNCHANGED <<status, activated>>
  /\ UNCHANGED <<atEnd, ends, due, older, grants, payVars, orgVars>>

\* Slip: the organization is closed whichever subscription it is on.
SweepOrgAny(a) ==
  /\ pc[a] = "ended"
  /\ orgStatus' = "cancelled"
  /\ Leave(a)
  /\ UNCHANGED <<subVars, payVars, orgSub>>

SweepOrg(a) ==
  /\ pc[a] = "ended"
  /\ orgStatus' = IF orgSub = doc[a] THEN "cancelled" ELSE orgStatus
  /\ Leave(a)
  /\ UNCHANGED <<subVars, payVars, orgSub>>

SweepOverdue(a) ==
  /\ pc[a] = "lapsing"
  /\ IF status[doc[a]] = "active"
     THEN SetStatusOf(doc[a], "past_due") ELSE UNCHANGED <<status, activated>>
  /\ Leave(a)
  /\ UNCHANGED <<atEnd, ends, due, older, grants, payVars, orgVars>>

-----------------------------------------------------------------------------
(* Time and crashes                                                        *)

\* Half the period is over; it ends; the grace period ends.
Tick(s) ==
  /\ "time" \in Extra
  /\ due[s] \in {"fresh", "late", "ended"}
  /\ due' = [due EXCEPT ![s] = CASE @ = "fresh" -> "late"
                                 [] @ = "late"  -> "ended"
                                 [] @ = "ended" -> "overdue"]
  /\ UNCHANGED <<status, atEnd, ends, older, grants, activated, payVars, orgVars, callVars>>

\* A restart, or a database error, ends a handler between two calls.
Crash(a) ==
  /\ "crash" \in Faults
  /\ pc[a] # "idle"
  /\ Leave(a)
  /\ UNCHANGED <<subVars, payVars, orgVars>>

-----------------------------------------------------------------------------
Arrive(a, s) ==
  \/ Deliver(a, s) \/ Decline(a, s)
  \/ Confirm(a, s) \/ StartRenewal(a, s)
  \/ ChangePlan(a, s) \/ ExtendTrial(a, s) \/ ViewTrial(a, s)
  \/ Cancel(a, s) \/ Reactivate(a, s) \/ SweepFind(a, s)
  \/ \E st \in Targets : AskStatus(a, s, st)

Proceed(a) ==
  \/ StoreCheckout(a) \/ StorePayment(a)
  \/ VerifyReceived(a) \/ VerifyRecord(a) \/ VerifyQueue(a) \/ FindNote(a) \/ NoteClosed(a)
  \/ RecordDecline(a)
  \/ ConfirmActivate(a) \/ FindSuperseded(a) \/ Supersede(a) \/ Activate(a) \/ Grant(a)
  \/ ReadStatus(a) \/ MarkRefund(a) \/ WriteStatus(a) \/ FollowStatus(a)
  \/ Renew(a) \/ WritePlan(a) \/ MoveOrg(a) \/ WriteTrial(a) \/ TrialOrg(a) \/ ExpireTrial(a)
  \/ SetAtEnd(a) \/ ClearAtEnd(a) \/ SweepEnd(a) \/ SweepOrg(a) \/ SweepOverdue(a)

Next ==
  \/ \E a \in Actors : Checkout(a) \/ Proceed(a) \/ Crash(a)
  \/ \E a \in Actors, s \in Subs : Arrive(a, s)
  \/ \E s \in Subs : Pay(s) \/ Tick(s)

Spec == Init /\ [][Next]_vars

\* Handlers run on, the provider repeats a report until it is answered with a
\* success, and handlers do not crash forever.
FairSpec ==
  /\ Spec
  /\ <>[][\A a \in Actors : ~Crash(a)]_vars
  /\ \A a \in Actors : WF_vars(Proceed(a))
  /\ \A s \in Subs : SF_vars(\E a \in Webhooks : Deliver(a, s))

-----------------------------------------------------------------------------
(* Properties                                                              *)

\* Only a subscription whose money the provider holds is ever active,
\* suspended or overdue, however reports, confirmations and status changes
\* overlap.
ActiveIsPaid ==
  \A s \in Subs : status[s] \in {"active", "suspended", "past_due"} => captured[s]

\* A subscription that has been active never shows up in the payment or
\* confirmation queue again: a late duplicate report of its payment changes
\* nothing.
NeverBackInQueue == \A s \in Subs : activated[s] => status[s] \notin Open

\* No period grants its tokens twice, although a renewal is reported by the
\* provider and by the Super Admin, and plan changes race with both.
GrantedOncePerPeriod == \A s \in Subs : grants[s] <= ends[s]

\* A checkout rejected out of the confirmation queue has been marked for a
\* refund by then, whatever reports, declines and other decisions overlap the
\* rejection.  One rejected a step earlier, between the two transitions of
\* record_payment_verified, may miss the mark.
RejectedIsRefunded ==
  [][\A s \in Subs :
       status[s] = "pending_admin_confirmation" /\ status'[s] = "cancelled" => refundDue[s]]_vars

\* A cancelled subscription stays cancelled.  It holds only while no renewal
\* overlaps a cancellation: renew_subscription writes "active" over whatever
\* the status has become (app/lifecycle/maintenance.py).
CancelledIsFinal ==
  [][\A s \in Subs : status[s] = "cancelled" => status'[s] = "cancelled"]_vars

\* A recorded payment is never turned back by a decline reported late.
SucceededIsFinal ==
  [][\A s \in Subs : payment[s] = "succeeded" => payment'[s] = "succeeded"]_vars

\* The sweep does not close an organization that moved to another active
\* subscription in the meantime.
SweepSparesActive ==
  [][\A a \in Actors, s \in Subs :
       pc[a] = "ended" /\ pc'[a] # "ended" /\ orgStatus' # orgStatus /\ orgSub = s
         => status[s] # "active"]_vars

\* The handlers implement the documented lifecycle of each subscription.  It
\* is stated of the request path and the sweep: renewals, plan changes and
\* trial extensions write a status without looking at the table.
Documented == L!Spec

\* Captured money ends up as a recorded payment or a note.
MoneyIsAccounted ==
  \A s \in Subs : captured[s] ~> payment[s] = "succeeded" \/ noted[s] > 0

\* A captured payment takes its subscription to the confirmation queue, or
\* finds it closed.
PaymentReachesQueue ==
  \A s \in Subs : captured[s] ~> status[s] \notin {"pending_payment", "payment_received"}
=============================================================================
