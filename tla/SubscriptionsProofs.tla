------------------------ MODULE SubscriptionsProofs ------------------------
(* Proofs about Subscriptions: types, that active subscriptions are paid   *)
(* and never fall back into the queue, that recorded payments stay, that a *)
(* period grants its tokens once, which organizations the sweep may close, *)
(* that what is rejected out of the queue is marked for a refund, and that *)
(* the request path and the sweep implement Lifecycle, however they        *)
(* overlap.                                                                *)
EXTENDS Subscriptions, FiniteSetTheorems, TLAPS

-----------------------------------------------------------------------------
(* Types                                                                   *)

SubTypes ==
  /\ status \in [Subs -> Statuses]
  /\ atEnd \in [Subs -> BOOLEAN]
  /\ ends \in [Subs -> Nat]
  /\ due \in [Subs -> {"none", "fresh", "late", "ended", "overdue"}]
  /\ older \subseteq Subs \X Subs
  /\ grants \in [Subs -> Nat]
  /\ activated \in [Subs -> BOOLEAN]

PayTypes ==
  /\ payment \in [Subs -> {"none", "pending", "failed", "succeeded"}]
  /\ refundDue \in [Subs -> BOOLEAN]
  /\ captured \in [Subs -> BOOLEAN]
  /\ noted \in [Subs -> Nat]
  /\ orgStatus \in {"demo", "trial", "active", "suspended", "cancelled"}
  /\ orgSub \in Subs \cup {None}

CallTypes ==
  /\ pc \in [Actors -> Steps]
  /\ doc \in [Actors -> Subs \cup {None}]
  /\ was \in [Actors -> Statuses]
  /\ end \in [Actors -> Nat]
  /\ to \in [Actors -> Statuses]
  /\ others \in [Actors -> SUBSET Subs]
  /\ \A a \in Actors : pc[a] \notin {"idle", "checkout"} => doc[a] \in Subs

LEMMA Types ==
  /\ TypeOK <=> SubTypes /\ PayTypes /\ CallTypes
  /\ TypeOK' <=> SubTypes' /\ PayTypes' /\ CallTypes'
  BY DEF TypeOK, SubTypes, PayTypes, CallTypes

\* A handler that begins, goes on or ends keeps the types of the handlers.
LEMMA BeginTypes ==
  ASSUME SubTypes, CallTypes, NEW a \in Actors, NEW s \in Subs, NEW step \in Steps,
         Begin(a, step, s)
  PROVE  CallTypes'
  BY DEF SubTypes, CallTypes, Begin

LEMMA GoTypes ==
  ASSUME CallTypes, NEW a \in Actors, NEW step \in Steps, Go(a, step),
         step = "checkout" \/ doc[a] \in Subs
  PROVE  CallTypes'
  BY DEF CallTypes, Go

LEMMA LeaveTypes ==
  ASSUME CallTypes, NEW a \in Actors, Leave(a)
  PROVE  CallTypes'
  BY DEF CallTypes, Leave, Steps, Statuses

LEMMA SameTypes == ASSUME CallTypes, UNCHANGED callVars PROVE CallTypes'
  BY DEF CallTypes, callVars

LEMMA StatusTypes ==
  ASSUME SubTypes, NEW s, NEW st \in Statuses, SetStatusOf(s, st)
  PROVE  status' \in [Subs -> Statuses] /\ activated' \in [Subs -> BOOLEAN]
<1>1. (activated[s] \/ st = "active") \in BOOLEAN
  OBVIOUS
<1> QED BY <1>1 DEF SubTypes, SetStatusOf

LEMMA PeriodTypes ==
  ASSUME SubTypes, NEW s \in Subs, NewPeriod(s)
  PROVE  /\ ends' \in [Subs -> Nat]
         /\ due' \in [Subs -> {"none", "fresh", "late", "ended", "overdue"}]
  BY DEF SubTypes, NewPeriod

LEMMA GrantTypes ==
  ASSUME SubTypes, NEW a \in Actors, doc[a] \in Subs, Grant(a)
  PROVE  SubTypes'
  BY DEF SubTypes, Grant

\* Requests that arrive write nothing.
LEMMA ArriveTypes ==
  ASSUME TypeOK, NEW a \in Actors, NEW s \in Subs, Arrive(a, s)
  PROVE  TypeOK'
<1> USE Types
<1>1. ASSUME UNCHANGED <<subVars, payVars, orgVars>> PROVE SubTypes' /\ PayTypes'
  BY <1>1 DEF SubTypes, PayTypes, subVars, payVars, orgVars
<1>2. ASSUME NEW step \in Steps, Begin(a, step, s), UNCHANGED <<subVars, payVars, orgVars>>
      PROVE TypeOK'
  BY <1>1, <1>2, BeginTypes
<1>3. ASSUME NEW st \in Targets, AskStatus(a, s, st) PROVE TypeOK'
  <2>1. CallTypes'
    BY <1>3, ConstantsAssumption DEF AskStatus, CallTypes, Steps
  <2> QED BY <1>1, <1>3, <2>1 DEF AskStatus
<1>4. CASE Deliver(a, s)
  BY <1>2, <1>4 DEF Deliver, Steps
<1>5. CASE Decline(a, s) \/ Confirm(a, s) \/ StartRenewal(a, s)
  BY <1>2, <1>5 DEF Decline, Confirm, StartRenewal, Steps
<1>6. CASE ChangePlan(a, s) \/ ExtendTrial(a, s) \/ ViewTrial(a, s)
  BY <1>2, <1>6 DEF ChangePlan, ExtendTrial, ViewTrial, Steps
<1>7. CASE Cancel(a, s) \/ Reactivate(a, s) \/ SweepFind(a, s)
  BY <1>2, <1>7 DEF Cancel, Reactivate, SweepFind, Steps
<1> QED BY <1>3, <1>4, <1>5, <1>6, <1>7 DEF Arrive

LEMMA ProceedTypes ==
  ASSUME TypeOK, NEW a \in Actors, Proceed(a)
  PROVE  TypeOK'
<1> USE Types, GoTypes, LeaveTypes DEF subVars, payVars, orgVars
<1>1. pc[a] \notin {"idle", "checkout"} => doc[a] \in Subs
  BY DEF CallTypes
<1>2. CASE StoreCheckout(a)
  <2>1. PICK s \in Subs : /\ SetStatusOf(s, "pending_payment")
                          /\ older' = older \cup {<<t, s>> : t \in {u \in Subs : Exists(u)}}
                          /\ pc' = [pc EXCEPT ![a] = "billing"]
                          /\ doc' = [doc EXCEPT ![a] = s]
    BY <1>2 DEF StoreCheckout
  <2>2. SubTypes'
    BY <1>2, <2>1 DEF StoreCheckout, SetStatusOf, SubTypes, Statuses, Open
  <2>3. CallTypes'
    BY <1>2, <2>1 DEF StoreCheckout, CallTypes, Steps
  <2> QED BY <1>2, <2>2, <2>3 DEF StoreCheckout, PayTypes
<1>3. CASE StorePayment(a) \/ VerifyRecord(a) \/ RecordDecline(a)
  <2>1. SubTypes'
    BY <1>3 DEF StorePayment, VerifyRecord, RecordDecline, SubTypes
  <2>2. PayTypes'
    BY <1>1, <1>3 DEF StorePayment, VerifyRecord, RecordDecline, PayTypes
  <2>3. CallTypes'
    BY <1>1, <1>3 DEF StorePayment, VerifyRecord, RecordDecline, Steps
  <2> QED BY <2>1, <2>2, <2>3
<1>4. CASE FindNote(a) \/ NoteClosed(a) \/ MarkRefund(a)
  <2>1. SubTypes'
    BY <1>4 DEF FindNote, NoteClosed, MarkRefund, SubTypes
  <2>2. PayTypes'
    <3>1. CASE FindNote(a)
      BY <3>1 DEF FindNote, PayTypes
    <3>2. CASE NoteClosed(a)
      BY <1>1, <3>2 DEF NoteClosed, PayTypes
    <3>3. CASE MarkRefund(a)
      <4>1. (refundDue[doc[a]] \/ payment[doc[a]] = "succeeded") \in BOOLEAN
        OBVIOUS
      <4>2. refundDue' \in [Subs -> BOOLEAN]
        BY <3>3, <4>1 DEF MarkRefund, PayTypes
      <4> QED BY <3>3, <4>2 DEF MarkRefund, PayTypes
    <3> QED BY <1>4, <3>1, <3>2, <3>3
  <2>3. CallTypes'
    BY <1>1, <1>4 DEF FindNote, NoteClosed, MarkRefund, Steps
  <2> QED BY <2>1, <2>2, <2>3
<1>5. CASE Activate(a) \/ MoveOrg(a) \/ FollowStatus(a) \/ TrialOrg(a) \/ SweepOrg(a)
  <2>1. SubTypes'
    BY <1>5 DEF Activate, MoveOrg, FollowStatus, TrialOrg, SweepOrg, SubTypes
  <2>2. PayTypes'
    BY <1>1, <1>5 DEF Activate, MoveOrg, FollowStatus, TrialOrg, SweepOrg, PayTypes
  <2>3. CallTypes'
    BY <1>1, <1>5 DEF Activate, MoveOrg, FollowStatus, TrialOrg, SweepOrg, Steps
  <2> QED BY <2>1, <2>2, <2>3
<1>6. CASE FindSuperseded(a) \/ Supersede(a) \/ ReadStatus(a)
  <2>1. SubTypes'
    BY <1>6 DEF FindSuperseded, Supersede, ReadStatus, SubTypes, CallTypes, SetStatusOf, Statuses
  <2>2. PayTypes'
    BY <1>6 DEF FindSuperseded, Supersede, ReadStatus, PayTypes
  <2>3. CallTypes'
    BY <1>1, <1>6 DEF FindSuperseded, Supersede, ReadStatus, CallTypes, SubTypes, Steps
  <2> QED BY <2>1, <2>2, <2>3
<1>7. CASE VerifyReceived(a) \/ VerifyQueue(a) \/ WriteStatus(a)
  <2>1. SubTypes'
    BY <1>1, <1>7 DEF VerifyReceived, VerifyQueue, WriteStatus, SubTypes, CallTypes, SetStatusOf,
                      Statuses, Open
  <2>2. PayTypes'
    BY <1>7 DEF VerifyReceived, VerifyQueue, WriteStatus, PayTypes
  <2>3. CASE VerifyReceived(a)
    BY <1>1, <2>1, <2>2, <2>3 DEF VerifyReceived, CallTypes, Steps, Statuses, Open
  <2>4. CASE VerifyQueue(a) \/ WriteStatus(a)
    BY <1>1, <2>1, <2>2, <2>4 DEF VerifyQueue, WriteStatus, Steps
  <2> QED BY <1>7, <2>3, <2>4
<1>8. CASE ConfirmActivate(a) \/ Renew(a) \/ WritePlan(a) \/ WriteTrial(a)
  <2>0. doc[a] \in Subs
    BY <1>1, <1>8 DEF ConfirmActivate, Renew, WritePlan, WriteTrial
  <2>1. SubTypes'
    <3>1. ASSUME NEW st \in Statuses, SetStatusOf(doc[a], st)
          PROVE status' \in [Subs -> Statuses] /\ activated' \in [Subs -> BOOLEAN]
      BY <3>1, StatusTypes
    <3>2. ASSUME NewPeriod(doc[a])
          PROVE /\ ends' \in [Subs -> Nat]
                /\ due' \in [Subs -> {"none", "fresh", "late", "ended", "overdue"}]
      BY <2>0, <3>2, PeriodTypes
    <3>3. CASE WritePlan(a)
      <4>1. atEnd' \in [Subs -> BOOLEAN]
        BY <3>3 DEF WritePlan, SubTypes
      <4>2. SetStatusOf(doc[a], "active") /\ "active" \in Statuses
        BY <3>3 DEF WritePlan, Statuses, Live
      <4> QED BY <3>1, <3>2, <3>3, <4>1, <4>2 DEF WritePlan, SubTypes
    <3>4. CASE ConfirmActivate(a) \/ Renew(a) \/ WriteTrial(a)
      BY <3>1, <3>2, <3>4 DEF ConfirmActivate, Renew, WriteTrial, SubTypes, Statuses, Live
    <3> QED BY <1>8, <3>3, <3>4
  <2>2. PayTypes'
    BY <1>8 DEF ConfirmActivate, Renew, WritePlan, WriteTrial, PayTypes
  <2>3. CallTypes'
    BY <1>1, <1>8 DEF ConfirmActivate, Renew, WritePlan, WriteTrial, Steps
  <2> QED BY <2>1, <2>2, <2>3
<1>9. CASE Grant(a) \/ ExpireTrial(a) \/ SetAtEnd(a) \/ ClearAtEnd(a)
  <2>1. SubTypes'
    <3>1. CASE Grant(a)
      BY <1>1, <3>1, GrantTypes DEF Grant
    <3>2. CASE ExpireTrial(a)
      BY <3>2, StatusTypes DEF ExpireTrial, SubTypes, Statuses
    <3>3. CASE SetAtEnd(a)
      <4>1. atEnd' \in [Subs -> BOOLEAN]
        BY <3>3, Zenon DEF SetAtEnd, SubTypes
      <4> QED BY <3>3, <4>1 DEF SetAtEnd, SubTypes
    <3>4. CASE ClearAtEnd(a)
      <4>1. (atEnd[doc[a]] /\ status[doc[a]] # "active") \in BOOLEAN
        OBVIOUS
      <4> QED BY <3>4, <4>1 DEF ClearAtEnd, SubTypes
    <3> QED BY <1>9, <3>1, <3>2, <3>3, <3>4
  <2>2. PayTypes'
    BY <1>9 DEF Grant, ExpireTrial, SetAtEnd, ClearAtEnd, PayTypes
  <2>3. CallTypes'
    BY <1>9 DEF Grant, ExpireTrial, SetAtEnd, ClearAtEnd
  <2> QED BY <2>1, <2>2, <2>3
<1>10. CASE SweepEnd(a) \/ SweepOverdue(a)
  <2>1. SubTypes'
    BY <1>1, <1>10 DEF SweepEnd, SweepOverdue, SubTypes, SetStatusOf, Statuses, Live
  <2>2. PayTypes'
    BY <1>10 DEF SweepEnd, SweepOverdue, PayTypes
  <2>3. CallTypes'
    BY <1>1, <1>10 DEF SweepEnd, SweepOverdue, Steps
  <2> QED BY <2>1, <2>2, <2>3
<1> QED BY <1>2, <1>3, <1>4, <1>5, <1>6, <1>7, <1>8, <1>9, <1>10 DEF Proceed

LEMMA TypeStep == TypeOK /\ [Next]_vars => TypeOK'
<1> SUFFICES ASSUME TypeOK, [Next]_vars PROVE TypeOK'
  OBVIOUS
<1> USE Types DEF subVars, payVars, orgVars
<1>1. ASSUME NEW a \in Actors, Checkout(a) PROVE TypeOK'
  <2>1. SubTypes' /\ PayTypes'
    BY <1>1 DEF Checkout, SubTypes, PayTypes, Statuses
  <2>2. CallTypes'
    BY <1>1, GoTypes DEF Checkout, Steps
  <2> QED BY <2>1, <2>2
<1>2. ASSUME NEW a \in Actors, Crash(a) PROVE TypeOK'
  BY <1>2, LeaveTypes DEF Crash, SubTypes, PayTypes
<1>3. ASSUME NEW s \in Subs, Pay(s) PROVE TypeOK'
  BY <1>3, SameTypes DEF Pay, SubTypes, PayTypes
<1>4. ASSUME NEW s \in Subs, Tick(s) PROVE TypeOK'
  BY <1>4, SameTypes DEF Tick, SubTypes, PayTypes
<1>5. CASE UNCHANGED vars
  BY <1>5, SameTypes DEF vars, SubTypes, PayTypes
<1> QED BY <1>1, <1>2, <1>3, <1>4, <1>5, ArriveTypes, ProceedTypes DEF Next

\* Every reachable state is well typed, and a handler past its first step
\* works on a subscription.
THEOREM TypeCorrect == Spec => []TypeOK
<1>1. Init => TypeOK
  BY DEF Init, TypeOK, Statuses, Open, Live, Steps
<1> QED BY <1>1, TypeStep, PTL DEF Spec

-----------------------------------------------------------------------------
(* What a step may do to a subscription and to a handler.  Every later     *)
(* proof starts from these two summaries instead of the actions.           *)

\* The moves of a subscription: those of the transition table, and the
\* writes that do not consult it.  A recorded payment is rejected only by a
\* handler that has marked it, or by a confirmation that took it for live.
Moved(s) ==
  \/ status'[s] = status[s]
  \/ status[s] = "none" /\ status'[s] = "pending_payment"
  \/ /\ status'[s] \in L!Allowed[status[s]] /\ status'[s] # "payment_received"
     /\ status'[s] = "cancelled" /\ status[s] \in Open \ {"pending_payment"}
          => \E a \in Actors : doc[a] = s /\ pc[a] = "marked" /\ was[a] = status[s]
     /\ status'[s] = "pending_admin_confirmation"
          => \E a \in Actors :
               /\ doc[a] = s
               /\ pc[a] = "queueing" \/ (pc[a] \in {"setting", "marked"} /\ to[a] = status'[s])
  \/ /\ status[s] = "pending_payment" /\ status'[s] = "payment_received"
     /\ \E a \in Actors :
          /\ doc[a] = s
          /\ pc[a] = "verifying" \/ (pc[a] \in {"setting", "marked"} /\ to[a] = status'[s])
  \/ status'[s] = "cancelled" /\ \E a \in Actors : s \in others[a]
  \/ status'[s] = "active" /\ \E a \in Actors : doc[a] = s /\ pc[a] \in {"renewing", "changing"}
  \/ status'[s] = "trialing" /\ \E a \in Actors : doc[a] = s /\ pc[a] = "extending"
  \/ status'[s] = "expired" /\ \E a \in Actors : doc[a] = s /\ pc[a] = "expiring"
  \/ /\ status[s] = "active" /\ status'[s] = "past_due"
     /\ \E a \in Actors : doc[a] = s /\ pc[a] = "lapsing"

\* That it has been active is noted when it happens, and kept.
Remembered(s) ==
  /\ activated'[s] => activated[s] \/ status'[s] = "active"
  /\ activated[s] => activated'[s]
  /\ status'[s] = "active" => status[s] = "active" \/ activated'[s]

\* The steps of a handler that write a status or a fresh payment record, and
\* what was known when they were reached.
Watched == {"billing", "verifying", "renewing", "changing", "extending", "expiring",
            "asked", "setting", "marked"}

Stepped(a) ==
  \/ pc'[a] = pc[a] /\ doc'[a] = doc[a] /\ to'[a] = to[a]
  \/ pc'[a] \notin Watched
  \/ pc'[a] \in {"setting", "marked"} /\ pc[a] \in {"asked", "setting"} /\ to'[a] = to[a]
  \/ pc'[a] = "billing" /\ pc[a] = "checkout" /\ status[doc'[a]] = "none"
                        /\ status'[doc'[a]] = "pending_payment"
  \/ pc'[a] = "verifying" /\ captured[doc'[a]]
  \/ pc'[a] = "renewing" /\ "renew" \in Extra /\ status[doc'[a]] \in {"active", "past_due"}
  \/ pc'[a] = "changing" /\ "plan" \in Extra /\ status[doc'[a]] \in {"active", "trialing"}
  \/ pc'[a] = "extending" /\ "trial" \in Extra
  \/ pc'[a] = "expiring" /\ status[doc'[a]] = "trialing"
  \/ pc'[a] = "asked" /\ to'[a] \in Targets

Summary ==
  /\ \A s \in Subs : Moved(s)
  /\ \A s \in Subs : Remembered(s)
  /\ \A s \in Subs : captured[s] => captured'[s]
  /\ \A a \in Actors : Stepped(a)
  /\ \A a \in Actors : others'[a] \subseteq others[a] \cup {s \in Subs : status[s] \in Live}

\* What the transition table says, row by row.
LEMMA TableFacts ==
  ASSUME NEW f \in Statuses, NEW t \in L!Allowed[f]
  PROVE  /\ t \in Statuses \ {"none", "pending_payment", "past_due", "trialing"}
         /\ t = "payment_received" => f = "pending_payment"
         /\ t = "pending_admin_confirmation" => f = "payment_received"
         /\ t = "active" => f \in {"pending_admin_confirmation", "suspended"}
         /\ t = "suspended" => f \in {"active", "trialing", "past_due"}
         /\ f # "none"
  BY DEF L!Allowed, Statuses, Open, Live

LEMMA MayMoveMoves ==
  ASSUME TypeOK, NEW a \in Actors, NEW st \in Statuses, doc[a] \in Subs,
         MayMove(a, st), SetStatusOf(doc[a], st),
         st = "payment_received" => 
           pc[a] = "verifying" \/ (pc[a] \in {"setting", "marked"} /\ to[a] = st),
         st = "cancelled" => pc[a] = "marked" \/ was[a] \notin Open,
         st = "pending_admin_confirmation" =>
           pc[a] = "queueing" \/ (pc[a] \in {"setting", "marked"} /\ to[a] = st)
  PROVE  \A s \in Subs : Moved(s) /\ Remembered(s)
<1>1. st = "payment_received" => status[doc[a]] = "pending_payment"
  BY TableFacts DEF MayMove, TypeOK
<1>2. \A s \in Subs : s # doc[a] => status'[s] = status[s] /\ activated'[s] = activated[s]
  BY DEF SetStatusOf, TypeOK
<1>3. status'[doc[a]] = st /\ activated'[doc[a]] = (activated[doc[a]] \/ st = "active")
  BY DEF SetStatusOf, TypeOK
<1>4. Moved(doc[a])
  BY <1>1, <1>3 DEF MayMove, Moved
<1>5. Remembered(doc[a])
  BY <1>3 DEF Remembered
<1> QED BY <1>2, <1>4, <1>5 DEF Moved, Remembered

LEMMA SetMoves ==
  ASSUME TypeOK, NEW x \in Subs, NEW st \in Statuses, SetStatusOf(x, st),
         status'[x] = st => Moved(x)
  PROVE  \A s \in Subs : Moved(s) /\ Remembered(s)
<1>2. \A s \in Subs : s # x => status'[s] = status[s] /\ activated'[s] = activated[s]
  BY DEF SetStatusOf, TypeOK
<1>3. status'[x] = st /\ activated'[x] = (activated[x] \/ st = "active")
  BY DEF SetStatusOf, TypeOK
<1>4. Moved(x)
  BY <1>3
<1>5. Remembered(x)
  BY <1>3 DEF Remembered
<1>6. \A s \in Subs : s # x => Moved(s) /\ Remembered(s)
  BY <1>2 DEF Moved, Remembered
<1> QED BY <1>4, <1>5, <1>6

LEMMA StillMoves ==
  ASSUME TypeOK, UNCHANGED <<status, activated>>
  PROVE  \A s \in Subs : Moved(s) /\ Remembered(s)
  BY DEF Moved, Remembered

\* A handler that steps leaves the others where they are.
LEMMA GoSteps ==
  ASSUME TypeOK, NEW a \in Actors, NEW step \in Steps, Go(a, step), 
         step \notin Watched \/ (step = "marked" /\ pc[a] = "setting")
  PROVE  \A b \in Actors : Stepped(b) /\ others'[b] = others[b]
  BY DEF TypeOK, Go, Stepped, Watched

LEMMA LeaveSteps ==
  ASSUME TypeOK, NEW a \in Actors, Leave(a)
  PROVE  \A b \in Actors : Stepped(b) /\ others'[b] \subseteq others[b]
  BY DEF TypeOK, Leave, Stepped, Watched

LEMMA BeginSteps ==
  ASSUME TypeOK, NEW a \in Actors, NEW s \in Subs, NEW step \in Steps, Begin(a, step, s),
         \/ step \notin Watched
         \/ step = "verifying" /\ captured[s]
         \/ step = "renewing" /\ "renew" \in Extra /\ status[s] \in {"active", "past_due"}
         \/ step = "changing" /\ "plan" \in Extra /\ status[s] \in {"active", "trialing"}
         \/ step = "extending" /\ "trial" \in Extra
         \/ step = "expiring" /\ status[s] = "trialing"
  PROVE  \A b \in Actors : Stepped(b) /\ others'[b] = others[b]
<1>1. \A b \in Actors : b # a => pc'[b] = pc[b] /\ doc'[b] = doc[b] /\ to'[b] = to[b]
  BY DEF TypeOK, Begin
<1>2. pc'[a] = step /\ doc'[a] = s
  BY DEF TypeOK, Begin
<1>3. Stepped(a)
  BY <1>2 DEF Stepped
<1>4. \A b \in Actors : b # a => Stepped(b)
  BY <1>1 DEF Stepped
<1> QED BY <1>3, <1>4 DEF Begin

LEMMA ArriveSummary ==
  ASSUME TypeOK, NEW a \in Actors, NEW s \in Subs, Arrive(a, s)
  PROVE  Summary
<1>1. ASSUME UNCHANGED <<subVars, payVars>>,
             \A b \in Actors : Stepped(b) /\ others'[b] = others[b]
      PROVE  Summary
  BY <1>1, StillMoves DEF Summary, subVars, payVars
<1>2. CASE Deliver(a, s)
  BY <1>1, <1>2, BeginSteps DEF Deliver, Steps, Watched
<1>3. CASE Decline(a, s) \/ Confirm(a, s)
  BY <1>1, <1>3, BeginSteps DEF Decline, Confirm, Steps, Watched
<1>4. CASE StartRenewal(a, s)
  BY <1>1, <1>4, BeginSteps DEF StartRenewal, Renewable, Steps
<1>5. CASE ChangePlan(a, s)
  BY <1>1, <1>5, BeginSteps DEF ChangePlan, Steps
<1>6. CASE ExtendTrial(a, s) \/ ViewTrial(a, s)
  BY <1>1, <1>6, BeginSteps DEF ExtendTrial, ViewTrial, Steps
<1>7. CASE Cancel(a, s) \/ Reactivate(a, s) \/ SweepFind(a, s)
  BY <1>1, <1>7, BeginSteps DEF Cancel, Reactivate, SweepFind, Steps, Watched
<1>8. CASE \E st \in Targets : AskStatus(a, s, st)
  BY <1>1, <1>8 DEF AskStatus, TypeOK, Stepped
<1> QED BY <1>2, <1>3, <1>4, <1>5, <1>6, <1>7, <1>8 DEF Arrive

LEMMA ProceedSummary ==
  ASSUME TypeOK, NEW a \in Actors, Proceed(a)
  PROVE  Summary
<1> DEFINE Still == \A s \in Subs : Moved(s) /\ Remembered(s)
           Steady == \A b \in Actors : Stepped(b) /\ others'[b] \subseteq others[b]
<1>1. ASSUME Still, Steady, captured' = captured PROVE Summary
  BY <1>1 DEF Summary
<1> HIDE DEF Still, Steady
<1>2. pc[a] \notin {"idle", "checkout"} => doc[a] \in Subs
  BY DEF TypeOK
<1>3. Leave(a) => Steady
  BY LeaveSteps DEF Steady
<1>4. ASSUME NEW step \in Steps, Go(a, step), 
             step \notin Watched \/ (step = "marked" /\ pc[a] = "setting")
      PROVE  Steady
  BY <1>4, GoSteps DEF Steady
<1>5. UNCHANGED <<status, activated>> => Still
  BY StillMoves DEF Still
<1>6. ASSUME NEW st \in {"payment_received", "pending_admin_confirmation", "active"} \cup {to[a]},
             doc[a] \in Subs, MayMove(a, st), SetStatusOf(doc[a], st),
             st = "payment_received" =>
               pc[a] = "verifying" \/ (pc[a] \in {"setting", "marked"} /\ to[a] = st),
             st = "cancelled" => pc[a] = "marked" \/ was[a] \notin Open,
             st = "pending_admin_confirmation" =>
               pc[a] = "queueing" \/ (pc[a] \in {"setting", "marked"} /\ to[a] = st)
      PROVE  Still
  <2>1. st \in Statuses
    BY DEF TypeOK, Statuses, Open, Live
  <2> QED BY <1>6, <2>1, MayMoveMoves DEF Still
<1>7. ASSUME NEW x \in Subs, NEW st \in Statuses, SetStatusOf(x, st), status'[x] = st => Moved(x)
      PROVE  Still
  BY <1>7, SetMoves DEF Still
<1> USE DEF subVars, payVars, orgVars
<1>10. CASE StoreCheckout(a)
  <2>1. PICK s \in Subs : /\ ~Exists(s)
                          /\ SetStatusOf(s, "pending_payment")
                          /\ pc' = [pc EXCEPT ![a] = "billing"]
                          /\ doc' = [doc EXCEPT ![a] = s]
    BY <1>10 DEF StoreCheckout
  <2>2. Still
    BY <1>7, <2>1 DEF Exists, Moved, Statuses, Open
  <2>3. status'[s] = "pending_payment"
    BY <2>1 DEF SetStatusOf, TypeOK
  <2>4. Steady
    BY <1>10, <2>1, <2>3 DEF StoreCheckout, Steady, Stepped, Exists, TypeOK
  <2> QED BY <1>1, <1>10, <2>2, <2>4 DEF StoreCheckout
<1>11. CASE StorePayment(a) \/ VerifyRecord(a) \/ RecordDecline(a) \/ FindNote(a) \/ NoteClosed(a)
  BY <1>1, <1>3, <1>4, <1>5, <1>11
     DEF StorePayment, VerifyRecord, RecordDecline, FindNote, NoteClosed, Steps, Watched
<1>12. CASE MarkRefund(a)
  BY <1>1, <1>4, <1>5, <1>12 DEF MarkRefund, Steps
<1>13. CASE Activate(a) \/ Grant(a) \/ FollowStatus(a) \/ MoveOrg(a) \/ TrialOrg(a) \/ SweepOrg(a)
  BY <1>1, <1>3, <1>4, <1>5, <1>13
     DEF Activate, Grant, FollowStatus, MoveOrg, TrialOrg, SweepOrg, Steps, Watched
<1>14. CASE SetAtEnd(a) \/ ClearAtEnd(a)
  BY <1>1, <1>3, <1>5, <1>14 DEF SetAtEnd, ClearAtEnd
<1>15. CASE FindSuperseded(a)
  BY <1>5, <1>15 DEF FindSuperseded, Summary, Still, Stepped, Watched, TypeOK
<1>16. CASE Supersede(a)
  <2>1. PICK s \in others[a] : SetStatusOf(s, "cancelled")
    BY <1>16 DEF Supersede
  <2>2. s \in Subs
    BY DEF TypeOK
  <2>3. Still
    BY <1>7, <2>1, <2>2 DEF Moved, Statuses
  <2>4. Steady
    BY <1>16 DEF Supersede, Steady, Stepped, TypeOK
  <2> QED BY <1>1, <1>16, <2>3, <2>4 DEF Supersede
<1>17. CASE ReadStatus(a)
  BY <1>1, <1>5, <1>17 DEF ReadStatus, Steady, Stepped, TypeOK
<1>18. CASE VerifyReceived(a)
  <2>1. Still
    BY <1>2, <1>5, <1>6, <1>18 DEF VerifyReceived
  <2>2. Steady
    BY <1>3, <1>18 DEF VerifyReceived, Steady, Stepped, Watched, TypeOK
  <2> QED BY <1>1, <1>18, <2>1, <2>2 DEF VerifyReceived
<1>19. CASE VerifyQueue(a)
  BY <1>1, <1>2, <1>3, <1>5, <1>6, <1>19 DEF VerifyQueue
<1>20. CASE ConfirmActivate(a)
  BY <1>1, <1>2, <1>3, <1>4, <1>5, <1>6, <1>20 DEF ConfirmActivate, Steps, Watched
<1>21. CASE WriteStatus(a)
  <2>1. Still
    BY <1>2, <1>5, <1>6, <1>21 DEF WriteStatus
  <2>2. Steady
    BY <1>3, <1>4, <1>21 DEF WriteStatus, Steps, Watched
  <2> QED BY <1>1, <1>21, <2>1, <2>2 DEF WriteStatus
<1>22. CASE Renew(a) \/ WritePlan(a)
  <2>1. Still
    BY <1>2, <1>5, <1>7, <1>22 DEF Renew, WritePlan, Moved, Statuses, Live
  <2> QED BY <1>1, <1>3, <1>4, <1>22, <2>1 DEF Renew, WritePlan, Steps, Watched
<1>23. CASE WriteTrial(a) \/ ExpireTrial(a)
  <2>1. Still
    BY <1>2, <1>7, <1>23 DEF WriteTrial, ExpireTrial, Moved, Statuses, Live
  <2> QED BY <1>1, <1>3, <1>4, <1>23, <2>1 DEF WriteTrial, ExpireTrial, Steps, Watched
<1>24. CASE SweepEnd(a) \/ SweepOverdue(a)
  <2>1. "cancelled" \in L!Allowed["active"]
    BY DEF L!Allowed
  <2>2. Still
    BY <1>2, <1>5, <1>7, <1>24, <2>1 DEF SweepEnd, SweepOverdue, Moved, Statuses, Live, Open
  <2> QED BY <1>1, <1>3, <1>4, <1>24, <2>2 DEF SweepEnd, SweepOverdue, Steps, Watched
<1> QED BY <1>10, <1>11, <1>12, <1>13, <1>14, <1>15, <1>16, <1>17, <1>18, <1>19, <1>20, <1>21,
           <1>22, <1>23, <1>24 DEF Proceed

LEMMA StepSummary ==
  ASSUME TypeOK, [Next]_vars
  PROVE  Summary
<1> USE DEF subVars, payVars, orgVars, callVars
<1>1. ASSUME UNCHANGED <<status, activated, captured, pc, doc, to, others>> PROVE Summary
  BY <1>1, StillMoves DEF Summary, Stepped
<1>2. ASSUME NEW a \in Actors, Checkout(a) PROVE Summary
  <2>1. "cancelled" \in L!Allowed["pending_payment"]
    BY DEF L!Allowed
  <2>2. \A s \in Subs : Moved(s) /\ Remembered(s)
    BY <1>2, <2>1 DEF Checkout, Moved, Remembered, TypeOK
  <2>3. \A b \in Actors : Stepped(b) /\ others'[b] = others[b]
    BY <1>2, GoSteps DEF Checkout, Steps, Watched
  <2> QED BY <1>2, <2>2, <2>3 DEF Checkout, Summary
<1>3. ASSUME NEW a \in Actors, Crash(a) PROVE Summary
  BY <1>3, LeaveSteps, StillMoves DEF Crash, Summary
<1>4. ASSUME NEW s \in Subs, Pay(s) PROVE Summary
  <2>1. \A x \in Subs : captured[x] => captured'[x]
    BY <1>4 DEF Pay, TypeOK
  <2> QED BY <1>4, <2>1, StillMoves DEF Pay, Summary, Stepped
<1>5. ASSUME NEW s \in Subs, Tick(s) PROVE Summary
  BY <1>1, <1>5 DEF Tick
<1>6. CASE UNCHANGED vars
  BY <1>1, <1>6 DEF vars
<1> QED BY <1>2, <1>3, <1>4, <1>5, <1>6, ArriveSummary, ProceedSummary DEF Next

-----------------------------------------------------------------------------
(* A subscription that has been active is out of the queue for good.       *)

OutOfQueue == \A s \in Subs : activated[s] => status[s] \notin Open \cup {"none"}

LEMMA OutOfQueueStep == TypeOK /\ OutOfQueue /\ [Next]_vars => OutOfQueue'
<1> SUFFICES ASSUME TypeOK, OutOfQueue, [Next]_vars, NEW s \in Subs, activated'[s]
             PROVE  status'[s] \notin Open \cup {"none"}
  BY DEF OutOfQueue
<1>1. Moved(s) /\ (activated[s] \/ status'[s] = "active")
  BY StepSummary DEF Summary, Remembered
<1>2. CASE status'[s] = "active"
  BY <1>2 DEF Open
<1>3. CASE activated[s]
  <2>1. status[s] \in Statuses /\ status[s] \notin Open \cup {"none"}
    BY <1>3 DEF OutOfQueue, TypeOK
  <2>2. status'[s] \in L!Allowed[status[s]] => status'[s] \notin Open \cup {"none"}
    BY <2>1, TableFacts DEF Open
  <2> QED BY <1>1, <2>1, <2>2 DEF Moved, Open
<1> QED BY <1>1, <1>2, <1>3

\* Whatever reports, confirmations, status changes and sweeps overlap, and
\* wherever handlers stop, a subscription that has been active never returns
\* to the payment or confirmation queue.
THEOREM NeverBackCorrect == Spec => []NeverBackInQueue
<1>1. Init => OutOfQueue
  BY DEF Init, OutOfQueue
<1>2. OutOfQueue => NeverBackInQueue
  BY DEF OutOfQueue, NeverBackInQueue
<1> QED BY <1>1, <1>2, TypeCorrect, OutOfQueueStep, PTL DEF Spec

-----------------------------------------------------------------------------
(* Activation is paid for, where trials are not extended and the Super     *)
(* Admin does not set a payment status by hand.                            *)

NoBypass == "trial" \notin Extra /\ Targets \cap Open = {}

PaidInv ==
  /\ \A s \in Subs :
       status[s] \in {"payment_received", "pending_admin_confirmation", "active", "suspended",
                      "past_due"} => captured[s]
  /\ \A s \in Subs : status[s] # "trialing"
  /\ \A a \in Actors : pc[a] \in {"verifying", "renewing", "changing"} => captured[doc[a]]
  /\ \A a \in Actors : pc[a] # "extending"
  /\ \A a \in Actors : pc[a] \in {"asked", "setting", "marked"} => to[a] \in Targets

LEMMA PaidStep == TypeOK /\ NoBypass /\ PaidInv /\ [Next]_vars => PaidInv'
<1> SUFFICES ASSUME TypeOK, NoBypass, PaidInv, [Next]_vars PROVE PaidInv'
  OBVIOUS
<1>1. Summary
  BY StepSummary
<1>2. \A s \in Subs : captured[s] => captured'[s]
  BY <1>1 DEF Summary
<1>3. TypeOK'
  BY TypeStep
<1>4. ASSUME NEW s \in Subs
      PROVE  /\ status'[s] # "trialing"
             /\ status'[s] \in {"payment_received", "pending_admin_confirmation", "active",
                                "suspended", "past_due"} => captured'[s]
  <2>1. Moved(s) /\ status[s] \in Statuses
    BY <1>1 DEF Summary, TypeOK
  <2>2. CASE status'[s] \in L!Allowed[status[s]] /\ status'[s] # "payment_received"
    BY <1>2, <2>1, <2>2, TableFacts DEF PaidInv
  <2>3. CASE status'[s] = "payment_received"
    BY <1>2, <2>1, <2>3, TableFacts DEF PaidInv, Moved, NoBypass, Open
  <2>4. CASE status'[s] = "active" /\ \E a \in Actors : doc[a] = s /\ pc[a] \in {"renewing", "changing"}
    BY <1>2, <2>4 DEF PaidInv
  <2>5. CASE status'[s] \in {status[s], "pending_payment", "cancelled", "expired"}
    BY <1>2, <2>5 DEF PaidInv
  <2>6. CASE status[s] = "active" /\ status'[s] = "past_due"
    BY <1>2, <2>6 DEF PaidInv
  <2> QED BY <2>1, <2>2, <2>3, <2>4, <2>5, <2>6 DEF Moved, PaidInv
<1>5. ASSUME NEW a \in Actors
      PROVE  /\ pc'[a] \in {"verifying", "renewing", "changing"} => captured'[doc'[a]]
             /\ pc'[a] # "extending"
             /\ pc'[a] \in {"asked", "setting", "marked"} => to'[a] \in Targets
  <2>1. Stepped(a)
    BY <1>1 DEF Summary
  <2>2. pc'[a] \notin {"idle", "checkout"} => doc'[a] \in Subs
    BY <1>3 DEF TypeOK
  <2> QED BY <1>2, <2>1, <2>2 DEF Stepped, Watched, PaidInv, NoBypass
<1> QED BY <1>4, <1>5 DEF PaidInv

\* Every subscription that is active, suspended or overdue has its money at
\* the provider, unless an administrator extends a trial or sets a payment
\* status by hand.
THEOREM PaidCorrect == NoBypass /\ Spec => []ActiveIsPaid
<1> SUFFICES ASSUME NoBypass PROVE Spec => []ActiveIsPaid
  OBVIOUS
<1>1. Init => PaidInv
  BY DEF Init, PaidInv
<1>2. PaidInv => ActiveIsPaid
  BY DEF PaidInv, ActiveIsPaid
<1>3. TypeOK /\ PaidInv /\ [Next]_vars => PaidInv'
  BY PaidStep
<1> QED BY <1>1, <1>2, <1>3, TypeCorrect, PTL DEF Spec

-----------------------------------------------------------------------------
(* A checkout's payment record is created once, before anything is         *)
(* reported about it.                                                      *)

FreshPayments ==
  /\ \A s \in Subs : status[s] = "none" => payment[s] = "none"
  /\ \A a \in Actors :
       pc[a] = "billing" => status[doc[a]] # "none" /\ payment[doc[a]] = "none"
  /\ \A a, b \in Actors : pc[a] = "billing" /\ pc[b] = "billing" /\ doc[a] = doc[b] => a = b

\* The writes of payment records, as the handlers make them.
PaymentWrite(s) ==
  \/ payment'[s] = payment[s]
  \/ payment[s] \in {"pending", "failed"} /\ payment'[s] \in {"failed", "succeeded"}
  \/ \E a \in Actors :
       pc[a] = "billing" /\ doc[a] = s /\ pc'[a] # "billing" /\ payment'[s] = "pending"

LEMMA PaymentWrites ==
  ASSUME TypeOK, [Next]_vars, NEW s \in Subs
  PROVE  PaymentWrite(s)
<1> USE DEF subVars, payVars, orgVars, PaymentWrite
<1>1. CASE payment' = payment
  BY <1>1
<1>2. ASSUME NEW a \in Actors, StorePayment(a) PROVE PaymentWrite(s)
  BY <1>2 DEF StorePayment, Leave, TypeOK
<1>3. ASSUME NEW a \in Actors, VerifyRecord(a) PROVE PaymentWrite(s)
  BY <1>3 DEF VerifyRecord, TypeOK
<1>4. ASSUME NEW a \in Actors, RecordDecline(a) PROVE PaymentWrite(s)
  BY <1>4 DEF RecordDecline, TypeOK
<1>5. ASSUME NEW a \in Actors, NEW t \in Subs, Arrive(a, t) PROVE payment' = payment
  BY <1>5 DEF Arrive, Deliver, Decline, Confirm, StartRenewal, ChangePlan, ExtendTrial, ViewTrial,
     Cancel, Reactivate, SweepFind, AskStatus
<1>6. ASSUME NEW a \in Actors, Proceed(a),
             ~StorePayment(a), ~VerifyRecord(a), ~RecordDecline(a)
      PROVE  payment' = payment
  BY <1>6 DEF Proceed, StoreCheckout, VerifyReceived, VerifyQueue, FindNote, NoteClosed,
     ConfirmActivate, FindSuperseded, Supersede, Activate, Grant, ReadStatus, MarkRefund,
     WriteStatus, FollowStatus, Renew, WritePlan, MoveOrg, WriteTrial, TrialOrg, ExpireTrial,
     SetAtEnd, ClearAtEnd, SweepEnd, SweepOrg, SweepOverdue
<1>7. CASE UNCHANGED vars
  BY <1>1, <1>7 DEF vars
<1> QED BY <1>1, <1>2, <1>3, <1>4, <1>5, <1>6, <1>7 DEF Next, Checkout, Crash, Pay, Tick

\* A step is one handler's.
Same(a) == pc'[a] = pc[a] /\ doc'[a] = doc[a] /\ others'[a] = others[a]

Only(c) == \A d \in Actors : d # c => Same(d)

Acts(c) == Checkout(c) \/ Proceed(c) \/ Crash(c) \/ \E s \in Subs : Arrive(c, s)

LEMMA HandlerAlone ==
  ASSUME TypeOK, NEW c \in Actors, Acts(c)
  PROVE  Only(c)
<1>1. \A step : Go(c, step) => Only(c)
  BY DEF Go, Only, Same, TypeOK
<1>2. Leave(c) => Only(c)
  BY DEF Leave, Only, Same, TypeOK
<1>3. \A step, s : Begin(c, step, s) => Only(c)
  BY DEF Begin, Only, Same, TypeOK
<1>4. ASSUME NEW s \in Subs, Arrive(c, s) PROVE Only(c)
  <2>1. (\E st \in Targets : AskStatus(c, s, st)) => Only(c)
    BY DEF AskStatus, Only, Same, TypeOK
  <2> QED BY <1>3, <1>4, <2>1 DEF Arrive, Deliver, Decline, Confirm, StartRenewal, ChangePlan,
             ExtendTrial, ViewTrial, Cancel, Reactivate, SweepFind
<1>5. CASE Proceed(c)
  <2>1. StoreCheckout(c) \/ FindSuperseded(c) \/ Supersede(c) \/ ReadStatus(c) => Only(c)
    BY DEF StoreCheckout, FindSuperseded, Supersede, ReadStatus, Only, Same, TypeOK
  <2>2. VerifyReceived(c) => Only(c)
    BY <1>2 DEF VerifyReceived, Only, Same, TypeOK
  <2>3. StorePayment(c) \/ VerifyRecord(c) \/ VerifyQueue(c) \/ FindNote(c) \/ NoteClosed(c)
          \/ RecordDecline(c) \/ ConfirmActivate(c) \/ Activate(c) \/ Grant(c) => Only(c)
    BY <1>1, <1>2 DEF StorePayment, VerifyRecord, VerifyQueue, FindNote, NoteClosed, RecordDecline,
       ConfirmActivate, Activate, Grant
  <2>4. MarkRefund(c) \/ WriteStatus(c) \/ FollowStatus(c) \/ Renew(c) \/ WritePlan(c) \/ MoveOrg(c)
          \/ WriteTrial(c) \/ TrialOrg(c) \/ ExpireTrial(c) => Only(c)
    BY <1>1, <1>2 DEF MarkRefund, WriteStatus, FollowStatus, Renew, WritePlan, MoveOrg, WriteTrial,
       TrialOrg, ExpireTrial
  <2>5. SetAtEnd(c) \/ ClearAtEnd(c) \/ SweepEnd(c) \/ SweepOrg(c) \/ SweepOverdue(c) => Only(c)
    BY <1>1, <1>2 DEF SetAtEnd, ClearAtEnd, SweepEnd, SweepOrg, SweepOverdue
  <2> QED BY <1>5, <2>1, <2>2, <2>3, <2>4, <2>5 DEF Proceed
<1>6. CASE Checkout(c) \/ Crash(c)
  BY <1>1, <1>2, <1>6 DEF Checkout, Crash
<1> QED BY <1>4, <1>5, <1>6 DEF Acts

\* Every other step leaves the handlers alone.
LEMMA SomeoneActs ==
  ASSUME [Next]_vars
  PROVE  (\E c \in Actors : Acts(c)) \/ UNCHANGED callVars
<1>1. ASSUME NEW s \in Subs, Pay(s) \/ Tick(s) PROVE UNCHANGED callVars
  BY <1>1 DEF Pay, Tick
<1>2. CASE UNCHANGED vars
  BY <1>2 DEF vars
<1>3. CASE \E c \in Actors : Checkout(c) \/ Proceed(c) \/ Crash(c)
  BY <1>3 DEF Acts
<1>4. CASE \E c \in Actors, s \in Subs : Arrive(c, s)
  BY <1>4 DEF Acts
<1> QED BY <1>1, <1>2, <1>3, <1>4 DEF Next

LEMMA OneActs ==
  ASSUME TypeOK, [Next]_vars, NEW a \in Actors, NEW b \in Actors, a # b
  PROVE  Same(a) \/ Same(b)
<1>1. ASSUME NEW c \in Actors, Acts(c) PROVE Same(a) \/ Same(b)
  BY <1>1, HandlerAlone DEF Only
<1> QED BY <1>1, SomeoneActs DEF Same, callVars

LEMMA FreshStep == TypeOK /\ FreshPayments /\ [Next]_vars => FreshPayments'
<1> SUFFICES ASSUME TypeOK, FreshPayments, [Next]_vars PROVE FreshPayments'
  OBVIOUS
<1>1. Summary /\ TypeOK'
  BY StepSummary, TypeStep
<1>2. \A s \in Subs : status'[s] = "none" => status[s] = "none"
  <2> SUFFICES ASSUME NEW s \in Subs, status'[s] = "none" PROVE status[s] = "none"
    OBVIOUS
  <2>1. Moved(s) /\ status[s] \in Statuses
    BY <1>1 DEF Summary, TypeOK
  <2> QED BY <2>1, TableFacts DEF Moved
<1>3. \A s \in Subs : status[s] = "none" => payment'[s] = "none"
  BY PaymentWrites DEF PaymentWrite, FreshPayments
<1>4. \A a \in Actors :
        pc'[a] = "billing" => \/ pc[a] = "billing" /\ doc'[a] = doc[a]
                              \/ status[doc'[a]] = "none" /\ status'[doc'[a]] # "none"
  BY <1>1 DEF Summary, Stepped, Watched
<1>5. \A a \in Actors : pc'[a] = "billing" => doc'[a] \in Subs
  BY <1>1 DEF TypeOK
<1>6. ASSUME NEW a \in Actors, pc'[a] = "billing"
      PROVE  status'[doc'[a]] # "none" /\ payment'[doc'[a]] = "none"
  <2>1. CASE status[doc'[a]] = "none" /\ status'[doc'[a]] # "none"
    BY <1>3, <1>5, <1>6, <2>1
  <2>2. CASE pc[a] = "billing" /\ doc'[a] = doc[a]
    <3>1. PaymentWrite(doc[a])
      BY <1>5, <1>6, <2>2, PaymentWrites
    <3> QED BY <1>2, <1>5, <1>6, <2>2, <3>1 DEF FreshPayments, PaymentWrite
  <2> QED BY <1>4, <1>6, <2>1, <2>2
<1>7. ASSUME NEW a \in Actors, NEW b \in Actors, pc'[a] = "billing", pc'[b] = "billing",
             doc'[a] = doc'[b], a # b
      PROVE  FALSE
  BY <1>4, <1>7, OneActs DEF Same, FreshPayments
<1> QED BY <1>2, <1>3, <1>6, <1>7 DEF FreshPayments

\* A payment recorded as succeeded stays so: not a decline reported late, nor
\* a second report, nor a crash turns it back.
THEOREM SucceededCorrect == Spec => SucceededIsFinal
<1>1. Init => FreshPayments
  BY DEF Init, FreshPayments
<1>2. TypeOK /\ FreshPayments /\ [Next]_vars =>
        [\A s \in Subs : payment[s] = "succeeded" => payment'[s] = "succeeded"]_vars
  <2> SUFFICES ASSUME TypeOK, FreshPayments, [Next]_vars, NEW s \in Subs,
                      payment[s] = "succeeded"
               PROVE  payment'[s] = "succeeded"
    OBVIOUS
  <2> QED BY PaymentWrites DEF PaymentWrite, FreshPayments
<1> QED BY <1>1, <1>2, TypeCorrect, FreshStep, PTL DEF Spec, SucceededIsFinal

-----------------------------------------------------------------------------
(* Without renewals, plan changes and trial extensions, whose writes do    *)
(* not consult the table, the handlers implement Lifecycle.                *)

RequestsOnly == Extra \subseteq {"time"}

RequestsInv ==
  /\ \A s \in Subs : status[s] # "trialing"
  /\ \A a \in Actors : pc[a] \notin {"renewing", "changing", "extending", "expiring"}
  /\ \A a \in Actors : \A s \in others[a] : status[s] # "none"

LEMMA RequestsStep == TypeOK /\ RequestsOnly /\ RequestsInv /\ [Next]_vars => RequestsInv'
<1> SUFFICES ASSUME TypeOK, RequestsOnly, RequestsInv, [Next]_vars PROVE RequestsInv'
  OBVIOUS
<1>1. Summary
  BY StepSummary
<1>2. ASSUME NEW s \in Subs
      PROVE  status'[s] # "trialing" /\ (status'[s] = "none" => status[s] = "none")
  <2>1. Moved(s) /\ status[s] \in Statuses
    BY <1>1 DEF Summary, TypeOK
  <2> QED BY <2>1, TableFacts DEF Moved, RequestsInv
<1>3. ASSUME NEW a \in Actors
      PROVE  pc'[a] \notin {"renewing", "changing", "extending", "expiring"}
  <2>1. Stepped(a) /\ (pc'[a] = "expiring" => doc'[a] \in Subs)
    BY <1>1, TypeStep DEF Summary, TypeOK
  <2> QED BY <2>1 DEF Stepped, Watched, RequestsInv, RequestsOnly
<1>4. ASSUME NEW a \in Actors, NEW s \in others'[a] PROVE status'[s] # "none"
  <2>1. s \in Subs
    BY TypeStep DEF TypeOK
  <2>2. s \in others[a] \/ status[s] \in Live
    BY <1>1 DEF Summary
  <2> QED BY <1>2, <2>1, <2>2 DEF RequestsInv, Live
<1> QED BY <1>2, <1>3, <1>4 DEF RequestsInv

\* Each step of the handlers is a documented edge of every subscription, or
\* leaves it alone.
LEMMA RequestsRefine ==
  ASSUME TypeOK, RequestsInv, [Next]_vars
  PROVE  [L!Next]_status
<1>1. Summary /\ TypeOK'
  BY StepSummary, TypeStep
<1>2. status' \in [Subs -> L!Statuses]
  BY <1>1 DEF TypeOK, Statuses, Open, Live, L!Statuses, L!Open
<1>3. ASSUME NEW s \in Subs, status'[s] # status[s] PROVE L!Edge(status[s], status'[s])
  <2>1. Moved(s) /\ status[s] \in Statuses
    BY <1>1 DEF Summary, TypeOK
  <2>2. CASE status'[s] = "cancelled" /\ \E a \in Actors : s \in others[a]
    <3>1. status[s] \in Statuses \ {"none", "cancelled"}
      BY <1>3, <2>1, <2>2 DEF RequestsInv
    <3>2. "cancelled" \in L!Allowed[status[s]]
      BY <3>1 DEF Statuses, Open, Live, L!Allowed
    <3> QED BY <2>2, <3>2 DEF L!Edge
  <2>3. CASE status[s] = "pending_payment" /\ status'[s] = "payment_received"
    BY <2>3 DEF L!Edge, L!Allowed
  <2> QED BY <1>3, <2>1, <2>2, <2>3 DEF Moved, L!Edge, L!Other, RequestsInv
<1> QED BY <1>2, <1>3 DEF L!Next

\* The handlers of checkouts, payments, confirmations, status changes,
\* cancellations and the sweep implement the documented lifecycle.
THEOREM DocumentedCorrect == RequestsOnly /\ Spec => Documented
<1> SUFFICES ASSUME RequestsOnly PROVE Spec => Documented
  OBVIOUS
<1>1. Init => RequestsInv /\ L!Init
  BY DEF Init, RequestsInv, L!Init
<1>2. TypeOK /\ RequestsInv /\ [Next]_vars => RequestsInv'
  BY RequestsStep
<1>3. TypeOK /\ RequestsInv /\ [Next]_vars => [L!Next]_status
  BY RequestsRefine
<1> QED BY <1>1, <1>2, <1>3, TypeCorrect, PTL DEF Spec, Documented, L!Spec

-----------------------------------------------------------------------------
(* Grants.  Everything that starts a period owes it one grant of tokens    *)
(* until its last call has made it, and a handler that stops before never  *)
(* makes it: grants made and grants owed together never exceed the periods. *)

Indebted == {"activated", "superseding", "changed", "granting"}

Owing(s) == {a \in Actors : pc[a] \in Indebted /\ doc[a] = s}

Covered(s) == grants[s] + Cardinality(Owing(s)) <= ends[s]

LEMMA OwingCounted ==
  ASSUME NEW s
  PROVE  IsFiniteSet(Owing(s)) /\ Cardinality(Owing(s)) \in Nat
<1>1. Owing(s) \subseteq Actors
  BY DEF Owing
<1> QED BY <1>1, ActorsFinite, FS_Subset, FS_CardinalityType

\* No new debt.
LEMMA CoveredStill ==
  ASSUME TypeOK, TypeOK', NEW s \in Subs, Covered(s),
         grants'[s] = grants[s], ends'[s] >= ends[s], Owing(s)' \subseteq Owing(s)
  PROVE  Covered(s)'
<1> DEFINE O == Owing(s)
           P == Owing(s)'
<1>1. IsFiniteSet(O) /\ Cardinality(O) \in Nat
  BY OwingCounted
<1>2. grants[s] + Cardinality(O) <= ends[s] /\ P \subseteq O
  BY DEF Covered
<1>3. grants[s] \in Nat /\ ends[s] \in Nat /\ ends'[s] \in Nat
  BY DEF TypeOK
<1> SUFFICES grants'[s] + Cardinality(P) <= ends'[s]
  BY DEF Covered
<1> HIDE DEF O, P
<1>4. Cardinality(P) \in Nat /\ Cardinality(P) <= Cardinality(O)
  BY <1>1, <1>2, FS_Subset, FS_CardinalityType
<1> QED BY <1>1, <1>2, <1>3, <1>4

\* A debt with its period.
LEMMA CoveredStart ==
  ASSUME TypeOK, NEW s \in Subs, NEW a \in Actors, Covered(s),
         grants'[s] = grants[s], ends'[s] = ends[s] + 1, Owing(s)' \subseteq Owing(s) \cup {a}
  PROVE  Covered(s)'
<1> DEFINE O == Owing(s)
           P == Owing(s)'
<1>1. IsFiniteSet(O) /\ Cardinality(O) \in Nat
  BY OwingCounted
<1>2. grants[s] + Cardinality(O) <= ends[s] /\ P \subseteq O \cup {a}
  BY DEF Covered
<1>3. grants[s] \in Nat /\ ends[s] \in Nat
  BY DEF TypeOK
<1> SUFFICES grants'[s] + Cardinality(P) <= ends'[s]
  BY DEF Covered
<1> HIDE DEF O, P
<1>4. IsFiniteSet(O \cup {a}) /\ Cardinality(O \cup {a}) \in Nat
      /\ Cardinality(O \cup {a}) <= Cardinality(O) + 1
  <2>1. /\ IsFiniteSet(O \cup {a})
        /\ Cardinality(O \cup {a}) = IF a \in O THEN Cardinality(O) ELSE Cardinality(O) + 1
    BY <1>1, FS_AddElement
  <2> QED BY <1>1, <2>1
<1>5. Cardinality(P) \in Nat /\ Cardinality(P) <= Cardinality(O \cup {a})
  BY <1>2, <1>4, FS_Subset, FS_CardinalityType
<1> QED BY <1>1, <1>2, <1>3, <1>4, <1>5

\* A debt paid.
LEMMA CoveredGrant ==
  ASSUME TypeOK, NEW s \in Subs, NEW a \in Owing(s), Covered(s),
         grants'[s] = grants[s] + 1, ends'[s] = ends[s], Owing(s)' \subseteq Owing(s) \ {a}
  PROVE  Covered(s)'
<1> DEFINE O == Owing(s)
           P == Owing(s)'
<1>1. IsFiniteSet(O) /\ Cardinality(O) \in Nat
  BY OwingCounted
<1>2. grants[s] + Cardinality(O) <= ends[s] /\ P \subseteq O \ {a} /\ a \in O
  BY DEF Covered
<1>3. grants[s] \in Nat /\ ends[s] \in Nat
  BY DEF TypeOK
<1> SUFFICES grants'[s] + Cardinality(P) <= ends'[s]
  BY DEF Covered
<1> HIDE DEF O, P
<1>4. IsFiniteSet(O \ {a}) /\ Cardinality(O \ {a}) = Cardinality(O) - 1
  BY <1>1, <1>2, FS_RemoveElement
<1>5. Cardinality(P) \in Nat /\ Cardinality(P) <= Cardinality(O \ {a})
  BY <1>2, <1>4, FS_Subset, FS_CardinalityType
<1> QED BY <1>1, <1>2, <1>3, <1>4, <1>5

\* What the steps of a handler do to the debts.
LEMMA GoOwes ==
  ASSUME TypeOK, NEW a \in Actors, NEW step \in Steps, Go(a, step), NEW s \in Subs
  PROVE  /\ Owing(s)' \subseteq Owing(s) \cup {a}
         /\ step \notin Indebted \/ pc[a] \in Indebted \/ doc[a] # s => Owing(s)' \subseteq Owing(s)
  BY DEF Go, Owing, TypeOK

LEMMA LeaveOwes ==
  ASSUME TypeOK, NEW a \in Actors, Leave(a), NEW s \in Subs
  PROVE  Owing(s)' \subseteq Owing(s) \ {a}
  BY DEF Leave, Owing, TypeOK, Indebted

LEMMA BeginOwes ==
  ASSUME TypeOK, NEW a \in Actors, NEW x, NEW step \in Steps \ Indebted, Begin(a, step, x),
         NEW s \in Subs
  PROVE  Owing(s)' \subseteq Owing(s)
  BY DEF Begin, Owing, TypeOK

\* What a step does to the count of one subscription.
Charged(s) ==
  \/ grants'[s] = grants[s] /\ ends'[s] >= ends[s] /\ Owing(s)' \subseteq Owing(s)
  \/ \E a \in Actors : grants'[s] = grants[s] /\ ends'[s] = ends[s] + 1
                       /\ Owing(s)' \subseteq Owing(s) \cup {a}
  \/ \E a \in Owing(s) : grants'[s] = grants[s] + 1 /\ ends'[s] = ends[s]
                         /\ Owing(s)' \subseteq Owing(s) \ {a}

LEMMA PeriodsGrow ==
  ASSUME TypeOK, NEW x \in Subs, NewPeriod(x)
  PROVE  \A s \in Subs : ends'[s] = IF s = x THEN ends[s] + 1 ELSE ends[s]
  BY DEF NewPeriod, TypeOK

LEMMA ArriveCharges ==
  ASSUME TypeOK, NEW a \in Actors, NEW x \in Subs, Arrive(a, x), NEW s \in Subs
  PROVE  Charged(s)
<1>1. ASSUME UNCHANGED subVars, Owing(s)' \subseteq Owing(s) PROVE Charged(s)
  <2>1. ends[s] \in Nat
    BY DEF TypeOK
  <2> QED BY <1>1, <2>1 DEF Charged, subVars
<1>2. UNCHANGED subVars
  BY DEF Arrive, Deliver, Decline, Confirm, StartRenewal, ChangePlan, ExtendTrial, ViewTrial,
     Cancel, Reactivate, SweepFind, AskStatus
<1>3. CASE \E st \in Targets : AskStatus(a, x, st)
  <2>1. Owing(s)' \subseteq Owing(s)
    BY <1>3 DEF AskStatus, Owing, TypeOK, Indebted
  <2> QED BY <1>1, <1>2, <2>1
<1>4. CASE \E step \in Steps \ Indebted : Begin(a, step, x)
  BY <1>1, <1>2, <1>4, BeginOwes
<1>5. (\E st \in Targets : AskStatus(a, x, st)) \/ \E step \in Steps \ Indebted : Begin(a, step, x)
  BY DEF Arrive, Deliver, Decline, Confirm, StartRenewal, ChangePlan, ExtendTrial, ViewTrial,
     Cancel, Reactivate, SweepFind, Steps, Indebted
<1> QED BY <1>3, <1>4, <1>5

LEMMA ProceedCharges ==
  ASSUME TypeOK, NEW a \in Actors, Proceed(a), NEW s \in Subs
  PROVE  Charged(s)
<1>0. /\ ends[s] \in Nat /\ grants[s] \in Nat
      /\ pc[a] \notin {"idle", "checkout"} => doc[a] \in Subs
  BY DEF TypeOK
<1>1. ASSUME UNCHANGED <<grants, ends>>, Owing(s)' \subseteq Owing(s) PROVE Charged(s)
  BY <1>0, <1>1 DEF Charged
<1>2. ASSUME UNCHANGED <<grants, ends>>, Leave(a) PROVE Charged(s)
  BY <1>1, <1>2, LeaveOwes
<1>3. ASSUME UNCHANGED <<grants, ends>>, NEW step \in Steps, Go(a, step),
             step \notin Indebted \/ pc[a] \in Indebted
      PROVE  Charged(s)
  BY <1>1, <1>3, GoOwes
<1>4. ASSUME UNCHANGED grants, NewPeriod(doc[a]), NEW step \in Steps, Go(a, step),
             doc[a] \in Subs
      PROVE  Charged(s)
  <2>1. CASE doc[a] = s
    <3>1. ends'[s] = ends[s] + 1
      BY <1>4, <2>1, PeriodsGrow
    <3>2. Owing(s)' \subseteq Owing(s) \cup {a}
      BY <1>4, GoOwes
    <3> QED BY <1>4, <3>1, <3>2 DEF Charged
  <2>2. CASE doc[a] # s
    <3>1. ends'[s] = ends[s]
      BY <1>4, <2>2, PeriodsGrow
    <3>2. Owing(s)' \subseteq Owing(s)
      BY <1>4, <2>2, GoOwes
    <3> QED BY <1>0, <1>4, <3>1, <3>2 DEF Charged
  <2> QED BY <2>1, <2>2
<1> USE DEF subVars, payVars, orgVars
<1>5. CASE StoreCheckout(a) \/ FindSuperseded(a) \/ Supersede(a) \/ ReadStatus(a)
  <2>1. UNCHANGED <<grants, ends>>
    BY <1>5 DEF StoreCheckout, FindSuperseded, Supersede, ReadStatus
  <2>2. Owing(s)' \subseteq Owing(s)
    BY <1>5 DEF StoreCheckout, FindSuperseded, Supersede, ReadStatus, Owing, TypeOK, Indebted
  <2> QED BY <1>1, <2>1, <2>2
<1>6. CASE StorePayment(a) \/ VerifyRecord(a) \/ RecordDecline(a) \/ FindNote(a) \/ NoteClosed(a)
           \/ VerifyQueue(a)
  BY <1>2, <1>3, <1>6
     DEF StorePayment, VerifyRecord, RecordDecline, FindNote, NoteClosed, VerifyQueue, Steps, Indebted
<1>7. CASE VerifyReceived(a)
  <2>1. UNCHANGED <<grants, ends>>
    BY <1>7 DEF VerifyReceived
  <2>2. CASE Leave(a)
    BY <1>2, <2>1, <2>2
  <2>3. CASE pc' = [pc EXCEPT ![a] = "recording"] /\ UNCHANGED <<doc, end, to, others>>
    <3>1. Owing(s)' \subseteq Owing(s)
      BY <2>3 DEF Owing, TypeOK, Indebted
    <3> QED BY <1>1, <2>1, <3>1
  <2> QED BY <1>7, <2>2, <2>3 DEF VerifyReceived
<1>8. CASE MarkRefund(a) \/ WriteStatus(a) \/ FollowStatus(a) \/ TrialOrg(a) \/ ExpireTrial(a)
  BY <1>2, <1>3, <1>8
     DEF MarkRefund, WriteStatus, FollowStatus, TrialOrg, ExpireTrial, Steps, Indebted
<1>9. CASE SetAtEnd(a) \/ ClearAtEnd(a) \/ SweepEnd(a) \/ SweepOrg(a) \/ SweepOverdue(a)
  BY <1>2, <1>3, <1>9
     DEF SetAtEnd, ClearAtEnd, SweepEnd, SweepOrg, SweepOverdue, Steps, Indebted
<1>10. CASE Activate(a) \/ MoveOrg(a)
  BY <1>3, <1>10 DEF Activate, MoveOrg, Steps, Indebted
<1>11. CASE ConfirmActivate(a) \/ Renew(a)
  BY <1>0, <1>2, <1>4, <1>11 DEF ConfirmActivate, Renew, Steps
<1>12. CASE WritePlan(a)
  BY <1>0, <1>4, <1>12 DEF WritePlan, Steps
<1>13. CASE WriteTrial(a)
  <2>1. doc[a] \in Subs /\ UNCHANGED grants /\ NewPeriod(doc[a]) /\ Go(a, "extended")
    BY <1>0, <1>13 DEF WriteTrial
  <2> QED BY <1>4, <2>1 DEF Steps
<1>14. CASE Grant(a)
  <2>1. doc[a] \in Subs /\ pc[a] = "granting" /\ ends' = ends /\ Leave(a)
        /\ grants' = [grants EXCEPT ![doc[a]] = @ + 1]
    BY <1>0, <1>14 DEF Grant
  <2>2. Owing(s)' \subseteq Owing(s) \ {a}
    BY <2>1, LeaveOwes
  <2>3. CASE doc[a] = s
    <3>1. a \in Owing(s)
      BY <2>1, <2>3 DEF Owing, Indebted
    <3>2. grants'[s] = grants[s] + 1
      BY <2>1, <2>3 DEF TypeOK
    <3> QED BY <2>1, <2>2, <3>1, <3>2 DEF Charged
  <2>4. CASE doc[a] # s
    <3>1. grants'[s] = grants[s]
      BY <2>1, <2>4 DEF TypeOK
    <3> QED BY <1>0, <2>1, <2>2, <3>1 DEF Charged
  <2> QED BY <2>3, <2>4
<1> QED BY <1>5, <1>6, <1>7, <1>8, <1>9, <1>10, <1>11, <1>12, <1>13, <1>14 DEF Proceed

LEMMA StepCharges ==
  ASSUME TypeOK, [Next]_vars, NEW s \in Subs
  PROVE  Charged(s)
<1>0. ends[s] \in Nat
  BY DEF TypeOK
<1>1. ASSUME UNCHANGED <<grants, ends>>, Owing(s)' \subseteq Owing(s) PROVE Charged(s)
  BY <1>0, <1>1 DEF Charged
<1> USE DEF subVars, payVars, orgVars, callVars
<1>2. ASSUME NEW a \in Actors, Checkout(a) PROVE Charged(s)
  BY <1>1, <1>2, GoOwes DEF Checkout, Steps, Indebted
<1>3. ASSUME NEW a \in Actors, Crash(a) PROVE Charged(s)
  BY <1>1, <1>3, LeaveOwes DEF Crash
<1>4. ASSUME NEW x \in Subs, Pay(x) \/ Tick(x) PROVE Charged(s)
  BY <1>1, <1>4 DEF Pay, Tick, Owing
<1>5. CASE UNCHANGED vars
  BY <1>1, <1>5 DEF vars, Owing
<1> QED BY <1>2, <1>3, <1>4, <1>5, ArriveCharges, ProceedCharges DEF Next

\* However renewals, plan changes, confirmations and crashes overlap, the
\* tokens of a period are granted at most once.
THEOREM GrantedCorrect == Spec => []GrantedOncePerPeriod
<1>1. Init => \A s \in Subs : Covered(s)
  <2> SUFFICES ASSUME Init, NEW s \in Subs PROVE Covered(s)
    OBVIOUS
  <2>1. Owing(s) = {} /\ grants[s] = 0 /\ ends[s] = 0
    BY DEF Init, Owing, Indebted
  <2> QED BY <2>1, FS_EmptySet DEF Covered
<1>2. TypeOK /\ (\A s \in Subs : Covered(s)) /\ [Next]_vars => (\A s \in Subs : Covered(s))'
  <2> SUFFICES ASSUME TypeOK, [Next]_vars, NEW s \in Subs, Covered(s) PROVE Covered(s)'
    OBVIOUS
  <2>1. TypeOK' /\ Charged(s)
    BY TypeStep, StepCharges
  <2> QED BY <2>1, CoveredStill, CoveredStart, CoveredGrant DEF Charged
<1>3. TypeOK /\ (\A s \in Subs : Covered(s)) => GrantedOncePerPeriod
  <2> SUFFICES ASSUME TypeOK, NEW s \in Subs, Covered(s) PROVE grants[s] <= ends[s]
    BY DEF GrantedOncePerPeriod
  <2>1. grants[s] \in Nat /\ ends[s] \in Nat /\ Cardinality(Owing(s)) \in Nat
    BY OwingCounted DEF TypeOK
  <2> QED BY <2>1 DEF Covered
<1> QED BY <1>1, <1>2, <1>3, TypeCorrect, PTL DEF Spec

-----------------------------------------------------------------------------
(* The sweep and the organization.  It closes the organization only after  *)
(* it has cancelled the subscription the organization is on, and without   *)
(* renewals and trial extensions nothing takes that cancellation back.     *)

EndedIsCancelled == \A a \in Actors : pc[a] = "ended" => status[doc[a]] = "cancelled"

LEMMA EndedReached ==
  ASSUME TypeOK, NEW a \in Actors, Acts(a), pc'[a] = "ended"
  PROVE  SweepEnd(a) \/ Same(a)
<1>1. \A step : Go(a, step) => pc'[a] = step
  BY DEF Go, TypeOK
<1>2. Leave(a) => pc'[a] = "idle"
  BY DEF Leave, TypeOK
<1>3. \A step, s : Begin(a, step, s) => pc'[a] = step
  BY DEF Begin, TypeOK
<1>4. ASSUME NEW s \in Subs, Arrive(a, s) PROVE FALSE
  <2>1. (\E st \in Targets : AskStatus(a, s, st)) => pc'[a] = "asked"
    BY DEF AskStatus, TypeOK
  <2> QED BY <1>3, <1>4, <2>1 DEF Arrive, Deliver, Decline, Confirm, StartRenewal, ChangePlan,
             ExtendTrial, ViewTrial, Cancel, Reactivate, SweepFind
<1>5. ASSUME Proceed(a), ~SweepEnd(a) PROVE FALSE
  <2>1. ~StoreCheckout(a) /\ ~FindSuperseded(a) /\ ~Supersede(a) /\ ~ReadStatus(a)
    BY DEF StoreCheckout, FindSuperseded, Supersede, ReadStatus, TypeOK
  <2>2. ~VerifyReceived(a)
    BY <1>2 DEF VerifyReceived, TypeOK
  <2>3. ~StorePayment(a) /\ ~VerifyRecord(a) /\ ~VerifyQueue(a) /\ ~FindNote(a) /\ ~NoteClosed(a)
          /\ ~RecordDecline(a) /\ ~ConfirmActivate(a) /\ ~Activate(a) /\ ~Grant(a)
    BY <1>1, <1>2 DEF StorePayment, VerifyRecord, VerifyQueue, FindNote, NoteClosed, RecordDecline,
       ConfirmActivate, Activate, Grant
  <2>4. ~MarkRefund(a) /\ ~WriteStatus(a) /\ ~FollowStatus(a) /\ ~Renew(a) /\ ~WritePlan(a)
          /\ ~MoveOrg(a) /\ ~WriteTrial(a) /\ ~TrialOrg(a) /\ ~ExpireTrial(a)
    BY <1>1, <1>2 DEF MarkRefund, WriteStatus, FollowStatus, Renew, WritePlan, MoveOrg, WriteTrial,
       TrialOrg, ExpireTrial
  <2>5. ~SetAtEnd(a) /\ ~ClearAtEnd(a) /\ ~SweepOrg(a) /\ ~SweepOverdue(a)
    BY <1>1, <1>2 DEF SetAtEnd, ClearAtEnd, SweepOrg, SweepOverdue
  <2> QED BY <1>5, <2>1, <2>2, <2>3, <2>4, <2>5 DEF Proceed
<1>6. ~Checkout(a) /\ ~Crash(a)
  BY <1>1, <1>2 DEF Checkout, Crash
<1> QED BY <1>4, <1>5, <1>6 DEF Acts

LEMMA EndedStep ==
  TypeOK /\ RequestsInv /\ EndedIsCancelled /\ [Next]_vars => EndedIsCancelled'
<1> SUFFICES ASSUME TypeOK, RequestsInv, EndedIsCancelled, [Next]_vars,
                    NEW a \in Actors, pc'[a] = "ended"
             PROVE  status'[doc'[a]] = "cancelled"
  BY DEF EndedIsCancelled
<1>1. \A s \in Subs : status[s] = "cancelled" => status'[s] = "cancelled"
  <2> SUFFICES ASSUME NEW s \in Subs, status[s] = "cancelled" PROVE status'[s] = "cancelled"
    OBVIOUS
  <2>1. Moved(s) /\ L!Allowed["cancelled"] = {}
    BY StepSummary DEF Summary, L!Allowed
  <2> QED BY <2>1 DEF Moved, RequestsInv
<1>2. CASE Same(a)
  <2>1. doc[a] \in Subs /\ pc[a] = "ended" /\ doc'[a] = doc[a]
    BY <1>2 DEF Same, TypeOK
  <2> QED BY <1>1, <2>1 DEF EndedIsCancelled
<1>3. CASE SweepEnd(a)
  <2>1. SetStatusOf(doc[a], "cancelled") /\ Go(a, "ended") /\ doc[a] \in Subs
    BY <1>3 DEF SweepEnd, Leave, TypeOK
  <2> QED BY <2>1 DEF SetStatusOf, Go, TypeOK
<1>4. ASSUME NEW c \in Actors, Acts(c) PROVE Same(a) \/ SweepEnd(a)
  BY <1>4, HandlerAlone, EndedReached DEF Only
<1>5. UNCHANGED callVars => Same(a)
  BY DEF callVars, Same
<1> QED BY <1>2, <1>3, <1>4, <1>5, SomeoneActs

\* Only the sweep's own handler changes the organization when it leaves its
\* last step, and only if the organization is on the subscription it ended.
LEMMA EndedLeaves ==
  ASSUME TypeOK, [Next]_vars, NEW a \in Actors, pc[a] = "ended", pc'[a] # "ended",
         orgStatus' # orgStatus
  PROVE  orgSub = doc[a]
<1>1. ~Same(a)
  BY DEF Same
<1>2. ASSUME NEW c \in Actors, Acts(c) PROVE c = a
  BY <1>1, <1>2, HandlerAlone DEF Only
<1>3. Acts(a)
  BY <1>1, <1>2, SomeoneActs DEF callVars, Same
<1>4. ASSUME NEW s \in Subs PROVE ~Arrive(a, s)
  BY DEF Arrive, Deliver, Decline, Confirm, StartRenewal, ChangePlan, ExtendTrial, ViewTrial,
     Cancel, Reactivate, SweepFind, AskStatus, Begin
<1>5. ~Checkout(a) /\ ~Crash(a)
  BY DEF Checkout, Crash, orgVars
<1>6. Proceed(a) => SweepOrg(a)
  BY DEF Proceed, StoreCheckout, StorePayment, VerifyReceived, VerifyRecord, VerifyQueue, FindNote,
     NoteClosed, RecordDecline, ConfirmActivate, FindSuperseded, Supersede, Activate, Grant,
     ReadStatus, MarkRefund, WriteStatus, FollowStatus, Renew, WritePlan, MoveOrg, WriteTrial,
     TrialOrg, ExpireTrial, SetAtEnd, ClearAtEnd, SweepEnd, SweepOverdue
<1> QED BY <1>3, <1>4, <1>5, <1>6 DEF Acts, SweepOrg

\* Where no renewal, plan change or trial extension overlaps it, the sweep
\* never closes an organization that is on an active subscription, however
\* checkouts, confirmations and status changes interleave with it.
THEOREM SweepSparesCorrect == RequestsOnly /\ Spec => SweepSparesActive
<1> SUFFICES ASSUME RequestsOnly PROVE Spec => SweepSparesActive
  OBVIOUS
<1>1. Init => RequestsInv /\ EndedIsCancelled
  BY DEF Init, RequestsInv, EndedIsCancelled
<1>2. TypeOK /\ RequestsInv /\ [Next]_vars => RequestsInv'
  BY RequestsStep
<1>3. TypeOK /\ EndedIsCancelled /\ [Next]_vars =>
        [\A a \in Actors, s \in Subs :
           pc[a] = "ended" /\ pc'[a] # "ended" /\ orgStatus' # orgStatus /\ orgSub = s
             => status[s] # "active"]_vars
  <2> SUFFICES ASSUME TypeOK, EndedIsCancelled, [Next]_vars, NEW a \in Actors, NEW s \in Subs,
                      pc[a] = "ended", pc'[a] # "ended", orgStatus' # orgStatus, orgSub = s
               PROVE  status[s] # "active"
    OBVIOUS
  <2> QED BY EndedLeaves DEF EndedIsCancelled
<1> QED BY <1>1, <1>2, <1>3, TypeCorrect, EndedStep, PTL DEF Spec, SweepSparesActive

-----------------------------------------------------------------------------
(* Rejections out of the confirmation queue.  Whatever is in the queue has  *)
(* its payment recorded, so the handler that rejects it, which marks the    *)
(* payments recorded by then before it writes the status, finds it.         *)

\* The Super Admin sets no payment status by hand.
ByReports == Targets \cap Open = {}

\* The statuses of a checkout that has bought nothing yet.
Unbought == Open \cup {"none"}

QueueInv ==
  /\ \A s \in Subs : status[s] = "pending_admin_confirmation" => payment[s] = "succeeded"
  /\ \A s \in Subs : captured[s] => payment[s] # "none"
  /\ \A a \in Actors :
       /\ pc[a] \in {"verifying", "recording"} => payment[doc[a]] # "none"
       /\ pc[a] = "queueing" => payment[doc[a]] = "succeeded"
       /\ pc[a] \in {"asked", "setting", "marked"} => to[a] \in Targets
       /\ pc[a] = "setting" /\ was[a] = "pending_admin_confirmation"
            => payment[doc[a]] = "succeeded"
       /\ pc[a] = "marked" /\ was[a] = "pending_admin_confirmation" => refundDue[doc[a]]
       /\ \A s \in others[a] : status[s] \notin Unbought

LEMMA RefundsStay ==
  ASSUME TypeOK, [Next]_vars, NEW s \in Subs, refundDue[s]
  PROVE  refundDue'[s]
<1>1. CASE refundDue' = refundDue
  BY <1>1
<1>2. ASSUME NEW a \in Actors, MarkRefund(a) PROVE refundDue'[s]
  BY <1>2 DEF MarkRefund, TypeOK
<1> USE DEF payVars
<1>3. ASSUME NEW a \in Actors, NEW x \in Subs, Arrive(a, x) PROVE refundDue' = refundDue
  BY <1>3 DEF Arrive, Deliver, Decline, Confirm, StartRenewal, ChangePlan, ExtendTrial, ViewTrial,
     Cancel, Reactivate, SweepFind, AskStatus
<1>4. ASSUME NEW a \in Actors, Proceed(a), ~MarkRefund(a) PROVE refundDue' = refundDue
  BY <1>4 DEF Proceed, StoreCheckout, StorePayment, VerifyReceived, VerifyRecord, VerifyQueue,
     FindNote, NoteClosed, RecordDecline, ConfirmActivate, FindSuperseded, Supersede, Activate,
     Grant, ReadStatus, WriteStatus, FollowStatus, Renew, WritePlan, MoveOrg, WriteTrial,
     TrialOrg, ExpireTrial, SetAtEnd, ClearAtEnd, SweepEnd, SweepOrg, SweepOverdue
<1>5. CASE UNCHANGED vars
  BY <1>1, <1>5 DEF vars
<1> QED BY <1>1, <1>2, <1>3, <1>4, <1>5 DEF Next, Checkout, Crash, Pay, Tick

\* The money is captured on the page of a payment that is recorded by then.
LEMMA CapturedThere ==
  ASSUME TypeOK, [Next]_vars, NEW s \in Subs, captured'[s]
  PROVE  captured[s] \/ payment[s] # "none"
<1>1. CASE captured' = captured
  BY <1>1
<1>2. ASSUME NEW x \in Subs, Pay(x) PROVE captured[s] \/ payment[s] # "none"
  BY <1>2 DEF Pay, TypeOK
<1> USE DEF payVars
<1>3. ASSUME NEW a \in Actors, NEW x \in Subs, Arrive(a, x) PROVE captured' = captured
  BY <1>3 DEF Arrive, Deliver, Decline, Confirm, StartRenewal, ChangePlan, ExtendTrial, ViewTrial,
     Cancel, Reactivate, SweepFind, AskStatus
<1>4. ASSUME NEW a \in Actors, Proceed(a) PROVE captured' = captured
  BY <1>4 DEF Proceed, StoreCheckout, StorePayment, VerifyReceived, VerifyRecord, VerifyQueue,
     FindNote, NoteClosed, RecordDecline, ConfirmActivate, FindSuperseded, Supersede, Activate,
     Grant, ReadStatus, MarkRefund, WriteStatus, FollowStatus, Renew, WritePlan, MoveOrg, WriteTrial,
     TrialOrg, ExpireTrial, SetAtEnd, ClearAtEnd, SweepEnd, SweepOrg, SweepOverdue
<1>5. CASE UNCHANGED vars
  BY <1>1, <1>5 DEF vars
<1> QED BY <1>1, <1>2, <1>3, <1>4, <1>5 DEF Next, Checkout, Crash, Tick

\* How a handler reaches the steps QueueInv speaks of.
Aimed(a) ==
  \/ pc'[a] = pc[a] /\ doc'[a] = doc[a] /\ was'[a] = was[a]
  \/ pc'[a] \notin {"verifying", "recording", "queueing", "setting", "marked"}
  \/ pc'[a] = "verifying" /\ captured[doc'[a]]
  \/ pc'[a] = "recording" /\ pc[a] = "verifying" /\ doc'[a] = doc[a]
  \/ /\ pc'[a] = "queueing" /\ pc[a] = "recording" /\ doc'[a] = doc[a]
     /\ payment[doc[a]] # "none" => payment'[doc[a]] = "succeeded"
  \/ pc'[a] = "setting" /\ was'[a] = status[doc'[a]] /\ payment' = payment
  \/ /\ pc'[a] = "marked" /\ pc[a] = "setting" /\ doc'[a] = doc[a] /\ was'[a] = was[a]
     /\ payment[doc[a]] = "succeeded" => refundDue'[doc[a]]

LEMMA Aims ==
  ASSUME TypeOK, [Next]_vars, NEW b \in Actors
  PROVE  Aimed(b)
<1>1. CASE UNCHANGED callVars
  BY <1>1 DEF callVars, Aimed
<1>2. ASSUME NEW c \in Actors, Acts(c) PROVE Aimed(b)
  <2>1. ASSUME Leave(c) PROVE Aimed(b)
    BY <2>1 DEF Leave, Aimed, TypeOK
  <2>2. ASSUME NEW step \in Steps \ {"verifying", "recording", "queueing", "setting", "marked"},
               Go(c, step)
        PROVE  Aimed(b)
    BY <2>2 DEF Go, Aimed, TypeOK
  <2>3. ASSUME NEW s \in Subs, NEW step \in Steps, Begin(c, step, s),
               step = "verifying" => captured[s],
               step \notin {"recording", "queueing", "setting", "marked"}
        PROVE  Aimed(b)
    BY <2>3 DEF Begin, Aimed, TypeOK
  <2>4. ASSUME NEW s \in Subs, Arrive(c, s) PROVE Aimed(b)
    <3>1. CASE Deliver(c, s)
      BY <2>3, <3>1 DEF Deliver, Steps
    <3>2. CASE Decline(c, s) \/ Confirm(c, s) \/ StartRenewal(c, s) \/ ChangePlan(c, s)
      BY <2>3, <3>2 DEF Decline, Confirm, StartRenewal, ChangePlan, Steps
    <3>3. CASE ExtendTrial(c, s) \/ ViewTrial(c, s) \/ Cancel(c, s) \/ Reactivate(c, s) \/ SweepFind(c, s)
      BY <2>3, <3>3 DEF ExtendTrial, ViewTrial, Cancel, Reactivate, SweepFind, Steps
    <3>4. CASE \E st \in Targets : AskStatus(c, s, st)
      BY <3>4 DEF AskStatus, Aimed, TypeOK
    <3> QED BY <2>4, <3>1, <3>2, <3>3, <3>4 DEF Arrive
  <2>5. CASE StoreCheckout(c) \/ FindSuperseded(c) \/ Supersede(c)
    BY <2>5 DEF StoreCheckout, FindSuperseded, Supersede, Aimed, TypeOK
  <2>6. CASE VerifyReceived(c)
    BY <2>1, <2>6 DEF VerifyReceived, Aimed, TypeOK
  <2>7. CASE VerifyRecord(c)
    <3>1. doc[c] \in Subs /\ payment[doc[c]] \in {"none", "pending", "failed", "succeeded"}
      BY <2>7 DEF VerifyRecord, TypeOK
    <3>2. payment[doc[c]] # "none" => payment'[doc[c]] = "succeeded"
      BY <2>7, <3>1 DEF VerifyRecord, TypeOK
    <3> QED BY <2>7, <3>2 DEF VerifyRecord, Go, Aimed, TypeOK
  <2>8. CASE ReadStatus(c)
    BY <2>8 DEF ReadStatus, payVars, Aimed, TypeOK
  <2>9. CASE MarkRefund(c)
    <3>1. doc[c] \in Subs
      BY <2>9 DEF MarkRefund, TypeOK
    <3>2. payment[doc[c]] = "succeeded" => refundDue'[doc[c]]
      BY <2>9, <3>1 DEF MarkRefund, TypeOK
    <3> QED BY <2>9, <3>2 DEF MarkRefund, Go, Aimed, TypeOK
  <2>10. CASE StorePayment(c) \/ VerifyQueue(c) \/ FindNote(c) \/ NoteClosed(c) \/ RecordDecline(c)
              \/ ConfirmActivate(c) \/ Activate(c) \/ Grant(c)
    BY <2>1, <2>2, <2>10 DEF StorePayment, VerifyQueue, FindNote, NoteClosed, RecordDecline,
       ConfirmActivate, Activate, Grant, Steps
  <2>11. CASE WriteStatus(c) \/ FollowStatus(c) \/ Renew(c) \/ WritePlan(c) \/ MoveOrg(c)
              \/ WriteTrial(c) \/ TrialOrg(c) \/ ExpireTrial(c)
    BY <2>1, <2>2, <2>11 DEF WriteStatus, FollowStatus, Renew, WritePlan, MoveOrg, WriteTrial,
       TrialOrg, ExpireTrial, Steps
  <2>12. CASE SetAtEnd(c) \/ ClearAtEnd(c) \/ SweepEnd(c) \/ SweepOrg(c) \/ SweepOverdue(c)
    BY <2>1, <2>2, <2>12 DEF SetAtEnd, ClearAtEnd, SweepEnd, SweepOrg, SweepOverdue, Steps
  <2>13. CASE Checkout(c) \/ Crash(c)
    BY <2>1, <2>2, <2>13 DEF Checkout, Crash, Steps
  <2> QED BY <1>2, <2>4, <2>5, <2>6, <2>7, <2>8, <2>9, <2>10, <2>11, <2>12, <2>13
          DEF Acts, Proceed
<1> QED BY <1>1, <1>2, SomeoneActs

LEMMA QueueStep == TypeOK /\ ByReports /\ FreshPayments /\ QueueInv /\ [Next]_vars => QueueInv'
<1> SUFFICES ASSUME TypeOK, ByReports, FreshPayments, QueueInv, [Next]_vars PROVE QueueInv'
  OBVIOUS
<1>1. Summary /\ TypeOK'
  BY StepSummary, TypeStep
<1>2. ASSUME NEW s \in Subs
      PROVE  /\ payment[s] = "succeeded" => payment'[s] = "succeeded"
             /\ payment[s] # "none" => payment'[s] # "none"
  BY PaymentWrites DEF PaymentWrite, FreshPayments
<1>3. ASSUME NEW s \in Subs, captured'[s] PROVE payment'[s] # "none"
  BY <1>2, <1>3, CapturedThere DEF QueueInv
<1>4. ASSUME NEW s \in Subs, status'[s] = "pending_admin_confirmation"
      PROVE  payment'[s] = "succeeded"
  <2>1. CASE status[s] = status'[s]
    BY <1>2, <1>4, <2>1 DEF QueueInv
  <2>2. CASE status[s] # status'[s]
    <3>1. \E a \in Actors :
            /\ doc[a] = s
            /\ pc[a] = "queueing" \/ (pc[a] \in {"setting", "marked"} /\ to[a] = status'[s])
      BY <1>1, <1>4, <2>2 DEF Summary, Moved
    <3>2. "pending_admin_confirmation" \notin Targets
      BY DEF ByReports, Open
    <3> QED BY <1>2, <1>4, <3>1, <3>2 DEF QueueInv
  <2> QED BY <2>1, <2>2
<1>5. ASSUME NEW s \in Subs, status[s] \notin Unbought PROVE status'[s] \notin Unbought
  <2>1. Moved(s) /\ status[s] \in Statuses
    BY <1>1 DEF Summary, TypeOK
  <2>2. status'[s] \in L!Allowed[status[s]] => status'[s] \notin Unbought
    BY <1>5, <2>1, TableFacts DEF Unbought, Open
  <2> QED BY <1>5, <2>1, <2>2 DEF Moved, Unbought, Open
<1>6. ASSUME NEW a \in Actors
      PROVE  /\ pc'[a] \in {"verifying", "recording"} => payment'[doc'[a]] # "none"
             /\ pc'[a] = "queueing" => payment'[doc'[a]] = "succeeded"
             /\ pc'[a] = "setting" /\ was'[a] = "pending_admin_confirmation"
                  => payment'[doc'[a]] = "succeeded"
             /\ pc'[a] = "marked" /\ was'[a] = "pending_admin_confirmation" => refundDue'[doc'[a]]
  <2>1. Aimed(a)
    BY Aims
  <2>2. pc'[a] \notin {"idle", "checkout"} => doc'[a] \in Subs
    BY <1>1 DEF TypeOK
  <2>3. CASE pc'[a] = pc[a] /\ doc'[a] = doc[a] /\ was'[a] = was[a]
    BY <1>2, <2>2, <2>3, RefundsStay DEF QueueInv
  <2>4. CASE pc'[a] \in {"verifying", "recording"} /\ ~(pc'[a] = pc[a] /\ doc'[a] = doc[a] /\ was'[a] = was[a])
    BY <1>2, <2>1, <2>2, <2>4 DEF Aimed, QueueInv
  <2>5. CASE pc'[a] = "queueing" /\ pc[a] = "recording" /\ doc'[a] = doc[a]
    <3>1. payment[doc[a]] # "none"
      BY <2>5 DEF QueueInv
    <3>2. payment'[doc[a]] = "succeeded"
      BY <2>1, <2>5, <3>1 DEF Aimed
    <3> QED BY <2>5, <3>2
  <2>6. CASE pc'[a] = "setting" /\ was'[a] = status[doc'[a]] /\ payment' = payment
    BY <2>2, <2>6 DEF QueueInv
  <2>7. CASE /\ pc'[a] = "marked" /\ pc[a] = "setting" /\ doc'[a] = doc[a] /\ was'[a] = was[a]
             /\ payment[doc[a]] = "succeeded" => refundDue'[doc[a]]
    BY <2>7 DEF QueueInv
  <2>8. CASE pc'[a] \notin {"verifying", "recording", "queueing", "setting", "marked"}
    BY <2>8
  <2> QED BY <2>1, <2>3, <2>4, <2>5, <2>6, <2>7, <2>8 DEF Aimed
<1>7. ASSUME NEW a \in Actors
      PROVE  pc'[a] \in {"asked", "setting", "marked"} => to'[a] \in Targets
  BY <1>1 DEF Summary, Stepped, Watched, QueueInv
<1>8. ASSUME NEW a \in Actors, NEW s \in others'[a] PROVE status'[s] \notin Unbought
  <2>1. s \in Subs
    BY <1>1 DEF TypeOK
  <2>2. s \in others[a] \/ status[s] \in Live
    BY <1>1 DEF Summary
  <2>3. status[s] \notin Unbought
    BY <2>2 DEF QueueInv, Live, Unbought, Open
  <2> QED BY <1>5, <2>1, <2>3
<1> QED BY <1>3, <1>4, <1>6, <1>7, <1>8 DEF QueueInv

\* What is rejected out of the confirmation queue has been marked for a refund
\* by then: not another decision, a duplicate report nor a crash between the
\* calls of the rejection loses the mark.
THEOREM RefundedCorrect == ByReports /\ Spec => RejectedIsRefunded
<1> SUFFICES ASSUME ByReports PROVE Spec => RejectedIsRefunded
  OBVIOUS
<1>1. Init => FreshPayments /\ QueueInv
  BY DEF Init, FreshPayments, QueueInv
<1>2. TypeOK /\ FreshPayments /\ QueueInv /\ [Next]_vars => QueueInv'
  BY QueueStep
<1>3. TypeOK /\ QueueInv /\ [Next]_vars =>
        [\A s \in Subs : status[s] = "pending_admin_confirmation" /\ status'[s] = "cancelled"
                           => refundDue[s]]_vars
  <2> SUFFICES ASSUME TypeOK, QueueInv, [Next]_vars, NEW s \in Subs,
                      status[s] = "pending_admin_confirmation", status'[s] = "cancelled"
               PROVE  refundDue[s]
    OBVIOUS
  <2>1. Moved(s)
    BY StepSummary DEF Summary
  <2>2. \A a \in Actors : s \notin others[a]
    BY DEF QueueInv, Unbought, Open
  <2>3. \E a \in Actors : doc[a] = s /\ pc[a] = "marked" /\ was[a] = status[s]
    BY <2>1, <2>2 DEF Moved, Open
  <2> QED BY <2>3 DEF QueueInv
<1> QED BY <1>1, <1>2, <1>3, TypeCorrect, FreshStep, PTL DEF Spec, RejectedIsRefunded
=============================================================================
