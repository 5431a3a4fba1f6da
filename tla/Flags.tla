------------------------------- MODULE Flags -------------------------------
(***************************************************************************)
(* Fraud flags on one referral of a partner, and the commissions they      *)
(* hold: app/partners/fraud.py, review_referral of referrals.py, and what  *)
(* commissions.py does about a held commission.                            *)
(*                                                                         *)
(* Flags are raised by whatever notices a signal and settled by Super      *)
(* Admins, each in several database calls; any two may overlap, and one    *)
(* who raises or settles may die between two calls.                        *)
(*                                                                         *)
(* Left out: amounts, the partner's wallet, payouts (see Payouts; a        *)
(* commission that was paid out is clawed back, not reversed), who is      *)
(* told, signals that concern no referral, and the settings, which stand   *)
(* as they come: marked referrals are held, qualified commissions approved *)
(* by the sweep.                                                           *)
(***************************************************************************)
EXTENDS Integers, Sequences

CONSTANTS Nil,
          Signals,         \* types of flags; "chargeback" also marks the referral
          Payments,        \* payments of the referred organization
          Hands,           \* requests, hooks and sweeps in flight
          Admins,          \* those among them a Super Admin makes
          MaxFlags, MaxDeaths  \* bounds

VARIABLES
  flags,       \* the flag documents, in the order they were inserted
  referral,    \* its status and whether it is marked suspicious
  commission,  \* the commission of each payment, or Nil
  actor,       \* control point and locals of each one at work
  holds,       \* the flags whose hold was carried out
  beyond,      \* the payments whose commission the last hold came too late for, and those
               \* whose commission a Super Admin approved since
  cut,         \* a review was cut short by a death
  gone

flagVars == <<flags, referral, commission, actor, holds, beyond, cut, gone>>

Free == [at |-> "idle", flag |-> Nil, signal |-> Nil, manual |-> FALSE, of |-> Nil]

FlagsInit ==
  /\ flags = <<>> /\ holds = {} /\ beyond = {} /\ cut = FALSE /\ gone = 0
  /\ referral = [active |-> TRUE, suspicious |-> FALSE]
  /\ commission = [p \in Payments |-> Nil]
  /\ actor = [h \in Hands |-> Free]

OpenFlags == {f \in DOMAIN flags : flags[f].status = "open"}

At(h, point) == actor[h].at = point
Goes(h, point) == actor' = [actor EXCEPT ![h].at = point]
Begins(h, point) == actor' = [actor EXCEPT ![h] = [Free EXCEPT !.at = point]]
Leaves(h) == actor' = [actor EXCEPT ![h] = Free]

-----------------------------------------------------------------------------
(* raise_flag *)

\* An open flag of the signal is refreshed; otherwise one is inserted, next.
FindFlag(h, s) ==
  /\ At(h, "idle") /\ Len(flags) < MaxFlags
  /\ IF \E f \in OpenFlags : flags[f].signal = s
     THEN IF s = "chargeback"
          THEN Begins(h, "marking")
          ELSE UNCHANGED actor
     ELSE actor' = [actor EXCEPT ![h] = [Free EXCEPT !.at = "inserting", !.signal = s]]
  /\ UNCHANGED <<flags, referral, commission, holds, beyond, cut, gone>>

InsertFlag(h) ==
  /\ At(h, "inserting")
  /\ flags' = Append(flags, [signal |-> actor[h].signal, status |-> "open"])
  /\ actor' = [actor EXCEPT ![h].at = "holding", ![h].flag = Len(flags) + 1]
  /\ UNCHANGED <<referral, commission, holds, beyond, cut, gone>>

\* hold_referral: first the referral ...
HoldReferral(h) ==
  /\ At(h, "holding")
  /\ referral' = [referral EXCEPT !.suspicious = TRUE]
  /\ Goes(h, "stopping")
  /\ UNCHANGED <<flags, commission, holds, beyond, cut, gone>>

\* A commission that hold_referral stops.
Stopped(c) ==
  IF c # Nil /\ c.status \in {"pending", "qualified"} THEN [c EXCEPT !.manual = TRUE] ELSE c

\* What the hold can no longer stop: a commission approved before, one that the sweep is
\* approving, and one about to be inserted for a referral read before it was marked.
Late(p) ==
  \/ commission[p] # Nil /\ commission[p].status \in {"approved", "payable"}
  \/ \E h \in Hands :
       actor[h].of = p /\ (At(h, "approving") \/ (At(h, "paying") /\ ~actor[h].manual))

\* ... then its commissions.
HoldCommissions(h) ==
  /\ At(h, "stopping")
  /\ commission' = [p \in Payments |-> Stopped(commission[p])]
  /\ holds' = holds \union {actor[h].flag} /\ beyond' = {p \in Payments : Late(p)}
  /\ IF actor[h].signal = "chargeback" THEN Begins(h, "marking") ELSE Leaves(h)
  /\ UNCHANGED <<flags, referral, cut, gone>>

\* reverse_for_refund marks the referral of a chargeback once more.
MarkReferral(h) ==
  /\ At(h, "marking")
  /\ referral' = [referral EXCEPT !.suspicious = TRUE]
  /\ Leaves(h)
  /\ UNCHANGED <<flags, commission, holds, beyond, cut, gone>>

-----------------------------------------------------------------------------
(* resolve_flag and review_referral *)

\* resolve_flag: a flag that was found open is settled ...
ReadFlag(h, f, decision) ==
  /\ At(h, "idle") /\ h \in Admins /\ f \in OpenFlags
  /\ actor' = [actor EXCEPT ![h] = [Free EXCEPT !.at = decision, !.flag = f]]
  /\ UNCHANGED <<flags, referral, commission, holds, beyond, cut, gone>>

\* ... if it still is; either way the decision is carried out.
SettleFlag(h) ==
  /\ actor[h].at \in {"dismiss", "confirm", "invalidate_referral"}
  /\ LET decision == actor[h].at
         f == actor[h].flag
         status == IF decision = "dismiss" THEN "dismissed" ELSE "confirmed"
     IN /\ flags' = IF f \in OpenFlags THEN [flags EXCEPT ![f].status = status] ELSE flags
        /\ CASE decision = "dismiss" -> Begins(h, "looking")
             [] decision = "confirm" -> Leaves(h)
             [] OTHER                -> Begins(h, "judging")
  /\ UNCHANGED <<referral, commission, holds, beyond, cut, gone>>

\* A dismissal clears the referral when no other flag is open.
LookForOthers(h) ==
  /\ At(h, "looking")
  /\ IF OpenFlags = {} THEN Goes(h, "clearing") ELSE Leaves(h)
  /\ UNCHANGED <<flags, referral, commission, holds, beyond, cut, gone>>

JudgeReferral(h) ==
  /\ At(h, "judging")
  /\ IF referral.active THEN Goes(h, "reversing") ELSE Leaves(h)
  /\ UNCHANGED <<flags, referral, commission, holds, beyond, cut, gone>>

\* review_referral, asked for by itself.
Review(h, decision) ==
  /\ At(h, "idle") /\ h \in Admins
  /\ Begins(h, decision)
  /\ UNCHANGED <<flags, referral, commission, holds, beyond, cut, gone>>

\* clear: the referral, then the commissions.
ClearReferral(h) ==
  /\ At(h, "clearing")
  /\ referral' = [referral EXCEPT !.suspicious = FALSE]
  /\ Goes(h, "freeing")
  /\ UNCHANGED <<flags, commission, holds, beyond, cut, gone>>

FreeCommissions(h) ==
  /\ At(h, "freeing")
  /\ commission' = [p \in Payments |->
       IF commission[p] = Nil THEN Nil ELSE [commission[p] EXCEPT !.manual = FALSE]]
  /\ Goes(h, "dismissing")
  /\ UNCHANGED <<flags, referral, holds, beyond, cut, gone>>

\* invalidate: the commissions are reversed (one by one: here at once), then the referral is.
ReverseCommissions(h) ==
  /\ At(h, "reversing")
  /\ commission' = [p \in Payments |->
       IF commission[p] = Nil THEN Nil ELSE [commission[p] EXCEPT !.status = "reversed"]]
  /\ Goes(h, "invalidating")
  /\ UNCHANGED <<flags, referral, holds, beyond, cut, gone>>

Invalidate(h) ==
  /\ At(h, "invalidating")
  /\ referral' = [active |-> FALSE, suspicious |-> TRUE]
  /\ Goes(h, "confirming")
  /\ UNCHANGED <<flags, commission, holds, beyond, cut, gone>>

\* Slip: a review leaves the other flags open.
ClosedNone(status) == flags

\* The open flags, settled by a review.
Closed(status) ==
  [f \in DOMAIN flags |-> IF f \in OpenFlags THEN [flags[f] EXCEPT !.status = status] ELSE flags[f]]

CloseFlags(h) ==
  /\ actor[h].at \in {"dismissing", "confirming"}
  /\ flags' = Closed(IF At(h, "dismissing") THEN "dismissed" ELSE "confirmed")
  /\ Leaves(h)
  /\ UNCHANGED <<referral, commission, holds, beyond, cut, gone>>

-----------------------------------------------------------------------------
(* Commissions *)

\* create_commission_for_payment reads the referral ...
BeginPayment(h, p) ==
  /\ At(h, "idle")
  /\ referral.active /\ commission[p] = Nil
  /\ actor' = [actor EXCEPT ![h] =
       [Free EXCEPT !.at = "paying", !.of = p, !.manual = referral.suspicious]]
  /\ UNCHANGED <<flags, referral, commission, holds, beyond, cut, gone>>

\* ... and inserts a commission, held when the referral was suspicious.
InsertCommission(h) ==
  /\ At(h, "paying")
  /\ LET p == actor[h].of IN
     commission' = [commission EXCEPT ![p] =
       IF @ = Nil THEN [status |-> "pending", manual |-> actor[h].manual] ELSE @]
  /\ Leaves(h)
  /\ UNCHANGED <<flags, referral, holds, beyond, cut, gone>>

Becomes(p, before, after) ==
  /\ commission[p] # Nil /\ commission[p].status \in before
  /\ commission' = [commission EXCEPT ![p].status = after]
  /\ UNCHANGED <<flags, referral, holds, beyond, cut, gone>>

\* release_matured: the qualification period is over.
Qualify(p) == Becomes(p, {"pending"}, "qualified") /\ UNCHANGED actor

\* release_matured: a qualified commission that is not held ...
FindQualified(h, p) ==
  /\ At(h, "idle")
  /\ commission[p] # Nil /\ commission[p].status = "qualified" /\ ~commission[p].manual
  /\ actor' = [actor EXCEPT ![h] = [Free EXCEPT !.at = "approving", !.of = p]]
  /\ UNCHANGED <<flags, referral, commission, holds, beyond, cut, gone>>

\* ... is approved, unless its status changed.
AutoApprove(h) ==
  /\ At(h, "approving")
  /\ Leaves(h)
  /\ \/ Becomes(actor[h].of, {"qualified"}, "approved")
     \/ /\ commission[actor[h].of].status # "qualified"
        /\ UNCHANGED <<flags, referral, commission, holds, beyond, cut, gone>>

\* approve_commission, by a Super Admin: held or not.
Approve(p) ==
  /\ commission[p] # Nil /\ commission[p].status \in {"pending", "qualified"}
  /\ commission' = [commission EXCEPT ![p] = [status |-> "approved", manual |-> FALSE]]
  /\ beyond' = beyond \union {p}
  /\ UNCHANGED <<flags, referral, actor, holds, cut, gone>>

\* _make_payable, when the schedule is due or a Super Admin asks for it.
MakePayable(p) == Becomes(p, {"approved"}, "payable") /\ UNCHANGED actor

-----------------------------------------------------------------------------
Reviewing == {"clearing", "freeing", "dismissing", "reversing", "invalidating", "confirming"}

HandDies(h) ==
  /\ ~At(h, "idle") /\ gone < MaxDeaths
  /\ gone' = gone + 1
  /\ cut' = (cut \/ actor[h].at \in Reviewing)
  /\ Leaves(h)
  /\ UNCHANGED <<flags, referral, commission, holds, beyond>>

FlagsNext ==
  \/ \E h \in Hands :
       \/ \E s \in Signals : FindFlag(h, s)
       \/ InsertFlag(h) \/ HoldReferral(h) \/ HoldCommissions(h) \/ MarkReferral(h)
       \/ \E f \in OpenFlags, d \in {"dismiss", "confirm", "invalidate_referral"} : ReadFlag(h, f, d)
       \/ SettleFlag(h) \/ LookForOthers(h) \/ JudgeReferral(h)
       \/ \E d \in {"clearing", "reversing"} : Review(h, d)
       \/ ClearReferral(h) \/ FreeCommissions(h) \/ ReverseCommissions(h)
       \/ Invalidate(h) \/ CloseFlags(h)
       \/ \E p \in Payments : BeginPayment(h, p) \/ FindQualified(h, p)
       \/ InsertCommission(h) \/ AutoApprove(h) \/ HandDies(h)
  \/ \E p \in Payments : Qualify(p) \/ Approve(p) \/ MakePayable(p)

FlagsSpec == FlagsInit /\ [][FlagsNext]_flagVars

-----------------------------------------------------------------------------
(* Properties *)

\* fraud.py: "they still qualify, but nothing is approved or paid until a Super Admin resolves
\* the flag."  While a flag whose hold was carried out is open, the referral stays marked and
\* none of its commissions is on its way to be paid, however raising, reviewing, paying and
\* sweeping overlap: each is still held, or reversed.  The sentence has exceptions in the
\* code, which are those of beyond: a Super Admin may approve a commission by hand, and the
\* hold does not reach one that was approved before, that the sweep had found, or whose
\* payment had read the referral.  A review under way, or cut short by a death, has taken the
\* hold off on purpose.
HeldUntilReviewed ==
  (OpenFlags \intersect holds # {} /\ ~cut /\ \A h \in Hands : actor[h].at \notin Reviewing)
  => /\ referral.suspicious
     /\ \A p \in Payments \ beyond :
          \/ commission[p] = Nil \/ commission[p].status = "reversed"
          \/ commission[p].manual /\ commission[p].status \in {"pending", "qualified"}
=============================================================================
