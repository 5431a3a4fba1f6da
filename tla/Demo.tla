-------------------------------- MODULE Demo --------------------------------
(***************************************************************************)
(* The demo (free trial) of one organization: app/lifecycle/demo.py, the   *)
(* demo part of the sweep in app/lifecycle/maintenance.py, and what        *)
(* confirming a paid subscription does to it.                              *)
(*                                                                         *)
(* A handler loads the request, checks its status, and then writes the     *)
(* organization, the owner, the tokens and the request, one document at a  *)
(* time.  Handlers run in the event loop, in threads (sign-up, the sweep)  *)
(* and possibly in other processes.                                        *)
(*                                                                         *)
(* Left out: notices other than the sweep's, the audit, the lengths and    *)
(* sizes in the configuration, and what a subscription does to the         *)
(* organization after it was confirmed (see Subscriptions).                *)
(***************************************************************************)
EXTENDS Integers, FiniteSets

CONSTANTS Deciders,     \* handler executions
          MaxDeciders,  \* bound on those in flight
          SweepAlone,   \* the sweep overlaps no handler
          MaxLosses     \* bound on the handlers that die half way

ASSUME DemoAssumption == IsFiniteSet(Deciders) /\ MaxLosses \in Nat

VARIABLES
  request,   \* status of the demo request, "none" before sign-up
  org,       \* status of the organization
  owner,     \* status of the owner's account
  ends,      \* the end of the demo: "none", or how far away it is
  tokens,    \* none, the demo's: usable or expired, or the plan's: paid
  told,      \* the flags expiring_notified and expired_notified
  decider,   \* control point of each handler
  sweep,     \* what the sweep read of the organization, "none" outside it
  subscribed, \* a subscription was confirmed
  losses

demoVars == <<request, org, owner, ends, tokens, told, decider, sweep, subscribed, losses>>
records == <<request, org, owner, ends, tokens, told>>

Waiting == [kind |-> "none", at |-> "idle", days |-> FALSE, tokens |-> FALSE, seen |-> "none"]

DemoInit ==
  /\ request = "none" /\ org = "none" /\ owner = "none"
  /\ ends = "none" /\ tokens = "none" /\ told = {}
  /\ decider = [d \in Deciders |-> Waiting]
  /\ sweep = "none" /\ subscribed = FALSE /\ losses = 0

Deciding == {d \in Deciders : decider[d].at # "idle"}

\* Slip: a demo that became a subscription is cancelled.
AcceptsConverted(kind) ==
  CASE kind = "approve" -> {"pending"}
    [] kind = "reject"  -> {"pending"}
    [] kind = "extend"  -> {"approved", "extended"}
    [] kind = "cancel"  -> {"pending", "approved", "extended", "converted"}
    [] kind = "convert" -> {"pending", "approved", "extended"}

\* _require: the statuses of the request each action accepts.
Accepts(kind) ==
  CASE kind = "approve" -> {"pending"}
    [] kind = "reject"  -> {"pending"}
    [] kind = "extend"  -> {"approved", "extended"}
    [] kind = "cancel"  -> {"pending", "approved", "extended"}
    [] kind = "convert" -> {"pending", "approved", "extended"}

\* The documents each action writes, in this order; a confirmed subscription
\* looks for a request to convert last.
Next1(kind, at) ==
  CASE at = "org"    -> IF kind = "extend" THEN "tokens" ELSE "owner"
    [] at = "owner"  -> IF kind \in {"approve", "convert"} THEN "tokens" ELSE "request"
    [] at = "tokens" -> IF kind = "convert" THEN "load" ELSE "request"

-----------------------------------------------------------------------------
(* Sign-up and decisions *)

MayDecide == Cardinality(Deciding) < MaxDeciders /\ (SweepAlone => sweep = "none")

\* create_demo_request; with auto_approve the trial is approved at once.
SignUp(d) ==
  /\ request = "none" /\ MayDecide
  /\ request' = "pending" /\ org' = "pending" /\ owner' = "pending_approval"
  /\ \/ UNCHANGED decider
     \/ decider' = [decider EXCEPT ![d] = [Waiting EXCEPT !.kind = "approve", !.at = "load"]]
  /\ UNCHANGED <<ends, tokens, told, sweep, subscribed, losses>>

Decide(d, kind, days, more) ==
  /\ decider[d].at = "idle" /\ MayDecide /\ request # "none"
  /\ (kind = "extend") = (days \/ more)
  /\ decider' = [decider EXCEPT ![d] =
       [kind |-> kind, at |-> "load", days |-> days, tokens |-> more, seen |-> "none"]]
  /\ UNCHANGED <<records, sweep, subscribed, losses>>

\* The request is loaded and its status required; a refusal ends the action,
\* and so does a conversion that finds no open request (mark_converted).
Load(d) ==
  /\ decider[d].at = "load"
  /\ LET r == decider[d] IN
     decider' = [decider EXCEPT ![d] =
       IF request \in Accepts(r.kind)
       THEN [r EXCEPT !.at = IF r.kind = "convert" THEN "request" ELSE "org", !.seen = request]
       ELSE Waiting]
  /\ UNCHANGED <<records, sweep, subscribed, losses>>

Proceed(d) == decider' = [decider EXCEPT ![d].at = Next1(decider[d].kind, decider[d].at)]

\* max(current end, now) and the days that are added.
Prolonged(days) == IF days THEN "far" ELSE IF ends = "none" THEN "over" ELSE ends

\* The flags of a demo with a new end.
NothingTold == {}

WriteOrg(d) ==
  /\ decider[d].at = "org"
  /\ LET kind == decider[d].kind IN
     \/ /\ kind = "approve"
        /\ org' = "demo" /\ ends' = "far" /\ told' = NothingTold
     \/ /\ kind = "reject"
        /\ org' = "rejected" /\ UNCHANGED <<ends, told>>
     \/ /\ kind = "cancel"
        /\ org' = "cancelled" /\ UNCHANGED <<ends, told>>
     \/ /\ kind = "extend"
        /\ org' = IF org \in {"demo", "cancelled"} THEN "demo" ELSE org
        /\ ends' = Prolonged(decider[d].days) /\ told' = NothingTold
     \/ /\ kind = "convert"
        /\ org' = "active" /\ UNCHANGED <<ends, told>>
  /\ Proceed(d)
  /\ UNCHANGED <<request, owner, tokens, sweep, subscribed, losses>>

\* A cancellation closes the account of an owner who was never approved, and
\* a subscription opens it, but never one that was closed.
WriteOwner(d) ==
  /\ decider[d].at = "owner"
  /\ LET kind == decider[d].kind IN
     owner' = CASE kind = "approve" -> "active"
                [] kind = "reject"  -> "rejected"
                [] kind = "cancel"  -> IF decider[d].seen = "pending" /\ owner = "pending_approval"
                                       THEN "rejected" ELSE owner
                [] kind = "convert" -> IF owner = "pending_approval" THEN "active" ELSE owner
  /\ Proceed(d)
  /\ UNCHANGED <<request, org, ends, tokens, told, sweep, subscribed, losses>>

\* The tokens get the new end; those of an ended demo expire where it ended.
\* The plan's tokens replace the demo's; a plan may have none.
WriteTokens(d) ==
  /\ decider[d].at = "tokens"
  /\ LET kind == decider[d].kind IN
     tokens' \in CASE kind = "approve" -> {"usable"}
                   [] kind = "extend"  -> {IF ends = "over" THEN "expired" ELSE "usable"}
                   [] kind = "convert" -> {"paid", tokens}
  /\ Proceed(d)
  /\ UNCHANGED <<request, org, owner, ends, told, sweep, subscribed, losses>>

\* _transition writes by id, whatever the status is by now.
WriteRequest(d) ==
  /\ decider[d].at = "request"
  /\ request' = CASE decider[d].kind = "approve" -> "approved"
                  [] decider[d].kind = "reject"  -> "rejected"
                  [] decider[d].kind = "extend"  -> "extended"
                  [] decider[d].kind = "cancel"  -> "cancelled"
                  [] decider[d].kind = "convert" -> "converted"
  /\ owner' = IF decider[d].kind = "convert" /\ owner = "pending_approval" THEN "active" ELSE owner
  /\ decider' = [decider EXCEPT ![d] = Waiting]
  /\ UNCHANGED <<org, ends, tokens, told, sweep, subscribed, losses>>

\* confirm_subscription looks at the subscription alone.  The organization
\* becomes active, then its members, the plan's tokens replace the demo's,
\* and in the end the request is converted, if one is open.
ConfirmPaid(d) ==
  /\ decider[d].at = "idle" /\ MayDecide
  /\ ~subscribed /\ request # "none"
  /\ subscribed' = TRUE
  /\ decider' = [decider EXCEPT ![d] = [Waiting EXCEPT !.kind = "convert", !.at = "org"]]
  /\ UNCHANGED <<records, sweep, losses>>

Loses(d) ==
  /\ decider[d].at # "idle" /\ losses < MaxLosses
  /\ losses' = losses + 1
  /\ decider' = [decider EXCEPT ![d] = Waiting]
  /\ UNCHANGED <<records, sweep, subscribed>>

-----------------------------------------------------------------------------
(* Time and the sweep *)

TimePasses ==
  /\ \/ ends = "far" /\ ends' = "soon" /\ UNCHANGED tokens
     \/ /\ ends = "soon" /\ ends' = "over"
        /\ tokens' = IF tokens = "usable" THEN "expired" ELSE tokens
  /\ UNCHANGED <<request, org, owner, told, decider, sweep, subscribed, losses>>

\* The notice the sweep owes an organization in a demo.
Owed ==
  CASE org = "demo" /\ ends = "over" /\ "expired" \notin told -> "expired"
    [] org = "demo" /\ ends = "soon" /\ "expiring" \notin told -> "expiring"
    [] OTHER -> "none"

SweepReads ==
  /\ sweep = "none" /\ Owed # "none" /\ (SweepAlone => Deciding = {})
  /\ sweep' = Owed
  /\ UNCHANGED <<records, decider, subscribed, losses>>

\* It marks the notice as given, by the organization's id, and gives it.
SweepTells ==
  /\ sweep # "none"
  /\ told' = told \cup {sweep}
  /\ sweep' = "none"
  /\ UNCHANGED <<request, org, owner, ends, tokens, decider, subscribed, losses>>

DemoNext ==
  \/ \E d \in Deciders :
       \/ SignUp(d) \/ Load(d) \/ WriteOrg(d) \/ WriteOwner(d) \/ WriteTokens(d)
       \/ WriteRequest(d) \/ ConfirmPaid(d) \/ Loses(d)
       \/ \E kind \in {"approve", "reject", "extend", "cancel"}, days, more \in BOOLEAN :
            Decide(d, kind, days, more)
  \/ TimePasses \/ SweepReads \/ SweepTells

DemoSpec == DemoInit /\ [][DemoNext]_demoVars

-----------------------------------------------------------------------------
Access == org \in {"demo", "active"} /\ owner = "active"

\* While decisions and the sweep do not overlap: wherever one of them dies,
\* nobody who has not paid has access that was refused or ended.  Unless one
\* died, nobody is left without the access that was decided or paid for, and
\* a paid organization is never ended by a decision about its demo; an owner
\* who was turned down before paying stays so, and so does the request.  Who
\* was told that the demo has ended was told so of the end it now has
\* (app/lifecycle/demo.py; "told when it has ended, once each",
\* app/lifecycle/maintenance.py).
AccessIsDecided ==
  /\ Deciding = {} =>
       /\ request \in {"none", "rejected", "cancelled"} /\ ~subscribed => ~Access
       /\ losses = 0 =>
            /\ request \in {"approved", "extended", "converted"} => Access
            /\ subscribed => org = "active" /\ request \in {"converted", "rejected", "cancelled"}
  /\ "expired" \in told => ends = "over"
=============================================================================
