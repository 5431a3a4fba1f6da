----------------------------- MODULE Admission -----------------------------
(***************************************************************************)
(* What it costs to start a search or an export: the monthly quota of      *)
(* app/billing/usage.py and entitlements.py, the tokens of a URL search    *)
(* and of an export, and what is given back when a start fails.            *)
(*                                                                         *)
(* The quota is checked, then consumed: two database calls between which   *)
(* other requests get in, and each looks up the billing period by itself.  *)
(*                                                                         *)
(* Left out: features, plans and whether the organization may operate (a   *)
(* check may refuse anyhow), what sets the limit, which stays as it is,    *)
(* and the tokens' own periods (see Tokens).                               *)
(***************************************************************************)
EXTENDS Integers, FiniteSets

CONSTANTS Callers,    \* requests
          Limit,      \* what the plan allows of each metric in a period
          Wallet,     \* tokens of the organization
          MaxCycles, MaxFaults  \* bounds

ASSUME AdmissionAssumption ==
  IsFiniteSet(Callers) /\ Limit \in Nat \ {0} /\ Wallet \in Nat /\ MaxCycles \in Nat \ {0}

VARIABLES
  kind,    \* what each request starts
  at,      \* its control point, at last its outcome
  quota,   \* what it used of the quota, in all
  charged,  \* the tokens it spent
  used,    \* the counters of each period, per metric
  left,    \* the organization's tokens
  cycle,   \* the billing period
  peak,    \* the most requests that were at once between check and consumption
  stuck,    \* the requests whose search could not be given back
  faults

admissionVars == <<kind, at, quota, charged, used, left, cycle, peak, stuck, faults>>

Kinds == {"url", "keyword", "export"}
Metrics == {"searches", "exports"}
Cycles == 1..MaxCycles
Outcomes == {"started", "refused", "failed", "lost"}

MetricOf(k) == IF k = "export" THEN "exports" ELSE "searches"

AdmissionInit ==
  /\ kind = [r \in Callers |-> "url"] /\ at = [r \in Callers |-> "new"]
  /\ quota = [r \in Callers |-> 0] /\ charged = [r \in Callers |-> 0]
  /\ used = [m \in Metrics |-> [c \in Cycles |-> 0]]
  /\ left = Wallet /\ cycle = 1 /\ stuck = {} /\ faults = 0
  /\ peak = [m \in Metrics |-> 1]

Go(r, point) == at' = [at EXCEPT ![r] = point]

\* The requests that were checked and have yet to consume.
Checked(m) == {r \in Callers : at[r] = "checked" /\ MetricOf(kind[r]) = m}

-----------------------------------------------------------------------------
\* A URL search pays its tokens first; a keyword search and an export are checked first.
Begin(r, k) ==
  /\ at[r] = "new"
  /\ kind' = [kind EXCEPT ![r] = k]
  /\ Go(r, IF k = "url" THEN "paying" ELSE "checking")
  /\ UNCHANGED <<quota, charged, used, left, cycle, peak, stuck, faults>>

\* Everything that refuses a request before it costs anything.
Refuse(r) ==
  /\ at[r] \in {"paying", "checking"} /\ charged[r] = 0 /\ quota[r] = 0
  /\ Go(r, "refused")
  /\ UNCHANGED <<kind, quota, charged, used, left, cycle, peak, stuck, faults>>

\* _charge_tokens: of a URL search before the quota, of an export after it.
ChargeTokens(r) ==
  /\ at[r] = "paying"
  /\ IF left > 0
     THEN /\ left' = left - 1 /\ charged' = [charged EXCEPT ![r] = 1]
          /\ Go(r, IF kind[r] = "url" THEN "checking" ELSE "started")
     ELSE Go(r, "refused") /\ UNCHANGED <<left, charged>>
  /\ UNCHANGED <<kind, quota, used, cycle, peak, stuck, faults>>

\* Slip: the limit itself is taken for room.
AllowsOneMore(m) == used[m][cycle] <= Limit

\* check_limit, of one more.
Allows(m) == used[m][cycle] + 1 <= Limit

\* enforce_quota_and_consume checks ...
CheckQuota(r) ==
  LET m == MetricOf(kind[r]) IN
  /\ at[r] = "checking" /\ Allows(m)
  /\ Go(r, "checked")
  /\ peak' = [peak EXCEPT ![m] =
       IF Cardinality(Checked(m)) < @ THEN @ ELSE Cardinality(Checked(m)) + 1]
  /\ UNCHANGED <<kind, quota, charged, used, left, cycle, stuck, faults>>

\* ... or refuses, be it for the quota, a feature or the organization's status: a URL search
\* has paid, and is given its tokens back next.
QuotaRefuses(r) ==
  /\ at[r] = "checking"
  /\ Go(r, IF kind[r] = "url" THEN "refunding" ELSE "refused")
  /\ UNCHANGED <<kind, quota, charged, used, left, cycle, peak, stuck, faults>>

\* _refund_tokens.
RefundTokens(r) ==
  /\ at[r] = "refunding"
  /\ left' = left + 1 /\ charged' = [charged EXCEPT ![r] = 0]
  /\ Go(r, "refused")
  /\ UNCHANGED <<kind, quota, used, cycle, peak, stuck, faults>>

\* ... and consumes, of the period it finds then (record_usage_atomic).
Consume(r) ==
  LET m == MetricOf(kind[r]) IN
  /\ at[r] = "checked"
  /\ used' = [used EXCEPT ![m][cycle] = @ + 1]
  /\ quota' = [quota EXCEPT ![r] = 1]
  /\ Go(r, IF kind[r] = "export" THEN "paying" ELSE "starting")
  /\ UNCHANGED <<kind, charged, left, cycle, peak, stuck, faults>>

\* The run is stored and its thread launched.
Start(r) ==
  /\ at[r] = "starting"
  /\ Go(r, "started")
  /\ UNCHANGED <<kind, quota, charged, used, left, cycle, peak, stuck, faults>>

\* It cannot be: a keyword search goes on to undo its start.
StartFails(r) ==
  /\ at[r] = "starting" /\ faults < MaxFaults
  /\ faults' = faults + 1
  /\ Go(r, IF kind[r] = "keyword" THEN "undoing" ELSE "failed")
  /\ UNCHANGED <<kind, quota, charged, used, left, cycle, peak, stuck>>

\* _undo_start: the search is given back, to the period it finds then.
UndoStart(r) ==
  LET m == MetricOf(kind[r]) IN
  /\ at[r] = "undoing"
  /\ used' = [used EXCEPT ![m][cycle] = @ - 1]
  /\ quota' = [quota EXCEPT ![r] = 0]
  /\ Go(r, "refused")
  /\ UNCHANGED <<kind, charged, left, cycle, peak, stuck, faults>>

\* Unless that fails too: the failure is only logged, and the answer is the same.
UndoFails(r) ==
  /\ at[r] = "undoing"
  /\ stuck' = stuck \union {r}
  /\ Go(r, "refused")
  /\ UNCHANGED <<kind, quota, charged, used, left, cycle, peak, faults>>

\* The process stops, and with it the request; or a call fails that nobody handles.
Lose(r) ==
  /\ at[r] \notin Outcomes \union {"new"} /\ faults < MaxFaults
  /\ faults' = faults + 1
  /\ Go(r, "lost")
  /\ UNCHANGED <<kind, quota, charged, used, left, cycle, peak, stuck>>

NextCycle ==
  /\ cycle < MaxCycles /\ cycle' = cycle + 1
  /\ UNCHANGED <<kind, at, quota, charged, used, left, peak, stuck, faults>>

AdmissionNext ==
  \/ \E r \in Callers :
       \/ \E k \in Kinds : Begin(r, k)
       \/ Refuse(r) \/ ChargeTokens(r) \/ CheckQuota(r) \/ QuotaRefuses(r) \/ RefundTokens(r)
       \/ Consume(r) \/ Start(r) \/ StartFails(r) \/ UndoStart(r) \/ UndoFails(r)
       \/ Lose(r)
  \/ NextCycle

AdmissionSpec == AdmissionInit /\ [][AdmissionNext]_admissionVars

-----------------------------------------------------------------------------
(* Properties *)

\* entitlements.py checks, then consumes: no counter passes the limit by more than the
\* requests that were checked at the same time, whatever starts are undone and whichever
\* periods the counters belong to.
QuotaNearlyBounded ==
  \A m \in Metrics : \A c \in Cycles : used[m][c] <= Limit + peak[m] - 1

\* search.py: "a TOKENS_EXHAUSTED refusal must not use up a monthly search.  If the search
\* quota then refuses, the tokens are refunded"; service.py: "Nothing was charged".  A search
\* that was refused has used no tokens, and no quota either unless it is a keyword search
\* whose start failed and could not be undone, which is told the same.  (An export that is
\* refused for its tokens has used a monthly export.)
RefusedIsFree ==
  \A r \in Callers :
    at[r] = "refused" /\ kind[r] # "export" =>
      charged[r] = 0 /\ (quota[r] = 0 \/ (r \in stuck /\ kind[r] = "keyword"))
=============================================================================
