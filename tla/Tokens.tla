------------------------------- MODULE Tokens -------------------------------
(***************************************************************************)
(* The token balance of one organization (app/billing/tokens.py): one      *)
(* document, granted by plans, demos and the Super Admin, spent by         *)
(* searches.  Spending reads the document first, to see whether the        *)
(* organization is metered and whether its tokens have expired, and then   *)
(* takes the tokens with one conditional update; an adjustment reads and   *)
(* writes in the same way.  Anything may happen between the two calls.     *)
(*                                                                         *)
(* Left out: the ledger of entries (append-only and best effort), and the  *)
(* warnings at 80 and 100 per cent.                                        *)
(***************************************************************************)
EXTENDS Integers

CONSTANTS Spenders,    \* requests and threads that spend
          Admins,      \* Super Admin requests that adjust
          Grants,      \* sizes of grants
          Deltas,      \* sizes of adjustments
          MaxTokens,   \* bound: no grant once so many were allocated
          None

ASSUME GrantsAssumption == Grants \subseteq Nat
ASSUME DeltasAssumption == Deltas \subseteq Int
ASSUME NoneAssumption == None \notin Nat

VARIABLES balance,  \* the document of token_balances
          asked,    \* the amount a spender has seen to be spendable, or None
          adjust    \* the adjustment an administrator has begun, or None

tokenVars == <<balance, asked, adjust>>

Expiries == {"never", "later", "past"}
Balances == [metered : BOOLEAN, allocated : Int, used : Int, remaining : Int, expires : Expiries]

TokensTypeOK ==
  /\ balance \in Balances
  /\ asked \in [Spenders -> Nat \cup {None}]
  /\ adjust \in [Admins -> [delta : Deltas, lapsed : BOOLEAN] \cup {None}]

Unmetered == [metered |-> FALSE, allocated |-> 0, used |-> 0, remaining |-> 0, expires |-> "never"]

\* The document of an organization whose tokens are counted.
Counted(allocated, used, remaining, expires) ==
  [metered |-> TRUE, allocated |-> allocated, used |-> used, remaining |-> remaining, expires |-> expires]

Granted(n, expiry) == Counted(n, 0, n, expiry)

TokensInit ==
  /\ balance \in {Unmetered} \cup {Granted(n, e) : n \in Grants, e \in {"never", "later"}}
  /\ asked = [s \in Spenders |-> None]
  /\ adjust = [a \in Admins |-> None]

-----------------------------------------------------------------------------
(* Grants and adjustments *)

\* A new plan period or a demo replaces the balance.
Reset(n, expiry) ==
  /\ balance' = Granted(n, expiry)
  /\ UNCHANGED <<asked, adjust>>

\* A grant on top of what is there; without a date the expiry stays.
TopUp(n, expiry) ==
  /\ balance.allocated + n <= MaxTokens
  /\ balance' = Counted(balance.allocated + n, balance.used, balance.remaining + n,
                        IF expiry = "never" THEN balance.expires ELSE expiry)
  /\ UNCHANGED <<asked, adjust>>

Expire ==
  /\ balance.metered /\ balance.expires = "later"
  /\ balance' = Counted(balance.allocated, balance.used, balance.remaining, "past")
  /\ UNCHANGED <<asked, adjust>>

BeginAdjust(a, delta) ==
  /\ adjust[a] = None /\ delta <= MaxTokens - balance.allocated
  /\ adjust' = [adjust EXCEPT ![a] = [delta |-> delta, lapsed |-> balance.expires = "past"]]
  /\ UNCHANGED <<balance, asked>>

\* The balance takes the adjustment: none goes below zero.
Adjusts(delta) == balance.metered /\ (delta < 0 => balance.remaining >= -delta)

\* A top-up of tokens read as expired makes them usable again.
FinishAdjust(a) ==
  /\ adjust[a] # None
  /\ LET delta == adjust[a].delta IN
     balance' = IF Adjusts(delta)
                THEN Counted(balance.allocated + delta, balance.used, balance.remaining + delta,
                             IF delta > 0 /\ adjust[a].lapsed THEN "never" ELSE balance.expires)
                ELSE balance
  /\ adjust' = [adjust EXCEPT ![a] = None]
  /\ UNCHANGED asked

-----------------------------------------------------------------------------
(* Spending *)

Spendable == balance.metered /\ balance.expires # "past"

\* consume reads the balance: unmetered and expired ones go no further.
Ask(s, n) ==
  /\ asked[s] = None /\ Spendable
  /\ asked' = [asked EXCEPT ![s] = n]
  /\ UNCHANGED <<balance, adjust>>

Covers(n) == balance.metered /\ balance.remaining >= n

Take(s) ==
  /\ asked[s] # None /\ Covers(asked[s])
  /\ balance' = Counted(balance.allocated, balance.used + asked[s], balance.remaining - asked[s],
                        balance.expires)
  /\ asked' = [asked EXCEPT ![s] = None]
  /\ UNCHANGED adjust

Refuse(s) ==
  /\ asked[s] # None /\ ~Covers(asked[s])
  /\ asked' = [asked EXCEPT ![s] = None]
  /\ UNCHANGED <<balance, adjust>>

\* A refund is only taken back out of what was used of this balance.
Refundable(n) == balance.metered /\ balance.used >= n

\* What the balance is after a refund of n tokens.
GivenBack(n) ==
  IF Refundable(n)
  THEN Counted(balance.allocated, balance.used - n, balance.remaining + n, balance.expires)
  ELSE balance

Refund(n) ==
  /\ balance' = GivenBack(n)
  /\ UNCHANGED <<asked, adjust>>

\* A spender that dies between the two calls.
Forget(s) ==
  /\ asked' = [asked EXCEPT ![s] = None]
  /\ UNCHANGED <<balance, adjust>>

-----------------------------------------------------------------------------

TokensNext ==
  \/ \E n \in Grants, e \in {"never", "later"} : Reset(n, e) \/ TopUp(n, e)
  \/ Expire
  \/ \E a \in Admins : FinishAdjust(a) \/ \E delta \in Deltas : BeginAdjust(a, delta)
  \/ \E s \in Spenders : Take(s) \/ Refuse(s) \/ Forget(s) \/ \E n \in Nat : Ask(s, n)
  \/ \E n \in Nat : Refund(n)

TokensSpec == TokensInit /\ [][TokensNext]_tokenVars

-----------------------------------------------------------------------------
\* However requests, refunds, grants and adjustments interleave, the balance
\* is never overdrawn and its three numbers agree ("concurrent requests can
\* never overdraw", app/billing/tokens.py).
NeverOverdrawn ==
  /\ balance.remaining >= 0 /\ balance.used >= 0
  /\ balance.remaining + balance.used = balance.allocated
=============================================================================
