-------------------------- MODULE MCSubscriptions --------------------------
(* Small instances of Subscriptions for TLC.                               *)
EXTENDS Subscriptions, TLC

CONSTANTS s1, s2, t1, h1, h2, a1, a2, w1

\* What the Super Admin's buttons ask for.
AdminTargets == {"active", "suspended", "expired", "cancelled"}
Cancelling == {"cancelled"}
NoTargets == {}
Suspending == {"active", "suspended", "cancelled"}

\* Subscriptions, and deliveries of the provider, are interchangeable.
Symmetry == Permutations(Subs) \cup Permutations(Webhooks)
=============================================================================
