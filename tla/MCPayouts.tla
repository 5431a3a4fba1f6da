---------------------------- MODULE MCPayouts ----------------------------
(* Small instances of Payouts. *)
EXTENDS Payouts, TLC

\* A debit smaller than a commission and a credit as large.
SmallAdjustments == {-1, 2}

\* Everything that names a document or a handler is interchangeable.
Symmetry == Permutations(Commissions) \cup Permutations(Extras)
              \cup Permutations(PayoutIds) \cup Permutations(Requests)
=============================================================================
