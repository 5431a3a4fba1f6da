----------------------------- MODULE Purchases -----------------------------
(***************************************************************************)
(* What a keyword search promises about each unit of work it charges for   *)
(* (app/discovery/pipeline.py, "Money"): it is paid for once and then      *)
(* delivered, or given back; it is delivered without payment only when the *)
(* organization is not charged at all.  How a run, its crashes and its     *)
(* resumptions come to keep the promise is KeywordRun's business.          *)
(***************************************************************************)
CONSTANT Goods
VARIABLE sale

States == {"open", "paid", "sold", "waived", "free"}

\* From each state of a sale, where one step may take it.
Moves == {<<"open", "paid">>, <<"paid", "open">>, <<"paid", "sold">>,
          <<"open", "waived">>, <<"waived", "open">>, <<"waived", "free">>}

Init == sale = [g \in Goods |-> "open"]

\* One step moves several goods at once when they are bought together.
Trade ==
  /\ sale' \in [Goods -> States]
  /\ \A g \in Goods : sale'[g] # sale[g] => <<sale[g], sale'[g]>> \in Moves

Spec == Init /\ [][Trade]_sale
=============================================================================
