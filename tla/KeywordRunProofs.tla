-------------------------- MODULE KeywordRunProofs --------------------------
(***************************************************************************)
(* What holds of every keyword search, whatever its size: the balance is   *)
(* never overdrawn, two workers are never at work on one run, every item   *)
(* is paid for at most once and before it is delivered, and what the run   *)
(* records as spent is what its items cost.                                *)
(*                                                                         *)
(* The balance needs only its conditional updates: what a spender read     *)
(* before does not matter.  That a worker is alone rests on what starts    *)
(* one: the queue worker resumes only a job whose worker died, and a       *)
(* continuation is let in only when the end of the run was acknowledged or *)
(* nobody is left.  The invariant `Alone' says who may still be at work    *)
(* when that is so, `Tasking' what the worker that is alone holds, and     *)
(* `Booking' how its charges, the marks and the payments agree between any *)
(* two of its steps, and `Tally' how they agree with tokens_charged.       *)
(***************************************************************************)
EXTENDS KeywordRun, FiniteSetTheorems, TLAPS

-----------------------------------------------------------------------------
(* The balance *)

\* The conditions of the updates, and the types the arithmetic needs.
BalanceInv ==
  /\ TokensTypeOK
  /\ NeverOverdrawn

\* A counted balance whose numbers agree keeps the invariant.
LEMMA CountedIsBalanced ==
  ASSUME NEW i \in Int, NEW u \in Int, NEW r \in Int, NEW e \in Expiries,
         r >= 0, u >= 0, r + u = i,
         balance' = Counted(i, u, r, e)
  PROVE  balance' \in Balances /\ NeverOverdrawn'
BY DEF Counted, Balances, NeverOverdrawn

LEMMA InitBalanced == TokensInit => BalanceInv
<1> SUFFICES ASSUME TokensInit PROVE BalanceInv
  OBVIOUS
<1>1. Unmetered \in Balances /\ Unmetered.remaining = 0 /\ Unmetered.used = 0 /\ Unmetered.allocated = 0
  BY DEF Unmetered, Balances, Expiries
<1>2. CASE balance = Unmetered
  BY <1>1, <1>2 DEF TokensInit, BalanceInv, TokensTypeOK, NeverOverdrawn
<1>3. CASE \E n \in Grants, e \in {"never", "later"} : balance = Granted(n, e)
  <2> PICK n \in Grants, e \in {"never", "later"} : balance = Granted(n, e)
    BY <1>3
  <2>1. n \in Nat /\ e \in Expiries
    BY GrantsAssumption DEF Expiries
  <2> QED
    BY <2>1 DEF TokensInit, BalanceInv, TokensTypeOK, NeverOverdrawn, Granted, Counted, Balances
<1> QED
  BY <1>2, <1>3 DEF TokensInit

LEMMA StepBalanced == BalanceInv /\ [TokensNext]_tokenVars => BalanceInv'
<1> SUFFICES ASSUME BalanceInv, [TokensNext]_tokenVars PROVE BalanceInv'
  OBVIOUS
<1> USE DEF BalanceInv, TokensTypeOK, NeverOverdrawn
<1>1. ASSUME NEW n \in Grants, NEW e \in {"never", "later"}, Reset(n, e) PROVE BalanceInv'
  <2>1. n \in Nat /\ e \in Expiries
    BY GrantsAssumption DEF Expiries
  <2> QED
    BY <1>1, <2>1, CountedIsBalanced DEF Reset, Granted
<1>2. ASSUME NEW n \in Grants, NEW e \in {"never", "later"}, TopUp(n, e) PROVE BalanceInv'
  <2>1. n \in Nat /\ e \in Expiries
    BY GrantsAssumption DEF Expiries
  <2>2. (IF e = "never" THEN balance.expires ELSE e) \in Expiries
    BY <2>1 DEF Balances
  <2> DEFINE x == IF e = "never" THEN balance.expires ELSE e
  <2>3. balance' = Counted(balance.allocated + n, balance.used, balance.remaining + n, x)
    BY <1>2 DEF TopUp
  <2>4. asked' = asked /\ adjust' = adjust
    BY <1>2 DEF TopUp
  <2> HIDE DEF x
  <2>5. balance' \in Balances /\ NeverOverdrawn'
    <3>1. x \in Expiries
      BY <2>2 DEF x
    <3>2. balance.allocated + n \in Int /\ balance.remaining + n \in Int /\ balance.used \in Int
      BY <2>1 DEF Balances
    <3>3. balance.remaining + n >= 0 /\ balance.used >= 0
          /\ (balance.remaining + n) + balance.used = balance.allocated + n
      BY <2>1 DEF Balances
    <3> QED
      BY <2>3, <3>1, <3>2, <3>3, CountedIsBalanced
  <2>6. asked' \in [Spenders -> Nat \cup {None}]
        /\ adjust' \in [Admins -> [delta : Deltas, lapsed : BOOLEAN] \cup {None}]
    BY <2>4
  <2> QED
    BY <2>5, <2>6
<1>3. CASE Expire
  BY <1>3, CountedIsBalanced DEF Expire, Balances, Expiries
<1>4. ASSUME NEW a \in Admins, FinishAdjust(a) PROVE BalanceInv'
  <2>1. adjust[a] \in [delta : Deltas, lapsed : BOOLEAN] \cup {None} /\ adjust[a] # None
    BY <1>4 DEF FinishAdjust
  <2>2. adjust[a].delta \in Int /\ adjust[a].lapsed \in BOOLEAN
    BY <2>1, DeltasAssumption
  <2>3. adjust' \in [Admins -> [delta : Deltas, lapsed : BOOLEAN] \cup {None}] /\ asked' = asked
    BY <1>4 DEF FinishAdjust
  <2>4. CASE ~Adjusts(adjust[a].delta)
    BY <1>4, <2>3, <2>4 DEF FinishAdjust
  <2>5. CASE Adjusts(adjust[a].delta)
    <3> DEFINE d == adjust[a].delta
    <3> DEFINE x == IF d > 0 /\ adjust[a].lapsed THEN "never" ELSE balance.expires
    <3>1. balance' = Counted(balance.allocated + d, balance.used, balance.remaining + d, x)
      BY <1>4, <2>5 DEF FinishAdjust
    <3>2. d \in Int /\ x \in Expiries
      BY <2>2 DEF Balances, Expiries
    <3>3. balance.remaining + d >= 0
      BY <2>5, <3>2 DEF Adjusts, Balances
    <3> HIDE DEF d, x
    <3> QED
      BY <2>3, <3>1, <3>2, <3>3, CountedIsBalanced DEF Balances
  <2> QED
    BY <2>4, <2>5
<1>5. ASSUME NEW a \in Admins, NEW delta \in Deltas, BeginAdjust(a, delta) PROVE BalanceInv'
  <2>1. [delta |-> delta, lapsed |-> balance.expires = "past"] \in [delta : Deltas, lapsed : BOOLEAN]
    OBVIOUS
  <2> QED
    BY <1>5, <2>1 DEF BeginAdjust
<1>6. ASSUME NEW s \in Spenders, Take(s) PROVE BalanceInv'
  <2>1. asked[s] \in Nat /\ asked' \in [Spenders -> Nat \cup {None}]
    BY <1>6 DEF Take
  <2> QED
    BY <1>6, <2>1, CountedIsBalanced DEF Take, Covers, Balances
<1>7. ASSUME NEW s \in Spenders, Refuse(s) \/ Forget(s) PROVE BalanceInv'
  BY <1>7 DEF Refuse, Forget
<1>8. ASSUME NEW s \in Spenders, NEW n \in Nat, Ask(s, n) PROVE BalanceInv'
  BY <1>8 DEF Ask
<1>9. ASSUME NEW n \in Nat, Refund(n) PROVE BalanceInv'
  BY <1>9, CountedIsBalanced DEF Refund, GivenBack, Refundable, Balances
<1>10. CASE UNCHANGED tokenVars
  BY <1>10 DEF tokenVars
<1> QED
  BY <1>1, <1>2, <1>3, <1>4, <1>5, <1>6, <1>7, <1>8, <1>9, <1>10 DEF TokensNext

\* However requests, refunds, grants and adjustments interleave between the
\* reading and the conditional writing of the balance, it is never overdrawn
\* (app/billing/tokens.py).
THEOREM NeverOverdrawnCorrect == TokensSpec => []NeverOverdrawn
<1>1. TokensInit => BalanceInv
  BY InitBalanced
<1>2. BalanceInv /\ [TokensNext]_tokenVars => BalanceInv'
  BY StepBalanced
<1>3. BalanceInv => NeverOverdrawn
  BY DEF BalanceInv
<1> QED
  BY <1>1, <1>2, <1>3, PTL DEF TokensSpec

-----------------------------------------------------------------------------
(* The workers: what they may hold *)

\* What is left of cleaning up a failed call: nothing done yet, the marks struck out, the money given back, both.
Whole == {<<"unmark", "settle", "refund", "abort">>, <<"unmark", "refund", "abort", "settle">>,
          <<"unmark", "refund", "settle", "abort">>, <<"unmark", "refund", "settle">>,
          <<"unmark", "refund", "stop">>, <<"refund", "unmark", "settle">>}
Owing == {<<"settle", "refund", "abort">>, <<"refund", "abort">>, <<"refund", "abort", "settle">>,
          <<"refund", "settle", "abort">>, <<"refund", "settle">>, <<"refund", "stop">>}
Overmarked == {<<"unmark", "settle">>}
Squared == {<<>>, <<"abort">>, <<"abort", "settle">>, <<"settle">>, <<"settle", "abort">>, <<"stop">>}
Plans == Whole \cup Owing \cup Overmarked \cup Squared

Items == Pairs \cup Profiles
Names == Stages \cup {"none"}

WorkerRecords ==
  [pc : PCs, stage : Names, todo : SUBSET Items, cur : SUBSET Items,
   new : SUBSET (Names \X Items), due : SUBSET (Names \X Items), plan : Plans,
   ok : BOOLEAN, bad : BOOLEAN, verdict : Verdicts]

Typed == worker \in [Workers -> WorkerRecords]

\* The charges recorded on some items of the current stage.
Charged(w, items) == {u \in {worker[w].stage} \X items : mark[u] \notin {None, 0}}

LEMMA WholeTail ==
  ASSUME NEW p \in Whole
  PROVE  /\ p # <<>>
         /\ \/ Head(p) = "unmark" /\ Tail(p) \in Owing
            \/ Head(p) = "refund" /\ Tail(p) \in Overmarked
<1>1. CASE p = <<"unmark", "settle", "refund", "abort">>
  BY <1>1 DEF Owing, Overmarked
<1>2. CASE p = <<"unmark", "refund", "abort", "settle">>
  BY <1>2 DEF Owing, Overmarked
<1>3. CASE p = <<"unmark", "refund", "settle", "abort">>
  BY <1>3 DEF Owing, Overmarked
<1>4. CASE p = <<"unmark", "refund", "settle">>
  BY <1>4 DEF Owing, Overmarked
<1>5. CASE p = <<"unmark", "refund", "stop">>
  BY <1>5 DEF Owing, Overmarked
<1>6. CASE p = <<"refund", "unmark", "settle">>
  BY <1>6 DEF Owing, Overmarked
<1> QED BY <1>1, <1>2, <1>3, <1>4, <1>5, <1>6 DEF Whole

LEMMA OwingTail ==
  ASSUME NEW p \in Owing
  PROVE  /\ p # <<>>
         /\ \/ Head(p) = "settle" /\ Tail(p) \in Owing
            \/ Head(p) = "refund" /\ Tail(p) \in Squared
<1>1. CASE p = <<"settle", "refund", "abort">>
  BY <1>1 DEF Owing, Squared
<1>2. CASE p = <<"refund", "abort">>
  BY <1>2 DEF Owing, Squared
<1>3. CASE p = <<"refund", "abort", "settle">>
  BY <1>3 DEF Owing, Squared
<1>4. CASE p = <<"refund", "settle", "abort">>
  BY <1>4 DEF Owing, Squared
<1>5. CASE p = <<"refund", "settle">>
  BY <1>5 DEF Owing, Squared
<1>6. CASE p = <<"refund", "stop">>
  BY <1>6 DEF Owing, Squared
<1> QED BY <1>1, <1>2, <1>3, <1>4, <1>5, <1>6 DEF Owing

LEMMA OvermarkedTail ==
  ASSUME NEW p \in Overmarked
  PROVE  p # <<>> /\ Head(p) = "unmark" /\ Tail(p) \in Squared
<1>1. p = <<"unmark", "settle">>
  BY DEF Overmarked
<1> QED BY <1>1 DEF Squared

LEMMA SquaredTail ==
  ASSUME NEW p \in Squared, p # <<>>
  PROVE  Head(p) \in {"settle", "abort", "stop"} /\ Tail(p) \in Squared
<1>1. CASE p = <<>>
  BY <1>1 DEF Squared
<1>2. CASE p = <<"abort">>
  BY <1>2 DEF Squared
<1>3. CASE p = <<"abort", "settle">>
  BY <1>3 DEF Squared
<1>4. CASE p = <<"settle">>
  BY <1>4 DEF Squared
<1>5. CASE p = <<"settle", "abort">>
  BY <1>5 DEF Squared
<1>6. CASE p = <<"stop">>
  BY <1>6 DEF Squared
<1> QED BY <1>1, <1>2, <1>3, <1>4, <1>5, <1>6 DEF Squared

LEMMA IdleRecord ==
  /\ Idle \in WorkerRecords
  /\ Idle.pc = "idle" /\ Idle.stage = "none" /\ Idle.todo = {} /\ Idle.cur = {} /\ Idle.new = {}
  /\ Idle.due = {} /\ Idle.plan = <<>>
BY DEF Idle, WorkerRecords, PCs, Names, Plans, Squared, Verdicts

LEMMA StagesAre == Stages = {"discovery", "enrichment", "sampling", "deep_scrape"}
<1>1. 1..4 = {1, 2, 3, 4}
  OBVIOUS
<1> QED BY <1>1 DEF Stages, StageNames

LEMMA ItemsAre == \A s \in Stages : ItemsOf(s) \subseteq Items /\ Todo(s) \subseteq ItemsOf(s)
BY StagesAre DEF ItemsOf, Items, Todo, Having

\* A worker turns to what r says; the others stay as they are.
Turns(w, r) == r \in WorkerRecords /\ worker' = [worker EXCEPT ![w] = r]

LEMMA Turned ==
  ASSUME Typed, NEW w \in Workers, NEW r, Turns(w, r)
  PROVE  Typed' /\ worker'[w] = r /\ \A v \in Workers \ {w} : worker'[v] = worker[v]
BY DEF Typed, Turns

\* Only the worker itself moves.
Moves(w, pcs) ==
  /\ Typed' /\ worker'[w].pc \in pcs
  /\ \A v \in Workers \ {w} : worker'[v] = worker[v]

\* The worker forgets its stage and goes on elsewhere.
LEMMA ResetTurns ==
  ASSUME NEW pc \in PCs, NEW verdict \in Verdicts
  PROVE  LET r == [Idle EXCEPT !.pc = pc, !.verdict = verdict] IN
         /\ r \in WorkerRecords /\ r.pc = pc /\ r.todo = {} /\ r.cur = {}
BY IdleRecord DEF WorkerRecords

LEMMA GoTurns ==
  ASSUME Typed, NEW w \in Workers, NEW pc \in PCs, Go(w, pc)
  PROVE  /\ Moves(w, {pc})
         /\ worker'[w].stage = worker[w].stage /\ worker'[w].todo = worker[w].todo
         /\ worker'[w].cur = worker[w].cur /\ worker'[w].new = worker[w].new
         /\ worker'[w].due = worker[w].due /\ worker'[w].plan = worker[w].plan
<1> DEFINE r == [worker[w] EXCEPT !.pc = pc]
<1>1. worker[w] \in WorkerRecords
  BY DEF Typed
<1>2. /\ r \in WorkerRecords /\ r.pc = pc /\ r.stage = worker[w].stage /\ r.todo = worker[w].todo
      /\ r.cur = worker[w].cur /\ r.new = worker[w].new /\ r.due = worker[w].due /\ r.plan = worker[w].plan
  BY <1>1 DEF WorkerRecords
<1>3. worker' = [worker EXCEPT ![w] = r]
  BY DEF Go
<1> HIDE DEF r
<1> QED BY <1>2, <1>3, Turned DEF Moves, Turns

LEMMA StopTurns ==
  ASSUME Typed, NEW w \in Workers, NEW verdict \in Verdicts, StopRun(w, verdict)
  PROVE  Moves(w, {"finish"})
<1> DEFINE r == [Idle EXCEPT !.pc = "finish", !.verdict = verdict]
<1>1. r \in WorkerRecords /\ r.pc = "finish"
  BY ResetTurns DEF PCs
<1>2. worker' = [worker EXCEPT ![w] = r]
  BY DEF StopRun
<1> HIDE DEF r
<1> QED BY <1>1, <1>2, Turned DEF Moves, Turns

\* The current items are dealt with.
LEMMA DoneTurns ==
  ASSUME Typed, NEW w \in Workers, worker' = [worker EXCEPT ![w] = Done(w)]
  PROVE  /\ Moves(w, {"pick"})
         /\ worker'[w].stage = worker[w].stage /\ worker'[w].cur = {}
         /\ worker'[w].todo = worker[w].todo \ worker[w].cur
<1>1. worker[w] \in WorkerRecords
  BY DEF Typed
<1>2. /\ Done(w) \in WorkerRecords /\ Done(w).pc = "pick" /\ Done(w).cur = {}
      /\ Done(w).stage = worker[w].stage /\ Done(w).todo = worker[w].todo \ worker[w].cur
  BY <1>1 DEF WorkerRecords, Done, PCs
<1> QED BY <1>2, Turned DEF Moves, Turns

LEMMA FollowTurns ==
  ASSUME Typed, NEW w \in Workers, NEW items \in SUBSET Items, NEW plan \in Plans, NEW ok \in BOOLEAN,
         worker' = [worker EXCEPT ![w] = FollowUp(w, items, plan, ok)]
  PROVE  /\ Moves(w, {"settle"})
         /\ worker'[w].plan = plan /\ worker'[w].cur = items
         /\ worker'[w].todo = worker[w].todo \ worker[w].cur
         /\ worker'[w].stage = worker[w].stage
         /\ worker'[w].due = Charged(w, items)
<1> DEFINE d == {u \in {worker[w].stage} \X items : mark[u] \notin {None, 0}}
<1> DEFINE r == [worker[w] EXCEPT !.pc = "settle", !.plan = plan, !.cur = items,
                    !.todo = @ \ worker[w].cur, !.ok = @ \/ ok, !.bad = @ \/ ~ok, !.due = d]
<1>1. worker[w] \in WorkerRecords
  BY DEF Typed
<1>2. worker[w].stage \in Names /\ worker[w].todo \in SUBSET Items
  BY <1>1 DEF WorkerRecords
<1>3. d \in SUBSET (Names \X Items)
  BY <1>2
<1>4. (worker[w].todo \ worker[w].cur) \in SUBSET Items
  BY <1>2
<1>5. worker' = [worker EXCEPT ![w] = r]
  BY DEF FollowUp
<1> HIDE DEF d
<1>6. r \in WorkerRecords
  BY <1>1, <1>3, <1>4 DEF WorkerRecords, PCs
<1>7. /\ r.pc = "settle" /\ r.plan = plan /\ r.cur = items /\ r.todo = worker[w].todo \ worker[w].cur
      /\ r.stage = worker[w].stage /\ r.due = d
  BY <1>1 DEF WorkerRecords
<1> HIDE DEF r
<1> QED BY <1>5, <1>6, <1>7, Turned DEF Moves, Turns, d, Charged

\* One write of a clean-up is done.
LEMMA Next1Turns ==
  ASSUME Typed, NEW w \in Workers, worker[w].plan # <<>>, Next1(w)
  PROVE  /\ Moves(w, {worker[w].pc})
         /\ worker'[w].stage = worker[w].stage /\ worker'[w].todo = worker[w].todo
         /\ worker'[w].cur = worker[w].cur /\ worker'[w].due = worker[w].due
         /\ worker'[w].plan = Tail(worker[w].plan)
<1> DEFINE r == [worker[w] EXCEPT !.plan = Tail(@)]
<1>1. worker[w] \in WorkerRecords /\ worker[w].plan \in Plans
  BY DEF Typed, WorkerRecords
<1>2. Tail(worker[w].plan) \in Plans
  BY <1>1, WholeTail, OwingTail, OvermarkedTail, SquaredTail DEF Plans
<1>3. /\ r \in WorkerRecords /\ r.pc = worker[w].pc /\ r.stage = worker[w].stage
      /\ r.todo = worker[w].todo /\ r.cur = worker[w].cur /\ r.due = worker[w].due
      /\ r.plan = Tail(worker[w].plan)
  BY <1>1, <1>2 DEF WorkerRecords
<1>4. worker' = [worker EXCEPT ![w] = r]
  BY DEF Next1
<1> HIDE DEF r
<1> QED BY <1>3, <1>4, Turned DEF Moves, Turns

-----------------------------------------------------------------------------
(* What each step of a worker does to it *)

LEMMA StartMoves ==
  ASSUME Typed, NEW w \in Workers, Start(w)
  PROVE  \/ Moves(w, {"exit"})
         \/ Moves(w, {"finish", "enter"}) /\ UNCHANGED run
<1>1. CASE Go(w, "exit") /\ run' = [run EXCEPT !.status = "cancelled", !.cancel = TRUE, !.acked = TRUE]
  BY <1>1, GoTurns DEF PCs
<1>2. CASE worker' = [worker EXCEPT ![w] = [Idle EXCEPT !.pc = "finish", !.verdict = "error"]] /\ UNCHANGED run
  <2> DEFINE r == [Idle EXCEPT !.pc = "finish", !.verdict = "error"]
  <2>1. r \in WorkerRecords /\ r.pc = "finish"
    BY ResetTurns DEF PCs, Verdicts
  <2>2. worker' = [worker EXCEPT ![w] = r]
    BY <1>2
  <2> HIDE DEF r
  <2> QED BY <1>2, <2>1, <2>2, Turned DEF Moves, Turns
<1>3. CASE worker' = [worker EXCEPT ![w] = [Idle EXCEPT !.pc = "enter"]] /\ UNCHANGED run
  <2> DEFINE r == [Idle EXCEPT !.pc = "enter"]
  <2>1. r \in WorkerRecords /\ r.pc = "enter"
    BY IdleRecord DEF PCs, WorkerRecords
  <2>2. worker' = [worker EXCEPT ![w] = r]
    BY <1>3
  <2> HIDE DEF r
  <2> QED BY <1>3, <2>1, <2>2, Turned DEF Moves, Turns
<1> QED BY <1>1, <1>2, <1>3 DEF Start

LEMMA EnterMoves ==
  ASSUME Typed, NEW w \in Workers, EnterStage(w)
  PROVE  /\ Moves(w, {"pick"})
         /\ worker'[w].cur = {}
         /\ worker'[w].stage \in Stages
         /\ \E free \in SUBSET Todo(worker'[w].stage) :
              /\ worker'[w].todo = Todo(worker'[w].stage) \ free
              /\ worker'[w].stage # "enrichment" => free = {}
              /\ \E good \in SUBSET free :
                   cand' = [p \in Profiles |-> IF p \in free
                              THEN Judged(cand[p], "enriched", "pending", p \in good) ELSE cand[p]]
<1>1. PICK s, free, good :
        /\ s \in FirstOpen
        /\ free \in SUBSET Todo(s) /\ good \in SUBSET free
        /\ s # "enrichment" => free = {}
        /\ cand' = [p \in Profiles |-> IF p \in free
                      THEN Judged(cand[p], "enriched", "pending", p \in good) ELSE cand[p]]
        /\ worker' = [worker EXCEPT ![w] = [Idle EXCEPT !.pc = "pick", !.stage = s, !.todo = Todo(s) \ free]]
  BY DEF EnterStage
<1>2. s \in Stages /\ Todo(s) \in SUBSET Items
  BY <1>1, ItemsAre DEF FirstOpen
<1> DEFINE t == Todo(s) \ free
<1> DEFINE r == [Idle EXCEPT !.pc = "pick", !.stage = s, !.todo = t]
<1>3. t \in SUBSET Items
  BY <1>2
<1>4. worker' = [worker EXCEPT ![w] = r]
  BY <1>1
<1> HIDE DEF t
<1>5. r \in WorkerRecords /\ r.pc = "pick" /\ r.stage = s /\ r.todo = t /\ r.cur = {}
  BY <1>2, <1>3, IdleRecord DEF WorkerRecords, PCs, Names
<1> HIDE DEF r
<1>6. /\ Moves(w, {"pick"})
      /\ worker'[w].cur = {} /\ worker'[w].stage = s /\ worker'[w].todo = t
  BY <1>4, <1>5, Turned DEF Moves, Turns
<1> QED BY <1>1, <1>2, <1>6 DEF t

LEMMA AllDoneMoves ==
  ASSUME Typed, NEW w \in Workers, AllDone(w)
  PROVE  Moves(w, {"finish"})
<1>1. PICK verdict \in {"completed", "error"} :
        worker' = [worker EXCEPT ![w].pc = "finish", ![w].verdict = verdict]
  BY DEF AllDone
<1> DEFINE r == [worker[w] EXCEPT !.pc = "finish", !.verdict = verdict]
<1>2. r \in WorkerRecords /\ r.pc = "finish"
  BY DEF Typed, WorkerRecords, PCs, Verdicts
<1>3. worker' = [worker EXCEPT ![w] = r]
  BY <1>1
<1> HIDE DEF r
<1> QED BY <1>2, <1>3, Turned DEF Moves, Turns

\* An item or a chunk is taken up, or dealt with for nothing.
LEMMA PickMoves ==
  ASSUME Typed, NEW w \in Workers, Pick(w)
  PROVE  /\ worker'[w].stage = worker[w].stage
         /\ \E chunk \in SUBSET worker[w].todo :
              \/ /\ worker'[w].cur = chunk /\ worker'[w].todo = worker[w].todo
                 /\ worker'[w].new = {u \in {worker[w].stage} \X chunk : mark[u] = None}
                 /\ \/ Moves(w, {"charge"})
                    \/ Moves(w, {"call"}) /\ (\A i \in chunk : mark[<<worker[w].stage, i>>] # None)
                 /\ UNCHANGED cand
              \/ /\ Moves(w, {"pick"}) /\ worker'[w].cur = worker[w].cur
                 /\ worker'[w].todo = worker[w].todo \ chunk
                 /\ \E p \in chunk, good \in BOOLEAN :
                      \/ /\ worker[w].stage = "sampling"
                         /\ cand' = [cand EXCEPT ![p] = Judged(@, "sampled", "passed", good)]
                      \/ /\ worker[w].stage = "deep_scrape"
                         /\ cand' = [cand EXCEPT ![p] = [@ EXCEPT !.deep = "done", !.reached = "scraped"]]
<1> DEFINE s == worker[w].stage
<1>0. worker[w] \in WorkerRecords /\ s \in Names /\ worker[w].todo \in SUBSET Items
  BY DEF Typed, WorkerRecords
<1> DEFINE C == IF s = "enrichment" THEN {worker[w].todo} ELSE {{i} : i \in worker[w].todo}
<1>c. C \subseteq SUBSET worker[w].todo
  OBVIOUS
<1>1. PICK chunk \in C :
       \/ /\ worker' = [worker EXCEPT ![w].cur = chunk,
                ![w].new = {u \in {s} \X chunk : mark[u] = None},
                ![w].pc = IF \E i \in chunk : mark[<<s, i>>] = None THEN "charge" ELSE "call"]
          /\ UNCHANGED cand
       \/ /\ s \in {"sampling", "deep_scrape"}
          /\ \E good \in BOOLEAN, p \in chunk :
               cand' = [cand EXCEPT ![p] = IF s = "sampling"
                          THEN Judged(@, "sampled", "passed", good)
                          ELSE [@ EXCEPT !.deep = "done", !.reached = "scraped"]]
          /\ worker' = [worker EXCEPT ![w].todo = @ \ chunk, ![w].ok = TRUE]
  BY DEF Pick
<1>d. chunk \in SUBSET worker[w].todo
  BY <1>c
<1> HIDE DEF C
<1>2. CASE /\ worker' = [worker EXCEPT ![w].cur = chunk,
                ![w].new = {u \in {s} \X chunk : mark[u] = None},
                ![w].pc = IF \E i \in chunk : mark[<<s, i>>] = None THEN "charge" ELSE "call"]
           /\ UNCHANGED cand
  <2> DEFINE n == {u \in {s} \X chunk : mark[u] = None}
  <2> DEFINE c == IF \E i \in chunk : mark[<<s, i>>] = None THEN "charge" ELSE "call"
  <2> DEFINE r == [worker[w] EXCEPT !.cur = chunk, !.new = n, !.pc = c]
  <2>1. n \in SUBSET (Names \X Items)
    BY <1>0, <1>d
  <2>2. c \in {"charge", "call"} /\ (c = "call" => \A i \in chunk : mark[<<s, i>>] # None)
    OBVIOUS
  <2>3. worker' = [worker EXCEPT ![w] = r]
    BY <1>2
  <2> HIDE DEF n, c
  <2>4. r \in WorkerRecords
    BY <1>0, <1>d, <2>1, <2>2 DEF WorkerRecords, PCs
  <2>5. r.pc = c /\ r.cur = chunk /\ r.new = n /\ r.stage = s /\ r.todo = worker[w].todo
    BY <1>0 DEF WorkerRecords
  <2> HIDE DEF r
  <2>6. /\ Moves(w, {c}) /\ worker'[w].cur = chunk /\ worker'[w].new = n /\ worker'[w].stage = s
        /\ worker'[w].todo = worker[w].todo
    BY <2>3, <2>4, <2>5, Turned DEF Moves, Turns
  <2>7. Moves(w, {"charge"}) \/ (Moves(w, {"call"}) /\ \A i \in chunk : mark[<<s, i>>] # None)
    BY <2>2, <2>6
  <2> QED BY <1>2, <1>d, <2>6, <2>7 DEF n
<1>3. CASE /\ s \in {"sampling", "deep_scrape"}
           /\ \E good \in BOOLEAN, p \in chunk :
               cand' = [cand EXCEPT ![p] = IF s = "sampling"
                          THEN Judged(@, "sampled", "passed", good)
                          ELSE [@ EXCEPT !.deep = "done", !.reached = "scraped"]]
           /\ worker' = [worker EXCEPT ![w].todo = @ \ chunk, ![w].ok = TRUE]
  <2> DEFINE r == [worker[w] EXCEPT !.todo = @ \ chunk, !.ok = TRUE]
  <2>1. r \in WorkerRecords /\ r.pc = worker[w].pc /\ r.cur = worker[w].cur /\ r.stage = s
        /\ r.todo = worker[w].todo \ chunk
    BY <1>0 DEF WorkerRecords
  <2>2. worker' = [worker EXCEPT ![w] = r]
    BY <1>3
  <2> HIDE DEF r
  <2>3. Moves(w, {"pick"}) /\ worker'[w].cur = worker[w].cur /\ worker'[w].stage = s
        /\ worker'[w].todo = worker[w].todo \ chunk
    BY <2>1, <2>2, Turned DEF Moves, Turns, Pick, At
  <2>4. PICK good \in BOOLEAN, p \in chunk :
               cand' = [cand EXCEPT ![p] = IF s = "sampling"
                          THEN Judged(@, "sampled", "passed", good)
                          ELSE [@ EXCEPT !.deep = "done", !.reached = "scraped"]]
    BY <1>3
  <2>5. \/ s = "sampling" /\ cand' = [cand EXCEPT ![p] = Judged(@, "sampled", "passed", good)]
        \/ s = "deep_scrape" /\ cand' = [cand EXCEPT ![p] = [@ EXCEPT !.deep = "done", !.reached = "scraped"]]
    BY <1>3, <2>4
  <2> QED BY <1>d, <2>3, <2>4, <2>5
<1> QED BY <1>1, <1>2, <1>3

LEMMA LimitMoves ==
  ASSUME Typed, NEW w \in Workers, LimitReached(w)
  PROVE  /\ Moves(w, {"pick"})
         /\ worker'[w].stage = worker[w].stage /\ worker'[w].cur = worker[w].cur /\ worker'[w].todo = {}
<1> DEFINE r == [worker[w] EXCEPT !.todo = {}]
<1>1. worker[w] \in WorkerRecords /\ worker[w].pc = "pick"
  BY DEF Typed, LimitReached, At
<1>2. /\ r \in WorkerRecords /\ r.pc = "pick" /\ r.stage = worker[w].stage
      /\ r.cur = worker[w].cur /\ r.todo = {}
  BY <1>1 DEF WorkerRecords
<1>3. worker' = [worker EXCEPT ![w] = r]
  BY DEF LimitReached
<1> HIDE DEF r
<1> QED BY <1>2, <1>3, Turned DEF Moves, Turns

LEMMA LeaveMoves ==
  ASSUME Typed, NEW w \in Workers, LeaveStage(w)
  PROVE  Moves(w, {"enter", "finish"})
<1>1. PICK pc \in {"enter", "finish"}, verdict \in {"completed", "error"} :
        worker' = [worker EXCEPT ![w] = [Idle EXCEPT !.pc = pc, !.verdict = verdict]]
  BY DEF LeaveStage, Idle
<1> DEFINE r == [Idle EXCEPT !.pc = pc, !.verdict = verdict]
<1>v. pc \in PCs /\ verdict \in Verdicts
  BY DEF PCs, Verdicts
<1>2. r \in WorkerRecords /\ r.pc = pc
  BY <1>v, ResetTurns
<1>3. worker' = [worker EXCEPT ![w] = r]
  BY <1>1
<1> HIDE DEF r
<1> QED BY <1>2, <1>3, Turned DEF Moves, Turns

\* What a worker keeps while it pays.
Keeps(w) == /\ worker'[w].stage = worker[w].stage /\ worker'[w].todo = worker[w].todo
            /\ worker'[w].cur = worker[w].cur /\ worker'[w].new = worker[w].new

LEMMA ChargeMoves ==
  ASSUME Typed, NEW w \in Workers, Charge(w)
  PROVE  \/ /\ Moves(w, {"marked"}) /\ Keeps(w) /\ UNCHANGED run
            /\ mark' = Marked(worker[w].new, Price)
         \/ Moves(w, {"finish"}) /\ UNCHANGED mark
<1>1. CASE Go(w, "marked") /\ UNCHANGED run /\ mark' = Marked(worker[w].new, Price)
  BY <1>1, GoTurns DEF PCs, Keeps
<1>2. CASE StopRun(w, "completed") /\ UNCHANGED mark
  BY <1>2, StopTurns DEF Verdicts
<1> QED BY <1>1, <1>2 DEF Charge

LEMMA BalanceMoves ==
  ASSUME Typed, NEW w \in Workers, ReadBalance(w)
  PROVE  \/ /\ Moves(w, {"call"}) /\ Keeps(w) /\ UNCHANGED run
            /\ mark' = Marked(worker[w].new, 0)
         \/ Moves(w, {"finish"}) /\ mark' = Marked(worker[w].new, None)
         \/ Moves(w, {"asked"}) /\ Keeps(w) /\ UNCHANGED <<run, mark>>
<1>1. CASE Go(w, "call") /\ mark' = Marked(worker[w].new, 0) /\ UNCHANGED run
  BY <1>1, GoTurns DEF PCs, Keeps
<1>2. CASE OutOfTokens(w)
  BY <1>2, StopTurns DEF OutOfTokens, Verdicts
<1>3. CASE Go(w, "asked") /\ UNCHANGED <<mark, run>>
  BY <1>3, GoTurns DEF PCs, Keeps
<1> QED BY <1>1, <1>2, <1>3 DEF ReadBalance

LEMMA TakeMoves ==
  ASSUME Typed, NEW w \in Workers, TakeTokens(w)
  PROVE  \/ /\ Moves(w, {"taken"}) /\ Keeps(w) /\ UNCHANGED <<run, mark>>
            /\ paid' = [u \in Units |-> IF u \in worker[w].new THEN paid[u] + Price ELSE paid[u]]
         \/ Moves(w, {"finish"}) /\ mark' = Marked(worker[w].new, None) /\ UNCHANGED paid
<1>1. CASE /\ Go(w, "taken") /\ UNCHANGED <<run, mark>>
           /\ paid' = [u \in Units |-> IF u \in worker[w].new THEN paid[u] + Price ELSE paid[u]]
  BY <1>1, GoTurns DEF PCs, Keeps
<1>2. CASE OutOfTokens(w) /\ UNCHANGED paid
  BY <1>2, StopTurns DEF OutOfTokens, Verdicts
<1> QED BY <1>1, <1>2 DEF TakeTokens

LEMMA CountMoves ==
  ASSUME Typed, NEW w \in Workers, CountCharge(w)
  PROVE  Moves(w, {"call"}) /\ Keeps(w)
BY GoTurns DEF CountCharge, PCs, Keeps

LEMMA DiscoveredMoves ==
  ASSUME Typed, NEW w \in Workers, Discovered(w)
  PROVE  Moves(w, {"record"}) /\ Keeps(w)
BY GoTurns DEF Discovered, PCs, Keeps

\* What a worker keeps when it is done with its current items.
Drops(w) == /\ worker'[w].stage = worker[w].stage /\ worker'[w].cur = {}
            /\ worker'[w].todo = worker[w].todo \ worker[w].cur

LEMMA DeliverMoves ==
  ASSUME Typed, NEW w \in Workers, RecordPair(w) \/ Sampled(w) \/ Scraped(w)
  PROVE  Moves(w, {"pick"}) /\ Drops(w)
BY DoneTurns DEF RecordPair, Sampled, Scraped, Drops

\* What a worker has to clean up after a failed call.
Owes(w, items, plans) ==
  /\ Moves(w, {"settle"}) /\ worker'[w].plan \in plans
  /\ worker'[w].stage = worker[w].stage /\ worker'[w].cur = items
  /\ worker'[w].todo = worker[w].todo \ worker[w].cur
  /\ worker'[w].due = Charged(w, items)

LEMMA EnrichedMoves ==
  ASSUME Typed, NEW w \in Workers, Enriched(w)
  PROVE  \E got \in SUBSET worker[w].cur, good \in SUBSET worker[w].cur :
           /\ good \subseteq got
           /\ cand' = [p \in Profiles |-> IF p \in got
                         THEN Judged(cand[p], "enriched", "pending", p \in good) ELSE cand[p]]
           /\ delivered' = delivered \cup ({"enrichment"} \X got)
           /\ \/ got = worker[w].cur /\ Moves(w, {"pick"}) /\ Drops(w)
              \/ Owes(w, worker[w].cur \ got, Whole)
<1>1. PICK got \in SUBSET worker[w].cur, good \in SUBSET worker[w].cur :
           /\ good \subseteq got
           /\ cand' = [p \in Profiles |-> IF p \in got
                         THEN Judged(cand[p], "enriched", "pending", p \in good) ELSE cand[p]]
           /\ delivered' = delivered \cup ({"enrichment"} \X got)
           /\ worker' = [worker EXCEPT ![w] =
                IF got = worker[w].cur THEN Done(w)
                ELSE FollowUp(w, worker[w].cur \ got, <<"refund", "unmark", "settle">>, TRUE)]
  BY DEF Enriched
<1>2. CASE got = worker[w].cur
  BY <1>1, <1>2, DoneTurns DEF Drops
<1>3. CASE got # worker[w].cur
  <2>1. worker[w].cur \ got \in SUBSET Items
    BY DEF Typed, WorkerRecords
  <2>2. <<"refund", "unmark", "settle">> \in Whole /\ Whole \subseteq Plans
    BY DEF Whole, Plans
  <2>3. worker' = [worker EXCEPT ![w] =
              FollowUp(w, worker[w].cur \ got, <<"refund", "unmark", "settle">>, TRUE)]
    BY <1>1, <1>3
  <2>4. Owes(w, worker[w].cur \ got, Whole)
    BY <2>1, <2>2, <2>3, FollowTurns DEF Owes
  <2> QED BY <1>1, <2>4
<1> QED BY <1>2, <1>3

LEMMA FailMoves ==
  ASSUME Typed, NEW w \in Workers, worker[w].stage \in Stages, CallFails(w)
  PROVE  Owes(w, worker[w].cur, Whole)
<1>1. PICK plan \in {FailurePlans[worker[w].stage], <<"unmark", "refund", "settle">>,
                     <<"unmark", "refund", "stop">>} :
        worker' = [worker EXCEPT ![w] = FollowUp(w, worker[w].cur, plan, FALSE)]
  BY DEF CallFails
<1>2. FailurePlans[worker[w].stage] \in Whole
  BY StagesAre DEF FailurePlans, Whole
<1>3. plan \in Whole /\ plan \in Plans
  BY <1>1, <1>2 DEF Whole, Plans
<1>4. worker[w].cur \in SUBSET Items
  BY DEF Typed, WorkerRecords
<1> QED BY <1>1, <1>3, <1>4, FollowTurns DEF Owes

\* One write of the clean-up is done.
Ticks(w) ==
  /\ Moves(w, {"settle"})
  /\ worker'[w].stage = worker[w].stage /\ worker'[w].todo = worker[w].todo
  /\ worker'[w].cur = worker[w].cur /\ worker'[w].due = worker[w].due
  /\ worker'[w].plan = Tail(worker[w].plan)

LEMMA SettleMoves ==
  ASSUME Typed, NEW w \in Workers, Settle(w)
  PROVE  LET plan == worker[w].plan IN
         \/ /\ plan = <<>> /\ Moves(w, {"pick"})
            /\ worker'[w].stage = worker[w].stage /\ worker'[w].todo = worker[w].todo /\ worker'[w].cur = {}
            /\ UNCHANGED <<run, mark, paid, cand, pairsDone>>
         \/ /\ plan # <<>> /\ Head(plan) = "unmark" /\ Ticks(w)
            /\ mark' = Marked(CurUnits(w), None)
            /\ UNCHANGED <<run, paid, cand, pairsDone>>
         \/ /\ plan # <<>> /\ Head(plan) = "refund" /\ Ticks(w)
            /\ paid' = [u \in Units |-> IF u \in worker[w].due THEN paid[u] - Price ELSE paid[u]]
            /\ run' = [run EXCEPT !.charged = @ - Cost(worker[w].due)]
            /\ UNCHANGED <<mark, cand, pairsDone>>
         \/ /\ plan # <<>> /\ Head(plan) = "settle" /\ Ticks(w) /\ SettleItems(w)
         \/ /\ plan # <<>> /\ Head(plan) \in {"abort", "stop"}
            /\ (Ticks(w) /\ UNCHANGED run) \/ Moves(w, {"finish"})
            /\ UNCHANGED <<mark, paid, cand, pairsDone>>
<1> DEFINE plan == worker[w].plan
<1>0. worker[w] \in WorkerRecords /\ worker[w].pc = "settle"
  BY DEF Typed, Settle, At
<1>1. CASE plan = <<>>
  <2> DEFINE r == [worker[w] EXCEPT !.pc = "pick", !.cur = {}, !.due = {}]
  <2>1. /\ r \in WorkerRecords /\ r.pc = "pick" /\ r.cur = {}
        /\ r.stage = worker[w].stage /\ r.todo = worker[w].todo
    BY <1>0 DEF WorkerRecords, PCs
  <2>2. worker' = [worker EXCEPT ![w] = r] /\ UNCHANGED <<run, mark, paid, cand, pairsDone>>
    BY <1>1 DEF Settle
  <2> HIDE DEF r
  <2> QED BY <1>1, <2>1, <2>2, Turned DEF Moves, Turns
<1>2. CASE plan # <<>>
  <2>0. ASSUME Next1(w) PROVE Ticks(w)
    BY <1>0, <1>2, <2>0, Next1Turns DEF Ticks
  <2>1. Head(plan) \in {"unmark", "refund", "settle", "abort", "stop"}
    <3>1. plan \in Plans
      BY <1>0 DEF WorkerRecords
    <3> QED BY <1>2, <3>1, WholeTail, OwingTail, OvermarkedTail, SquaredTail DEF Plans
  <2>2. CASE Head(plan) = "unmark"
    <3>1. Unmark(w)
      BY <1>2, <2>2 DEF Settle
    <3> QED BY <1>2, <2>0, <2>2, <3>1 DEF Unmark
  <2>3. CASE Head(plan) = "refund"
    <3>1. GiveBack(w)
      BY <1>2, <2>3 DEF Settle
    <3> QED BY <1>2, <2>0, <2>3, <3>1 DEF GiveBack
  <2>4. CASE Head(plan) = "settle"
    <3>1. SettleItems(w)
      BY <1>2, <2>4 DEF Settle
    <3>2. Ticks(w)
      BY <2>0, <3>1 DEF SettleItems
    <3> QED BY <1>2, <2>4, <3>1, <3>2
  <2>5. CASE Head(plan) \in {"abort", "stop"}
    <3>1. Abort(w, FALSE) \/ Abort(w, TRUE)
      BY <1>2, <2>5 DEF Settle
    <3>2. StopRun(w, "cancelled") \/ (Next1(w) /\ UNCHANGED run)
      BY <3>1 DEF Abort
    <3>3. Moves(w, {"finish"}) \/ (Ticks(w) /\ UNCHANGED run)
      BY <2>0, <3>2, StopTurns DEF Verdicts
    <3>4. UNCHANGED <<mark, paid, cand, pairsDone>>
      BY <3>1 DEF Abort
    <3> QED BY <1>2, <2>5, <3>3, <3>4
  <2> QED BY <2>1, <2>2, <2>3, <2>4, <2>5
<1> QED BY <1>1, <1>2

-----------------------------------------------------------------------------
(* A worker's step as its run and its job see it *)

RunRecords ==
  [status : {"none", "running", "completed", "cancelled", "error"}, acked : BOOLEAN, cancel : BOOLEAN,
   charged : Int, budget : Int]

\* A worker that has neither left its stages nor died.
Before == PCs \ {"idle", "dead", "finish", "exit"}

LEMMA CostIsInt == ASSUME NEW units \in SUBSET (Names \X Items) PROVE Cost(units) \in Nat
<1>1. Names = {"discovery", "enrichment", "sampling", "deep_scrape", "none"}
  BY StagesAre DEF Names
<1>2. IsFiniteSet({"discovery", "enrichment", "sampling", "deep_scrape", "none"})
  <2>1. IsFiniteSet({"discovery"} \cup {"enrichment"}) /\ IsFiniteSet({"sampling"} \cup {"deep_scrape"})
    BY FS_Singleton, FS_Union
  <2>2. IsFiniteSet((({"discovery"} \cup {"enrichment"}) \cup ({"sampling"} \cup {"deep_scrape"})) \cup {"none"})
    BY <2>1, FS_Singleton, FS_Union
  <2>3. {"discovery", "enrichment", "sampling", "deep_scrape", "none"} =
          (({"discovery"} \cup {"enrichment"}) \cup ({"sampling"} \cup {"deep_scrape"})) \cup {"none"}
    OBVIOUS
  <2> QED BY <2>2, <2>3
<1>3. IsFiniteSet(Names \X Items)
  BY <1>1, <1>2, ItemsFinite, FS_Union, FS_Product DEF Items
<1>4. IsFiniteSet(units) /\ Cardinality(units) \in Nat
  BY <1>3, FS_Subset, FS_CardinalityType
<1> QED BY <1>4, PriceAssumption DEF Cost

\* A step of a worker leaves the jobs and the requests alone until it ends;
\* it acknowledges the end of the run only when it leaves the stages.
LEMMA WorkSummary ==
  ASSUME Typed, run \in RunRecords, job \in [Workers -> {"none", "running", "cancelled", "ended"}],
         NEW w \in Workers, Work(w), AtWork(w) /\ worker[w].pc \notin {"start", "enter"} => worker[w].stage \in Stages
  PROVE  /\ run' \in RunRecords /\ UNCHANGED <<user, crashes>>
         /\ run.status # "none" => run'.status # "none"
         /\ \/ /\ AtWork(w) /\ Moves(w, Before) /\ UNCHANGED job
               /\ run'.acked = run.acked
            \/ AtWork(w) /\ Moves(w, {"finish", "exit"}) /\ UNCHANGED job
            \/ At(w, "finish") /\ Moves(w, {"exit"}) /\ UNCHANGED job
            \/ At(w, "exit") /\ Moves(w, {"idle"}) /\ job' = [job EXCEPT ![w] = "ended"] /\ UNCHANGED run
<1>0. worker[w] \in WorkerRecords
  BY DEF Typed
<1>1. CASE Start(w)
  BY <1>1, StartMoves DEF Start, At, AtWork, Before, PCs, Moves, RunRecords
<1>2. CASE EnterStage(w)
  BY <1>2, EnterMoves DEF EnterStage, At, AtWork, Before, PCs, Moves
<1>3. CASE AllDone(w)
  BY <1>3, AllDoneMoves DEF AllDone, At, AtWork, Before, PCs, Moves
<1>4. CASE Stopped(w)
  BY <1>4, StopTurns DEF Stopped, StopRun, At, AtWork, Before, PCs, Moves, RunRecords, Verdicts
<1>5. CASE Pick(w)
  <2>1. Moves(w, {"charge", "call", "pick"})
    BY <1>5, PickMoves DEF Moves
  <2> QED BY <1>5, <2>1 DEF Pick, At, AtWork, Before, PCs, Moves
<1>6. CASE LimitReached(w)
  BY <1>6, LimitMoves DEF LimitReached, At, AtWork, Before, PCs, Moves
<1>7. CASE LeaveStage(w)
  <2>1. Moves(w, {"enter"}) \/ Moves(w, {"finish"})
    BY <1>7, LeaveMoves DEF Moves
  <2> QED BY <1>7, <2>1 DEF LeaveStage, At, AtWork, Before, PCs, Moves
<1>8. CASE Charge(w)
  <2>1. run' \in RunRecords /\ (run.status # "none" => run'.status # "none")
    BY <1>8 DEF Charge, StopRun, RunRecords
  <2> QED BY <1>8, <2>1, ChargeMoves DEF Charge, At, AtWork, Before, PCs, Moves
<1>9. CASE ReadBalance(w)
  <2>1. run' = run
    BY <1>9 DEF ReadBalance, OutOfTokens, StopRun
  <2> QED BY <1>9, <2>1, BalanceMoves DEF ReadBalance, At, AtWork, Before, PCs, Moves
<1>10. CASE TakeTokens(w)
  <2>1. run' = run
    BY <1>10 DEF TakeTokens, OutOfTokens, StopRun
  <2> QED BY <1>10, <2>1, TakeMoves DEF TakeTokens, At, AtWork, Before, PCs, Moves
<1>11. CASE CountCharge(w)
  <2>1. worker[w].new \in SUBSET (Names \X Items)
    BY <1>0 DEF WorkerRecords
  <2>2. Cost(worker[w].new) \in Int
    BY <2>1, CostIsInt
  <2>3. run' \in RunRecords /\ run'.status = run.status /\ run'.acked = run.acked
    BY <1>11, <2>2 DEF CountCharge, RunRecords
  <2> QED BY <1>11, <2>3, CountMoves DEF CountCharge, At, AtWork, Before, PCs, Moves
<1>12. CASE Discovered(w)
  BY <1>12, DiscoveredMoves DEF Discovered, At, AtWork, Before, PCs, Moves
<1>13. CASE RecordPair(w) \/ Sampled(w) \/ Scraped(w)
  BY <1>13, DeliverMoves DEF RecordPair, Sampled, Scraped, At, AtWork, Before, PCs, Moves
<1>14. CASE Enriched(w)
  <2>1. Moves(w, {"pick"}) \/ Moves(w, {"settle"})
    BY <1>14, EnrichedMoves DEF Owes
  <2> QED BY <1>14, <2>1 DEF Enriched, At, AtWork, Before, PCs, Moves
<1>15. CASE CallFails(w)
  <2>1. AtWork(w) /\ worker[w].stage \in Stages
    BY <1>15 DEF CallFails, At, AtWork
  <2>2. Moves(w, {"settle"})
    BY <1>15, <2>1, FailMoves DEF Owes
  <2> QED BY <1>15, <2>1, <2>2 DEF CallFails, At, Before, PCs, Moves
<1>16. CASE Settle(w)
  <2>0. AtWork(w) /\ UNCHANGED <<user, crashes, job>>
    BY <1>16 DEF Settle, At, AtWork
  <2>1. CASE Moves(w, {"pick", "settle"}) /\ UNCHANGED run
    BY <2>0, <2>1 DEF Before, PCs, Moves
  <2>2. CASE Moves(w, {"settle"}) /\ run' = [run EXCEPT !.charged = @ - Cost(worker[w].due)]
    <3>1. worker[w].due \in SUBSET (Names \X Items)
      BY <1>0 DEF WorkerRecords
    <3>2. Cost(worker[w].due) \in Int
      BY <3>1, CostIsInt
    <3>3. run' \in RunRecords /\ run'.status = run.status /\ run'.acked = run.acked
      BY <2>2, <3>2 DEF RunRecords
    <3> QED BY <2>0, <2>2, <3>3 DEF Before, PCs, Moves
  <2>3. CASE Moves(w, {"finish"}) /\ run' \in RunRecords /\ (run.status # "none" => run'.status # "none")
    BY <2>0, <2>3 DEF Moves
  <2>4. ASSUME Abort(w, FALSE) \/ Abort(w, TRUE)
        PROVE  run' \in RunRecords /\ (run.status # "none" => run'.status # "none")
    BY <2>4 DEF Abort, StopRun, RunRecords
  <2>5. worker[w].plan # <<>> /\ Head(worker[w].plan) \in {"abort", "stop"} => Abort(w, FALSE) \/ Abort(w, TRUE)
    BY <1>16 DEF Settle
  <2>6. worker[w].plan # <<>> /\ Head(worker[w].plan) = "settle" /\ SettleItems(w) => UNCHANGED run
    BY DEF SettleItems
  <2> QED BY <1>16, <2>1, <2>2, <2>3, <2>4, <2>5, <2>6, SettleMoves DEF Ticks, Moves
<1>17. CASE Finish(w)
  <2>1. worker[w].verdict \in Verdicts
    BY <1>0 DEF WorkerRecords
  <2> QED BY <1>17, <2>1, GoTurns DEF Finish, At, PCs, Moves, RunRecords, Verdicts
<1>18. CASE Exit(w)
  BY <1>18, IdleRecord, Turned DEF Exit, At, Turns, Moves
<1> QED BY <1>1, <1>2, <1>3, <1>4, <1>5, <1>6, <1>7, <1>8, <1>9, <1>10, <1>11, <1>12, <1>13,
           <1>14, <1>15, <1>16, <1>17, <1>18 DEF Work

-----------------------------------------------------------------------------
(* Types *)

UserRecords == [cancelling : BOOLEAN, reapplying : BOOLEAN, continuing : BOOLEAN, cancels : Nat, reapplies : Nat]
JobStates == {"none", "running", "cancelled", "ended"}

\* A worker that is in a stage knows which.
Placed(w) == AtWork(w) /\ worker[w].pc \notin {"start", "enter"} => worker[w].stage \in Stages

Base ==
  /\ Typed
  /\ run \in RunRecords
  /\ job \in [Workers -> JobStates]
  /\ user \in UserRecords
  /\ \A w \in Workers : Placed(w)

LEMMA WorkPlaced ==
  ASSUME Typed, NEW w \in Workers, Placed(w), Work(w)
  PROVE  Placed(w)'
<1> USE DEF Placed, AtWork
<1>1. CASE Start(w)
  BY <1>1, StartMoves DEF Moves
<1>2. CASE EnterStage(w)
  BY <1>2, EnterMoves DEF Moves
<1>3. CASE AllDone(w)
  BY <1>3, AllDoneMoves DEF Moves
<1>4. CASE Stopped(w)
  BY <1>4, StopTurns DEF Stopped, Moves, Verdicts
<1>5. CASE Pick(w)
  BY <1>5, PickMoves DEF Pick, At, Moves
<1>6. CASE LimitReached(w)
  BY <1>6, LimitMoves DEF LimitReached, At, Moves
<1>7. CASE LeaveStage(w)
  BY <1>7, LeaveMoves DEF Moves
<1>8. CASE Charge(w)
  BY <1>8, ChargeMoves DEF Charge, At, Moves, Keeps
<1>9. CASE ReadBalance(w)
  BY <1>9, BalanceMoves DEF ReadBalance, At, Moves, Keeps
<1>10. CASE TakeTokens(w)
  BY <1>10, TakeMoves DEF TakeTokens, At, Moves, Keeps
<1>11. CASE CountCharge(w)
  BY <1>11, CountMoves DEF CountCharge, At, Moves, Keeps
<1>12. CASE Discovered(w)
  BY <1>12, DiscoveredMoves DEF Discovered, At, Moves, Keeps
<1>13. CASE RecordPair(w) \/ Sampled(w) \/ Scraped(w)
  BY <1>13, DeliverMoves DEF RecordPair, Sampled, Scraped, At, Moves, Drops
<1>14. CASE Enriched(w)
  <2>1. worker'[w].stage = worker[w].stage
    BY <1>14, EnrichedMoves DEF Owes, Drops
  <2> QED BY <1>14, <2>1 DEF Enriched, At
<1>15. CASE CallFails(w)
  <2>1. worker[w].stage \in Stages
    BY <1>15 DEF CallFails, At
  <2> QED BY <1>15, <2>1, FailMoves DEF Owes
<1>16. CASE Settle(w)
  BY <1>16, SettleMoves DEF Settle, At, Moves, Ticks
<1>17. CASE Finish(w)
  BY <1>17, GoTurns DEF Finish, PCs, Moves
<1>18. CASE Exit(w)
  BY <1>18, IdleRecord, Turned DEF Exit, Turns
<1> QED BY <1>1, <1>2, <1>3, <1>4, <1>5, <1>6, <1>7, <1>8, <1>9, <1>10, <1>11, <1>12, <1>13,
           <1>14, <1>15, <1>16, <1>17, <1>18 DEF Work

LEMMA BaseInit == KeywordInit => Base
<1> SUFFICES ASSUME KeywordInit PROVE Base
  OBVIOUS
<1>1. Typed /\ \A w \in Workers : Placed(w)
  BY IdleRecord DEF KeywordInit, Typed, Placed, AtWork
<1>2. run \in RunRecords
  BY PriceAssumption DEF KeywordInit, RunRecords
<1>3. job \in [Workers -> JobStates] /\ user \in UserRecords
  BY DEF KeywordInit, JobStates, UserRecords
<1> QED BY <1>1, <1>2, <1>3 DEF Base

\* The steps that are not a worker's own.
LEMMA CrashMoves ==
  ASSUME Typed, NEW w \in Workers, Crash(w)
  PROVE  Moves(w, {"dead"}) /\ worker'[w].todo = {} /\ worker'[w].cur = {}
<1> DEFINE r == [Idle EXCEPT !.pc = "dead"]
<1>1. r \in WorkerRecords /\ r.pc = "dead" /\ r.todo = {} /\ r.cur = {}
  BY IdleRecord DEF WorkerRecords, PCs
<1>2. worker' = [worker EXCEPT ![w] = r]
  BY DEF Crash
<1> HIDE DEF r
<1> QED BY <1>1, <1>2, Turned DEF Moves, Turns

LEMMA AdmitMoves ==
  ASSUME Typed, Admit
  PROVE  First \in Workers /\ Moves(First, {"start"})
<1>1. First \in Workers /\ Go(First, "start")
  BY FirstAssumption DEF Admit, Go, Workers
<1> QED BY <1>1, GoTurns DEF PCs

LEMMA ContinueMoves ==
  ASSUME Typed, run \in RunRecords, Continue
  PROVE  \/ UNCHANGED <<run, job, worker, cand>>
         \/ \E w \in Workers :
              /\ Over /\ job[w] = "none" /\ Moves(w, {"start"})
              /\ run' \in RunRecords /\ run'.status = "running" /\ ~run'.acked
              /\ job' = [job EXCEPT ![First] = IF @ = "cancelled" THEN "ended" ELSE @, ![w] = "running"]
              /\ cand' = [p \in Profiles |-> IF cand[p].status = "needs_sampling"
                            THEN [cand[p] EXCEPT !.status = "pending", !.reached = "enriched"] ELSE cand[p]]
<1>1. CASE ~Over
  BY <1>1 DEF Continue
<1>2. CASE Over
  <2>1. PICK w \in Workers, budget \in {run.budget, run.charged + Budget} :
            /\ job[w] = "none"
            /\ run' = [run EXCEPT !.status = "running", !.acked = FALSE, !.cancel = FALSE, !.budget = budget]
            /\ cand' = [p \in Profiles |-> IF cand[p].status = "needs_sampling"
                          THEN [cand[p] EXCEPT !.status = "pending", !.reached = "enriched"] ELSE cand[p]]
            /\ job' = [job EXCEPT ![First] = IF @ = "cancelled" THEN "ended" ELSE @, ![w] = "running"]
            /\ worker' = [worker EXCEPT ![w].pc = "start"]
    BY <1>2 DEF Continue
  <2>2. Moves(w, {"start"})
    BY <2>1, GoTurns DEF Go, PCs
  <2>i. run.budget \in Int /\ run.charged + Budget \in Int
    BY PriceAssumption DEF RunRecords
  <2>3. budget \in Int
    BY <2>i
  <2>4. run' \in RunRecords /\ run'.status = "running" /\ ~run'.acked
    BY <2>1, <2>3 DEF RunRecords
  <2> QED BY <1>2, <2>1, <2>2, <2>4
<1> QED BY <1>1, <1>2

LEMMA BaseStep == Base /\ [Next]_vars => Base'
<1> SUFFICES ASSUME Base, [Next]_vars PROVE Base'
  OBVIOUS
<1>0. /\ Typed /\ run \in RunRecords /\ job \in [Workers -> JobStates] /\ user \in UserRecords
      /\ \A w \in Workers : Placed(w)
  BY DEF Base
<1>p. ASSUME NEW w \in Workers, \A v \in Workers \ {w} : worker'[v] = worker[v], Placed(w)'
      PROVE  \A v \in Workers : Placed(v)'
  BY <1>0, <1>p DEF Placed, AtWork
<1>1. ASSUME NEW w \in Workers, Work(w) PROVE Base'
  <2>1. /\ run' \in RunRecords /\ UNCHANGED <<user, crashes>>
        /\ Typed' /\ \A v \in Workers \ {w} : worker'[v] = worker[v]
        /\ job' = job \/ job' = [job EXCEPT ![w] = "ended"]
    BY <1>0, <1>1, WorkSummary DEF Placed, Moves, JobStates
  <2>2. Placed(w)'
    BY <1>0, <1>1, WorkPlaced
  <2>3. job' \in [Workers -> JobStates]
    BY <1>0, <2>1 DEF JobStates
  <2> QED BY <1>0, <1>p, <2>1, <2>2, <2>3 DEF Base
<1>2. ASSUME NEW w \in Workers, Crash(w) PROVE Base'
  <2>1. Moves(w, {"dead"})
    BY <1>0, <1>2, CrashMoves
  <2>2. UNCHANGED <<run, job, user>>
    BY <1>2 DEF Crash
  <2> QED BY <1>0, <1>p, <2>1, <2>2 DEF Base, Moves, Placed, AtWork
<1>3. ASSUME NEW w \in Workers, Resume(w) PROVE Base'
  <2>1. Moves(w, {"start"})
    BY <1>0, <1>3, GoTurns DEF Resume, PCs
  <2>2. UNCHANGED <<run, job, user>>
    BY <1>3 DEF Resume
  <2> QED BY <1>0, <1>p, <2>1, <2>2 DEF Base, Moves, Placed, AtWork
<1>4. CASE Admit
  <2>1. First \in Workers /\ Moves(First, {"start"})
    BY <1>0, <1>4, AdmitMoves
  <2>2. run' \in RunRecords /\ job' \in [Workers -> JobStates] /\ user' = user
    BY <1>0, <1>4 DEF Admit, RunRecords, JobStates
  <2> QED BY <1>0, <1>p, <2>1, <2>2 DEF Base, Moves, Placed, AtWork
<1>5. CASE BeginCancel \/ CancelJob \/ BeginReapply \/ Reapply \/ BeginContinue
  <2>1. worker' = worker
    BY <1>5 DEF BeginCancel, CancelJob, BeginReapply, Reapply, BeginContinue
  <2>2. run' \in RunRecords
    BY <1>0, <1>5 DEF BeginCancel, CancelJob, BeginReapply, Reapply, BeginContinue, RunRecords
  <2>3. job' \in [Workers -> JobStates]
    BY <1>0, <1>5 DEF BeginCancel, CancelJob, BeginReapply, Reapply, BeginContinue, JobStates
  <2>4. user' \in UserRecords
    <3>1. CASE BeginCancel
      <4>1. user.cancels \in Nat
        BY <1>0 DEF UserRecords
      <4> DEFINE n == user.cancels + 1
      <4>2. n \in Nat
        BY <4>1
      <4>3. user' = [user EXCEPT !.cancelling = TRUE, !.cancels = n]
        BY <3>1 DEF BeginCancel
      <4> HIDE DEF n
      <4> QED BY <1>0, <4>2, <4>3 DEF UserRecords
    <3>2. CASE CancelJob
      BY <1>0, <3>2 DEF CancelJob, UserRecords
    <3>3. CASE BeginReapply
      <4>1. user.reapplies \in Nat
        BY <1>0 DEF UserRecords
      <4> DEFINE n == user.reapplies + 1
      <4>2. n \in Nat
        BY <4>1
      <4>3. user' = [user EXCEPT !.reapplying = TRUE, !.reapplies = n]
        BY <3>3 DEF BeginReapply
      <4> HIDE DEF n
      <4> QED BY <1>0, <4>2, <4>3 DEF UserRecords
    <3>4. CASE Reapply \/ BeginContinue
      BY <1>0, <3>4 DEF Reapply, BeginContinue, UserRecords
    <3> QED BY <1>5, <3>1, <3>2, <3>3, <3>4
  <2> QED BY <1>0, <2>1, <2>2, <2>3, <2>4 DEF Base, Placed, AtWork, Typed
<1>6. CASE Continue
  <2>1. user' \in UserRecords
    BY <1>0, <1>6 DEF Continue, UserRecords
  <2>2. CASE UNCHANGED <<run, job, worker, cand>>
    BY <1>0, <2>1, <2>2 DEF Base, Placed, AtWork, Typed
  <2>3. ASSUME NEW w \in Workers, Moves(w, {"start"}), run' \in RunRecords,
               job' = [job EXCEPT ![First] = IF @ = "cancelled" THEN "ended" ELSE @, ![w] = "running"]
        PROVE  Base'
    <3>1. job' \in [Workers -> JobStates]
      BY <1>0, <2>3, FirstAssumption DEF JobStates, Workers
    <3> QED BY <1>0, <1>p, <2>1, <2>3, <3>1 DEF Base, Moves, Placed, AtWork
  <2> QED BY <1>0, <1>6, <2>2, <2>3, ContinueMoves
<1>7. CASE UNCHANGED keywordVars
  BY <1>0, <1>7 DEF keywordVars, Base, Placed, AtWork, Typed
<1>8. CASE UNCHANGED vars
  BY <1>7, <1>8 DEF vars
<1> QED BY <1>1, <1>2, <1>3, <1>4, <1>5, <1>6, <1>7, <1>8 DEF Next

-----------------------------------------------------------------------------
(* Two workers are never at work on one run *)

\* A worker that is at work, or that the queue worker is going to resume.
Live(w) == AtWork(w) \/ (At(w, "dead") /\ job[w] = "running")

\* A worker that has not ended yet.
Busy(w) == Live(w) \/ worker[w].pc \in {"finish", "exit"}

Fresh(w) == At(w, "idle") /\ job[w] = "none"

Continuations == Workers \ {First}

\* A worker that ends does not die between its last write and its end.
EndsClean == CrashAt \cap {"finish", "exit"} = {}

\* The end of a cancelled worker is written after it was acknowledged, over a
\* continuation that may have started in between.  No harm comes of it unless
\* that continuation dies and the run is continued once more.
Tame == MaxCrashes = 0 \/ MaxCancels = 0 \/ \A v, w \in Continuations : v = w

\* A worker without a job does nothing; without a start there is no job.
NotStarted ==
  /\ \A w \in Workers : job[w] = "none" => At(w, "idle")
  /\ run.status = "none" => ~run.acked /\ \A w \in Workers : Fresh(w)
  /\ job[First] = "none" => run.status = "none"

\* While the first worker may go on, nobody was told that the run ended and
\* nobody has continued it.
FirstAlone ==
  /\ Live(First) => ~run.acked
  /\ Live(First) \/ (MaxCancels = 0 /\ Busy(First)) => \A w \in Continuations : Fresh(w)
  /\ MaxCancels = 0 => ~user.cancelling /\ (Busy(First) => job[First] = "running")

\* One continuation at a time, and its job tells of it.
LaterAlone ==
  /\ \A w \in Continuations : Busy(w) => job[w] = "running"
  /\ \A v, w \in Continuations : Busy(v) /\ Busy(w) => v = w
  /\ MaxCancels = 0 => \A w \in Continuations : Live(w) => ~run.acked

\* A request to continue was let in when nobody was left working.
Waiting ==
  user.continuing =>
    /\ run.status # "none" /\ ~Live(First)
    /\ \A w \in Continuations : ~Busy(w)
    /\ MaxCancels = 0 => ~Busy(First)

Crashless == MaxCrashes = 0 => crashes = 0 /\ \A w \in Workers : ~At(w, "dead")

Alone == NotStarted /\ FirstAlone /\ LaterAlone /\ Waiting /\ Crashless

LEMMA AloneInit == KeywordInit => Alone
<1> SUFFICES ASSUME KeywordInit PROVE Alone
  OBVIOUS
<1>1. /\ \A w \in Workers : worker[w].pc = "idle" /\ job[w] = "none"
      /\ run.status = "none" /\ ~run.acked /\ ~user.cancelling /\ ~user.continuing /\ crashes = 0
  BY IdleRecord DEF KeywordInit
<1>2. \A w \in Workers : Fresh(w) /\ ~Live(w) /\ ~Busy(w)
  BY <1>1 DEF Fresh, Live, Busy, At, AtWork
<1>3. First \in Workers
  BY FirstAssumption DEF Workers
<1>4. NotStarted /\ Crashless
  BY <1>1, <1>2 DEF NotStarted, Crashless, At
<1>5. FirstAlone /\ LaterAlone /\ Waiting
  BY <1>1, <1>2, <1>3 DEF FirstAlone, LaterAlone, Waiting, Continuations
<1> QED BY <1>4, <1>5 DEF Alone

\* A worker's own step, by what it does to the job and the acknowledgement.
LEMMA AloneWork ==
  ASSUME Base, Alone, NEW w \in Workers, Work(w)
  PROVE  Alone'
<1>0. /\ Typed /\ run \in RunRecords /\ job \in [Workers -> JobStates] /\ First \in Workers
  BY FirstAssumption DEF Base, Workers
<1>1. /\ UNCHANGED <<user, crashes>> /\ (run.status # "none" => run'.status # "none")
      /\ \A v \in Workers \ {w} : worker'[v] = worker[v]
      /\ \/ /\ AtWork(w) /\ worker'[w].pc \in Before /\ UNCHANGED job
            /\ run'.acked = run.acked
         \/ AtWork(w) /\ worker'[w].pc \in {"finish", "exit"} /\ UNCHANGED job
         \/ At(w, "finish") /\ worker'[w].pc = "exit" /\ UNCHANGED job
         \/ At(w, "exit") /\ worker'[w].pc = "idle" /\ job' = [job EXCEPT ![w] = "ended"] /\ UNCHANGED run
  BY <1>0, WorkSummary DEF Base, Placed, Moves, JobStates
<1>2. run.status # "none"
  BY <1>1 DEF Alone, NotStarted, Fresh, At, AtWork
<1>3. /\ \A v \in Workers \ {w} : job'[v] = job[v] /\ (Live(v)' <=> Live(v)) /\ (Busy(v)' <=> Busy(v))
                                  /\ (Fresh(v)' <=> Fresh(v))
      /\ Busy(w) /\ (Live(w)' => Live(w) /\ run'.acked = run.acked)
      /\ job'[w] = job[w] \/ (job'[w] = "ended" /\ ~Busy(w)')
      /\ ~At(w, "dead")' /\ (At(w, "idle")' => job'[w] = "ended")
      /\ job[w] # "none" /\ job'[w] # "none"
  <2>1. job[w] # "none"
    BY <1>1 DEF Alone, NotStarted, At, AtWork
  <2> QED BY <1>0, <1>1, <2>1 DEF Live, Busy, Fresh, At, AtWork, Before, PCs
<1>4. NotStarted'
  BY <1>0, <1>1, <1>2, <1>3 DEF Alone, NotStarted, At
<1>5. FirstAlone'
  <2>1. CASE w = First
    BY <1>0, <1>1, <1>3, <2>1 DEF Alone, FirstAlone, Continuations, Busy
  <2>2. CASE w # First
    <3>1. ~Live(First) /\ (MaxCancels = 0 => ~Busy(First))
      BY <1>3, <2>2 DEF Alone, FirstAlone, Continuations, Fresh, Busy, Live, At, AtWork
    <3> QED BY <1>0, <1>1, <1>3, <2>2, <3>1 DEF Alone, FirstAlone
  <2> QED BY <2>1, <2>2
<1>6. LaterAlone'
  <2>1. CASE w = First
    <3>1. \A v \in Continuations : job'[v] = job[v] /\ (Live(v)' <=> Live(v)) /\ (Busy(v)' <=> Busy(v))
      BY <1>3, <2>1 DEF Continuations
    <3>2. MaxCancels = 0 => \A v \in Continuations : ~Live(v)
      BY <1>3, <2>1 DEF Alone, FirstAlone, Fresh, Live, At, AtWork
    <3> QED BY <3>1, <3>2 DEF Alone, LaterAlone
  <2>2. CASE w # First
    BY <1>3, <2>2 DEF Alone, LaterAlone, Continuations, Busy
  <2> QED BY <2>1, <2>2
<1>7. Waiting'
  BY <1>0, <1>1, <1>2, <1>3 DEF Alone, Waiting, Continuations
<1>8. Crashless'
  BY <1>1, <1>3 DEF Alone, Crashless, At
<1> QED BY <1>4, <1>5, <1>6, <1>7, <1>8 DEF Alone

LEMMA AloneStep ==
  ASSUME EndsClean, Tame, Base, Alone, [Next]_vars
  PROVE  Alone'
<1>0. /\ Typed /\ run \in RunRecords /\ job \in [Workers -> JobStates] /\ user \in UserRecords
      /\ First \in Workers
  BY FirstAssumption DEF Base, Workers
<1> USE DEF Alone
<1>1. ASSUME NEW w \in Workers, Crash(w) PROVE Alone'
  <2>1. /\ worker'[w].pc = "dead" /\ \A v \in Workers \ {w} : worker'[v] = worker[v]
        /\ UNCHANGED <<run, job, user>>
    BY <1>0, <1>1, CrashMoves DEF Moves, Crash
  <2>2. AtWork(w) /\ MaxCrashes # 0
    <3>1. worker[w].pc \in CrashAt /\ crashes < MaxCrashes
      BY <1>1 DEF Crash
    <3> QED BY <3>1, OnlyTheWorkingDie DEF EndsClean, Crashless, AtWork
  <2>3. /\ \A v \in Workers : (Live(v)' => Live(v)) /\ (Busy(v)' => Busy(v))
        /\ \A v \in Workers \ {w} : Fresh(v)' <=> Fresh(v)
        /\ job[w] # "none" /\ ~Fresh(w)
    BY <2>1, <2>2 DEF Live, Busy, Fresh, At, AtWork, NotStarted
  <2>4. NotStarted'
    BY <1>0, <2>1, <2>3 DEF NotStarted, At
  <2>5. FirstAlone'
    BY <1>0, <2>1, <2>3 DEF FirstAlone, Continuations
  <2>6. LaterAlone'
    BY <2>1, <2>3 DEF LaterAlone, Continuations
  <2>7. Waiting' /\ Crashless'
    BY <1>0, <2>1, <2>2, <2>3 DEF Waiting, Crashless, Continuations
  <2> QED BY <2>4, <2>5, <2>6, <2>7
<1>2. ASSUME NEW w \in Workers, Resume(w) PROVE Alone'
  <2>1. /\ worker'[w].pc = "start" /\ \A v \in Workers \ {w} : worker'[v] = worker[v]
        /\ UNCHANGED <<run, job, user, crashes>>
    BY <1>0, <1>2, GoTurns DEF Moves, Resume, PCs
  <2>2. At(w, "dead") /\ job[w] = "running"
    BY <1>2 DEF Resume, Lapsed
  <2>3. /\ \A v \in Workers : (Live(v)' <=> Live(v)) /\ (Busy(v)' <=> Busy(v))
        /\ \A v \in Workers : Fresh(v)' <=> Fresh(v)
        /\ job[w] # "none"
    BY <2>1, <2>2 DEF Live, Busy, Fresh, At, AtWork
  <2>4. NotStarted'
    BY <1>0, <2>1, <2>3 DEF NotStarted, At
  <2>5. FirstAlone'
    BY <1>0, <2>1, <2>3 DEF FirstAlone, Continuations
  <2>6. LaterAlone'
    BY <2>1, <2>3 DEF LaterAlone, Continuations
  <2>7. Waiting' /\ Crashless'
    BY <1>0, <2>1, <2>3 DEF Waiting, Crashless, Continuations, At
  <2> QED BY <2>4, <2>5, <2>6, <2>7
<1>3. CASE Admit
  <2>1. /\ worker'[First].pc = "start" /\ \A v \in Continuations : worker'[v] = worker[v]
        /\ run.status = "none" /\ run'.status = "running" /\ run'.acked = run.acked
        /\ job' = [job EXCEPT ![First] = "running"] /\ UNCHANGED <<user, crashes>>
    BY <1>0, <1>3, AdmitMoves DEF Moves, Admit, RunRecords, Continuations
  <2>2. \A v \in Workers : Fresh(v)
    BY <2>1 DEF NotStarted
  <2>3. /\ \A v \in Continuations : Fresh(v)' /\ ~Live(v)' /\ ~Busy(v)'
        /\ \A v \in Workers : ~Live(v) /\ ~Busy(v)
        /\ ~At(First, "dead")'
    BY <1>0, <2>1, <2>2 DEF Live, Busy, Fresh, At, AtWork, Continuations
  <2>4. NotStarted'
    BY <1>0, <2>1, <2>3 DEF NotStarted, At, Continuations, Fresh
  <2>5. ~run.acked
    BY <2>1 DEF NotStarted
  <2>6. FirstAlone'
    BY <1>0, <2>1, <2>3, <2>5 DEF FirstAlone
  <2>7. LaterAlone'
    BY <2>1, <2>3 DEF LaterAlone
  <2>8. Waiting' /\ Crashless'
    BY <1>0, <2>1, <2>2, <2>3 DEF Waiting, Crashless, Continuations, At
  <2> QED BY <2>4, <2>6, <2>7, <2>8
<1>4. CASE BeginCancel \/ BeginReapply \/ Reapply
  <2>1. /\ UNCHANGED <<worker, job, crashes>> /\ run'.status = run.status /\ run'.acked = run.acked
        /\ user'.continuing = user.continuing
        /\ MaxCancels = 0 => user'.cancelling = user.cancelling
    <3>1. CASE BeginCancel
      <4>1. user.cancels \in Nat /\ user.cancels < MaxCancels
        BY <1>0, <3>1 DEF BeginCancel, UserRecords
      <4>2. MaxCancels # 0
        BY <4>1
      <4>3. user'.continuing = user.continuing
        BY <1>0, <3>1 DEF BeginCancel, UserRecords
      <4>4. UNCHANGED <<worker, job, crashes>> /\ run'.status = run.status /\ run'.acked = run.acked
        BY <1>0, <3>1 DEF BeginCancel, RunRecords
      <4> QED BY <4>2, <4>3, <4>4
    <3>2. CASE BeginReapply \/ Reapply
      BY <1>0, <3>2 DEF BeginReapply, Reapply, UserRecords
    <3> QED BY <1>4, <3>1, <3>2
  <2> QED BY <2>1 DEF NotStarted, FirstAlone, LaterAlone, Waiting, Crashless, Live, Busy, Fresh, At, AtWork
<1>5. CASE CancelJob
  <2>1. /\ UNCHANGED <<worker, crashes>> /\ run'.status = "cancelled" /\ run'.acked = run.acked
        /\ user'.continuing = user.continuing /\ ~user'.cancelling /\ user.cancelling
        /\ job' = [job EXCEPT ![First] = "cancelled"]
    BY <1>0, <1>5 DEF CancelJob, RunRecords, UserRecords
  <2>2. MaxCancels # 0
    BY <2>1 DEF FirstAlone
  <2>3. /\ \A v \in Workers : (Live(v)' => Live(v)) /\ (Busy(v)' => Busy(v))
        /\ \A v \in Continuations : job'[v] = job[v] /\ (Fresh(v)' <=> Fresh(v))
    BY <1>0, <2>1 DEF Live, Busy, Fresh, At, AtWork, Continuations
  <2>4. NotStarted'
    BY <1>0, <2>1, <2>3 DEF NotStarted, At, Continuations
  <2>5. FirstAlone' /\ LaterAlone'
    BY <2>1, <2>2, <2>3, <1>0 DEF FirstAlone, LaterAlone, Continuations
  <2>6. Waiting' /\ Crashless'
    BY <1>0, <2>1, <2>2, <2>3 DEF Waiting, Crashless, Continuations, At
  <2> QED BY <2>4, <2>5, <2>6
<1>6. CASE BeginContinue
  <2>1. /\ UNCHANGED <<worker, run, job, crashes>> /\ user'.cancelling = user.cancelling
        /\ WorkerFinished /\ \E w \in Workers : job[w] = "none"
    BY <1>0, <1>6 DEF BeginContinue, UserRecords
  <2>2. /\ run.status # "none" /\ (run.acked \/ Silent)
        /\ \A w \in Workers : job[w] = "running" => At(w, "dead")
    BY <2>1 DEF WorkerFinished, Over
  <2>3. ASSUME NEW w \in Workers, Live(w), ~run.acked PROVE FALSE
    BY <2>2, <2>3 DEF Silent, Live, At, AtWork
  <2>4. ~Live(First)
    BY <1>0, <2>3 DEF FirstAlone
  <2>5. ASSUME NEW w \in Continuations, Busy(w) PROVE FALSE
    <3>1. w \in Workers /\ job[w] = "running" /\ At(w, "dead") /\ Live(w)
      BY <2>2, <2>5 DEF LaterAlone, Continuations, Live
    <3>2. run.acked
      BY <2>3, <3>1
    <3>3. MaxCrashes # 0
      BY <3>1 DEF Crashless
    <3>4. MaxCancels # 0
      BY <2>5, <3>1, <3>2 DEF LaterAlone
    <3>5. PICK v \in Workers : job[v] = "none"
      BY <2>1
    <3>6. v \in Continuations
      BY <2>2, <3>5 DEF NotStarted, Continuations
    <3> QED BY <2>5, <3>1, <3>3, <3>4, <3>5, <3>6 DEF Tame
  <2>6. MaxCancels = 0 => ~Busy(First)
    BY <1>0, <2>2, <2>4 DEF FirstAlone, Busy, At
  <2>7. /\ \A v \in Workers : (Live(v)' <=> Live(v)) /\ (Busy(v)' <=> Busy(v)) /\ (Fresh(v)' <=> Fresh(v))
        /\ \A v \in Workers, p \in PCs : At(v, p)' <=> At(v, p)
    BY <2>1 DEF Live, Busy, Fresh, At, AtWork
  <2>8. NotStarted' /\ FirstAlone' /\ LaterAlone' /\ Crashless'
    BY <2>1, <2>7, <1>0 DEF NotStarted, FirstAlone, LaterAlone, Crashless, Continuations, At
  <2>9. Waiting'
    BY <1>0, <2>1, <2>2, <2>4, <2>5, <2>6, <2>7 DEF Waiting, Continuations
  <2> QED BY <2>8, <2>9
<1>7. CASE Continue
  <2>1. user.continuing /\ ~user'.continuing /\ user'.cancelling = user.cancelling /\ UNCHANGED crashes
    BY <1>0, <1>7 DEF Continue, UserRecords
  <2>2. CASE UNCHANGED <<run, job, worker, cand>>
    BY <2>1, <2>2 DEF NotStarted, FirstAlone, LaterAlone, Waiting, Crashless, Live, Busy, Fresh, At, AtWork
  <2>3. ASSUME NEW w \in Workers, job[w] = "none", Moves(w, {"start"}), run'.status = "running", ~run'.acked,
               job' = [job EXCEPT ![First] = IF @ = "cancelled" THEN "ended" ELSE @, ![w] = "running"]
        PROVE  Alone'
    <3>1. /\ run.status # "none" /\ ~Live(First) /\ (MaxCancels = 0 => ~Busy(First))
          /\ \A v \in Continuations : ~Busy(v)
      BY <2>1 DEF Waiting
    <3>2. w \in Continuations /\ w # First /\ job[First] # "none"
      BY <2>3, <3>1 DEF NotStarted, Continuations
    <3>3. /\ worker'[w].pc = "start" /\ \A v \in Workers \ {w} : worker'[v] = worker[v]
          /\ job'[w] = "running" /\ job'[First] # "none" /\ (job'[First] = "running" => job[First] = "running")
          /\ \A v \in Continuations \ {w} : job'[v] = job[v]
      BY <1>0, <2>3, <3>2 DEF Moves, Continuations
    <3>4. /\ ~Live(First)' /\ (MaxCancels = 0 => ~Busy(First)')
          /\ \A v \in Continuations \ {w} : ~Busy(v)'
      BY <1>0, <3>1, <3>2, <3>3 DEF Live, Busy, At, AtWork, Continuations
    <3>5. NotStarted'
      BY <1>0, <2>3, <3>2, <3>3 DEF NotStarted, At, Continuations
    <3>6. FirstAlone'
      BY <2>1, <3>4 DEF FirstAlone
    <3>7. LaterAlone'
      BY <2>3, <3>3, <3>4 DEF LaterAlone
    <3>8. Waiting' /\ Crashless'
      BY <2>1, <3>3 DEF Waiting, Crashless, At
    <3> QED BY <3>5, <3>6, <3>7, <3>8
  <2> QED BY <1>0, <1>7, <2>2, <2>3, ContinueMoves
<1>8. CASE UNCHANGED keywordVars
  BY <1>8 DEF keywordVars, NotStarted, FirstAlone, LaterAlone, Waiting, Crashless, Live, Busy, Fresh, At, AtWork
<1>9. CASE UNCHANGED vars
  BY <1>8, <1>9 DEF vars
<1> QED BY <1>1, <1>2, <1>3, <1>4, <1>5, <1>6, <1>7, <1>8, <1>9, AloneWork DEF Next

\* Nobody else is at work.
LEMMA AloneIsOne == Base /\ Alone => OneWorker
<1> SUFFICES ASSUME Base, Alone, NEW v \in Workers, NEW w \in Workers, AtWork(v), AtWork(w) PROVE v = w
  BY DEF OneWorker
<1> QED BY DEF Alone, FirstAlone, LaterAlone, Live, Busy, Fresh, At, AtWork, Continuations

\* Two workers are never at work on one run, and a continuation starts only
\* when the worker before it has stopped: for any number of workers where
\* nobody cancels or nobody dies, and whatever they do where the run is
\* continued once.
THEOREM OneWorkerCorrect == EndsClean /\ Tame /\ Spec => []OneWorker
<1> SUFFICES ASSUME EndsClean, Tame PROVE Spec => []OneWorker
  OBVIOUS
<1>1. KeywordInit => Base /\ Alone
  BY BaseInit, AloneInit
<1>2. Base /\ Alone /\ [Next]_vars => (Base /\ Alone)'
  BY BaseStep, AloneStep
<1> QED BY <1>1, <1>2, AloneIsOne, PTL DEF Spec

-----------------------------------------------------------------------------
(* What a worker takes up has not been delivered *)

Candidates ==
  [reached : {"none", "discovered", "enriched", "sampled", "scraped"},
   status : {"none", "pending", "passed", "rejected", "needs_sampling", "error"},
   deep : {"none", "done", "error"}]

\* An item a stage still has to deal with.
Waits(s, i) ==
  /\ s = "discovery"   => i \notin pairsDone
  /\ s = "enrichment"  => cand[i].reached = "discovered"
  /\ s = "sampling"    => cand[i].reached = "enriched"
  /\ s = "deep_scrape" => cand[i].reached \in {"sampled", "scraped"} /\ cand[i].deep # "done"

Fetching == {"charge", "marked", "asked", "taken", "call", "record"}

\* A worker's list of items, and the items it is dealing with.
Tasks(w) ==
  worker[w].pc \in Fetching \cup {"pick", "settle"} =>
    /\ worker[w].stage \in Stages
    /\ worker[w].todo \subseteq ItemsOf(worker[w].stage)
    /\ worker[w].cur \subseteq ItemsOf(worker[w].stage)
    /\ \A i \in worker[w].todo : Waits(worker[w].stage, i)
    /\ worker[w].pc \in Fetching => worker[w].cur \subseteq worker[w].todo
    /\ At(w, "record") => worker[w].stage = "discovery"
    /\ At(w, "settle") => /\ worker[w].cur \cap worker[w].todo = {}
                          /\ \A i \in worker[w].cur : <<worker[w].stage, i>> \notin delivered

\* What is stored of a profile shows what was delivered of it.
ShownOf(p) ==
  /\ <<"enrichment", p>> \in delivered => cand[p].reached \in {"enriched", "sampled", "scraped"}
  /\ <<"sampling", p>> \in delivered => cand[p].reached \in {"sampled", "scraped"}
  /\ <<"deep_scrape", p>> \in delivered => cand[p].reached = "scraped" /\ cand[p].deep = "done"
  /\ cand[p].status = "passed" => cand[p].reached \in {"sampled", "scraped"}
  /\ cand[p].status = "needs_sampling" => cand[p].reached \notin {"sampled", "scraped"}

Shown ==
  /\ cand \in [Profiles -> Candidates]
  /\ \A k \in Pairs : <<"discovery", k>> \in delivered => k \in pairsDone
  /\ \A p \in Profiles : ShownOf(p)

Tasking == Shown /\ \A w \in Workers : AtWork(w) => Tasks(w)

LEMMA ItemsOfAre ==
  /\ ItemsOf("discovery") = Pairs /\ ItemsOf("enrichment") = Profiles
  /\ ItemsOf("sampling") = Profiles /\ ItemsOf("deep_scrape") = Profiles
BY DEF ItemsOf

LEMMA WaitsUndelivered ==
  ASSUME Shown, NEW s \in Stages, NEW i \in ItemsOf(s), Waits(s, i)
  PROVE  <<s, i>> \notin delivered
BY StagesAre, ItemsOfAre DEF Shown, ShownOf, Waits

LEMMA TaskingInit == KeywordInit => Tasking
<1> SUFFICES ASSUME KeywordInit PROVE Tasking
  OBVIOUS
<1>1. cand \in [Profiles -> Candidates] /\ \A p \in Profiles : cand[p].status = "none"
  BY DEF KeywordInit, Unknown, Candidates
<1>2. delivered = {} /\ \A w \in Workers : worker[w].pc = "idle"
  BY IdleRecord DEF KeywordInit
<1> QED BY <1>1, <1>2 DEF Tasking, Shown, ShownOf, AtWork

\* An item that nothing was stored of still waits.
LEMMA WaitsKept ==
  ASSUME NEW s \in Stages, NEW i \in ItemsOf(s), Waits(s, i),
         s = "discovery" => i \notin pairsDone', s # "discovery" => cand'[i] = cand[i]
  PROVE  Waits(s, i)'
BY StagesAre DEF Waits

\* The profiles in S were stored; the others stay as they were.
LEMMA ShownMore ==
  ASSUME Shown, NEW s, NEW S \in SUBSET Profiles, s # "discovery",
         cand' \in [Profiles -> Candidates], UNCHANGED pairsDone,
         \A p \in Profiles \ S : cand'[p] = cand[p],
         delivered' \subseteq delivered \cup ({s} \X S),
         \A p \in S : ShownOf(p)'
  PROVE  Shown'
<1>1. ASSUME NEW p \in Profiles PROVE ShownOf(p)'
  <2>1. CASE p \in S
    BY <2>1
  <2>2. CASE p \notin S
    <3>1. cand'[p] = cand[p] /\ ShownOf(p)
      BY <2>2 DEF Shown
    <3>2. \A t \in Stages : <<t, p>> \in delivered' => <<t, p>> \in delivered
      BY <2>2
    <3> QED BY <3>1, <3>2, StagesAre DEF ShownOf
  <2> QED BY <2>1, <2>2
<1>2. ASSUME NEW k \in Pairs, <<"discovery", k>> \in delivered' PROVE k \in pairsDone'
  BY <1>2 DEF Shown
<1> QED BY <1>1, <1>2 DEF Shown

\* What makes up a worker's tasks after a step.
LEMMA TasksAre ==
  ASSUME NEW w \in Workers, NEW s \in Stages, NEW todo \in SUBSET ItemsOf(s), NEW cur \in SUBSET ItemsOf(s),
         worker'[w].stage = s, worker'[w].todo = todo, worker'[w].cur = cur,
         \A i \in todo : Waits(s, i)',
         worker'[w].pc \in Fetching => cur \subseteq todo,
         worker'[w].pc = "record" => s = "discovery",
         worker'[w].pc = "settle" => cur \cap todo = {} /\ \A i \in cur : <<s, i>> \notin delivered'
  PROVE  Tasks(w)'
BY DEF Tasks, At

\* A worker outside the stages has no tasks.
LEMMA TasksNone ==
  ASSUME NEW w, worker'[w].pc \notin Fetching \cup {"pick", "settle"}
  PROVE  Tasks(w)'
BY DEF Tasks

LEMMA TasksEnter ==
  ASSUME Base, Tasking, NEW w \in Workers, EnterStage(w)
  PROVE  Shown' /\ Tasks(w)'
<1>s. PICK s : s = worker'[w].stage
  OBVIOUS
<1>0. Typed /\ Shown /\ UNCHANGED <<pairsDone, delivered>>
  BY DEF Base, Tasking, EnterStage
<1>1. PICK free \in SUBSET Todo(s) :
         /\ worker'[w].todo = Todo(s) \ free
         /\ s # "enrichment" => free = {}
         /\ \E good \in SUBSET free :
              cand' = [p \in Profiles |-> IF p \in free
                         THEN Judged(cand[p], "enriched", "pending", p \in good) ELSE cand[p]]
  BY <1>s, <1>0, EnterMoves
<1>2. s \in Stages /\ worker'[w].pc = "pick" /\ worker'[w].cur = {}
  BY <1>s, <1>0, EnterMoves DEF Moves
<1>3. PICK good \in SUBSET free :
        cand' = [p \in Profiles |-> IF p \in free
                   THEN Judged(cand[p], "enriched", "pending", p \in good) ELSE cand[p]]
  BY <1>1
<1>4. \A p \in free : p \in Profiles /\ cand[p].reached = "discovered"
  BY <1>1, <1>2, StagesAre DEF Todo, Having
<1>5. Shown'
  <2>1. cand' \in [Profiles -> Candidates]
    <3>1. ASSUME NEW p \in free
          PROVE  Judged(cand[p], "enriched", "pending", p \in good) \in Candidates
      BY <1>0, <1>4, <3>1 DEF Judged, Candidates, Shown
    <3> QED BY <1>0, <1>3, <3>1 DEF Shown
  <2>2. ASSUME NEW p \in Profiles PROVE ShownOf(p)'
    <3>1. CASE p \notin free
      <4>1. cand'[p] = cand[p]
        BY <1>3, <3>1
      <4> QED BY <1>0, <4>1 DEF Shown, ShownOf
    <3>2. CASE p \in free
      <4>1. cand[p] \in Candidates /\ cand'[p] = Judged(cand[p], "enriched", "pending", p \in good)
        BY <1>0, <1>3, <3>2 DEF Shown
      <4>2. cand'[p].reached = "enriched" /\ cand'[p].status \in {"pending", "rejected"}
        BY <4>1 DEF Judged, Candidates
      <4> QED BY <1>0, <1>4, <3>2, <4>2 DEF Shown, ShownOf
    <3> QED BY <3>1, <3>2
  <2> QED BY <1>0, <2>1, <2>2 DEF Shown
<1>6. ASSUME NEW i \in Todo(s) \ free PROVE Waits(s, i)'
  <2>1. Waits(s, i)
    <3>1. CASE s = "discovery"
      BY <1>6, <3>1 DEF Todo, Waits
    <3>2. CASE s = "enrichment"
      BY <1>6, <3>2 DEF Todo, Having, Waits
    <3>3. CASE s = "sampling"
      BY <1>6, <3>3 DEF Todo, Having, Waits
    <3>4. CASE s = "deep_scrape"
      BY <1>0, <1>6, <3>4 DEF Todo, Waits, Shown, ShownOf
    <3> QED BY <1>2, <3>1, <3>2, <3>3, <3>4, StagesAre
  <2>2. s # "discovery" => cand'[i] = cand[i]
    BY <1>2, <1>3, <1>6, ItemsAre, ItemsOfAre, StagesAre
  <2>3. i \in ItemsOf(s) /\ pairsDone' = pairsDone
    BY <1>0, <1>2, <1>6, ItemsAre
  <2>4. s = "discovery" => i \notin pairsDone'
    BY <2>1, <2>3 DEF Waits
  <2> QED BY <1>2, <2>1, <2>2, <2>3, <2>4, WaitsKept
<1>7. Todo(s) \subseteq ItemsOf(s)
  BY <1>2, ItemsAre
<1>8. worker'[w].pc \notin Fetching
  BY <1>2 DEF Fetching
<1> QED BY <1>s, <1>1, <1>2, <1>5, <1>6, <1>7, <1>8, TasksAre

\* What a worker at work knows of its tasks, by rigid names.
LEMMA TasksKnown ==
  ASSUME Tasking, NEW w \in Workers, AtWork(w), worker[w].pc \in Fetching \cup {"pick", "settle"},
         NEW s, s = worker[w].stage
  PROVE  /\ s \in Stages /\ worker[w].todo \in SUBSET ItemsOf(s) /\ worker[w].cur \in SUBSET ItemsOf(s)
         /\ \A i \in worker[w].todo : Waits(s, i) /\ <<s, i>> \notin delivered
         /\ worker[w].pc \in Fetching => worker[w].cur \subseteq worker[w].todo
         /\ At(w, "record") => s = "discovery"
         /\ At(w, "settle") => /\ worker[w].cur \cap worker[w].todo = {}
                               /\ \A i \in worker[w].cur : <<s, i>> \notin delivered
BY WaitsUndelivered DEF Tasking, Tasks

\* A step that stores nothing and lists nothing new.
LEMMA TasksKept ==
  ASSUME Tasking, NEW w \in Workers, AtWork(w), worker[w].pc \in Fetching \cup {"pick", "settle"},
         UNCHANGED <<pairsDone, cand, delivered>>, worker'[w].stage = worker[w].stage,
         NEW todo, todo = worker'[w].todo, todo \subseteq worker[w].todo,
         NEW cur, cur = worker'[w].cur, cur \subseteq worker[w].cur \/ cur \subseteq worker[w].todo,
         worker'[w].pc \in Fetching => cur \subseteq todo,
         worker'[w].pc = "record" => worker[w].stage = "discovery",
         worker'[w].pc = "settle" => cur \cap todo = {} /\ cur \subseteq worker[w].cur /\ ~At(w, "pick")
  PROVE  Shown' /\ Tasks(w)'
<1>s. PICK s : s = worker[w].stage
  OBVIOUS
<1>1. /\ s \in Stages /\ worker[w].todo \in SUBSET ItemsOf(s) /\ worker[w].cur \in SUBSET ItemsOf(s)
      /\ \A i \in worker[w].todo : Waits(s, i) /\ <<s, i>> \notin delivered
      /\ worker[w].pc \in Fetching => worker[w].cur \subseteq worker[w].todo
      /\ At(w, "settle") => \A i \in worker[w].cur : <<s, i>> \notin delivered
  BY <1>s, TasksKnown
<1>2. Shown'
  BY DEF Tasking, Shown, ShownOf
<1>3. \A i \in todo : Waits(s, i)'
  BY <1>1 DEF Waits
<1>4. worker'[w].pc = "settle" => \A i \in cur : <<s, i>> \notin delivered'
  BY <1>1 DEF At
<1>5. todo \in SUBSET ItemsOf(s) /\ cur \in SUBSET ItemsOf(s)
  BY <1>1
<1> QED BY <1>s, <1>1, <1>2, <1>3, <1>4, <1>5, TasksAre

\* What is stored of a profile of the current items of a stage.
Stores(s, p) ==
  /\ cand'[p] \in Candidates
  /\ s \in {"enrichment", "sampling", "deep_scrape"}
  /\ s = "enrichment" => cand'[p].reached = "enriched" /\ cand'[p].status \in {"pending", "rejected"}
  /\ s = "sampling" => cand'[p].reached = "sampled" /\ cand'[p].status \in {"passed", "rejected"}
  /\ s = "deep_scrape" => /\ cand'[p].reached = "scraped" /\ cand'[p].deep = "done"
                          /\ cand'[p].status = cand[p].status

\* A profile whose posts were sampled, and one whose comments were collected.
LEMMA StoresSampled ==
  ASSUME NEW p \in Profiles, cand[p] \in Candidates, NEW good \in BOOLEAN,
         cand'[p] = Judged(cand[p], "sampled", "passed", good)
  PROVE  Stores("sampling", p)
<1>1. CASE good
  BY <1>1 DEF Judged, Candidates, Stores
<1>2. CASE ~good
  BY <1>2 DEF Judged, Candidates, Stores
<1> QED BY <1>1, <1>2

LEMMA StoresScraped ==
  ASSUME NEW p \in Profiles, cand[p] \in Candidates,
         cand'[p] = [cand[p] EXCEPT !.deep = "done", !.reached = "scraped"]
  PROVE  Stores("deep_scrape", p)
BY DEF Candidates, Stores

\* Profiles of a stage are stored, and with it delivered or found to need
\* nothing; nothing else of what was listed changes.
LEMMA StoredTasks ==
  ASSUME Tasking, NEW w \in Workers, AtWork(w), worker[w].pc \in Fetching \cup {"pick"},
         UNCHANGED pairsDone, NEW S, S \subseteq worker[w].todo, S \subseteq Profiles,
         NEW s, s = worker[w].stage, worker'[w].stage = s,
         cand' \in [Profiles -> Candidates],
         \A p \in Profiles \ S : cand'[p] = cand[p], \A p \in S : Stores(s, p),
         S = {} => s # "discovery",
         delivered' = delivered \/ delivered' = delivered \cup ({s} \X S),
         NEW todo, todo = worker'[w].todo, todo \subseteq worker[w].todo \ S,
         NEW cur, cur = worker'[w].cur, cur \subseteq worker[w].cur,
         worker'[w].pc \notin Fetching,
         worker'[w].pc = "settle" => cur \cap todo = {} /\ cur \cap S = {} /\ ~At(w, "pick")
  PROVE  Shown' /\ Tasks(w)'
<1>1. /\ s \in Stages /\ worker[w].todo \in SUBSET ItemsOf(s) /\ worker[w].cur \in SUBSET ItemsOf(s)
      /\ \A i \in worker[w].todo : Waits(s, i) /\ <<s, i>> \notin delivered
      /\ worker[w].pc \in Fetching => worker[w].cur \subseteq worker[w].todo
  BY TasksKnown
<1>2. s # "discovery"
  BY DEF Stores
<1>3. ASSUME NEW p \in S PROVE ShownOf(p)'
  <2>1. ShownOf(p) /\ Waits(s, p) /\ Stores(s, p) /\ p \in Profiles
    BY <1>1, <1>3 DEF Tasking, Shown
  <2>2. \A t \in Stages \ {s} : <<t, p>> \in delivered' => <<t, p>> \in delivered
    OBVIOUS
  <2>3. CASE s = "enrichment"
    BY <2>1, <2>2, <2>3, StagesAre DEF ShownOf, Waits, Stores
  <2>4. CASE s = "sampling"
    BY <2>1, <2>2, <2>4, StagesAre DEF ShownOf, Waits, Stores
  <2>5. CASE s = "deep_scrape"
    BY <2>1, <2>2, <2>5, StagesAre DEF ShownOf, Waits, Stores
  <2> QED BY <1>1, <1>2, <2>3, <2>4, <2>5, StagesAre
<1>4. Shown'
  <2>1. delivered' \subseteq delivered \cup ({s} \X S)
    OBVIOUS
  <2> QED BY <1>2, <1>3, <2>1, ShownMore DEF Tasking
<1>5. ItemsOf(s) = Profiles
  BY <1>1, <1>2, StagesAre, ItemsOfAre
<1>6. ASSUME NEW i \in todo PROVE Waits(s, i)'
  <2>1. Waits(s, i) /\ i \in ItemsOf(s) /\ cand'[i] = cand[i]
    BY <1>1, <1>5, <1>6
  <2> QED BY <1>1, <1>2, <2>1, WaitsKept
<1>7. ASSUME worker'[w].pc = "settle", NEW i \in cur PROVE <<s, i>> \notin delivered'
  <2>1. <<s, i>> \notin delivered /\ i \notin S
    BY <1>1, <1>7 DEF At
  <2> QED BY <2>1
<1>8. todo \in SUBSET ItemsOf(s) /\ cur \in SUBSET ItemsOf(s)
  BY <1>1
<1>9. worker'[w].pc # "record"
  BY DEF Fetching
<1> QED BY <1>1, <1>4, <1>6, <1>7, <1>8, <1>9, TasksAre

LEMMA TasksPick ==
  ASSUME Base, Tasking, NEW w \in Workers, Pick(w)
  PROVE  Shown' /\ Tasks(w)'
<1>0. Typed /\ AtWork(w) /\ At(w, "pick") /\ UNCHANGED <<pairsDone, delivered>>
  BY DEF Base, Pick, At, AtWork
<1>s. PICK s : s = worker[w].stage
  OBVIOUS
<1>1. s \in Stages /\ worker[w].todo \in SUBSET ItemsOf(s) /\ worker'[w].stage = s
  BY <1>0, <1>s, TasksKnown, PickMoves DEF At
<1>2. PICK chunk \in SUBSET worker[w].todo :
              \/ /\ worker'[w].cur = chunk /\ worker'[w].todo = worker[w].todo
                 /\ Moves(w, {"charge", "call"}) /\ UNCHANGED cand
              \/ /\ Moves(w, {"pick"}) /\ worker'[w].cur = worker[w].cur
                 /\ worker'[w].todo = worker[w].todo \ chunk
                 /\ \E p \in chunk, good \in BOOLEAN :
                      \/ /\ s = "sampling"
                         /\ cand' = [cand EXCEPT ![p] = Judged(@, "sampled", "passed", good)]
                      \/ /\ s = "deep_scrape"
                         /\ cand' = [cand EXCEPT ![p] = [@ EXCEPT !.deep = "done", !.reached = "scraped"]]
  BY <1>0, <1>s, PickMoves DEF Moves
<1>t. PICK todo, cur : todo = worker'[w].todo /\ cur = worker'[w].cur
  OBVIOUS
<1>3. CASE /\ worker'[w].cur = chunk /\ worker'[w].todo = worker[w].todo
           /\ Moves(w, {"charge", "call"}) /\ UNCHANGED cand
  <2>1. worker'[w].pc \in {"charge", "call"}
    BY <1>3 DEF Moves
  <2> QED BY <1>0, <1>s, <1>1, <1>t, <1>3, <2>1, TasksKept DEF At
<1>4. CASE /\ Moves(w, {"pick"}) /\ worker'[w].cur = worker[w].cur
           /\ worker'[w].todo = worker[w].todo \ chunk
           /\ \E p \in chunk, good \in BOOLEAN :
                      \/ /\ s = "sampling"
                         /\ cand' = [cand EXCEPT ![p] = Judged(@, "sampled", "passed", good)]
                      \/ /\ s = "deep_scrape"
                         /\ cand' = [cand EXCEPT ![p] = [@ EXCEPT !.deep = "done", !.reached = "scraped"]]
  <2>1. PICK p \in chunk, good \in BOOLEAN :
                      \/ /\ s = "sampling"
                         /\ cand' = [cand EXCEPT ![p] = Judged(@, "sampled", "passed", good)]
                      \/ /\ s = "deep_scrape"
                         /\ cand' = [cand EXCEPT ![p] = [@ EXCEPT !.deep = "done", !.reached = "scraped"]]
    BY <1>4
  <2>2. p \in Profiles /\ p \in worker[w].todo /\ cand \in [Profiles -> Candidates] /\ cand[p] \in Candidates
    BY <1>1, <2>1, ItemsOfAre DEF Tasking, Shown
  <2>3. ASSUME s = "sampling", cand' = [cand EXCEPT ![p] = Judged(@, "sampled", "passed", good)]
        PROVE  Stores(s, p)
    <3>1. cand'[p] = Judged(cand[p], "sampled", "passed", good)
      BY <2>2, <2>3
    <3> QED BY <2>2, <2>3, <3>1, StoresSampled
  <2>c. ASSUME s = "deep_scrape", cand' = [cand EXCEPT ![p] = [@ EXCEPT !.deep = "done", !.reached = "scraped"]]
        PROVE  Stores(s, p)
    <3>1. cand'[p] = [cand[p] EXCEPT !.deep = "done", !.reached = "scraped"]
      BY <2>2, <2>c
    <3> QED BY <2>2, <2>c, <3>1, StoresScraped
  <2>4. Stores(s, p) /\ cand'[p] \in Candidates
    BY <2>1, <2>3, <2>c DEF Stores
  <2>5. cand' \in [Profiles -> Candidates] /\ \A q \in Profiles \ {p} : cand'[q] = cand[q]
    BY <2>1, <2>2, <2>4
  <2>6. worker'[w].pc = "pick" /\ "pick" \notin Fetching
    BY <1>4 DEF Moves, Fetching
  <2>7. s # "discovery"
    BY <2>1
  <2>8. {p} \subseteq worker[w].todo /\ {p} \subseteq Profiles /\ todo \subseteq worker[w].todo \ {p}
    BY <1>t, <1>4, <2>1, <2>2
  <2>S. PICK S : S = {p}
    OBVIOUS
  <2>9. /\ S \subseteq worker[w].todo /\ S \subseteq Profiles /\ todo \subseteq worker[w].todo \ S
        /\ \A q \in Profiles \ S : cand'[q] = cand[q]
        /\ \A q \in S : Stores(s, q)
    BY <2>4, <2>5, <2>8, <2>S
  <2>10. cur \subseteq worker[w].cur /\ worker[w].pc = "pick" /\ worker'[w].pc # "settle"
    BY <1>0, <1>t, <1>4, <2>6 DEF At
  <2> QED BY <1>0, <1>s, <1>1, <1>t, <2>5, <2>6, <2>7, <2>9, <2>10, StoredTasks
<1> QED BY <1>2, <1>3, <1>4

LEMMA TasksDiscovered ==
  ASSUME Base, Tasking, NEW w \in Workers, Discovered(w)
  PROVE  Shown' /\ Tasks(w)'
<1>0. /\ Typed /\ AtWork(w) /\ worker[w].pc = "call" /\ worker[w].stage = "discovery"
      /\ UNCHANGED <<pairsDone, delivered>> /\ worker'[w].pc = "record" /\ Keeps(w)
  BY DiscoveredMoves DEF Base, Discovered, At, AtWork, Moves
<1>1. "discovery" \in Stages
  BY StagesAre
<1>t. PICK todo, cur : todo = worker[w].todo /\ cur = worker[w].cur
  OBVIOUS
<1>2. /\ todo \in SUBSET ItemsOf("discovery") /\ cur \in SUBSET ItemsOf("discovery") /\ cur \subseteq todo
      /\ \A i \in todo : Waits("discovery", i)
  BY <1>0, <1>t, TasksKnown DEF Fetching
<1>3. \A i \in todo : Waits("discovery", i)'
  BY <1>0, <1>2 DEF Waits
<1>4. PICK found \in SUBSET {p \in Profiles : cand[p].reached = "none"} :
       cand' = [p \in Profiles |-> IF p \in found
                  THEN [reached |-> "discovered", status |-> "pending", deep |-> "none"] ELSE cand[p]]
  BY DEF Discovered
<1>5. [reached |-> "discovered", status |-> "pending", deep |-> "none"] \in Candidates
  BY DEF Candidates
<1>6. cand' \in [Profiles -> Candidates]
  BY <1>4, <1>5 DEF Tasking, Shown
<1>7. ASSUME NEW p \in Profiles PROVE ShownOf(p)'
  <2>1. ShownOf(p)
    BY DEF Tasking, Shown
  <2>2. CASE p \in found
    <3>1. cand'[p].reached = "discovered" /\ cand'[p].status = "pending" /\ cand[p].reached = "none"
      BY <1>4, <2>2
    <3> QED BY <1>0, <2>1, <3>1 DEF ShownOf
  <2>3. CASE p \notin found
    BY <1>0, <1>4, <2>1, <2>3 DEF ShownOf
  <2> QED BY <2>2, <2>3
<1>8. Shown'
  BY <1>0, <1>6, <1>7 DEF Tasking, Shown
<1> QED BY <1>0, <1>1, <1>t, <1>2, <1>3, <1>8, TasksAre DEF Keeps

LEMMA TasksRecord ==
  ASSUME Base, Tasking, NEW w \in Workers, RecordPair(w)
  PROVE  Shown' /\ Tasks(w)'
<1>0. /\ Typed /\ AtWork(w) /\ worker[w].pc = "record"
      /\ pairsDone' = pairsDone \cup worker[w].cur /\ UNCHANGED cand
      /\ delivered' = delivered \cup ({"discovery"} \X worker[w].cur) /\ worker'[w].pc = "pick" /\ Drops(w)
  BY DeliverMoves DEF Base, RecordPair, At, AtWork, Moves
<1>t. PICK todo, cur : todo = worker[w].todo /\ cur = worker[w].cur
  OBVIOUS
<1>s. PICK s : s = worker[w].stage
  OBVIOUS
<1>2. /\ s = "discovery" /\ s \in Stages /\ todo \in SUBSET ItemsOf(s) /\ cur \in SUBSET ItemsOf(s)
      /\ \A i \in todo : Waits(s, i)
  BY <1>0, <1>t, <1>s, TasksKnown DEF Fetching, At
<1>3. \A i \in todo \ cur : Waits(s, i)'
  BY <1>0, <1>t, <1>2 DEF Waits
<1>4. Shown'
  <2>1. \A p \in Profiles : ShownOf(p)'
    BY <1>0 DEF Tasking, Shown, ShownOf
  <2> QED BY <1>0, <2>1 DEF Tasking, Shown
<1>5. worker'[w].cur = {} /\ worker'[w].todo = todo \ cur /\ worker'[w].stage = s
  BY <1>0, <1>t, <1>s DEF Drops
<1>6. todo \ cur \in SUBSET ItemsOf(s) /\ {} \in SUBSET ItemsOf(s)
  BY <1>2
<1> QED BY <1>0, <1>2, <1>3, <1>4, <1>5, <1>6, TasksAre DEF Fetching

\* Sampling and collecting deliver the current items.
LEMMA TasksDeliver ==
  ASSUME Base, Tasking, NEW w \in Workers, Sampled(w) \/ Scraped(w)
  PROVE  Shown' /\ Tasks(w)'
<1>0. /\ Typed /\ AtWork(w) /\ worker[w].pc = "call" /\ UNCHANGED pairsDone
      /\ worker'[w].pc = "pick" /\ Drops(w)
  BY DeliverMoves DEF Base, Sampled, Scraped, At, AtWork, Moves
<1>s. PICK s : s = worker[w].stage
  OBVIOUS
<1>t. PICK S : S = worker[w].cur
  OBVIOUS
<1>1. s \in {"sampling", "deep_scrape"} /\ delivered' = delivered \cup ({s} \X S)
  BY <1>s, <1>t DEF Sampled, Scraped
<1>2. S \subseteq worker[w].todo /\ S \subseteq Profiles /\ cand \in [Profiles -> Candidates]
  BY <1>0, <1>s, <1>t, <1>1, TasksKnown, ItemsOfAre DEF Fetching, Tasking, Shown
<1>3. cand' \in [Profiles -> Candidates] /\ (\A p \in Profiles \ S : cand'[p] = cand[p]) /\ \A p \in S : Stores(s, p)
  <2>1. CASE Sampled(w)
    <3>1. PICK good \in BOOLEAN :
            cand' = [p \in Profiles |-> IF p \in S THEN Judged(cand[p], "sampled", "passed", good) ELSE cand[p]]
      BY <1>t, <2>1 DEF Sampled
    <3>2. s = "sampling"
      BY <1>s, <2>1 DEF Sampled
    <3>3. ASSUME NEW p \in S PROVE Stores(s, p) /\ cand'[p] \in Candidates
      <4>1. cand[p] \in Candidates /\ cand'[p] = Judged(cand[p], "sampled", "passed", good)
        BY <1>2, <3>1, <3>3
      <4>2. p \in Profiles
        BY <1>2, <3>3
      <4>3. Stores("sampling", p)
        BY <4>1, <4>2, StoresSampled
      <4> QED BY <3>2, <4>3 DEF Stores
    <3> QED BY <1>2, <3>1, <3>3
  <2>2. CASE Scraped(w)
    <3>1. cand' = [p \in Profiles |-> IF p \in S THEN [cand[p] EXCEPT !.deep = "done", !.reached = "scraped"]
                                      ELSE cand[p]]
      BY <1>t, <2>2 DEF Scraped
    <3>2. s = "deep_scrape"
      BY <1>s, <2>2 DEF Scraped
    <3>3. ASSUME NEW p \in S PROVE Stores(s, p) /\ cand'[p] \in Candidates
      <4>1. cand[p] \in Candidates /\ cand'[p] = [cand[p] EXCEPT !.deep = "done", !.reached = "scraped"]
        BY <1>2, <3>1, <3>3
      <4>2. p \in Profiles
        BY <1>2, <3>3
      <4> QED BY <3>2, <4>1, <4>2, StoresScraped DEF Stores
    <3> QED BY <1>2, <3>1, <3>3
  <2> QED BY <2>1, <2>2
<1>u. PICK todo, cur : todo = worker'[w].todo /\ cur = worker'[w].cur
  OBVIOUS
<1>4. todo \subseteq worker[w].todo \ S /\ cur \subseteq worker[w].cur /\ worker'[w].stage = s
  BY <1>0, <1>s, <1>t, <1>u DEF Drops
<1>5. s # "discovery" /\ worker'[w].pc \notin Fetching /\ worker'[w].pc # "settle"
  BY <1>0, <1>1 DEF Fetching
<1>6. worker[w].pc \in Fetching \cup {"pick"}
  BY <1>0 DEF Fetching
<1> QED BY <1>0, <1>s, <1>1, <1>2, <1>3, <1>u, <1>4, <1>5, <1>6, StoredTasks

LEMMA TasksEnriched ==
  ASSUME Base, Tasking, NEW w \in Workers, Enriched(w)
  PROVE  Shown' /\ Tasks(w)'
<1>0. Typed /\ AtWork(w) /\ worker[w].pc = "call" /\ worker[w].stage = "enrichment" /\ UNCHANGED pairsDone
  BY DEF Base, Enriched, At, AtWork
<1>1. PICK S \in SUBSET worker[w].cur, good \in SUBSET worker[w].cur :
           /\ cand' = [p \in Profiles |-> IF p \in S
                         THEN Judged(cand[p], "enriched", "pending", p \in good) ELSE cand[p]]
           /\ delivered' = delivered \cup ({"enrichment"} \X S)
           /\ \/ S = worker[w].cur /\ Moves(w, {"pick"}) /\ Drops(w)
              \/ Owes(w, worker[w].cur \ S, Whole)
  BY <1>0, EnrichedMoves
<1>2. worker[w].cur \subseteq worker[w].todo /\ S \subseteq Profiles /\ cand \in [Profiles -> Candidates]
  BY <1>0, TasksKnown, ItemsOfAre DEF Fetching, Tasking, Shown
<1>3. ASSUME NEW p \in S PROVE Stores("enrichment", p) /\ cand'[p] \in Candidates
  <2>1. cand[p] \in Candidates /\ cand'[p] = Judged(cand[p], "enriched", "pending", p \in good)
    BY <1>1, <1>2, <1>3
  <2>2. CASE p \in good
    BY <2>1, <2>2 DEF Judged, Candidates, Stores
  <2>3. CASE p \notin good
    BY <2>1, <2>3 DEF Judged, Candidates, Stores
  <2> QED BY <2>2, <2>3
<1>4. cand' \in [Profiles -> Candidates] /\ \A p \in Profiles \ S : cand'[p] = cand[p]
  BY <1>1, <1>2, <1>3
<1>u. PICK todo, cur : todo = worker'[w].todo /\ cur = worker'[w].cur
  OBVIOUS
<1>5. /\ worker'[w].pc \in {"pick", "settle"} /\ worker'[w].stage = "enrichment"
      /\ todo = worker[w].todo \ worker[w].cur /\ cur \subseteq worker[w].cur \ S
  BY <1>0, <1>1, <1>u DEF Moves, Drops, Owes
<1>6. worker'[w].pc \notin Fetching /\ worker[w].pc \in Fetching
  BY <1>0, <1>5 DEF Fetching
<1>7. cur \cap todo = {} /\ cur \cap S = {} /\ todo \subseteq worker[w].todo \ S /\ cur \subseteq worker[w].cur
      /\ S \subseteq worker[w].todo
  BY <1>2, <1>5
<1> QED BY <1>0, <1>1, <1>2, <1>3, <1>4, <1>u, <1>5, <1>6, <1>7, StoredTasks DEF At

LEMMA ShownKept == Shown /\ UNCHANGED <<pairsDone, cand, delivered>> => Shown'
BY DEF Shown, ShownOf

\* The last write of a clean-up settles the current items, which nothing was
\* delivered of.
LEMMA TasksSettleItems ==
  ASSUME Base, Tasking, NEW w \in Workers, Settle(w), SettleItems(w), Ticks(w)
  PROVE  Shown' /\ Tasks(w)'
<1>0. /\ AtWork(w) /\ worker[w].pc = "settle" /\ UNCHANGED delivered /\ worker'[w].pc = "settle"
  BY DEF Settle, At, AtWork, Ticks, Moves
<1>s. PICK s, todo, cur : s = worker[w].stage /\ todo = worker[w].todo /\ cur = worker[w].cur
  OBVIOUS
<1>1. /\ s \in Stages /\ todo \in SUBSET ItemsOf(s) /\ cur \in SUBSET ItemsOf(s) /\ cur \cap todo = {}
      /\ \A i \in todo : Waits(s, i)
      /\ \A i \in cur : <<s, i>> \notin delivered
  BY <1>0, <1>s, TasksKnown DEF At
<1>2. worker'[w].stage = s /\ worker'[w].todo = todo /\ worker'[w].cur = cur
  BY <1>s DEF Ticks
<1>3. Shown' /\ \A i \in todo : Waits(s, i)'
  <2>1. CASE s = "discovery"
    <3>1. pairsDone' = pairsDone \cup cur /\ UNCHANGED cand
      BY <1>s, <2>1 DEF SettleItems
    <3>2. \A i \in todo : Waits(s, i)'
      BY <1>1, <2>1, <3>1 DEF Waits
    <3>3. \A p \in Profiles : ShownOf(p)'
      BY <1>0, <3>1 DEF Tasking, Shown, ShownOf
    <3> QED BY <1>0, <3>1, <3>2, <3>3 DEF Tasking, Shown
  <2>2. CASE s # "discovery"
    <3>1. /\ UNCHANGED pairsDone
          /\ cand' = [p \in Profiles |->
               IF p \notin cur THEN cand[p]
               ELSE IF s = "deep_scrape" THEN [cand[p] EXCEPT !.deep = "error"]
               ELSE [cand[p] EXCEPT !.status = "error"]]
      BY <1>s, <2>2 DEF SettleItems
    <3>2. ItemsOf(s) = Profiles
      BY <1>1, <2>2, StagesAre, ItemsOfAre
    <3>3. ASSUME NEW i \in todo PROVE Waits(s, i)'
      <4>1. i \in ItemsOf(s) /\ Waits(s, i) /\ cand'[i] = cand[i]
        BY <1>1, <3>1, <3>2, <3>3
      <4> QED BY <1>1, <2>2, <4>1, WaitsKept
    <3>4. ASSUME NEW p \in cur PROVE cand'[p] \in Candidates /\ ShownOf(p)'
      <4>1. p \in Profiles /\ cand[p] \in Candidates /\ ShownOf(p) /\ <<s, p>> \notin delivered
        BY <1>1, <3>2, <3>4 DEF Tasking, Shown
      <4>2. CASE s = "deep_scrape"
        <5>1. cand'[p] = [cand[p] EXCEPT !.deep = "error"]
          BY <3>1, <3>4, <4>1, <4>2
        <5>2. /\ cand'[p] \in Candidates /\ cand'[p].reached = cand[p].reached
              /\ cand'[p].status = cand[p].status
          BY <4>1, <5>1 DEF Candidates
        <5> QED BY <1>0, <4>1, <4>2, <5>2 DEF ShownOf
      <4>3. CASE s # "deep_scrape"
        <5>1. cand'[p] = [cand[p] EXCEPT !.status = "error"]
          BY <3>1, <3>4, <4>1, <4>3
        <5>2. /\ cand'[p] \in Candidates /\ cand'[p].reached = cand[p].reached
              /\ cand'[p].status = "error" /\ cand'[p].deep = cand[p].deep
          BY <4>1, <5>1 DEF Candidates
        <5> QED BY <1>0, <4>1, <5>2 DEF ShownOf
      <4> QED BY <4>2, <4>3
    <3>5. cand' \in [Profiles -> Candidates] /\ \A p \in Profiles \ cur : cand'[p] = cand[p]
      BY <3>1, <3>4 DEF Tasking, Shown
    <3>6. delivered' \subseteq delivered \cup ({s} \X cur) /\ cur \in SUBSET Profiles
      BY <1>0, <1>1, <3>2
    <3> QED BY <2>2, <3>1, <3>3, <3>4, <3>5, <3>6, ShownMore DEF Tasking
  <2> QED BY <2>1, <2>2
<1>4. worker'[w].pc \notin Fetching
  BY <1>0 DEF Fetching
<1>5. \A i \in cur : <<s, i>> \notin delivered'
  BY <1>0, <1>1
<1> QED BY <1>0, <1>1, <1>2, <1>3, <1>4, <1>5, TasksAre

LEMMA TasksSettle ==
  ASSUME Base, Tasking, NEW w \in Workers, Settle(w)
  PROVE  Shown' /\ Tasks(w)'
<1>0. Typed /\ AtWork(w) /\ At(w, "settle") /\ worker[w].pc = "settle" /\ UNCHANGED delivered
  BY DEF Base, Settle, At, AtWork
<1>t. PICK todo, cur : todo = worker'[w].todo /\ cur = worker'[w].cur
  OBVIOUS
<1>1. /\ worker[w].cur \cap worker[w].todo = {}
  BY <1>0, TasksKnown
<1>2. CASE SettleItems(w) /\ Ticks(w)
  BY <1>2, TasksSettleItems
<1>3. CASE Ticks(w) /\ UNCHANGED <<pairsDone, cand>>
  <2>1. /\ todo \subseteq worker[w].todo /\ cur \subseteq worker[w].cur /\ worker'[w].pc = "settle"
        /\ worker'[w].stage = worker[w].stage /\ cur \cap todo = {}
    BY <1>t, <1>1, <1>3 DEF Ticks, Moves
  <2> QED BY <1>0, <1>t, <1>3, <2>1, TasksKept DEF At, Fetching
<1>4. CASE /\ Moves(w, {"pick"}) /\ UNCHANGED <<pairsDone, cand>>
           /\ worker'[w].stage = worker[w].stage /\ worker'[w].todo = worker[w].todo /\ worker'[w].cur = {}
  <2>1. todo \subseteq worker[w].todo /\ cur \subseteq worker[w].cur /\ worker'[w].pc = "pick"
    BY <1>t, <1>4 DEF Moves
  <2> QED BY <1>0, <1>t, <1>4, <2>1, TasksKept DEF Fetching
<1>5. CASE Moves(w, {"finish"}) /\ UNCHANGED <<pairsDone, cand>>
  <2>1. worker'[w].pc = "finish"
    BY <1>5 DEF Moves
  <2> QED BY <1>0, <1>5, <2>1, ShownKept, TasksNone DEF Fetching, Tasking
<1> QED BY <1>0, <1>2, <1>3, <1>4, <1>5, SettleMoves

\* Whatever a worker does, it never takes up what was delivered.
LEMMA TasksWork ==
  ASSUME Base, Tasking, NEW w \in Workers, AtWork(w), Work(w)
  PROVE  Shown' /\ Tasks(w)'
<1>0. Typed /\ Shown
  BY DEF Base, Tasking
<1>t. PICK todo, cur : todo = worker'[w].todo /\ cur = worker'[w].cur
  OBVIOUS
<1>e. ASSUME UNCHANGED <<pairsDone, cand, delivered>>, worker'[w].pc \in {"finish", "exit", "enter"}
      PROVE  Shown' /\ Tasks(w)'
  BY <1>0, <1>e, ShownKept, TasksNone DEF Fetching
<1>1. CASE Start(w) \/ AllDone(w) \/ Stopped(w) \/ LeaveStage(w)
  <2>1. UNCHANGED <<pairsDone, cand, delivered>>
    BY <1>1 DEF Start, AllDone, Stopped, LeaveStage
  <2>2. worker'[w].pc \in {"finish", "exit", "enter"}
    BY <1>0, <1>1, StartMoves, AllDoneMoves, StopTurns, LeaveMoves DEF Moves, Stopped, Verdicts
  <2> QED BY <1>e, <2>1, <2>2
<1>2. CASE EnterStage(w)
  BY <1>2, TasksEnter DEF Base, Tasking
<1>3. CASE Pick(w)
  BY <1>3, TasksPick
<1>4. CASE LimitReached(w)
  <2>1. UNCHANGED <<pairsDone, cand, delivered>> /\ worker[w].pc = "pick"
    BY <1>4 DEF LimitReached, At
  <2>2. /\ worker'[w].pc = "pick" /\ worker'[w].stage = worker[w].stage
        /\ todo \subseteq worker[w].todo /\ cur \subseteq worker[w].cur
    BY <1>0, <1>t, <1>4, LimitMoves DEF Moves
  <2> QED BY <1>t, <2>1, <2>2, TasksKept DEF Fetching
<1>5. CASE Charge(w) \/ ReadBalance(w) \/ TakeTokens(w) \/ CountCharge(w)
  <2>1. UNCHANGED <<pairsDone, cand, delivered>> /\ worker[w].pc \in Fetching
    BY <1>5 DEF Charge, ReadBalance, TakeTokens, CountCharge, At, Fetching
  <2>2. \/ worker'[w].pc = "finish"
        \/ worker'[w].pc \in {"marked", "call", "asked", "taken"} /\ Keeps(w)
    BY <1>0, <1>5, ChargeMoves, BalanceMoves, TakeMoves, CountMoves DEF Moves
  <2>3. CASE worker'[w].pc \in {"marked", "call", "asked", "taken"} /\ Keeps(w)
    <3>1. worker[w].cur \subseteq worker[w].todo
      BY <2>1, TasksKnown
    <3>2. worker'[w].stage = worker[w].stage /\ todo = worker[w].todo /\ cur = worker[w].cur
      BY <1>t, <2>3 DEF Keeps
    <3> QED BY <1>t, <2>1, <2>3, <3>1, <3>2, TasksKept DEF At
  <2> QED BY <1>e, <2>1, <2>2, <2>3
<1>6. CASE Discovered(w)
  BY <1>6, TasksDiscovered
<1>7. CASE RecordPair(w)
  BY <1>7, TasksRecord
<1>8. CASE Sampled(w) \/ Scraped(w)
  BY <1>8, TasksDeliver
<1>9. CASE Enriched(w)
  BY <1>9, TasksEnriched
<1>10. CASE CallFails(w)
  <2>1. UNCHANGED <<pairsDone, cand, delivered>> /\ worker[w].pc = "call"
    BY <1>10 DEF CallFails, At
  <2>2. worker[w].stage \in Stages /\ worker[w].cur \subseteq worker[w].todo
    BY <2>1, TasksKnown DEF Fetching
  <2>3. /\ worker'[w].pc = "settle" /\ worker'[w].stage = worker[w].stage
        /\ todo = worker[w].todo \ worker[w].cur /\ cur = worker[w].cur
    BY <1>0, <1>t, <1>10, <2>2, FailMoves DEF Owes, Moves
  <2>4. cur \cap todo = {} /\ todo \subseteq worker[w].todo /\ ~At(w, "pick")
    BY <2>1, <2>3 DEF At
  <2> QED BY <1>t, <2>1, <2>3, <2>4, TasksKept DEF Fetching
<1>11. CASE Settle(w)
  BY <1>11, TasksSettle
<1>12. CASE Finish(w) \/ Exit(w)
  BY <1>12 DEF Finish, Exit, At, AtWork
<1> QED BY <1>1, <1>2, <1>3, <1>4, <1>5, <1>6, <1>7, <1>8, <1>9, <1>10, <1>11, <1>12 DEF Work

\* A worker that stands still while others do: what waited still waits.
LEMMA TasksStill ==
  ASSUME NEW v \in Workers, Tasks(v), worker'[v] = worker[v], delivered' = delivered,
         \A s \in Stages : \A i \in ItemsOf(s) : Waits(s, i) => Waits(s, i)'
  PROVE  Tasks(v)'
<1>s. PICK s : s = worker[v].stage
  OBVIOUS
<1> QED BY <1>s DEF Tasks, At

\* Judging the candidates again changes only their status.
LEMMA ReapplyShown ==
  ASSUME Shown, Reapply
  PROVE  Shown' /\ \A s \in Stages : \A i \in ItemsOf(s) : Waits(s, i) => Waits(s, i)'
<1>0. UNCHANGED <<pairsDone, delivered>>
  BY DEF Reapply
<1>1. ASSUME NEW p \in Profiles
      PROVE  /\ cand'[p] \in Candidates /\ cand'[p].reached = cand[p].reached /\ cand'[p].deep = cand[p].deep
             /\ \/ cand'[p].status = cand[p].status
                \/ cand'[p].status = "rejected"
                \/ cand'[p].status = "passed" /\ cand[p].reached \in {"sampled", "scraped"}
                \/ cand'[p].status = "needs_sampling" /\ cand[p].reached \notin {"sampled", "scraped"}
  <2>1. cand[p] \in Candidates
    BY DEF Shown
  <2>2. PICK x \in {"rejected", "passed", "needs_sampling"} :
          \/ cand'[p] = cand[p]
          \/ /\ cand'[p] = [cand[p] EXCEPT !.status = x]
             /\ x = "passed" => cand[p].reached \in {"sampled", "scraped"}
             /\ x = "needs_sampling" => cand[p].reached \notin {"sampled", "scraped"}
    BY DEF Reapply
  <2> QED BY <2>1, <2>2 DEF Candidates
<1>2. cand' \in [Profiles -> Candidates]
  <2>1. cand' = [p \in Profiles |-> cand'[p]]
    BY DEF Reapply
  <2> QED BY <1>1, <2>1
<1>3. ASSUME NEW p \in Profiles PROVE ShownOf(p)'
  <2>1. ShownOf(p)
    BY DEF Shown
  <2> QED BY <1>0, <1>1, <2>1 DEF ShownOf
<1>4. ASSUME NEW s \in Stages, NEW i \in ItemsOf(s), Waits(s, i) PROVE Waits(s, i)'
  BY <1>0, <1>1, <1>4, StagesAre, ItemsOfAre DEF Waits
<1> QED BY <1>0, <1>2, <1>3, <1>4 DEF Shown

\* Continuing takes up the candidates whose posts are missing.
LEMMA ContinueShown ==
  ASSUME Shown, UNCHANGED <<pairsDone, delivered>>,
         cand' = [p \in Profiles |-> IF cand[p].status = "needs_sampling"
                    THEN [cand[p] EXCEPT !.status = "pending", !.reached = "enriched"] ELSE cand[p]]
  PROVE  Shown'
<1>1. ASSUME NEW p \in Profiles PROVE cand'[p] \in Candidates /\ ShownOf(p)'
  <2>1. cand[p] \in Candidates /\ ShownOf(p)
    BY DEF Shown
  <2>2. CASE cand[p].status = "needs_sampling"
    <3>1. cand'[p] = [cand[p] EXCEPT !.status = "pending", !.reached = "enriched"]
      BY <2>2
    <3>2. cand'[p] \in Candidates /\ cand'[p].status = "pending" /\ cand'[p].reached = "enriched"
      BY <2>1, <3>1 DEF Candidates
    <3> QED BY <2>1, <2>2, <3>2 DEF ShownOf
  <2>3. CASE cand[p].status # "needs_sampling"
    <3>1. cand'[p] = cand[p]
      BY <2>3
    <3> QED BY <2>1, <3>1 DEF ShownOf
  <2> QED BY <2>2, <2>3
<1>2. cand' \in [Profiles -> Candidates]
  BY <1>1
<1> QED BY <1>1, <1>2 DEF Shown

LEMMA TaskingStep == Base /\ Alone /\ Tasking /\ [Next]_vars => Tasking'
<1> SUFFICES ASSUME Base, Alone, Tasking, [Next]_vars PROVE Tasking'
  OBVIOUS
<1>0. /\ Typed /\ run \in RunRecords /\ Shown /\ OneWorker /\ First \in Workers
      /\ \A v \in Workers : AtWork(v) => Tasks(v)
  BY AloneIsOne, FirstAssumption DEF Base, Tasking, Workers
<1>s. ASSUME UNCHANGED <<pairsDone, cand, delivered>>, NEW w \in Workers,
             \A v \in Workers \ {w} : worker'[v] = worker[v],
             worker'[w] = worker[w] \/ worker'[w].pc \notin Fetching \cup {"pick", "settle"}
      PROVE  Tasking'
  <2>1. Shown'
    BY <1>0, <1>s, ShownKept
  <2>2. \A s \in Stages : \A i \in ItemsOf(s) : Waits(s, i) => Waits(s, i)'
    BY <1>s DEF Waits
  <2>3. ASSUME NEW v \in Workers, AtWork(v)' PROVE Tasks(v)'
    <3>1. CASE worker'[v] = worker[v]
      <4>1. AtWork(v)
        BY <2>3, <3>1 DEF AtWork
      <4> QED BY <1>0, <1>s, <2>2, <3>1, <4>1, TasksStill
    <3>2. CASE worker'[v] # worker[v]
      BY <1>s, <3>2, TasksNone
    <3> QED BY <3>1, <3>2
  <2> QED BY <2>1, <2>3 DEF Tasking
<1>1. ASSUME NEW w \in Workers, Work(w) PROVE Tasking'
  <2>0. \A v \in Workers \ {w} : worker'[v] = worker[v]
    BY <1>0, <1>1, WorkSummary DEF Base, Placed, Moves, JobStates
  <2>1. CASE AtWork(w)
    <3>1. Shown' /\ Tasks(w)'
      BY <1>1, <2>1, TasksWork
    <3>2. \A v \in Workers \ {w} : ~AtWork(v)'
      BY <1>0, <2>0, <2>1 DEF OneWorker, AtWork
    <3> QED BY <3>1, <3>2 DEF Tasking
  <2>2. CASE Finish(w) \/ Exit(w)
    <3>1. UNCHANGED <<pairsDone, cand, delivered>>
      BY <2>2 DEF Finish, Exit
    <3>2. worker'[w].pc \in {"exit", "idle"}
      BY <1>0, <2>2, GoTurns, IdleRecord, Turned DEF Finish, Exit, PCs, Moves, Turns
    <3> QED BY <1>s, <2>0, <3>1, <3>2 DEF Fetching
  <2>3. AtWork(w) \/ Finish(w) \/ Exit(w)
    BY <1>1 DEF Work, Start, EnterStage, AllDone, Stopped, Pick, LimitReached, LeaveStage, Charge, ReadBalance,
                TakeTokens, CountCharge, Discovered, RecordPair, Sampled, Scraped, Enriched, CallFails, Settle,
                AtWork, At
  <2> QED BY <2>1, <2>2, <2>3
<1>2. ASSUME NEW w \in Workers, Crash(w) \/ Resume(w) PROVE Tasking'
  <2>1. UNCHANGED <<pairsDone, cand, delivered>>
    BY <1>2 DEF Crash, Resume
  <2>2. Moves(w, {"dead"}) \/ Moves(w, {"start"})
    BY <1>0, <1>2, CrashMoves, GoTurns DEF Resume, PCs
  <2> QED BY <1>s, <2>1, <2>2 DEF Moves, Fetching
<1>3. CASE Admit
  <2>1. Moves(First, {"start"}) /\ UNCHANGED <<pairsDone, cand, delivered>>
    BY <1>0, <1>3, AdmitMoves DEF Admit
  <2> QED BY <1>0, <1>s, <2>1 DEF Moves, Fetching
<1>4. CASE UNCHANGED <<pairsDone, cand, delivered, worker>>
  BY <1>0, <1>s, <1>4
<1>5. CASE Reapply
  <2>1. Shown' /\ \A s \in Stages : \A i \in ItemsOf(s) : Waits(s, i) => Waits(s, i)'
    BY <1>0, <1>5, ReapplyShown
  <2>2. UNCHANGED <<worker, delivered>>
    BY <1>5 DEF Reapply
  <2>3. ASSUME NEW v \in Workers, AtWork(v)' PROVE Tasks(v)'
    <3>1. AtWork(v)
      BY <2>2, <2>3 DEF AtWork
    <3> QED BY <1>0, <2>1, <2>2, <3>1, TasksStill
  <2> QED BY <2>1, <2>3 DEF Tasking
<1>6. CASE Continue
  <2>1. UNCHANGED <<pairsDone, delivered>> /\ user.continuing
    BY <1>6 DEF Continue
  <2>2. CASE UNCHANGED <<run, job, worker, cand>>
    BY <1>4, <2>1, <2>2
  <2>3. ASSUME NEW w \in Workers, Moves(w, {"start"}),
               cand' = [p \in Profiles |-> IF cand[p].status = "needs_sampling"
                          THEN [cand[p] EXCEPT !.status = "pending", !.reached = "enriched"] ELSE cand[p]]
        PROVE  Tasking'
    <3>1. Shown'
      BY <1>0, <2>1, <2>3, ContinueShown
    <3>2. ASSUME NEW v \in Workers \ {w} PROVE ~AtWork(v)'
      <4>1. ~AtWork(v)
        BY <2>1 DEF Alone, Waiting, Continuations, Live, Busy
      <4> QED BY <2>3, <3>2, <4>1 DEF Moves, AtWork
    <3>3. Tasks(w)'
      BY <2>3, TasksNone DEF Moves, Fetching
    <3> QED BY <3>1, <3>2, <3>3 DEF Tasking
  <2> QED BY <1>0, <1>6, <2>2, <2>3, ContinueMoves
<1>7. CASE BeginCancel \/ CancelJob \/ BeginReapply \/ BeginContinue
  BY <1>4, <1>7 DEF BeginCancel, CancelJob, BeginReapply, BeginContinue
<1>8. CASE UNCHANGED keywordVars
  BY <1>4, <1>8 DEF keywordVars
<1>9. CASE UNCHANGED vars
  BY <1>8, <1>9 DEF vars
<1> QED BY <1>1, <1>2, <1>3, <1>5, <1>6, <1>7, <1>8, <1>9 DEF Next

-----------------------------------------------------------------------------
(* What is paid for is delivered once *)

\* No worker dies between two writes of a charge or of a refund.
PaysClean == CrashAt \cap {"marked", "asked", "settle"} = {}

\* The charge recorded on a unit is what was paid for it.
Booked(u) == paid[u] = IF mark[u] = None THEN 0 ELSE mark[u]

\* The units whose charge is being made or given back.
Awaits(w, u) == \/ worker[w].pc \in {"marked", "asked"} /\ u \in worker[w].new
                \/ At(w, "settle") /\ u \in CurUnits(w)

Ledger ==
  /\ mark \in [Units -> {None, 0, Price}] /\ paid \in [Units -> {0, Price}]
  /\ \A u \in Units : u \in delivered => mark[u] # None /\ Booked(u)
  /\ \A u \in Units : Booked(u) \/ \E w \in Workers : AtWork(w) /\ Awaits(w, u)

\* What is still marked and still paid of a failed call.
Debt(w) ==
  /\ worker[w].due \subseteq CurUnits(w)
  /\ \/ /\ worker[w].plan \in Whole
        /\ \A u \in CurUnits(w) : Booked(u) /\ (u \in worker[w].due <=> mark[u] = Price)
     \/ /\ worker[w].plan \in Owing
        /\ \A u \in CurUnits(w) : mark[u] = None /\ paid[u] = IF u \in worker[w].due THEN Price ELSE 0
     \/ worker[w].plan \in Overmarked /\ \A u \in CurUnits(w) : paid[u] = 0
     \/ worker[w].plan \in Squared /\ \A u \in CurUnits(w) : mark[u] = None /\ paid[u] = 0

\* What a worker knows of the charges of its current items.
Books(w) ==
  /\ At(w, "charge") => worker[w].new = {u \in CurUnits(w) : mark[u] = None}
  /\ worker[w].pc \in {"marked", "asked"} =>
       worker[w].new \subseteq CurUnits(w) /\ \A u \in worker[w].new : mark[u] = Price /\ paid[u] = 0
  /\ worker[w].pc \in Fetching \ {"charge"} => \A u \in CurUnits(w) : mark[u] # None
  /\ At(w, "settle") => Debt(w)

Booking == Ledger /\ \A w \in Workers : AtWork(w) => Books(w)

\* Every sale stays as it is or takes one step.
Dealt(u) == /\ SaleOf(u)' \in P!States
            /\ SaleOf(u)' = SaleOf(u) \/ <<SaleOf(u), SaleOf(u)'>> \in P!Moves
Deals == \A u \in Units : Dealt(u)

LEMMA PriceIs == Price \in Nat /\ Price # 0 /\ None # 0 /\ None # Price /\ 0 + Price = Price /\ Price - Price = 0
BY PriceAssumption, NoneAssumption

LEMMA DealsTrade == Deals => P!Trade
<1> SUFFICES ASSUME Deals PROVE P!Trade
  OBVIOUS
<1>1. \A u \in Units : Dealt(u)
  BY DEF Deals
<1>2. [u \in Units |-> SaleOf(u)]' = [u \in Units |-> SaleOf(u)']
  OBVIOUS
<1>3. [u \in Units |-> SaleOf(u)'] \in [Units -> P!States]
  BY <1>1 DEF Dealt
<1>4. ASSUME NEW g \in Units, [u \in Units |-> SaleOf(u)'][g] # [u \in Units |-> SaleOf(u)][g]
      PROVE  <<[u \in Units |-> SaleOf(u)][g], [u \in Units |-> SaleOf(u)'][g]>> \in P!Moves
  BY <1>1, <1>4 DEF Dealt
<1> QED BY <1>2, <1>3, <1>4 DEF P!Trade

LEMMA SaleMoves ==
  /\ P!States = {"open", "paid", "sold", "waived", "free"}
  /\ <<"open", "paid">> \in P!Moves /\ <<"paid", "open">> \in P!Moves /\ <<"paid", "sold">> \in P!Moves
  /\ <<"open", "waived">> \in P!Moves /\ <<"waived", "open">> \in P!Moves /\ <<"waived", "free">> \in P!Moves
BY DEF P!States, P!Moves

\* The sale of a unit that is not delivered, and of one that is.
LEMMA SaleIs ==
  ASSUME NEW u
  PROVE  /\ u \notin delivered /\ paid[u] = 0 /\ mark[u] # 0 => SaleOf(u) = "open"
         /\ u \notin delivered /\ paid[u] = 0 /\ mark[u] = 0 => SaleOf(u) = "waived"
         /\ u \notin delivered /\ paid[u] = Price => SaleOf(u) = "paid"
         /\ u \in delivered /\ paid[u] = 0 /\ mark[u] = 0 => SaleOf(u) = "free"
         /\ u \in delivered /\ paid[u] = Price => SaleOf(u) = "sold"
BY PriceIs DEF SaleOf

LEMMA SaleIsNext ==
  ASSUME NEW u
  PROVE  /\ u \notin delivered' /\ paid'[u] = 0 /\ mark'[u] # 0 => SaleOf(u)' = "open"
         /\ u \notin delivered' /\ paid'[u] = 0 /\ mark'[u] = 0 => SaleOf(u)' = "waived"
         /\ u \notin delivered' /\ paid'[u] = Price => SaleOf(u)' = "paid"
         /\ u \in delivered' /\ paid'[u] = 0 /\ mark'[u] = 0 => SaleOf(u)' = "free"
         /\ u \in delivered' /\ paid'[u] = Price => SaleOf(u)' = "sold"
BY PriceIs DEF SaleOf

\* The mark of what is not delivered may change as it likes.
LEMMA DealtMarked ==
  ASSUME NEW u \in Units, Ledger, u \notin delivered, u \notin delivered', paid'[u] = paid[u]
  PROVE  Dealt(u)
<1>1. paid[u] \in {0, Price}
  BY DEF Ledger
<1> QED BY <1>1, SaleIs, SaleIsNext, SaleMoves DEF Dealt

\* Money moves only for what is marked and not delivered.
LEMMA DealtPaid ==
  ASSUME NEW u \in Units, Ledger, u \notin delivered, u \notin delivered', mark'[u] = mark[u], mark[u] # 0,
         paid'[u] \in {0, Price}
  PROVE  Dealt(u)
<1>1. paid[u] \in {0, Price}
  BY DEF Ledger
<1> QED BY <1>1, SaleIs, SaleIsNext, SaleMoves DEF Dealt

\* What is delivered was paid for or needs no payment.
LEMMA DealtDelivered ==
  ASSUME NEW u \in Units, Ledger, u \notin delivered, mark'[u] = mark[u], paid'[u] = paid[u], mark[u] # None, Booked(u)
  PROVE  Dealt(u)
<1>1. paid[u] \in {0, Price} /\ mark[u] \in {0, Price} /\ paid[u] = mark[u]
  BY DEF Ledger, Booked
<1>2. CASE u \in delivered'
  BY <1>1, <1>2, SaleIs, SaleIsNext, SaleMoves DEF Dealt
<1>3. CASE u \notin delivered'
  BY <1>1, <1>3, SaleIs, SaleIsNext, SaleMoves DEF Dealt
<1> QED BY <1>2, <1>3

LEMMA DealtNot ==
  ASSUME NEW u \in Units, Ledger, mark'[u] = mark[u], paid'[u] = paid[u], u \in delivered' <=> u \in delivered
  PROVE  Dealt(u)
<1>1. paid[u] \in {0, Price} /\ (u \in delivered => mark[u] \in {0, Price} /\ paid[u] = mark[u])
  BY DEF Ledger, Booked
<1>2. CASE u \in delivered
  BY <1>1, <1>2, SaleIs, SaleIsNext, SaleMoves DEF Dealt
<1>3. CASE u \notin delivered
  BY <1>1, <1>3, SaleIs, SaleIsNext, SaleMoves DEF Dealt
<1> QED BY <1>2, <1>3

LEMMA BookingKnown ==
  ASSUME Booking, OneWorker, NEW w \in Workers, AtWork(w)
  PROVE  Ledger /\ Books(w) /\ \A u \in Units : Booked(u) \/ Awaits(w, u)
<1>1. \A v \in Workers : AtWork(v) => v = w
  BY DEF OneWorker
<1> QED BY <1>1 DEF Booking, Ledger

LEMMA LedgerNext ==
  ASSUME mark' \in [Units -> {None, 0, Price}], paid' \in [Units -> {0, Price}],
         \A u \in Units : u \in delivered' => mark'[u] # None /\ Booked(u)',
         NEW w \in Workers, \A u \in Units : Booked(u)' \/ (AtWork(w)' /\ Awaits(w, u)')
  PROVE  Ledger'
BY DEF Ledger

\* What a worker deals with is a unit that has not been delivered.
LEMMA CurAre ==
  ASSUME Tasking, NEW w \in Workers, AtWork(w), worker[w].pc \in Fetching \cup {"settle"}
  PROVE  CurUnits(w) \subseteq Units /\ \A u \in CurUnits(w) : u \notin delivered
<1>s. PICK s : s = worker[w].stage
  OBVIOUS
<1>1. s \in Stages /\ worker[w].cur \subseteq ItemsOf(s) /\ \A i \in worker[w].cur : <<s, i>> \notin delivered
  <2>1. CASE worker[w].pc \in Fetching
    BY <1>s, <2>1, TasksKnown
  <2>2. CASE worker[w].pc = "settle"
    BY <1>s, <2>2, TasksKnown DEF At
  <2> QED BY <2>1, <2>2
<1> QED BY <1>s, <1>1 DEF CurUnits, Units

\* A step that moves no money and leaves nothing open.
LEMMA Quiet ==
  ASSUME Booking, OneWorker, NEW w \in Workers, AtWork(w), UNCHANGED <<mark, paid, delivered>>,
         \A u \in Units : Booked(u) \/ (AtWork(w)' /\ Awaits(w, u)')
  PROVE  Ledger' /\ Deals
<1>1. Ledger
  BY DEF Booking
<1>2. Deals
  BY <1>1, DealtNot DEF Deals
<1>3. \A u \in Units : Booked(u) => Booked(u)'
  BY DEF Booked
<1> QED BY <1>1, <1>2, <1>3, LedgerNext DEF Ledger

LEMMA BooksNone ==
  ASSUME NEW w \in Workers, worker'[w].pc \notin Fetching \cup {"settle"}
  PROVE  Books(w)'
BY DEF Books, At, Fetching

\* What a step of the worker at work does for the books.
Keeping(w) == Ledger' /\ Deals /\ Books(w)'

LEMMA KeepsPick ==
  ASSUME Base, Booking, OneWorker, NEW w \in Workers, Pick(w)
  PROVE  Keeping(w)
<1>0. Typed /\ AtWork(w) /\ worker[w].pc = "pick" /\ UNCHANGED <<mark, paid, delivered>>
  BY DEF Base, Pick, At, AtWork
<1>1. Ledger' /\ Deals
  <2>1. \A u \in Units : Booked(u)
    BY <1>0, BookingKnown DEF Awaits, At
  <2> QED BY <1>0, <2>1, Quiet
<1>s. PICK s : s = worker[w].stage
  OBVIOUS
<1>2. PICK chunk \in SUBSET worker[w].todo :
        \/ /\ worker'[w].cur = chunk /\ worker'[w].new = {u \in {s} \X chunk : mark[u] = None}
           /\ worker'[w].pc = "charge" \/ (worker'[w].pc = "call" /\ \A i \in chunk : mark[<<s, i>>] # None)
        \/ worker'[w].pc = "pick"
  BY <1>0, <1>s, PickMoves DEF Moves
<1>3. worker'[w].stage = s
  BY <1>0, <1>s, PickMoves
<1>4. CASE worker'[w].pc = "pick"
  BY <1>1, <1>4, BooksNone DEF Keeping, Fetching
<1>5. CASE /\ worker'[w].cur = chunk /\ worker'[w].new = {u \in {s} \X chunk : mark[u] = None}
           /\ worker'[w].pc = "charge" \/ (worker'[w].pc = "call" /\ \A i \in chunk : mark[<<s, i>>] # None)
  <2>1. CurUnits(w)' = {s} \X chunk
    BY <1>3, <1>5 DEF CurUnits
  <2>2. Books(w)'
    BY <1>0, <1>5, <2>1 DEF Books, At, Fetching
  <2> QED BY <1>1, <2>2 DEF Keeping
<1> QED BY <1>2, <1>4, <1>5

LEMMA KeepsCharge ==
  ASSUME Base, Tasking, Booking, OneWorker, NEW w \in Workers, Charge(w)
  PROVE  Keeping(w)
<1>0. Typed /\ AtWork(w) /\ worker[w].pc = "charge" /\ UNCHANGED <<paid, delivered>>
  BY DEF Base, Charge, At, AtWork
<1>c. CurUnits(w) \subseteq Units /\ \A u \in CurUnits(w) : u \notin delivered
  BY <1>0, CurAre DEF Fetching
<1>1. /\ Ledger /\ worker[w].new = {u \in CurUnits(w) : mark[u] = None}
      /\ \A u \in Units : Booked(u)
  BY <1>0, BookingKnown DEF Books, Awaits, At
<1>2. CASE /\ Moves(w, {"marked"}) /\ Keeps(w) /\ mark' = Marked(worker[w].new, Price)
  <2>1. CurUnits(w)' = CurUnits(w) /\ worker'[w].new = worker[w].new /\ worker'[w].pc = "marked" /\ AtWork(w)'
    BY <1>2 DEF Keeps, CurUnits, Moves, AtWork
  <2>2. \A u \in Units : mark'[u] = IF u \in worker[w].new THEN Price ELSE mark[u]
    BY <1>2 DEF Marked
  <2>3. mark' \in [Units -> {None, 0, Price}] /\ paid' \in [Units -> {0, Price}]
    BY <1>0, <1>1, <1>2 DEF Marked, Ledger
  <2>4. ASSUME NEW u \in Units, u \in worker[w].new
        PROVE  mark'[u] = Price /\ paid[u] = 0 /\ u \notin delivered /\ Awaits(w, u)'
    BY <1>c, <1>1, <2>1, <2>2, <2>4 DEF Booked, Awaits
  <2>5. ASSUME NEW u \in Units, u \notin worker[w].new PROVE mark'[u] = mark[u] /\ Booked(u)'
    BY <1>0, <1>1, <2>2, <2>5 DEF Booked
  <2>6. Ledger'
    BY <1>0, <1>1, <2>1, <2>3, <2>4, <2>5, LedgerNext DEF Ledger
  <2>7. Deals
    BY <1>0, <1>1, <2>4, <2>5, DealtMarked, DealtNot DEF Deals
  <2>8. Books(w)'
    BY <1>0, <1>c, <1>1, <2>1, <2>2, <2>4, PriceIs DEF Books, At, Fetching
  <2> QED BY <2>6, <2>7, <2>8 DEF Keeping
<1>3. CASE Moves(w, {"finish"}) /\ UNCHANGED mark
  <2>1. Books(w)'
    BY <1>3, BooksNone DEF Moves, Fetching
  <2>2. Ledger' /\ Deals
    BY <1>0, <1>1, <1>3, Quiet
  <2> QED BY <2>1, <2>2 DEF Keeping
<1> QED BY <1>0, <1>2, <1>3, ChargeMoves

\* The marks of a charge that was not paid are set again.
LEMMA KeepsMarked ==
  ASSUME Tasking, Booking, OneWorker, NEW w \in Workers, AtWork(w), worker[w].pc \in {"marked", "asked"},
         UNCHANGED <<paid, delivered>>, NEW m \in {None, 0}, mark' = Marked(worker[w].new, m)
  PROVE  Ledger' /\ Deals /\ \A u \in CurUnits(w) : m = 0 => mark'[u] # None
<1>c. CurUnits(w) \subseteq Units /\ \A u \in CurUnits(w) : u \notin delivered
  BY CurAre DEF Fetching
<1>1. /\ Ledger /\ worker[w].new \subseteq CurUnits(w) /\ \A u \in worker[w].new : mark[u] = Price /\ paid[u] = 0
      /\ \A u \in Units \ worker[w].new : Booked(u)
      /\ \A u \in CurUnits(w) : mark[u] # None
  BY BookingKnown DEF Books, Awaits, At, Fetching
<1>2. \A u \in Units : mark'[u] = IF u \in worker[w].new THEN m ELSE mark[u]
  BY DEF Marked
<1>3. mark' \in [Units -> {None, 0, Price}] /\ paid' \in [Units -> {0, Price}]
  BY <1>1 DEF Marked, Ledger
<1>4. ASSUME NEW u \in Units, u \in worker[w].new PROVE u \notin delivered /\ Booked(u)'
  BY <1>c, <1>1, <1>2, <1>4 DEF Booked
<1>5. ASSUME NEW u \in Units, u \notin worker[w].new PROVE mark'[u] = mark[u] /\ Booked(u)'
  BY <1>1, <1>2, <1>5 DEF Booked
<1>6. Ledger'
  BY <1>1, <1>3, <1>4, <1>5, LedgerNext DEF Ledger
<1>7. Deals
  BY <1>1, <1>4, <1>5, DealtMarked, DealtNot DEF Deals
<1>8. ASSUME NEW u \in CurUnits(w), m = 0 PROVE mark'[u] # None
  BY <1>c, <1>1, <1>2, <1>8, PriceIs
<1> QED BY <1>6, <1>7, <1>8

LEMMA KeepsBalance ==
  ASSUME Base, Tasking, Booking, OneWorker, NEW w \in Workers, ReadBalance(w)
  PROVE  Keeping(w)
<1>0. Typed /\ AtWork(w) /\ worker[w].pc = "marked" /\ UNCHANGED <<paid, delivered>>
  BY DEF Base, ReadBalance, At, AtWork
<1>1. CASE Moves(w, {"call"}) /\ Keeps(w) /\ mark' = Marked(worker[w].new, 0)
  <2>1. CurUnits(w)' = CurUnits(w) /\ worker'[w].pc = "call"
    BY <1>1 DEF Keeps, CurUnits, Moves
  <2>2. Ledger' /\ Deals /\ \A u \in CurUnits(w) : mark'[u] # None
    BY <1>0, <1>1, KeepsMarked
  <2> QED BY <2>1, <2>2 DEF Keeping, Books, At, Fetching
<1>2. CASE Moves(w, {"finish"}) /\ mark' = Marked(worker[w].new, None)
  <2>1. Books(w)'
    BY <1>2, BooksNone DEF Moves, Fetching
  <2>2. Ledger' /\ Deals
    BY <1>0, <1>2, KeepsMarked
  <2> QED BY <2>1, <2>2 DEF Keeping
<1>3. CASE Moves(w, {"asked"}) /\ Keeps(w) /\ UNCHANGED mark
  <2>1. CurUnits(w)' = CurUnits(w) /\ worker'[w].pc = "asked" /\ worker'[w].new = worker[w].new /\ AtWork(w)'
    BY <1>3 DEF Keeps, CurUnits, Moves, AtWork
  <2>2. /\ \A u \in Units : Booked(u) \/ u \in worker[w].new
        /\ Books(w)
    BY <1>0, BookingKnown DEF Awaits, At
  <2>3. \A u \in worker[w].new : Awaits(w, u)'
    BY <2>1 DEF Awaits
  <2>4. Ledger' /\ Deals
    BY <1>0, <1>3, <2>1, <2>2, <2>3, Quiet
  <2>5. Books(w)'
    BY <1>0, <1>3, <2>1, <2>2 DEF Books, At, Fetching
  <2> QED BY <2>4, <2>5 DEF Keeping
<1> QED BY <1>0, <1>1, <1>2, <1>3, BalanceMoves

LEMMA KeepsTake ==
  ASSUME Base, Tasking, Booking, OneWorker, NEW w \in Workers, TakeTokens(w)
  PROVE  Keeping(w)
<1>0. Typed /\ AtWork(w) /\ worker[w].pc = "asked" /\ UNCHANGED delivered
  BY DEF Base, TakeTokens, At, AtWork
<1>1. CASE /\ Moves(w, {"taken"}) /\ Keeps(w) /\ UNCHANGED mark
           /\ paid' = [u \in Units |-> IF u \in worker[w].new THEN paid[u] + Price ELSE paid[u]]
  <2>1. CurUnits(w)' = CurUnits(w) /\ worker'[w].pc = "taken"
    BY <1>1 DEF Keeps, CurUnits, Moves
  <2>c. CurUnits(w) \subseteq Units /\ \A u \in CurUnits(w) : u \notin delivered
    BY <1>0, CurAre DEF Fetching
  <2>2. /\ Ledger /\ worker[w].new \subseteq CurUnits(w) /\ \A u \in worker[w].new : mark[u] = Price /\ paid[u] = 0
        /\ \A u \in Units \ worker[w].new : Booked(u)
        /\ \A u \in CurUnits(w) : mark[u] # None
    BY <1>0, BookingKnown DEF Books, Awaits, At, Fetching
  <2>3. ASSUME NEW u \in Units, u \in worker[w].new
        PROVE  paid'[u] = Price /\ mark[u] = Price /\ u \notin delivered /\ Booked(u)'
    BY <1>1, <2>c, <2>2, <2>3, PriceIs DEF Booked
  <2>4. ASSUME NEW u \in Units, u \notin worker[w].new PROVE paid'[u] = paid[u] /\ Booked(u)'
    BY <1>1, <2>2, <2>4 DEF Booked
  <2>5. mark' \in [Units -> {None, 0, Price}] /\ paid' \in [Units -> {0, Price}]
    BY <1>1, <2>2, <2>3, <2>4 DEF Ledger
  <2>6. Ledger'
    BY <1>0, <1>1, <2>2, <2>3, <2>4, <2>5, LedgerNext DEF Ledger
  <2>7. Deals
    BY <1>0, <1>1, <2>2, <2>3, <2>4, DealtPaid, DealtNot, PriceIs DEF Deals
  <2>8. Books(w)'
    BY <1>1, <2>1, <2>2 DEF Books, At, Fetching
  <2> QED BY <2>6, <2>7, <2>8 DEF Keeping
<1>2. CASE Moves(w, {"finish"}) /\ mark' = Marked(worker[w].new, None) /\ UNCHANGED paid
  <2>1. Books(w)'
    BY <1>2, BooksNone DEF Moves, Fetching
  <2>2. Ledger' /\ Deals
    BY <1>0, <1>2, KeepsMarked
  <2> QED BY <2>1, <2>2 DEF Keeping
<1> QED BY <1>0, <1>1, <1>2, TakeMoves

\* The tokens are counted, or profiles are found: the call goes on.
LEMMA KeepsGoing ==
  ASSUME Base, Booking, OneWorker, NEW w \in Workers, CountCharge(w) \/ Discovered(w)
  PROVE  Keeping(w)
<1>0. /\ Typed /\ AtWork(w) /\ worker[w].pc \in {"taken", "call"} /\ UNCHANGED <<mark, paid, delivered>>
      /\ worker'[w].pc \in {"call", "record"} /\ Keeps(w)
  BY CountMoves, DiscoveredMoves DEF Base, CountCharge, Discovered, At, AtWork, Moves
<1>1. (\A u \in Units : Booked(u)) /\ \A u \in CurUnits(w) : mark[u] # None
  BY <1>0, BookingKnown DEF Books, Awaits, At, Fetching
<1>2. CurUnits(w)' = CurUnits(w)
  BY <1>0 DEF Keeps, CurUnits
<1>3. Books(w)'
  BY <1>0, <1>1, <1>2 DEF Books, At, Fetching
<1> QED BY <1>0, <1>1, <1>3, Quiet DEF Keeping

\* Current units are delivered.
LEMMA KeepsDelivered ==
  ASSUME Tasking, Booking, OneWorker, NEW w \in Workers, AtWork(w), worker[w].pc \in {"call", "record"},
         UNCHANGED <<mark, paid>>, NEW got, got \subseteq CurUnits(w), delivered' = delivered \cup got
  PROVE  Ledger' /\ Deals /\ \A u \in Units : Booked(u)
<1>1. /\ CurUnits(w) \subseteq Units /\ \A u \in CurUnits(w) : u \notin delivered
  BY CurAre DEF Fetching
<1>2. Ledger /\ (\A u \in Units : Booked(u)) /\ \A u \in CurUnits(w) : mark[u] # None
  BY BookingKnown DEF Books, Awaits, At, Fetching
<1>3. \A u \in Units : Booked(u)'
  BY <1>2 DEF Booked
<1>4. Ledger'
  BY <1>1, <1>2, <1>3, LedgerNext DEF Ledger
<1>5. ASSUME NEW u \in Units PROVE Dealt(u)
  <2>1. CASE u \in got
    BY <1>1, <1>2, <2>1, DealtDelivered
  <2>2. CASE u \notin got
    BY <1>2, <2>2, DealtNot
  <2> QED BY <2>1, <2>2
<1> QED BY <1>2, <1>4, <1>5 DEF Deals

LEMMA KeepsDeliver ==
  ASSUME Base, Tasking, Booking, OneWorker, NEW w \in Workers, RecordPair(w) \/ Sampled(w) \/ Scraped(w)
  PROVE  Keeping(w)
<1>0. /\ Typed /\ AtWork(w) /\ worker[w].pc \in {"call", "record"} /\ UNCHANGED <<mark, paid>>
      /\ worker'[w].pc = "pick"
  BY DeliverMoves DEF Base, RecordPair, Sampled, Scraped, At, AtWork, Moves
<1>1. delivered' = delivered \cup CurUnits(w)
  <2>1. CASE RecordPair(w)
    <3>1. worker[w].stage = "discovery"
      BY <1>0, <2>1, TasksKnown DEF RecordPair, At, Fetching
    <3> QED BY <2>1, <3>1 DEF RecordPair, CurUnits
  <2>2. CASE Sampled(w)
    BY <2>2 DEF Sampled, CurUnits
  <2>3. CASE Scraped(w)
    BY <2>3 DEF Scraped, CurUnits
  <2> QED BY <2>1, <2>2, <2>3
<1>2. Ledger' /\ Deals
  <2>1. PICK got : got = CurUnits(w)
    OBVIOUS
  <2> QED BY <1>0, <1>1, <2>1, KeepsDelivered
<1>3. Books(w)'
  BY <1>0, BooksNone DEF Fetching
<1> QED BY <1>2, <1>3 DEF Keeping

\* A clean-up begins: everything is marked as it was paid.
LEMMA DebtBegins ==
  ASSUME Ledger, NEW w \in Workers, NEW items, Owes(w, items, Whole), UNCHANGED <<mark, paid>>,
         CurUnits(w)' \subseteq Units, \A u \in Units : Booked(u)
  PROVE  Books(w)'
<1>1. /\ worker'[w].pc = "settle" /\ worker'[w].plan \in Whole
      /\ CurUnits(w)' = {worker[w].stage} \X items
      /\ worker'[w].due = {u \in {worker[w].stage} \X items : mark[u] \notin {None, 0}}
  BY DEF Owes, Moves, Charged, CurUnits
<1>2. \A u \in Units : Booked(u)' /\ (mark[u] \notin {None, 0} <=> mark[u] = Price)
  BY PriceIs DEF Booked, Ledger
<1>3. worker'[w].due \subseteq CurUnits(w)' /\ \A u \in CurUnits(w)' : u \in worker'[w].due <=> mark'[u] = Price
  BY <1>1, <1>2
<1>4. Debt(w)'
  BY <1>1, <1>2, <1>3 DEF Debt
<1> QED BY <1>1, <1>4 DEF Books, At, Fetching

LEMMA KeepsEnriched ==
  ASSUME Base, Tasking, Booking, OneWorker, NEW w \in Workers, Enriched(w)
  PROVE  Keeping(w)
<1>0. Typed /\ AtWork(w) /\ worker[w].pc = "call" /\ worker[w].stage = "enrichment" /\ UNCHANGED <<mark, paid>>
  BY DEF Base, Enriched, At, AtWork
<1>1. PICK got \in SUBSET worker[w].cur :
           /\ delivered' = delivered \cup ({"enrichment"} \X got)
           /\ Moves(w, {"pick"}) \/ Owes(w, worker[w].cur \ got, Whole)
  BY <1>0, EnrichedMoves
<1>2. {"enrichment"} \X got \subseteq CurUnits(w)
  BY <1>0 DEF CurUnits
<1>3. Ledger' /\ Deals /\ \A u \in Units : Booked(u)
  BY <1>0, <1>1, <1>2, KeepsDelivered
<1>4. CASE Moves(w, {"pick"})
  BY <1>3, <1>4, BooksNone DEF Keeping, Moves, Fetching
<1>5. CASE Owes(w, worker[w].cur \ got, Whole)
  <2>1. CurUnits(w)' \subseteq CurUnits(w)
    BY <1>5 DEF Owes, CurUnits
  <2>2. CurUnits(w) \subseteq Units
    BY <1>0, CurAre DEF Fetching
  <2>3. Books(w)'
    BY <1>0, <1>3, <1>5, <2>1, <2>2, DebtBegins DEF Booking
  <2> QED BY <1>3, <2>3 DEF Keeping
<1> QED BY <1>1, <1>4, <1>5

LEMMA KeepsFail ==
  ASSUME Base, Tasking, Booking, OneWorker, NEW w \in Workers, CallFails(w)
  PROVE  Keeping(w)
<1>0. Typed /\ AtWork(w) /\ worker[w].pc = "call" /\ UNCHANGED <<mark, paid, delivered>>
  BY DEF Base, CallFails, At, AtWork
<1>1. worker[w].stage \in Stages
  BY <1>0, TasksKnown DEF Fetching
<1>2. Owes(w, worker[w].cur, Whole)
  BY <1>0, <1>1, FailMoves
<1>3. \A u \in Units : Booked(u)
  BY <1>0, BookingKnown DEF Awaits, At
<1>4. CurUnits(w)' = CurUnits(w) /\ CurUnits(w) \subseteq Units
  BY <1>0, <1>2, CurAre DEF Owes, CurUnits, Fetching
<1>5. Books(w)'
  BY <1>0, <1>2, <1>3, <1>4, DebtBegins DEF Booking
<1> QED BY <1>0, <1>3, <1>5, Quiet DEF Keeping

\* One write of the clean-up: the marks, the money or the items.
LEMMA KeepsUnmark ==
  ASSUME Tasking, Booking, OneWorker, NEW w \in Workers, AtWork(w), worker[w].pc = "settle", Ticks(w),
         worker[w].plan # <<>>, Head(worker[w].plan) = "unmark", mark' = Marked(CurUnits(w), None),
         UNCHANGED <<paid, delivered>>
  PROVE  Keeping(w)
<1>c. CurUnits(w) \subseteq Units /\ \A u \in CurUnits(w) : u \notin delivered
  BY CurAre
<1>1. Ledger /\ Debt(w) /\ \A u \in Units \ CurUnits(w) : Booked(u)
  BY BookingKnown DEF Books, Awaits, At
<1>2. /\ worker'[w].pc = "settle" /\ CurUnits(w)' = CurUnits(w) /\ worker'[w].due = worker[w].due
      /\ worker'[w].plan = Tail(worker[w].plan) /\ AtWork(w)'
  BY DEF Ticks, Moves, CurUnits, AtWork
<1>3. \A u \in Units : mark'[u] = IF u \in CurUnits(w) THEN None ELSE mark[u]
  BY DEF Marked
<1>4. mark' \in [Units -> {None, 0, Price}] /\ paid' \in [Units -> {0, Price}]
  BY <1>1 DEF Marked, Ledger
<1>5. \A u \in CurUnits(w) : Awaits(w, u)'
  BY <1>2 DEF Awaits, At
<1>6. \A u \in Units \ CurUnits(w) : mark'[u] = mark[u] /\ Booked(u)'
  BY <1>1, <1>3 DEF Booked
<1>7. Ledger'
  BY <1>c, <1>1, <1>2, <1>4, <1>5, <1>6, LedgerNext DEF Ledger
<1>8. Deals
  BY <1>c, <1>1, <1>6, DealtMarked, DealtNot DEF Deals
<1>9. Debt(w)'
  <2>1. CASE worker[w].plan \in Whole /\ \A u \in CurUnits(w) : Booked(u) /\ (u \in worker[w].due <=> mark[u] = Price)
    <3>1. Tail(worker[w].plan) \in Owing
      BY <2>1, WholeTail
    <3>2. \A u \in CurUnits(w) : mark'[u] = None /\ paid'[u] = IF u \in worker[w].due THEN Price ELSE 0
      BY <1>c, <1>1, <1>3, <2>1, PriceIs DEF Booked, Ledger
    <3> QED BY <1>1, <1>2, <3>1, <3>2 DEF Debt
  <2>2. CASE worker[w].plan \in Owing
    BY <2>2, OwingTail
  <2>3. CASE worker[w].plan \in Overmarked /\ \A u \in CurUnits(w) : paid[u] = 0
    <3>1. Tail(worker[w].plan) \in Squared
      BY <2>3, OvermarkedTail
    <3>2. \A u \in CurUnits(w) : mark'[u] = None /\ paid'[u] = 0
      BY <1>c, <1>3, <2>3
    <3> QED BY <1>1, <1>2, <3>1, <3>2 DEF Debt
  <2>4. CASE worker[w].plan \in Squared
    BY <2>4, SquaredTail
  <2> QED BY <1>1, <2>1, <2>2, <2>3, <2>4 DEF Debt
<1> QED BY <1>2, <1>7, <1>8, <1>9 DEF Keeping, Books, At, Fetching

LEMMA KeepsRefund ==
  ASSUME Tasking, Booking, OneWorker, NEW w \in Workers, AtWork(w), worker[w].pc = "settle", Ticks(w),
         worker[w].plan # <<>>, Head(worker[w].plan) = "refund",
         paid' = [u \in Units |-> IF u \in worker[w].due THEN paid[u] - Price ELSE paid[u]],
         UNCHANGED <<mark, delivered>>
  PROVE  Keeping(w)
<1>c. CurUnits(w) \subseteq Units /\ \A u \in CurUnits(w) : u \notin delivered
  BY CurAre
<1>1. Ledger /\ Debt(w) /\ \A u \in Units \ CurUnits(w) : Booked(u)
  BY BookingKnown DEF Books, Awaits, At
<1>2. /\ worker'[w].pc = "settle" /\ CurUnits(w)' = CurUnits(w) /\ worker'[w].due = worker[w].due
      /\ worker'[w].plan = Tail(worker[w].plan) /\ AtWork(w)' /\ worker[w].due \subseteq CurUnits(w)
  BY <1>1 DEF Ticks, Moves, CurUnits, AtWork, Debt
<1>3. /\ \A u \in worker[w].due : paid[u] = Price /\ mark[u] # 0
      /\ \/ Tail(worker[w].plan) \in Overmarked /\ \A u \in CurUnits(w) \ worker[w].due : paid[u] = 0
         \/ /\ Tail(worker[w].plan) \in Squared
            /\ \A u \in CurUnits(w) : mark[u] = None /\ (u \notin worker[w].due => paid[u] = 0)
  <2>1. CASE worker[w].plan \in Whole /\ \A u \in CurUnits(w) : Booked(u) /\ (u \in worker[w].due <=> mark[u] = Price)
    <3>1. Tail(worker[w].plan) \in Overmarked
      BY <2>1, WholeTail
    <3>2. \A u \in CurUnits(w) : IF u \in worker[w].due THEN paid[u] = Price /\ mark[u] # 0 ELSE paid[u] = 0
      BY <1>c, <1>1, <2>1, PriceIs DEF Booked, Ledger
    <3> QED BY <1>2, <3>1, <3>2
  <2>2. CASE /\ worker[w].plan \in Owing
             /\ \A u \in CurUnits(w) : mark[u] = None /\ paid[u] = IF u \in worker[w].due THEN Price ELSE 0
    <3>1. Tail(worker[w].plan) \in Squared
      BY <2>2, OwingTail
    <3> QED BY <1>2, <2>2, <3>1, PriceIs
  <2>3. CASE worker[w].plan \in Overmarked
    BY <2>3, OvermarkedTail
  <2>4. CASE worker[w].plan \in Squared
    BY <2>4, SquaredTail
  <2> QED BY <1>1, <2>1, <2>2, <2>3, <2>4 DEF Debt
<1>4. \A u \in Units : paid'[u] = IF u \in worker[w].due THEN 0 ELSE paid[u]
  BY <1>3, PriceIs
<1>5. mark' \in [Units -> {None, 0, Price}] /\ paid' \in [Units -> {0, Price}]
  <2>1. mark \in [Units -> {None, 0, Price}] /\ paid \in [Units -> {0, Price}]
    BY <1>1 DEF Ledger
  <2>2. \A u \in Units : paid'[u] \in {0, Price}
    BY <1>4, <2>1
  <2> QED BY <2>1, <2>2
<1>6. \A u \in CurUnits(w) : Awaits(w, u)'
  BY <1>2 DEF Awaits, At
<1>7. \A u \in Units \ CurUnits(w) : paid'[u] = paid[u] /\ Booked(u)'
  BY <1>1, <1>2, <1>4 DEF Booked
<1>8. Ledger'
  BY <1>c, <1>1, <1>2, <1>5, <1>6, <1>7, LedgerNext DEF Ledger
<1>9. Deals
  <2>1. ASSUME NEW u \in worker[w].due PROVE Dealt(u)
    <3>1. u \in Units /\ u \notin delivered /\ mark[u] # 0 /\ paid'[u] \in {0, Price}
      BY <1>c, <1>2, <1>3, <1>5, <2>1
    <3> QED BY <1>1, <3>1, DealtPaid
  <2>2. ASSUME NEW u \in Units \ worker[w].due PROVE Dealt(u)
    BY <1>1, <1>4, <2>2, DealtNot
  <2> QED BY <2>1, <2>2 DEF Deals
<1>10. Debt(w)'
  <2>1. \A u \in CurUnits(w) : u \notin worker[w].due => paid[u] = 0
    BY <1>3
  <2>2. \A u \in CurUnits(w) : paid'[u] = 0
    BY <1>c, <1>4, <2>1
  <2> QED BY <1>2, <1>3, <2>2 DEF Debt
<1> QED BY <1>2, <1>8, <1>9, <1>10 DEF Keeping, Books, At, Fetching

\* The other writes of the clean-up move no money.
LEMMA KeepsTick ==
  ASSUME Tasking, Booking, OneWorker, NEW w \in Workers, AtWork(w), worker[w].pc = "settle", Ticks(w),
         worker[w].plan # <<>>, Head(worker[w].plan) \notin {"unmark", "refund"},
         UNCHANGED <<mark, paid, delivered>>
  PROVE  Keeping(w)
<1>1. Ledger /\ Debt(w) /\ \A u \in Units : Booked(u) \/ u \in CurUnits(w)
  BY BookingKnown DEF Books, Awaits, At
<1>2. /\ worker'[w].pc = "settle" /\ CurUnits(w)' = CurUnits(w) /\ worker'[w].due = worker[w].due
      /\ worker'[w].plan = Tail(worker[w].plan) /\ AtWork(w)'
  BY DEF Ticks, Moves, CurUnits, AtWork
<1>3. \A u \in CurUnits(w) : Awaits(w, u)'
  BY <1>2 DEF Awaits, At
<1>4. Ledger' /\ Deals
  BY <1>1, <1>2, <1>3, Quiet
<1>5. Debt(w)'
  <2>1. CASE worker[w].plan \in Whole
    BY <2>1, WholeTail
  <2>2. CASE /\ worker[w].plan \in Owing
             /\ \A u \in CurUnits(w) : mark[u] = None /\ paid[u] = IF u \in worker[w].due THEN Price ELSE 0
    <3>1. Tail(worker[w].plan) \in Owing
      BY <2>2, OwingTail
    <3> QED BY <1>1, <1>2, <2>2, <3>1 DEF Debt
  <2>3. CASE worker[w].plan \in Overmarked
    BY <2>3, OvermarkedTail
  <2>4. CASE worker[w].plan \in Squared /\ \A u \in CurUnits(w) : mark[u] = None /\ paid[u] = 0
    <3>1. Tail(worker[w].plan) \in Squared
      BY <2>4, SquaredTail
    <3> QED BY <1>1, <1>2, <2>4, <3>1 DEF Debt
  <2> QED BY <1>1, <2>1, <2>2, <2>3, <2>4 DEF Debt
<1> QED BY <1>2, <1>4, <1>5 DEF Keeping, Books, At, Fetching

LEMMA KeepsSettle ==
  ASSUME Base, Tasking, Booking, OneWorker, NEW w \in Workers, Settle(w)
  PROVE  Keeping(w)
<1>0. Typed /\ AtWork(w) /\ worker[w].pc = "settle" /\ UNCHANGED delivered
  BY DEF Base, Settle, At, AtWork
<1>1. Ledger /\ Debt(w) /\ \A u \in Units : Booked(u) \/ u \in CurUnits(w)
  BY <1>0, BookingKnown DEF Books, Awaits, At
<1>2. ASSUME worker[w].plan = <<>> \/ Head(worker[w].plan) \in {"abort", "stop"}
      PROVE  \A u \in Units : Booked(u)
  <2>1. worker[w].plan \notin Whole \cup Owing \cup Overmarked
    BY <1>2, WholeTail, OwingTail, OvermarkedTail
  <2>2. \A u \in CurUnits(w) : mark[u] = None /\ paid[u] = 0
    BY <1>1, <2>1 DEF Debt
  <2> QED BY <1>1, <2>2 DEF Booked
<1>3. ASSUME worker[w].plan = <<>> \/ Head(worker[w].plan) \in {"abort", "stop"},
             Moves(w, {"pick"}) \/ Moves(w, {"finish"}), UNCHANGED <<mark, paid>>
      PROVE  Keeping(w)
  <2>1. Books(w)'
    BY <1>3, BooksNone DEF Moves, Fetching
  <2>2. Ledger' /\ Deals
    BY <1>0, <1>2, <1>3, Quiet
  <2> QED BY <2>1, <2>2 DEF Keeping
<1>4. CASE worker[w].plan = <<>> /\ Moves(w, {"pick"}) /\ UNCHANGED <<mark, paid>>
  BY <1>3, <1>4
<1>5. CASE /\ worker[w].plan # <<>> /\ Head(worker[w].plan) = "unmark" /\ Ticks(w)
           /\ mark' = Marked(CurUnits(w), None) /\ UNCHANGED paid
  BY <1>0, <1>5, KeepsUnmark
<1>6. CASE /\ worker[w].plan # <<>> /\ Head(worker[w].plan) = "refund" /\ Ticks(w)
           /\ paid' = [u \in Units |-> IF u \in worker[w].due THEN paid[u] - Price ELSE paid[u]]
           /\ UNCHANGED mark
  BY <1>0, <1>6, KeepsRefund
<1>7. CASE worker[w].plan # <<>> /\ Head(worker[w].plan) = "settle" /\ Ticks(w) /\ SettleItems(w)
  <2>1. UNCHANGED <<mark, paid>>
    BY <1>7 DEF SettleItems
  <2> QED BY <1>0, <1>7, <2>1, KeepsTick
<1>8. CASE /\ worker[w].plan # <<>> /\ Head(worker[w].plan) \in {"abort", "stop"}
           /\ Ticks(w) \/ Moves(w, {"finish"})
           /\ UNCHANGED <<mark, paid>>
  BY <1>0, <1>3, <1>8, KeepsTick
<1> QED BY <1>0, <1>4, <1>5, <1>6, <1>7, <1>8, SettleMoves

\* Whatever a worker does, the sales take the steps they may take and the
\* charges stay in order.
LEMMA KeepsWork ==
  ASSUME Base, Tasking, Booking, OneWorker, NEW w \in Workers, AtWork(w), Work(w)
  PROVE  Keeping(w)
<1>0. Typed
  BY DEF Base
<1>1. CASE Start(w) \/ EnterStage(w) \/ AllDone(w) \/ Stopped(w) \/ LimitReached(w) \/ LeaveStage(w)
  <2>1. UNCHANGED <<mark, paid, delivered>> /\ worker[w].pc \in {"start", "enter", "pick"}
    BY <1>1 DEF Start, EnterStage, AllDone, Stopped, LimitReached, LeaveStage, At
  <2>2. worker'[w].pc \in {"finish", "exit", "enter", "pick"}
    BY <1>0, <1>1, StartMoves, EnterMoves, AllDoneMoves, StopTurns, LimitMoves, LeaveMoves
       DEF Moves, Stopped, Verdicts
  <2>3. \A u \in Units : Booked(u)
    BY <2>1, BookingKnown DEF Awaits, At
  <2> QED BY <2>1, <2>2, <2>3, Quiet, BooksNone DEF Keeping, Fetching
<1>2. CASE Finish(w) \/ Exit(w)
  BY <1>2 DEF Finish, Exit, At, AtWork
<1> QED BY <1>1, <1>2, KeepsPick, KeepsCharge, KeepsBalance, KeepsTake, KeepsGoing, KeepsDeliver,
           KeepsEnriched, KeepsFail, KeepsSettle DEF Work

LEMMA BookingInit == KeywordInit => P!Init /\ Booking
<1> SUFFICES ASSUME KeywordInit PROVE P!Init /\ Booking
  OBVIOUS
<1>1. /\ mark = [u \in Units |-> None] /\ paid = [u \in Units |-> 0] /\ delivered = {}
      /\ \A w \in Workers : worker[w].pc = "idle"
  BY IdleRecord DEF KeywordInit
<1>2. Booking
  BY <1>1 DEF Booking, Ledger, Booked, AtWork
<1>3. \A u \in Units : SaleOf(u) = "open"
  BY <1>1, SaleIs, PriceIs
<1> QED BY <1>2, <1>3 DEF P!Init

LEMMA BookingStep ==
  ASSUME PaysClean, Base, Alone, Tasking, Booking, [Next]_vars
  PROVE  Booking' /\ Deals
<1>0. /\ Typed /\ run \in RunRecords /\ OneWorker /\ First \in Workers /\ Ledger
      /\ \A v \in Workers : AtWork(v) => Books(v)
  BY AloneIsOne, FirstAssumption DEF Base, Booking, Workers
<1>s. ASSUME UNCHANGED <<mark, paid, delivered>>, NEW w \in Workers,
             \A v \in Workers \ {w} : worker'[v] = worker[v],
             \/ worker'[w] = worker[w]
             \/ /\ worker'[w].pc \notin Fetching \cup {"settle"}
                /\ worker[w].pc \notin {"marked", "asked", "settle"}
      PROVE  Booking' /\ Deals
  <2>1. \A u \in Units : Booked(u)' <=> Booked(u)
    BY <1>s DEF Booked
  <2>2. ASSUME NEW v \in Workers, NEW u \in Units, AtWork(v), Awaits(v, u)
        PROVE  AtWork(v)' /\ Awaits(v, u)'
    <3>1. worker'[v] = worker[v]
      BY <1>s, <2>2 DEF Awaits, At
    <3> QED BY <2>2, <3>1 DEF AtWork, Awaits, At, CurUnits
  <2>3. Ledger'
    BY <1>0, <1>s, <2>1, <2>2 DEF Ledger
  <2>4. ASSUME NEW v \in Workers, AtWork(v)' PROVE Books(v)'
    <3>1. CASE worker'[v] = worker[v]
      <4>1. Books(v)
        BY <1>0, <2>4, <3>1 DEF AtWork
      <4> QED BY <1>s, <3>1, <4>1 DEF Books, At, Debt, CurUnits, Booked
    <3>2. CASE worker'[v] # worker[v]
      BY <1>s, <3>2, BooksNone
    <3> QED BY <3>1, <3>2
  <2>5. Deals
    BY <1>0, <1>s, DealtNot DEF Deals
  <2> QED BY <2>3, <2>4, <2>5 DEF Booking
<1>1. ASSUME NEW w \in Workers, Work(w) PROVE Booking' /\ Deals
  <2>0. \A v \in Workers \ {w} : worker'[v] = worker[v]
    BY <1>0, <1>1, WorkSummary DEF Base, Placed, Moves, JobStates
  <2>1. CASE AtWork(w)
    <3>1. Keeping(w)
      BY <1>0, <1>1, <2>1, KeepsWork
    <3>2. \A v \in Workers \ {w} : ~AtWork(v)'
      BY <1>0, <2>0, <2>1 DEF OneWorker, AtWork
    <3> QED BY <3>1, <3>2 DEF Keeping, Booking
  <2>2. CASE Finish(w) \/ Exit(w)
    <3>1. UNCHANGED <<mark, paid, delivered>> /\ worker[w].pc \in {"finish", "exit"}
      BY <2>2 DEF Finish, Exit, At
    <3>2. worker'[w].pc \in {"exit", "idle"}
      BY <1>0, <2>2, GoTurns, IdleRecord, Turned DEF Finish, Exit, PCs, Moves, Turns
    <3> QED BY <1>s, <2>0, <3>1, <3>2 DEF Fetching
  <2>3. AtWork(w) \/ Finish(w) \/ Exit(w)
    BY <1>1 DEF Work, Start, EnterStage, AllDone, Stopped, Pick, LimitReached, LeaveStage, Charge, ReadBalance,
                TakeTokens, CountCharge, Discovered, RecordPair, Sampled, Scraped, Enriched, CallFails, Settle,
                AtWork, At
  <2> QED BY <2>1, <2>2, <2>3
<1>2. ASSUME NEW w \in Workers, Crash(w) PROVE Booking' /\ Deals
  <2>1. UNCHANGED <<mark, paid, delivered>> /\ worker[w].pc \notin {"marked", "asked", "settle"}
    BY <1>2 DEF Crash, PaysClean
  <2>2. Moves(w, {"dead"})
    BY <1>0, <1>2, CrashMoves
  <2> QED BY <1>s, <2>1, <2>2 DEF Moves, Fetching
<1>3. ASSUME NEW w \in Workers, Resume(w) PROVE Booking' /\ Deals
  <2>1. UNCHANGED <<mark, paid, delivered>> /\ worker[w].pc = "dead"
    BY <1>3 DEF Resume, At
  <2>2. Moves(w, {"start"})
    BY <1>0, <1>3, GoTurns DEF Resume, PCs
  <2> QED BY <1>s, <2>1, <2>2 DEF Moves, Fetching
<1>4. CASE Admit
  <2>1. Moves(First, {"start"}) /\ UNCHANGED <<mark, paid, delivered>>
    BY <1>0, <1>4, AdmitMoves DEF Admit
  <2>2. worker[First].pc = "idle"
    BY <1>0, <1>4 DEF Admit, Alone, NotStarted, Fresh, At
  <2> QED BY <1>0, <1>s, <2>1, <2>2 DEF Moves, Fetching
<1>5. CASE UNCHANGED <<mark, paid, delivered, worker>>
  BY <1>0, <1>s, <1>5
<1>6. CASE Continue
  <2>1. UNCHANGED <<mark, paid, delivered>>
    BY <1>6 DEF Continue
  <2>2. CASE UNCHANGED <<run, job, worker, cand>>
    BY <1>5, <2>1, <2>2
  <2>3. ASSUME NEW w \in Workers, Moves(w, {"start"}), job[w] = "none" PROVE Booking' /\ Deals
    <3>1. worker[w].pc = "idle"
      BY <2>3 DEF Alone, NotStarted, At
    <3> QED BY <1>s, <2>1, <2>3, <3>1 DEF Moves, Fetching
  <2> QED BY <1>0, <1>6, <2>2, <2>3, ContinueMoves
<1>7. CASE BeginCancel \/ CancelJob \/ BeginReapply \/ Reapply \/ BeginContinue
  BY <1>5, <1>7 DEF BeginCancel, CancelJob, BeginReapply, Reapply, BeginContinue
<1>8. CASE UNCHANGED keywordVars
  BY <1>5, <1>8 DEF keywordVars
<1>9. CASE UNCHANGED vars
  BY <1>8, <1>9 DEF vars
<1> QED BY <1>1, <1>2, <1>3, <1>4, <1>6, <1>7, <1>8, <1>9 DEF Next

\* The pipeline sells every unit once (app/discovery/pipeline.py, "Money"):
\* whatever is cancelled, continued and judged again, and wherever a worker
\* dies but between two writes of a charge or a refund, a unit is delivered
\* only when it is paid for or needs no payment, is not charged again, and
\* gives back only what was paid.
THEOREM SellsOnceCorrect == EndsClean /\ Tame /\ PaysClean /\ Spec => SellsOnce
<1> SUFFICES ASSUME EndsClean, Tame, PaysClean PROVE Spec => SellsOnce
  OBVIOUS
<1> DEFINE Inv == Base /\ Alone /\ Tasking /\ Booking
<1>1. KeywordInit => Inv /\ P!Init
  BY BaseInit, AloneInit, TaskingInit, BookingInit
<1>2. Inv /\ [Next]_vars => Inv' /\ [P!Trade]_([u \in Units |-> SaleOf(u)])
  BY BaseStep, AloneStep, TaskingStep, BookingStep, DealsTrade
<1> QED BY <1>1, <1>2, PTL DEF Spec, SellsOnce, P!Spec

-----------------------------------------------------------------------------
(* tokens_charged is what the paid items cost *)

\* No worker dies between taking tokens and counting them.
CountsClean == "taken" \notin CrashAt

PaidUnits == {u \in Units : paid[u] # 0}

\* Only a worker that has just taken tokens has paid for items that are not
\* counted yet.
Tally ==
  /\ \A w \in Workers : At(w, "taken") =>
       worker[w].new \subseteq PaidUnits /\ run.charged = Cost(PaidUnits \ worker[w].new)
  /\ (\A w \in Workers : ~At(w, "taken")) => run.charged = Cost(PaidUnits)

LEMMA UnitsAre == Units \subseteq Names \X Items
BY ItemsAre DEF Units, Names

LEMMA UnitsFinite == IsFiniteSet(Units)
<1>1. IsFiniteSet(Pairs) /\ IsFiniteSet(Profiles)
  BY ItemsFinite
<1>2. \A s \in Stages : IsFiniteSet({s} \X ItemsOf(s))
  BY <1>1, FS_Singleton, FS_Product DEF ItemsOf
<1>3. Units = (({"discovery"} \X ItemsOf("discovery")) \cup ({"enrichment"} \X ItemsOf("enrichment")))
                \cup (({"sampling"} \X ItemsOf("sampling")) \cup ({"deep_scrape"} \X ItemsOf("deep_scrape")))
  BY StagesAre DEF Units
<1>4. IsFiniteSet(({"discovery"} \X ItemsOf("discovery")) \cup ({"enrichment"} \X ItemsOf("enrichment")))
  BY <1>2, StagesAre, FS_Union
<1>5. IsFiniteSet(({"sampling"} \X ItemsOf("sampling")) \cup ({"deep_scrape"} \X ItemsOf("deep_scrape")))
  BY <1>2, StagesAre, FS_Union
<1> QED BY <1>3, <1>4, <1>5, FS_Union

LEMMA CostSplits ==
  ASSUME NEW S \in SUBSET Units, NEW T \in SUBSET S
  PROVE  /\ Cost(S) \in Int /\ Cost(T) \in Int /\ Cost(S \ T) \in Int
         /\ Cost(S) = Cost(S \ T) + Cost(T)
<1>1. IsFiniteSet(S) /\ IsFiniteSet(T)
  BY UnitsFinite, FS_Subset
<1>2. Cardinality(S \ T) = Cardinality(S) - Cardinality(T)
  <2>1. S \cap T = T
    OBVIOUS
  <2> QED BY <1>1, <2>1, FS_Difference
<1>3. Cardinality(S) \in Nat /\ Cardinality(T) \in Nat /\ Cardinality(S \ T) \in Nat
  <2>1. IsFiniteSet(S \ T)
    BY <1>1, FS_Subset
  <2> QED BY <1>1, <2>1, FS_CardinalityType
<1> DEFINE a == Cardinality(S)
           b == Cardinality(T)
           c == Cardinality(S \ T)
<1>4. a \in Nat /\ b \in Nat /\ c \in Nat /\ a = c + b /\ Price \in Nat
  BY <1>2, <1>3, PriceAssumption
<1>5. Cost(S) = Price * a /\ Cost(T) = Price * b /\ Cost(S \ T) = Price * c
  BY DEF Cost
<1> HIDE DEF a, b, c
<1>6. Price * (c + b) = Price * c + Price * b
  BY <1>4
<1> QED BY <1>4, <1>5, <1>6

LEMMA TallyInit == KeywordInit => Tally
<1> SUFFICES ASSUME KeywordInit PROVE Tally
  OBVIOUS
<1>1. PaidUnits = {} /\ run.charged = 0 /\ \A w \in Workers : ~At(w, "taken")
  BY IdleRecord DEF KeywordInit, PaidUnits, At
<1>2. Cost({}) = 0
  BY FS_EmptySet, PriceAssumption DEF Cost
<1> QED BY <1>1, <1>2 DEF Tally

\* A step that takes no tokens and counts none.
LEMMA TallyKept ==
  ASSUME Tally, run'.charged = run.charged, UNCHANGED paid,
         \A w \in Workers : At(w, "taken")' <=> At(w, "taken"),
         \A w \in Workers : At(w, "taken") => worker'[w].new = worker[w].new
  PROVE  Tally'
<1>1. PaidUnits' = PaidUnits
  BY DEF PaidUnits
<1> QED BY <1>1 DEF Tally

LEMMA TallyTake ==
  ASSUME Base, Tasking, Booking, OneWorker, Tally, NEW w \in Workers, TakeTokens(w)
  PROVE  Tally'
<1>0. Typed /\ AtWork(w) /\ worker[w].pc = "asked"
  BY DEF Base, TakeTokens, At, AtWork
<1>1. \A v \in Workers : ~At(v, "taken")
  BY <1>0 DEF OneWorker, AtWork, At
<1>2. run.charged = Cost(PaidUnits)
  BY <1>1 DEF Tally
<1>3. run'.charged = run.charged
  BY DEF TakeTokens, OutOfTokens, StopRun, Base
<1>4. CASE /\ Moves(w, {"taken"}) /\ Keeps(w)
           /\ paid' = [u \in Units |-> IF u \in worker[w].new THEN paid[u] + Price ELSE paid[u]]
  <2>1. worker[w].new \subseteq Units /\ \A u \in worker[w].new : paid[u] = 0
    BY <1>0, BookingKnown, CurAre DEF Books, Fetching
  <2>2. \A u \in Units : paid'[u] = IF u \in worker[w].new THEN Price ELSE paid[u]
    BY <1>4, <2>1, PriceIs
  <2>3. worker[w].new \subseteq PaidUnits' /\ PaidUnits' \ worker[w].new = PaidUnits
    BY <2>1, <2>2, PriceIs DEF PaidUnits
  <2>4. worker'[w].new = worker[w].new /\ worker'[w].pc = "taken" /\ \A v \in Workers \ {w} : ~At(v, "taken")'
    BY <1>1, <1>4 DEF Keeps, Moves, At
  <2> QED BY <1>2, <1>3, <2>3, <2>4 DEF Tally, At
<1>5. CASE Moves(w, {"finish"}) /\ UNCHANGED paid
  BY <1>0, <1>1, <1>3, <1>5, TallyKept DEF Moves, At
<1> QED BY <1>0, <1>4, <1>5, TakeMoves

LEMMA TallyCount ==
  ASSUME Base, OneWorker, Tally, NEW w \in Workers, CountCharge(w)
  PROVE  Tally'
<1>0. Typed /\ AtWork(w) /\ At(w, "taken") /\ UNCHANGED paid /\ run \in RunRecords
  BY DEF Base, CountCharge, At, AtWork
<1>1. PICK T : T = worker[w].new
  OBVIOUS
<1>2. PICK S : S = PaidUnits
  OBVIOUS
<1>3. S \in SUBSET Units /\ T \in SUBSET S /\ run.charged = Cost(S \ T)
  BY <1>0, <1>1, <1>2 DEF Tally, PaidUnits
<1>4. run'.charged = run.charged + Cost(T)
  BY <1>0, <1>1 DEF CountCharge, RunRecords
<1>5. run'.charged = Cost(S)
  BY <1>3, <1>4, CostSplits
<1>6. PaidUnits' = S
  BY <1>0, <1>2 DEF PaidUnits
<1>7. \A v \in Workers : ~At(v, "taken")'
  <2>1. Moves(w, {"call"})
    BY <1>0, CountMoves
  <2> QED BY <1>0, <2>1 DEF OneWorker, AtWork, At, Moves
<1> QED BY <1>5, <1>6, <1>7 DEF Tally

LEMMA TallyRefund ==
  ASSUME Base, Tasking, Booking, OneWorker, Tally, NEW w \in Workers, AtWork(w), worker[w].pc = "settle", Ticks(w),
         worker[w].plan # <<>>, Head(worker[w].plan) = "refund",
         paid' = [u \in Units |-> IF u \in worker[w].due THEN paid[u] - Price ELSE paid[u]],
         run' = [run EXCEPT !.charged = @ - Cost(worker[w].due)]
  PROVE  Tally'
<1>0. run \in RunRecords /\ Ledger /\ Debt(w) /\ CurUnits(w) \subseteq Units /\ worker[w].due \subseteq CurUnits(w)
  BY BookingKnown, CurAre DEF Base, Books, At, Debt
<1>1. \A u \in worker[w].due : paid[u] = Price
  <2>1. CASE worker[w].plan \in Whole /\ \A u \in CurUnits(w) : Booked(u) /\ (u \in worker[w].due <=> mark[u] = Price)
    BY <1>0, <2>1, PriceIs DEF Booked
  <2>2. CASE \A u \in CurUnits(w) : mark[u] = None /\ paid[u] = IF u \in worker[w].due THEN Price ELSE 0
    BY <1>0, <2>2
  <2>3. CASE worker[w].plan \in Overmarked
    BY <2>3, OvermarkedTail
  <2>4. CASE worker[w].plan \in Squared
    BY <2>4, SquaredTail
  <2> QED BY <1>0, <2>1, <2>2, <2>3, <2>4 DEF Debt
<1>2. PICK T : T = worker[w].due
  OBVIOUS
<1>3. PICK S : S = PaidUnits
  OBVIOUS
<1>4. S \in SUBSET Units /\ T \in SUBSET S
  BY <1>0, <1>1, <1>2, <1>3, PriceIs DEF PaidUnits
<1>5. \A u \in Units : paid'[u] = IF u \in T THEN 0 ELSE paid[u]
  BY <1>1, <1>2, PriceIs
<1>6. PaidUnits' = S \ T
  BY <1>3, <1>5 DEF PaidUnits
<1>7. \A v \in Workers : ~At(v, "taken") /\ ~At(v, "taken")'
  BY DEF OneWorker, AtWork, At, Ticks, Moves
<1>8. run.charged = Cost(S) /\ run'.charged = run.charged - Cost(T)
  BY <1>0, <1>2, <1>3, <1>7 DEF Tally, RunRecords
<1>9. run'.charged = Cost(S \ T)
  BY <1>4, <1>8, CostSplits
<1> QED BY <1>6, <1>7, <1>9 DEF Tally

\* The other steps of a worker move no money and count none.
LEMMA TallyWork ==
  ASSUME Base, Tasking, Booking, OneWorker, Tally, NEW w \in Workers, Work(w)
  PROVE  Tally'
<1>0. Typed /\ run \in RunRecords /\ Placed(w)
  BY DEF Base
<1>k. ASSUME worker[w].pc # "taken", worker'[w].pc # "taken", \A v \in Workers \ {w} : worker'[v] = worker[v],
             run'.charged = run.charged, UNCHANGED paid
      PROVE  Tally'
  <2>1. \A v \in Workers : At(v, "taken")' <=> At(v, "taken")
    BY <1>k DEF At
  <2>2. \A v \in Workers : At(v, "taken") => worker'[v].new = worker[v].new
    BY <1>k DEF At
  <2> QED BY <1>k, <2>1, <2>2, TallyKept
<1>1. CASE Start(w) \/ Stopped(w)
  <2>1. run'.charged = run.charged /\ UNCHANGED paid /\ worker[w].pc \in {"start", "pick"}
    BY <1>0, <1>1 DEF Start, Stopped, StopRun, RunRecords, At
  <2>2. Moves(w, {"exit", "finish", "enter"})
    BY <1>0, <1>1, StartMoves, StopTurns DEF Stopped, Moves, Verdicts
  <2> QED BY <1>k, <2>1, <2>2 DEF Moves
<1>2. CASE EnterStage(w) \/ AllDone(w) \/ Pick(w) \/ LimitReached(w) \/ LeaveStage(w)
  <2>1. UNCHANGED <<run, paid>> /\ worker[w].pc \in {"enter", "pick"}
    BY <1>2 DEF EnterStage, AllDone, Pick, LimitReached, LeaveStage, At
  <2>2. Moves(w, {"pick", "finish", "charge", "call", "enter"})
    BY <1>0, <1>2, EnterMoves, AllDoneMoves, PickMoves, LimitMoves, LeaveMoves DEF Moves
  <2> QED BY <1>k, <2>1, <2>2 DEF Moves
<1>3. CASE Charge(w) \/ ReadBalance(w)
  <2>1. run'.charged = run.charged /\ UNCHANGED paid /\ worker[w].pc \in {"charge", "marked"}
    BY <1>0, <1>3 DEF Charge, ReadBalance, OutOfTokens, StopRun, RunRecords, At
  <2>2. Moves(w, {"marked", "finish", "asked", "call"})
    BY <1>0, <1>3, ChargeMoves, BalanceMoves DEF Moves
  <2> QED BY <1>k, <2>1, <2>2 DEF Moves
<1>4. CASE Discovered(w) \/ RecordPair(w) \/ Sampled(w) \/ Scraped(w) \/ Enriched(w)
  <2>1. UNCHANGED <<run, paid>> /\ worker[w].pc \in {"call", "record"}
    BY <1>4 DEF Discovered, RecordPair, Sampled, Scraped, Enriched, At
  <2>2. Moves(w, {"pick", "record", "settle"})
    BY <1>0, <1>4, DiscoveredMoves, DeliverMoves, EnrichedMoves DEF Moves, Owes
  <2> QED BY <1>k, <2>1, <2>2 DEF Moves
<1>5. CASE CallFails(w)
  <2>1. UNCHANGED <<run, paid>> /\ worker[w].pc = "call"
    BY <1>5 DEF CallFails, At
  <2>2. Moves(w, {"settle"})
    <3>1. worker[w].stage \in Stages
      BY <1>0, <2>1 DEF Placed, AtWork
    <3> QED BY <1>0, <1>5, <3>1, FailMoves DEF Owes
  <2> QED BY <1>k, <2>1, <2>2 DEF Moves
<1>6. CASE Finish(w) \/ Exit(w)
  <2>1. run'.charged = run.charged /\ UNCHANGED paid /\ worker[w].pc \in {"finish", "exit"}
    BY <1>0, <1>6 DEF Finish, Exit, RunRecords, At
  <2>2. worker'[w].pc # "taken" /\ \A v \in Workers \ {w} : worker'[v] = worker[v]
    BY <1>0, <1>6, GoTurns, IdleRecord, Turned DEF Finish, Exit, PCs, Moves, Turns
  <2> QED BY <1>k, <2>1, <2>2
<1>7. CASE Settle(w)
  <2>0. AtWork(w) /\ worker[w].pc = "settle"
    BY <1>7 DEF Settle, At, AtWork
  <2>1. CASE Moves(w, {"pick", "settle", "finish"}) /\ run'.charged = run.charged /\ UNCHANGED paid
    BY <1>k, <2>0, <2>1 DEF Moves
  <2>2. CASE /\ worker[w].plan # <<>> /\ Head(worker[w].plan) = "refund" /\ Ticks(w)
             /\ paid' = [u \in Units |-> IF u \in worker[w].due THEN paid[u] - Price ELSE paid[u]]
             /\ run' = [run EXCEPT !.charged = @ - Cost(worker[w].due)]
    BY <2>0, <2>2, TallyRefund
  <2>3. worker[w].plan # <<>> /\ Head(worker[w].plan) \in {"abort", "stop"} => run'.charged = run.charged
    BY <1>0, <1>7 DEF Settle, Abort, StopRun, RunRecords
  <2>4. SettleItems(w) => run' = run /\ UNCHANGED paid
    BY DEF SettleItems
  <2> QED BY <1>0, <1>7, <2>1, <2>2, <2>3, <2>4, SettleMoves DEF Ticks, Moves
<1> QED BY <1>1, <1>2, <1>3, <1>4, <1>5, <1>6, <1>7, TallyTake, TallyCount DEF Work

LEMMA TallyStep ==
  ASSUME CountsClean, Base, Alone, Tasking, Booking, Tally, [Next]_vars
  PROVE  Tally'
<1>0. Typed /\ run \in RunRecords /\ OneWorker /\ First \in Workers
  BY AloneIsOne, FirstAssumption DEF Base, Workers
<1>s. ASSUME run'.charged = run.charged, UNCHANGED paid, NEW w \in Workers, worker[w].pc # "taken",
             Moves(w, {"dead", "start"})
      PROVE  Tally'
  <2>1. \A v \in Workers : At(v, "taken")' <=> At(v, "taken")
    BY <1>s DEF At, Moves
  <2>2. \A v \in Workers : At(v, "taken") => worker'[v].new = worker[v].new
    BY <1>s DEF At, Moves
  <2> QED BY <1>s, <2>1, <2>2, TallyKept
<1>1. ASSUME NEW w \in Workers, Work(w) PROVE Tally'
  BY <1>0, <1>1, TallyWork
<1>2. ASSUME NEW w \in Workers, Crash(w) PROVE Tally'
  <2>1. UNCHANGED <<run, paid>> /\ worker[w].pc # "taken"
    BY <1>2 DEF Crash, CountsClean
  <2>2. Moves(w, {"dead", "start"})
    BY <1>0, <1>2, CrashMoves DEF Moves
  <2> QED BY <1>s, <2>1, <2>2
<1>3. ASSUME NEW w \in Workers, Resume(w) PROVE Tally'
  <2>1. UNCHANGED <<run, paid>> /\ worker[w].pc = "dead"
    BY <1>3 DEF Resume, At
  <2>2. Moves(w, {"dead", "start"})
    BY <1>0, <1>3, GoTurns DEF Resume, PCs, Moves
  <2> QED BY <1>s, <2>1, <2>2
<1>4. CASE Admit
  <2>1. Moves(First, {"dead", "start"}) /\ UNCHANGED paid /\ run'.charged = run.charged
    BY <1>0, <1>4, AdmitMoves DEF Admit, Moves, RunRecords
  <2>2. worker[First].pc = "idle"
    BY <1>0, <1>4 DEF Admit, Alone, NotStarted, Fresh, At
  <2> QED BY <1>0, <1>s, <2>1, <2>2
<1>5. CASE UNCHANGED <<paid, worker>> /\ run'.charged = run.charged
  BY <1>5, TallyKept DEF At
<1>6. CASE Continue
  <2>1. UNCHANGED paid /\ run'.charged = run.charged
    BY <1>0, <1>6 DEF Continue, RunRecords
  <2>2. CASE UNCHANGED <<run, job, worker, cand>>
    BY <1>5, <2>1, <2>2
  <2>3. ASSUME NEW w \in Workers, Moves(w, {"start"}), job[w] = "none" PROVE Tally'
    <3>1. worker[w].pc = "idle"
      BY <2>3 DEF Alone, NotStarted, At
    <3> QED BY <1>s, <2>1, <2>3, <3>1 DEF Moves
  <2> QED BY <1>0, <1>6, <2>2, <2>3, ContinueMoves
<1>7. CASE BeginCancel \/ CancelJob \/ BeginReapply \/ Reapply \/ BeginContinue
  BY <1>0, <1>5, <1>7 DEF BeginCancel, CancelJob, BeginReapply, Reapply, BeginContinue, RunRecords
<1>8. CASE UNCHANGED keywordVars
  BY <1>5, <1>8 DEF keywordVars
<1>9. CASE UNCHANGED vars
  BY <1>8, <1>9 DEF vars
<1> QED BY <1>1, <1>2, <1>3, <1>4, <1>6, <1>7, <1>8, <1>9 DEF Next

LEMMA BooksAgreeThen == Booking /\ Tally => BooksAgree
<1> SUFFICES ASSUME Booking, Tally, \A w \in Workers : ~AtWork(w) \/ worker[w].pc \in {"start", "enter", "pick"}
             PROVE  /\ \A u \in Units : paid[u] \in {0, Price} /\ paid[u] = IF mark[u] = None THEN 0 ELSE mark[u]
                    /\ run.charged = Cost({u \in Units : paid[u] # 0})
  BY DEF BooksAgree
<1>1. \A u \in Units : Booked(u) /\ paid[u] \in {0, Price}
  BY DEF Booking, Ledger, Awaits, At
<1>2. \A w \in Workers : ~At(w, "taken")
  BY DEF AtWork, At
<1> QED BY <1>1, <1>2 DEF Booked, Tally, PaidUnits

\* The charges on the items, what was paid and tokens_charged agree whenever no
\* worker is in the middle of an item (_charge, call_failed and _refund in
\* app/discovery/pipeline.py), for any number of searches and profiles.
THEOREM BooksAgreeCorrect == EndsClean /\ Tame /\ PaysClean /\ CountsClean /\ Spec => []BooksAgree
<1> SUFFICES ASSUME EndsClean, Tame, PaysClean, CountsClean PROVE Spec => []BooksAgree
  OBVIOUS
<1> DEFINE Inv == Base /\ Alone /\ Tasking /\ Booking /\ Tally
<1>1. KeywordInit => Inv
  BY BaseInit, AloneInit, TaskingInit, BookingInit, TallyInit
<1>2. Inv /\ [Next]_vars => Inv'
  BY BaseStep, AloneStep, TaskingStep, BookingStep, TallyStep
<1>3. Inv => BooksAgree
  BY BooksAgreeThen
<1> QED BY <1>1, <1>2, <1>3, PTL DEF Spec

\* However a search is cancelled, judged again and continued, nothing is paid
\* for twice ("a resumed run never pays the same item twice").
THEOREM PaidOnceCorrect == EndsClean /\ Tame /\ PaysClean /\ Spec => []PaidOnce
<1> SUFFICES ASSUME EndsClean, Tame, PaysClean PROVE Spec => []PaidOnce
  OBVIOUS
<1> DEFINE Inv == Base /\ Alone /\ Tasking /\ Booking
<1>1. KeywordInit => Inv
  BY BaseInit, AloneInit, TaskingInit, BookingInit
<1>2. Inv /\ [Next]_vars => Inv'
  BY BaseStep, AloneStep, TaskingStep, BookingStep
<1>3. Inv => PaidOnce
  BY PriceAssumption DEF Booking, Ledger, PaidOnce
<1> QED BY <1>1, <1>2, <1>3, PTL DEF Spec

-----------------------------------------------------------------------------
(* A keyword search spends tokens in the steps of Tokens *)

LEMMA WorkSpends ==
  ASSUME Base, NEW w \in Workers, Work(w)
  PROVE  [TokensNext]_tokenVars
<1>1. CASE Start(w) \/ EnterStage(w) \/ AllDone(w) \/ Stopped(w) \/ Pick(w) \/ LimitReached(w) \/ LeaveStage(w)
             \/ Charge(w) \/ CountCharge(w) \/ Discovered(w) \/ RecordPair(w) \/ Enriched(w) \/ Sampled(w)
             \/ Scraped(w) \/ CallFails(w) \/ Finish(w) \/ Exit(w)
  <2>1. UNCHANGED tokenVars
    BY <1>1 DEF Start, EnterStage, AllDone, Stopped, Pick, LimitReached, LeaveStage, Charge, CountCharge,
                Discovered, RecordPair, Enriched, Sampled, Scraped, CallFails, Finish, Exit
  <2> QED BY <2>1
<1>2. worker[w] \in WorkerRecords
  BY DEF Base, Typed
<1>3. PICK n : n = Cost(worker[w].new)
  OBVIOUS
<1>4. PICK m : m = Cost(worker[w].due)
  OBVIOUS
<1>5. n \in Nat /\ m \in Nat
  <2>1. worker[w].new \in SUBSET (Names \X Items) /\ worker[w].due \in SUBSET (Names \X Items)
    BY <1>2 DEF WorkerRecords
  <2> QED BY <1>3, <1>4, <2>1, CostIsInt
<1>6. CASE ReadBalance(w)
  <2>1. UNCHANGED tokenVars \/ Ask(w, n)
    BY <1>3, <1>6 DEF ReadBalance
  <2> QED BY <1>5, <2>1 DEF TokensNext, Workers
<1>7. CASE TakeTokens(w)
  <2>1. Take(w) \/ Refuse(w)
    BY <1>7 DEF TakeTokens
  <2> QED BY <2>1 DEF TokensNext, Workers
<1>8. CASE Settle(w)
  <2>1. UNCHANGED tokenVars \/ Refund(m)
    <3>1. CASE worker[w].plan = <<>>
      BY <1>8, <3>1 DEF Settle
    <3>2. CASE worker[w].plan # <<>> /\ ~GiveBack(w)
      <4>1. Unmark(w) \/ SettleItems(w) \/ Abort(w, FALSE) \/ Abort(w, TRUE)
        <5>1. Head(worker[w].plan) \in {"unmark", "refund", "settle", "abort", "stop"}
          BY <1>2, <3>2, WholeTail, OwingTail, OvermarkedTail, SquaredTail DEF WorkerRecords, Plans
        <5> QED BY <1>8, <3>2, <5>1 DEF Settle
      <4> QED BY <4>1 DEF Unmark, SettleItems, Abort
    <3>3. CASE GiveBack(w)
      BY <1>4, <3>3 DEF GiveBack
    <3> QED BY <3>1, <3>2, <3>3
  <2> QED BY <1>5, <2>1 DEF TokensNext
<1> QED BY <1>1, <1>6, <1>7, <1>8 DEF Work

\* A keyword search takes, refuses and gives back tokens as Tokens says
\* (consume and refund of app/billing/tokens.py as charge and refund of
\* app/discovery/pipeline.py call them), wherever its workers die.
THEOREM ImplementsTokens == Spec => TokensSpec
<1>1. KeywordInit => TokensInit /\ Base
  BY BaseInit DEF KeywordInit
<1>2. Base /\ [Next]_vars => Base'
  BY BaseStep
<1>3. Base /\ [Next]_vars => [TokensNext]_tokenVars
  <2> SUFFICES ASSUME Base, [Next]_vars PROVE [TokensNext]_tokenVars
    OBVIOUS
  <2>1. ASSUME NEW w \in Workers, Work(w) PROVE [TokensNext]_tokenVars
    BY <2>1, WorkSpends
  <2>2. ASSUME NEW w \in Workers, Crash(w) PROVE [TokensNext]_tokenVars
    BY <2>2 DEF Crash, TokensNext, Workers
  <2>3. ASSUME NEW w \in Workers, Resume(w) PROVE [TokensNext]_tokenVars
    BY <2>3 DEF Resume
  <2>4. CASE Admit \/ BeginCancel \/ CancelJob \/ BeginReapply \/ Reapply \/ BeginContinue \/ Continue
    <3>1. UNCHANGED tokenVars
      BY <2>4 DEF Admit, BeginCancel, CancelJob, BeginReapply, Reapply, BeginContinue, Continue
    <3> QED BY <3>1
  <2>5. CASE Balance
    BY <2>5 DEF Balance, TokensNext
  <2>6. CASE UNCHANGED vars
    BY <2>6 DEF vars
  <2> QED BY <2>1, <2>2, <2>3, <2>4, <2>5, <2>6 DEF Next
<1> QED BY <1>1, <1>2, <1>3, PTL DEF Spec, TokensSpec

\* So no keyword search overdraws the balance.
COROLLARY SearchNeverOverdraws == Spec => []NeverOverdrawn
BY ImplementsTokens, NeverOverdrawnCorrect, PTL
=============================================================================
