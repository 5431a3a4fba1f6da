----------------------------- MODULE KeywordRun -----------------------------
(***************************************************************************)
(* One keyword search (app/discovery): the pipeline of four stages, the    *)
(* tokens it spends on every item, and what users do to it meanwhile.      *)
(*                                                                         *)
(* The run and its candidates live in the database; a worker works through *)
(* them and may die anywhere, in which case the job queue resumes it.  A   *)
(* charge is recorded on its item (`mark') before the tokens are taken, so *)
(* that a resumed run does not pay again; a failed call is refunded.       *)
(*                                                                         *)
(* One platform; keyword searches and profiles are the items.  Filters,    *)
(* metrics and Apify results are nondeterministic outcomes.                *)
(*                                                                         *)
(* Left out: calls of the database that fail while the worker lives on.  A *)
(* consumption that fails so has its mark struck out and fails its item,   *)
(* as a failed call does; whether it took the tokens is not known then.    *)
(***************************************************************************)
EXTENDS Tokens, Sequences, FiniteSets

CONSTANTS Pairs,        \* keyword searches of the run
          Profiles,     \* profiles the searches may find
          First,        \* the job that starts the run
          Price,        \* tokens of one unit of any action
          Budget,       \* max_tokens of the run
          CrashAt,      \* where a worker may die
          MaxCrashes, MaxCancels, MaxReapplies   \* bounds

\* The jobs of the run: the first one and its continuations.
Workers == Spenders
StageNames == <<"discovery", "enrichment", "sampling", "deep_scrape">>
Stages == {StageNames[i] : i \in 1..4}
ItemsOf(s) == IF s = "discovery" THEN Pairs ELSE Profiles
Units == UNION {{s} \X ItemsOf(s) : s \in Stages}

ASSUME PriceAssumption == Price \in Nat \ {0} /\ Budget \in Nat
ASSUME FirstAssumption == First \in Spenders
ASSUME OnlyTheWorkingDie == CrashAt \cap {"idle", "dead"} = {}
ASSUME ItemsFinite == IsFiniteSet(Pairs) /\ IsFiniteSet(Profiles)

VARIABLES run,        \* status, acknowledged end, cancel_requested, tokens_charged
          stage,      \* how far each stage is
          pairsDone,  \* discovery_pairs_done
          failedAt,   \* the stage in which the platform failed, or "none"
          cand,       \* the candidates
          mark,       \* the charge recorded on each unit, or None
          worker,     \* what each worker is doing
          job,        \* the queue's record of each job
          user,       \* requests under way
          paid,       \* history: tokens taken for a unit, less what was given back
          delivered,  \* history: units whose result was stored
          crashes

keywordVars == <<run, stage, pairsDone, failedAt, cand, mark, worker, job, user,
                 paid, delivered, crashes>>
vars == <<tokenVars, keywordVars>>

PCs == {"idle", "start", "enter", "pick", "charge", "marked", "asked", "taken", "call",
        "record", "settle", "finish", "exit", "dead"}
Verdicts == {"completed", "cancelled", "error"}
Unknown == [reached |-> "none", status |-> "none", deep |-> "none"]
Idle == [pc |-> "idle", stage |-> "none", todo |-> {}, cur |-> {}, new |-> {}, due |-> {},
         plan |-> <<>>, ok |-> FALSE, bad |-> FALSE, verdict |-> "completed"]

KeywordTypeOK ==
  /\ TokensTypeOK
  /\ run \in [status : {"none", "running", "completed", "cancelled", "error"},
              acked : BOOLEAN, cancel : BOOLEAN, charged : Int, budget : Int]
  /\ stage \in [Stages -> {"pending", "running", "done", "failed", "stopped"}]
  /\ pairsDone \subseteq Pairs
  /\ failedAt \in Stages \cup {"none"}
  /\ cand \in [Profiles -> [reached : {"none", "discovered", "enriched", "sampled", "scraped"},
                            status : {"none", "pending", "passed", "rejected", "needs_sampling", "error"},
                            deep : {"none", "done", "error"}]]
  /\ mark \in [Units -> Nat \cup {None}]
  /\ \A w \in Workers :
       /\ worker[w].pc \in PCs /\ worker[w].verdict \in Verdicts
       /\ worker[w].cur \subseteq Pairs \cup Profiles /\ worker[w].todo \subseteq Pairs \cup Profiles
  /\ job \in [Workers -> {"none", "running", "cancelled", "ended"}]
  /\ paid \in [Units -> Int] /\ delivered \subseteq Units

KeywordInit ==
  /\ TokensInit
  /\ run = [status |-> "none", acked |-> FALSE, cancel |-> FALSE, charged |-> 0, budget |-> Budget]
  /\ stage = [s \in Stages |-> "pending"]
  /\ pairsDone = {} /\ failedAt = "none"
  /\ cand = [p \in Profiles |-> Unknown]
  /\ mark = [u \in Units |-> None]
  /\ worker = [w \in Workers |-> Idle]
  /\ job = [w \in Workers |-> "none"]
  /\ user = [cancelling |-> FALSE, reapplying |-> FALSE, continuing |-> FALSE,
             cancels |-> 0, reapplies |-> 0]
  /\ paid = [u \in Units |-> 0] /\ delivered = {}
  /\ crashes = 0

-----------------------------------------------------------------------------
(* Starting *)

\* The checks of an admission come first and change nothing; a start that
\* fails gives the monthly search back and removes the run.
Admit ==
  /\ run.status = "none"
  /\ \/ ~balance.metered
     \/ balance.expires # "past" /\ balance.remaining >= Price * Cardinality(Pairs)
  /\ run' = [run EXCEPT !.status = "running"]
  /\ job' = [job EXCEPT ![First] = "running"]
  /\ worker' = [worker EXCEPT ![First].pc = "start"]
  /\ UNCHANGED <<tokenVars, stage, pairsDone, failedAt, cand, mark, user, paid, delivered, crashes>>

\* A worker asks whether it has been cancelled: the flag and the status of
\* the run, and the record of the first job.
ShouldAbort == run.cancel \/ run.status = "cancelled" \/ job[First] = "cancelled"

At(w, pc) == worker[w].pc = pc
Go(w, pc) == worker' = [worker EXCEPT ![w].pc = pc]

\* A cancelled run is acknowledged at once; without an Apify token it fails.
Start(w) ==
  /\ At(w, "start")
  /\ \/ /\ ShouldAbort
        /\ run' = [run EXCEPT !.status = "cancelled", !.cancel = TRUE, !.acked = TRUE]
        /\ Go(w, "exit")
     \/ /\ ~ShouldAbort
        /\ worker' = [worker EXCEPT ![w] = [Idle EXCEPT !.pc = "finish", !.verdict = "error"]]
        /\ UNCHANGED run
     \/ /\ ~ShouldAbort
        /\ worker' = [worker EXCEPT ![w] = [Idle EXCEPT !.pc = "enter"]]
        /\ UNCHANGED run
  /\ UNCHANGED <<tokenVars, stage, pairsDone, failedAt, cand, mark, job, user, paid, delivered, crashes>>

-----------------------------------------------------------------------------
(* The stages *)

Having(reached, status) == {p \in Profiles : cand[p].reached = reached /\ cand[p].status = status}

\* What a stage finds to do when it begins.
Todo(s) ==
  CASE s = "discovery"   -> Pairs \ pairsDone
    [] s = "enrichment"  -> IF failedAt = "none" THEN Having("discovered", "pending") ELSE {}
    [] s = "sampling"    -> IF failedAt = "none" THEN Having("enriched", "pending") ELSE {}
    [] s = "deep_scrape" -> {p \in Profiles : cand[p].status = "passed" /\ cand[p].deep # "done"}

\* The filters pass a candidate or reject it.
Judged(c, reached, passed, good) ==
  [c EXCEPT !.reached = reached, !.status = IF good THEN passed ELSE "rejected"]

FirstOpen == {s \in Stages : /\ stage[s] # "done"
                             /\ \E i \in 1..4 : /\ StageNames[i] = s
                                                /\ \A k \in 1..(i - 1) : stage[StageNames[k]] = "done"}

\* The next stage that is not done.  Profiles that need no details, or whose
\* details are cached, are judged while enrichment is being prepared.
EnterStage(w) ==
  /\ At(w, "enter")
  /\ \E s \in FirstOpen :
       /\ stage' = [stage EXCEPT ![s] = "running"]
       /\ \E free \in IF s = "enrichment" THEN SUBSET Todo(s) ELSE {{}} :
          \E good \in SUBSET free :
            /\ cand' = [p \in Profiles |-> IF p \in free
                          THEN Judged(cand[p], "enriched", "pending", p \in good) ELSE cand[p]]
            /\ worker' = [worker EXCEPT ![w] = [Idle EXCEPT !.pc = "pick", !.stage = s,
                                                            !.todo = Todo(s) \ free]]
  /\ UNCHANGED <<tokenVars, run, pairsDone, failedAt, mark, job, user, paid, delivered, crashes>>

AllDone(w) ==
  /\ At(w, "enter") /\ FirstOpen = {}
  /\ worker' = [worker EXCEPT ![w].pc = "finish",
                  ![w].verdict = IF failedAt = "none" THEN "completed" ELSE "error"]
  /\ UNCHANGED <<tokenVars, run, stage, pairsDone, failedAt, cand, mark, job, user, paid, delivered, crashes>>

\* StopRun leaves the stage stopped; a cancellation is acknowledged before
\* the worker finishes the run.
StopRun(w, verdict) ==
  /\ stage' = [stage EXCEPT ![worker[w].stage] = "stopped"]
  /\ run' = IF verdict = "cancelled"
            THEN [run EXCEPT !.status = "cancelled", !.cancel = TRUE, !.acked = TRUE] ELSE run
  /\ worker' = [worker EXCEPT ![w] = [Idle EXCEPT !.pc = "finish", !.verdict = verdict]]

\* Cancellation is noticed between items.
Stopped(w) ==
  /\ At(w, "pick") /\ worker[w].todo # {} /\ ShouldAbort
  /\ StopRun(w, "cancelled")
  /\ UNCHANGED <<tokenVars, pairsDone, failedAt, cand, mark, job, user, paid, delivered, crashes>>

\* Enrichment takes its candidates in chunks, the other stages one item at a
\* time.  Posts that are known, or a profile without posts, cost nothing.
Pick(w) ==
  LET s == worker[w].stage IN
  /\ At(w, "pick") /\ worker[w].todo # {} /\ ~ShouldAbort
  /\ s = "discovery" => \E p \in Profiles : cand[p].reached = "none"
  /\ \E chunk \in IF s = "enrichment" THEN {worker[w].todo} ELSE {{i} : i \in worker[w].todo} :
       \/ /\ worker' = [worker EXCEPT ![w].cur = chunk,
                ![w].new = {u \in {s} \X chunk : mark[u] = None},
                ![w].pc = IF \E i \in chunk : mark[<<s, i>>] = None THEN "charge" ELSE "call"]
          /\ UNCHANGED cand
       \/ /\ s \in {"sampling", "deep_scrape"}
          /\ \E good \in BOOLEAN, p \in chunk :
               cand' = [cand EXCEPT ![p] = IF s = "sampling"
                          THEN Judged(@, "sampled", "passed", good)
                          ELSE [@ EXCEPT !.deep = "done", !.reached = "scraped"]]
          /\ worker' = [worker EXCEPT ![w].todo = @ \ chunk, ![w].ok = TRUE]
  /\ UNCHANGED <<tokenVars, run, stage, pairsDone, failedAt, mark, job, user, paid, delivered, crashes>>

\* The candidate limit ends discovery early.
LimitReached(w) ==
  /\ At(w, "pick") /\ worker[w].stage = "discovery" /\ worker[w].todo # {} /\ ~ShouldAbort
  /\ \A p \in Profiles : cand[p].reached # "none"
  /\ worker' = [worker EXCEPT ![w].todo = {}]
  /\ UNCHANGED <<tokenVars, run, stage, pairsDone, failedAt, cand, mark, job, user, paid, delivered, crashes>>

\* A stage in which everything failed fails the platform, unless discovery
\* already found something.
LeaveStage(w) ==
  LET s == worker[w].stage
      fails == /\ worker[w].bad /\ ~worker[w].ok /\ s # "deep_scrape"
               /\ s = "discovery" => \A p \in Profiles : cand[p].reached = "none"
      failed == IF fails THEN s ELSE failedAt
  IN
  /\ At(w, "pick") /\ worker[w].todo = {}
  /\ failedAt' = failed
  /\ stage' = [stage EXCEPT ![s] = IF failed = s THEN "failed" ELSE "done"]
  /\ worker' = [worker EXCEPT ![w] = [Idle EXCEPT !.pc = IF failed = s THEN "finish" ELSE "enter",
                                                  !.verdict = IF failed = s THEN "error" ELSE @]]
  /\ UNCHANGED <<tokenVars, run, pairsDone, cand, mark, job, user, paid, delivered, crashes>>

-----------------------------------------------------------------------------
(* Paying *)

Cost(units) == Price * Cardinality(units)

\* max_tokens of the run, checked before anything is charged.
Affordable(w) == run.charged + Cost(worker[w].new) <= run.budget

Marked(units, fee) == [u \in Units |-> IF u \in units THEN fee ELSE mark[u]]

\* The charge is recorded on the items first.
Charge(w) ==
  /\ At(w, "charge")
  /\ IF Affordable(w)
     THEN /\ mark' = Marked(worker[w].new, Price)
          /\ Go(w, "marked")
          /\ UNCHANGED <<run, stage>>
     ELSE /\ StopRun(w, "completed")
          /\ UNCHANGED mark
  /\ UNCHANGED <<tokenVars, pairsDone, failedAt, cand, job, user, paid, delivered, crashes>>

\* Slip: the charge stays recorded although nothing was paid.
OutOfTokensKeep(w) == StopRun(w, "completed") /\ UNCHANGED mark

\* Out of tokens: the charge is struck out again and the run stops.
OutOfTokens(w) ==
  /\ mark' = Marked(worker[w].new, None)
  /\ StopRun(w, "completed")

\* consume reads the balance: an organization without one is not charged.
ReadBalance(w) ==
  /\ At(w, "marked")
  /\ \/ /\ ~balance.metered
        /\ mark' = Marked(worker[w].new, 0)
        /\ Go(w, "call")
        /\ UNCHANGED <<tokenVars, run, stage>>
     \/ /\ balance.metered /\ balance.expires = "past"
        /\ OutOfTokens(w)
        /\ UNCHANGED tokenVars
     \/ /\ Ask(w, Cost(worker[w].new))
        /\ Go(w, "asked")
        /\ UNCHANGED <<mark, run, stage>>
  /\ UNCHANGED <<pairsDone, failedAt, cand, job, user, paid, delivered, crashes>>

TakeTokens(w) ==
  /\ At(w, "asked")
  /\ \/ /\ Take(w)
        /\ paid' = [u \in Units |-> IF u \in worker[w].new THEN paid[u] + Price ELSE paid[u]]
        /\ Go(w, "taken")
        /\ UNCHANGED <<mark, run, stage>>
     \/ /\ Refuse(w)
        /\ OutOfTokens(w)
        /\ UNCHANGED paid
  /\ UNCHANGED <<pairsDone, failedAt, cand, job, user, delivered, crashes>>

CountCharge(w) ==
  /\ At(w, "taken")
  /\ run' = [run EXCEPT !.charged = @ + Cost(worker[w].new)]
  /\ Go(w, "call")
  /\ UNCHANGED <<tokenVars, stage, pairsDone, failedAt, cand, mark, job, user, paid, delivered, crashes>>

-----------------------------------------------------------------------------
(* The Apify calls and what follows them *)

\* The current items are dealt with.
Done(w) == [worker[w] EXCEPT !.pc = "pick", !.todo = @ \ worker[w].cur, !.cur = {}, !.ok = TRUE]

\* Discovery stores the profiles it finds, then records the search as done.
Discovered(w) ==
  /\ At(w, "call") /\ worker[w].stage = "discovery"
  /\ \E found \in SUBSET {p \in Profiles : cand[p].reached = "none"} :
       cand' = [p \in Profiles |-> IF p \in found
                  THEN [reached |-> "discovered", status |-> "pending", deep |-> "none"] ELSE cand[p]]
  /\ Go(w, "record")
  /\ UNCHANGED <<tokenVars, run, stage, pairsDone, failedAt, mark, job, user, paid, delivered, crashes>>

RecordPair(w) ==
  /\ At(w, "record")
  /\ pairsDone' = pairsDone \cup worker[w].cur
  /\ delivered' = delivered \cup ({"discovery"} \X worker[w].cur)
  /\ worker' = [worker EXCEPT ![w] = Done(w)]
  /\ UNCHANGED <<tokenVars, run, stage, failedAt, cand, mark, job, user, paid, crashes>>

\* A call that brought nothing for some items is followed by several small
\* writes, one plan for each way to fail; `due' are the charges to give back.
FollowUp(w, items, plan, ok) ==
  [worker[w] EXCEPT !.pc = "settle", !.plan = plan, !.cur = items, !.todo = @ \ worker[w].cur,
                    !.ok = @ \/ ok, !.bad = @ \/ ~ok,
                    !.due = {u \in {worker[w].stage} \X items : mark[u] \notin {None, 0}}]

\* Details came back for some of the chunk; the other shares are given back.
Enriched(w) ==
  /\ At(w, "call") /\ worker[w].stage = "enrichment"
  /\ \E got \in SUBSET worker[w].cur, good \in SUBSET worker[w].cur :
       /\ good \subseteq got
       /\ cand' = [p \in Profiles |-> IF p \in got
                     THEN Judged(cand[p], "enriched", "pending", p \in good) ELSE cand[p]]
       /\ delivered' = delivered \cup ({"enrichment"} \X got)
       /\ worker' = [worker EXCEPT ![w] =
            IF got = worker[w].cur THEN Done(w)
            ELSE FollowUp(w, worker[w].cur \ got, <<"refund", "unmark", "settle">>, TRUE)]
  /\ UNCHANGED <<tokenVars, run, stage, pairsDone, failedAt, mark, job, user, paid, crashes>>

Sampled(w) ==
  /\ At(w, "call") /\ worker[w].stage = "sampling"
  /\ \E good \in BOOLEAN :
       cand' = [p \in Profiles |-> IF p \in worker[w].cur
                  THEN Judged(cand[p], "sampled", "passed", good) ELSE cand[p]]
  /\ delivered' = delivered \cup ({"sampling"} \X worker[w].cur)
  /\ worker' = [worker EXCEPT ![w] = Done(w)]
  /\ UNCHANGED <<tokenVars, run, stage, pairsDone, failedAt, mark, job, user, paid, crashes>>

Scraped(w) ==
  /\ At(w, "call") /\ worker[w].stage = "deep_scrape"
  /\ cand' = [p \in Profiles |-> IF p \in worker[w].cur
                THEN [cand[p] EXCEPT !.deep = "done", !.reached = "scraped"] ELSE cand[p]]
  /\ delivered' = delivered \cup ({"deep_scrape"} \X worker[w].cur)
  /\ worker' = [worker EXCEPT ![w] = Done(w)]
  /\ UNCHANGED <<tokenVars, run, stage, pairsDone, failedAt, mark, job, user, paid, crashes>>

\* Slip: the charge of a failed call stays recorded on the item.
PlansKeepMark == [s \in Stages |-> IF s = "discovery" THEN <<"settle", "refund", "abort">>
                                   ELSE <<"refund", "abort", "settle">>]

\* The order in which a failed call of each stage is cleaned up.
FailurePlans == [discovery   |-> <<"unmark", "settle", "refund", "abort">>,
                 enrichment  |-> <<"unmark", "settle", "refund", "abort">>,
                 sampling    |-> <<"unmark", "refund", "abort", "settle">>,
                 deep_scrape |-> <<"unmark", "refund", "settle", "abort">>]

\* The call fails; collecting also fails when no comments could be fetched,
\* and is abandoned when it notices a cancellation.
CallFails(w) ==
  /\ At(w, "call")
  /\ \E plan \in {FailurePlans[worker[w].stage]}
        \cup IF worker[w].stage # "deep_scrape" THEN {}
             ELSE {<<"unmark", "refund", "settle">>}
                  \cup IF ShouldAbort THEN {<<"unmark", "refund", "stop">>} ELSE {} :
       worker' = [worker EXCEPT ![w] = FollowUp(w, worker[w].cur, plan, FALSE)]
  /\ UNCHANGED <<tokenVars, run, stage, pairsDone, failedAt, cand, mark, job, user, paid, delivered, crashes>>

CurUnits(w) == {worker[w].stage} \X worker[w].cur

Next1(w) == worker' = [worker EXCEPT ![w].plan = Tail(@)]

Unmark(w) ==
  /\ mark' = Marked(CurUnits(w), None)
  /\ Next1(w)
  /\ UNCHANGED <<tokenVars, run, stage, pairsDone, cand, paid>>

GiveBack(w) ==
  /\ Refund(Cost(worker[w].due))
  /\ paid' = [u \in Units |-> IF u \in worker[w].due THEN paid[u] - Price ELSE paid[u]]
  /\ run' = [run EXCEPT !.charged = @ - Cost(worker[w].due)]
  /\ Next1(w)
  /\ UNCHANGED <<stage, pairsDone, cand, mark>>

\* A failed search counts as done, a failed candidate keeps its error.
SettleItems(w) ==
  /\ IF worker[w].stage = "discovery"
     THEN pairsDone' = pairsDone \cup worker[w].cur /\ UNCHANGED cand
     ELSE /\ cand' = [p \in Profiles |->
               IF p \notin worker[w].cur THEN cand[p]
               ELSE IF worker[w].stage = "deep_scrape" THEN [cand[p] EXCEPT !.deep = "error"]
               ELSE [cand[p] EXCEPT !.status = "error"]]
          /\ UNCHANGED pairsDone
  /\ Next1(w)
  /\ UNCHANGED <<tokenVars, run, stage, mark, paid>>

Abort(w, always) ==
  /\ IF always \/ ShouldAbort THEN StopRun(w, "cancelled")
     ELSE Next1(w) /\ UNCHANGED <<stage, run>>
  /\ UNCHANGED <<tokenVars, pairsDone, cand, mark, paid>>

Settle(w) ==
  /\ At(w, "settle")
  /\ IF worker[w].plan = <<>>
     THEN /\ worker' = [worker EXCEPT ![w].pc = "pick", ![w].cur = {}, ![w].due = {}]
          /\ UNCHANGED <<tokenVars, run, stage, pairsDone, cand, mark, paid>>
     ELSE CASE Head(worker[w].plan) = "unmark" -> Unmark(w)
            [] Head(worker[w].plan) = "refund" -> GiveBack(w)
            [] Head(worker[w].plan) = "settle" -> SettleItems(w)
            [] Head(worker[w].plan) = "abort"  -> Abort(w, FALSE)
            [] Head(worker[w].plan) = "stop"   -> Abort(w, TRUE)
  /\ UNCHANGED <<failedAt, job, user, delivered, crashes>>

-----------------------------------------------------------------------------
(* The end of a run, crashes *)

Finish(w) ==
  /\ At(w, "finish")
  /\ run' = [run EXCEPT !.status = worker[w].verdict, !.acked = TRUE]
  /\ Go(w, "exit")
  /\ UNCHANGED <<tokenVars, stage, pairsDone, failedAt, cand, mark, job, user, paid, delivered, crashes>>

\* complete_job, whatever the record said.
Exit(w) ==
  /\ At(w, "exit")
  /\ job' = [job EXCEPT ![w] = "ended"]
  /\ worker' = [worker EXCEPT ![w] = Idle]
  /\ UNCHANGED <<tokenVars, run, stage, pairsDone, failedAt, cand, mark, user, paid, delivered, crashes>>

Crash(w) ==
  /\ worker[w].pc \in CrashAt /\ crashes < MaxCrashes
  /\ worker' = [worker EXCEPT ![w] = [Idle EXCEPT !.pc = "dead"]]
  /\ crashes' = crashes + 1
  /\ Forget(w)
  /\ UNCHANGED <<run, stage, pairsDone, failedAt, cand, mark, job, user, paid, delivered>>

\* Slip: the queue worker claims queued jobs only.
LapsedQueued(w) == job[w] = "queued"

\* The queue worker takes over a job whose lease lapsed.
Lapsed(w) == job[w] = "running"

Resume(w) ==
  /\ At(w, "dead") /\ Lapsed(w)
  /\ Go(w, "start")
  /\ UNCHANGED <<tokenVars, run, stage, pairsDone, failedAt, cand, mark, job, user, paid, delivered, crashes>>

-----------------------------------------------------------------------------
(* Users *)

\* Cancelling sets the flag and then cancels the job.
BeginCancel ==
  /\ run.status = "running" /\ ~user.cancelling /\ user.cancels < MaxCancels
  /\ run' = [run EXCEPT !.cancel = TRUE]
  /\ user' = [user EXCEPT !.cancelling = TRUE, !.cancels = @ + 1]
  /\ UNCHANGED <<tokenVars, stage, pairsDone, failedAt, cand, mark, worker, job, paid, delivered, crashes>>

CancelJob ==
  /\ user.cancelling
  /\ run' = [run EXCEPT !.status = "cancelled", !.cancel = TRUE]
  /\ job' = [job EXCEPT ![First] = "cancelled"]
  /\ user' = [user EXCEPT !.cancelling = FALSE]
  /\ UNCHANGED <<tokenVars, stage, pairsDone, failedAt, cand, mark, worker, paid, delivered, crashes>>

\* Nothing was heard from a worker for longer than a call may take.
Silent == \A w \in Workers : At(w, "idle") \/ (At(w, "dead") /\ job[w] # "running")

\* Slip: the status alone says whether the worker has stopped.
OverByStatus == run.status \notin {"none", "running"}

\* The filter of the update that continues a run.
Over == run.status \notin {"none", "running"} /\ (run.acked \/ Silent)

\* worker_finished also looks for a job that is alive.
WorkerFinished == Over /\ \A w \in Workers : job[w] = "running" => At(w, "dead")

BeginReapply ==
  /\ WorkerFinished /\ ~user.reapplying /\ user.reapplies < MaxReapplies
  /\ user' = [user EXCEPT !.reapplying = TRUE, !.reapplies = @ + 1]
  /\ UNCHANGED <<tokenVars, run, stage, pairsDone, failedAt, cand, mark, worker, job, paid, delivered, crashes>>

\* Every profiled candidate is judged again from what is stored.
Reapply ==
  /\ user.reapplying
  /\ \E good \in SUBSET Profiles :
       cand' = [p \in Profiles |->
         IF cand[p].status \in {"none", "error"} \/ cand[p].reached = "discovered" THEN cand[p]
         ELSE [cand[p] EXCEPT !.status = IF p \notin good THEN "rejected"
                 ELSE IF cand[p].reached \in {"sampled", "scraped"} THEN "passed" ELSE "needs_sampling"]]
  /\ user' = [user EXCEPT !.reapplying = FALSE]
  /\ UNCHANGED <<tokenVars, run, stage, pairsDone, failedAt, mark, worker, job, paid, delivered, crashes>>

\* What a continuation would work on.
Undiscovered == IF stage["discovery"] = "done" THEN {} ELSE Pairs \ pairsDone
ToProfile == Having("discovered", "pending")
ToSample == {p \in Profiles : cand[p].status = "needs_sampling"} \cup Having("enriched", "pending") \cup ToProfile
ToCollect == ToSample \cup {p \in Profiles : cand[p].status = "passed" /\ cand[p].deep # "done"}

BeginContinue ==
  /\ WorkerFinished /\ ~user.continuing
  /\ \E w \in Workers : job[w] = "none"
  /\ Undiscovered # {} \/ ToCollect # {}
  /\ user' = [user EXCEPT !.continuing = TRUE]
  /\ UNCHANGED <<tokenVars, run, stage, pairsDone, failedAt, cand, mark, worker, job, paid, delivered, crashes>>

Rerun == {"sampling", "deep_scrape"} \cup (IF ToProfile # {} THEN {"enrichment"} ELSE {})
           \cup (IF stage["discovery"] # "done" THEN {"discovery"} ELSE {})

\* One conditional update restarts the run, then its parts are put right and
\* a new worker is launched; otherwise the request is refused.
Continue ==
  /\ user.continuing
  /\ user' = [user EXCEPT !.continuing = FALSE]
  /\ IF Over
     THEN \E w \in Workers, budget \in {run.budget, run.charged + Budget} :
            /\ job[w] = "none"
            /\ run' = [run EXCEPT !.status = "running", !.acked = FALSE, !.cancel = FALSE, !.budget = budget]
            /\ stage' = [s \in Stages |-> IF s \in Rerun \ {"discovery"} THEN "pending" ELSE stage[s]]
            /\ failedAt' = IF failedAt \in Rerun THEN "none" ELSE failedAt
            /\ cand' = [p \in Profiles |-> IF cand[p].status = "needs_sampling"
                          THEN [cand[p] EXCEPT !.status = "pending", !.reached = "enriched"] ELSE cand[p]]
            /\ job' = [job EXCEPT ![First] = IF @ = "cancelled" THEN "ended" ELSE @, ![w] = "running"]
            /\ worker' = [worker EXCEPT ![w].pc = "start"]
     ELSE UNCHANGED <<run, stage, failedAt, cand, job, worker>>
  /\ UNCHANGED <<tokenVars, pairsDone, mark, paid, delivered, crashes>>

-----------------------------------------------------------------------------

Work(w) ==
  \/ Start(w) \/ EnterStage(w) \/ AllDone(w) \/ Stopped(w) \/ Pick(w) \/ LimitReached(w)
  \/ LeaveStage(w) \/ Charge(w) \/ ReadBalance(w) \/ TakeTokens(w) \/ CountCharge(w)
  \/ Discovered(w) \/ RecordPair(w) \/ Enriched(w) \/ Sampled(w) \/ Scraped(w)
  \/ CallFails(w) \/ Settle(w) \/ Finish(w) \/ Exit(w)

\* Meanwhile tokens are granted and expire.
Balance == \/ Expire
           \/ \E n \in Grants : TopUp(n, "never")

Next ==
  \/ Admit
  \/ \E w \in Workers : Work(w) \/ Crash(w) \/ Resume(w)
  \/ BeginCancel \/ CancelJob \/ BeginReapply \/ Reapply \/ BeginContinue \/ Continue
  \/ Balance /\ UNCHANGED keywordVars

Spec == KeywordInit /\ [][Next]_vars

\* Threads run, the queue worker resumes lapsed jobs, requests complete.
FairSpec == /\ Spec
            /\ \A w \in Workers : WF_vars(Work(w)) /\ WF_vars(Resume(w))
            /\ WF_vars(CancelJob) /\ WF_vars(Continue)

-----------------------------------------------------------------------------
(* Properties *)

AtWork(w) == worker[w].pc \notin {"idle", "dead", "finish", "exit"}

\* However a search crashes, stops and is continued, no unit is ever paid for
\* twice ("a resumed run never pays the same item twice",
\* app/discovery/pipeline.py).  It fails once a worker may die between the two
\* writes of a refund (CrashAt <- Anywhere).
PaidOnce == \A u \in Units : paid[u] <= Price

\* When no worker is in the middle of an item, the charge recorded on each item
\* is what was paid for it, all or nothing, and tokens_charged is the price of
\* the items that are paid: neither a crash, a stop nor a continuation makes
\* the three accounts differ.
BooksAgree ==
  (\A w \in Workers : ~AtWork(w) \/ worker[w].pc \in {"start", "enter", "pick"}) =>
    /\ \A u \in Units : paid[u] \in {0, Price} /\ paid[u] = IF mark[u] = None THEN 0 ELSE mark[u]
    /\ run.charged = Cost({u \in Units : paid[u] # 0})

\* The state of the sale of each unit.
SaleOf(u) == CASE paid[u] = 0 /\ mark[u] # 0 /\ u \notin delivered -> "open"
               [] paid[u] = 0 /\ mark[u] = 0 /\ u \notin delivered -> "waived"
               [] paid[u] = 0 /\ mark[u] = 0 /\ u \in delivered -> "free"
               [] paid[u] = Price /\ u \notin delivered -> "paid"
               [] paid[u] = Price /\ u \in delivered -> "sold"
               [] OTHER -> "wrong"

P == INSTANCE Purchases WITH Goods <- Units, sale <- [u \in Units |-> SaleOf(u)]

\* The pipeline implements Purchases: every unit is paid for before it is
\* delivered, is never charged once it is, and what is given back was paid.
SellsOnce == P!Spec

\* Two workers are never at work on one run: a continuation starts only when
\* the worker before it has stopped or died ("never while a worker still
\* runs", app/discovery/service.py).
OneWorker == \A v, w \in Workers : AtWork(v) /\ AtWork(w) => v = w

\* A search that is running ends: it completes, fails or is cancelled,
\* whatever crashes on the way.
RunEnds == (run.status = "running") ~> (run.status # "running")
=============================================================================
