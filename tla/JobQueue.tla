------------------------------ MODULE JobQueue ------------------------------
(***************************************************************************)
(* The durable job queue (app/queue/service.py) with everything that reads *)
(* or writes a search's job while it is live: the search threads that run  *)
(* a job inline, the queue workers that resume it after a crash, the       *)
(* cancel routes, and the clean-up each server process does when it boots. *)
(*                                                                         *)
(* A job and its search run share one id, so job_queue and search_history  *)
(* are both functions of Jobs.  Clock values are abstracted to what the    *)
(* code's guards tell apart: a lease is "live", "lapsed" (locked_until <   *)
(* now) or "stale" (locked_until < now - 180 s).  The Redis cancel flag is *)
(* left out: it only shows a cancellation a moment before Mongo does.      *)
(***************************************************************************)
EXTENDS Naturals, FiniteSets

CONSTANTS
  Jobs,        \* job ids (= run ids)
  Procs,       \* server processes
  Workers,     \* queue workers, one DurableQueueWorker per process
  Threads,     \* slots for inline search threads
  Host,        \* the process of each worker and thread
  MaxRetries,  \* max_retries of a job
  NoHandler,   \* jobs whose task name has no registered handler
  Faults,      \* "stall": a holder may miss its heartbeats; "db_error": a
               \* call may raise although the database did, or did not, act;
               \* "same_id": a search's id may also be enqueued (ids are
               \* fresh, but claim_inline_job guards against it)
  None         \* no job, no owner

Runners == Workers \cup Threads

ASSUME ConstantsAssumption ==
  /\ Host \in [Runners -> Procs]
  /\ Workers \cap Threads = {}
  /\ MaxRetries \in Nat \ {0}
  /\ NoHandler \subseteq Jobs
  /\ Faults \subseteq {"stall", "db_error", "same_id"}
  /\ None \notin Jobs \cup Runners

ASSUME WorkersFinite == IsFiniteSet(Workers)

VARIABLES
  \* job_queue
  status, retries, owner, lease, result,
  older,       \* pairs of jobs whose created_at is in that order
  \* search_history
  hist, cancelReq,
  lost,        \* history variable: the one write that would have ended this run
               \* outside its handler raised, and nobody tries it again
  asked,       \* history variable: a person asked to cancel this run
  cancel,      \* progress of the cancel request being served for a run
  \* processes
  up, clean,   \* clean: the boot-time clean-up is still to run
  \* runners
  pc, job, seen

queueVars   == <<status, retries, owner, lease, result, older>>
historyVars == <<hist, cancelReq, lost>>
cancelVars  == <<asked, cancel>>
procVars    == <<up, clean>>
runnerVars  == <<pc, job, seen>>
vars == <<queueVars, historyVars, cancelVars, procVars, runnerVars>>

Statuses == {"absent", "queued", "running", "completed", "failed", "cancelled"}
Histories == {"none", "running", "completed", "error", "cancelled"}
RunnerStates == {"off", "boot", "idle", "starting", "claimed", "running", "bare", "orphan",
                 "returned", "dropping", "raised", "failing", "reporting"}

TypeOK ==
  /\ status \in [Jobs -> Statuses]
  /\ retries \in [Jobs -> Nat]
  /\ owner \in [Jobs -> Runners \cup {None}]
  /\ lease \in [Jobs -> {"none", "live", "lapsed", "stale"}]
  /\ result \in [Jobs -> {"none", "ran", "dropped"}]
  /\ older \subseteq Jobs \X Jobs
  /\ hist \in [Jobs -> Histories]
  /\ cancelReq \in [Jobs -> BOOLEAN]
  /\ lost \in [Jobs -> BOOLEAN]
  /\ asked \in [Jobs -> BOOLEAN]
  /\ cancel \in [Jobs -> {"none", "checked", "flagged", "signalled"}]
  /\ up \in [Procs -> {"up", "stopping", "down"}]
  /\ clean \in [Procs -> BOOLEAN]
  /\ pc \in [Runners -> RunnerStates]
  /\ job \in [Runners -> Jobs \cup {None}]
  /\ seen \in [Runners -> Nat]
  /\ \A r \in Runners : pc[r] \notin {"off", "boot", "idle"} => job[r] \in Jobs

Init ==
  /\ status = [j \in Jobs |-> "absent"]
  /\ retries = [j \in Jobs |-> 0]
  /\ owner = [j \in Jobs |-> None]
  /\ lease = [j \in Jobs |-> "none"]
  /\ result = [j \in Jobs |-> "none"]
  /\ older = {}
  /\ hist = [j \in Jobs |-> "none"]
  /\ cancelReq = [j \in Jobs |-> FALSE]
  /\ lost = [j \in Jobs |-> FALSE]
  /\ asked = [j \in Jobs |-> FALSE]
  /\ cancel = [j \in Jobs |-> "none"]
  /\ up = [p \in Procs |-> "down"]
  /\ clean = [p \in Procs |-> FALSE]
  /\ pc = [r \in Runners |-> "off"]
  /\ job = [r \in Runners |-> None]
  /\ seen = [r \in Runners |-> 0]

-----------------------------------------------------------------------------
(* Records of the two collections                                          *)

\* A record is created once: the update is a $setOnInsert.
Insert(j, st, n, r, ls) ==
  /\ status' = [status EXCEPT ![j] = st]
  /\ retries' = [retries EXCEPT ![j] = n]
  /\ owner' = [owner EXCEPT ![j] = r]
  /\ lease' = [lease EXCEPT ![j] = ls]
  /\ older' = older \cup {<<k, j>> : k \in {i \in Jobs : status[i] # "absent"}}
  /\ UNCHANGED result

\* Slip: the update forgets to unset locked_by and locked_until.
UnlockKeepsLock(j, st) ==
  /\ status' = [status EXCEPT ![j] = IF @ = "absent" THEN @ ELSE st]
  /\ UNCHANGED <<owner, lease, retries, older>>

\* An update_one by id that sets the status and unsets the lock.
Unlock(j, st) ==
  /\ status' = [status EXCEPT ![j] = IF @ = "absent" THEN @ ELSE st]
  /\ owner' = [owner EXCEPT ![j] = None]
  /\ lease' = [lease EXCEPT ![j] = "none"]
  /\ UNCHANGED <<retries, older>>

SetHist(j, st) == hist' = [hist EXCEPT ![j] = IF @ = "none" THEN @ ELSE st]

\* Slip: the check looks at the statuses but not at the request.
CancelledByStatus(j) == hist[j] = "cancelled" \/ status[j] = "cancelled"

\* is_job_cancelled
Cancelled(j) == cancelReq[j] \/ hist[j] = "cancelled" \/ status[j] = "cancelled"

\* Slips: a running job is claimed whatever its lease; a dead worker's job
\* is never claimed; the attempts of a lapsed job are not counted.
ClaimableLive(j)   == status[j] = "queued" \/ (status[j] = "running" /\ retries[j] < MaxRetries)
ClaimableQueued(j) == status[j] = "queued"
ClaimableAlways(j) == status[j] = "queued" \/ lease[j] \in {"lapsed", "stale"}

Claimable(j) ==
  \/ status[j] = "queued"
  \/ status[j] = "running" /\ lease[j] \in {"lapsed", "stale"} /\ retries[j] < MaxRetries

Oldest(j) == \A k \in Jobs : <<k, j>> \in older => ~Claimable(k)

Go(r, state) == pc' = [pc EXCEPT ![r] = state] /\ UNCHANGED <<job, seen>>

\* Slip: the current job is cleared but the runner does not move on.
RestStays(r) == job' = [job EXCEPT ![r] = None] /\ UNCHANGED <<pc, seen>>

\* A worker goes back to its loop; a thread ends; an orphan's result is lost.
Rest(r) ==
  /\ pc' = [pc EXCEPT ![r] = IF r \in Workers /\ pc[r] # "orphan" THEN "idle" ELSE "off"]
  /\ job' = [job EXCEPT ![r] = None]
  /\ UNCHANGED seen

Executing(r) == pc[r] \in {"running", "bare", "orphan"}

\* The runners whose heartbeat keeps the lease of j alive, or that are
\* between two database calls of a claim or an ending.
Holding == {"claimed", "running", "orphan", "returned", "dropping", "raised", "failing"}
Renewed(j) == \E r \in Runners : job[r] = j /\ owner[j] = r /\ pc[r] \in Holding

-----------------------------------------------------------------------------
(* Creating a job                                                          *)

\* enqueue_job: a later call with the same id changes nothing.
Enqueue(j) ==
  /\ status[j] = "absent"
  /\ hist[j] = "none" \/ "same_id" \in Faults
  /\ Insert(j, "queued", 0, None, "none")
  /\ UNCHANGED <<historyVars, cancelVars, procVars, runnerVars>>

\* A search route stores the run and starts its thread.
Submit(t, j) ==
  /\ up[Host[t]] = "up" /\ pc[t] = "off"
  /\ hist[j] = "none" /\ status[j] = "absent"
  /\ hist' = [hist EXCEPT ![j] = "running"]
  /\ pc' = [pc EXCEPT ![t] = "starting"]
  /\ job' = [job EXCEPT ![t] = j]
  /\ UNCHANGED <<queueVars, cancelReq, lost, cancelVars, procVars, seen>>

\* claim_inline_job; the thread ends when the job already exists.
InlineClaim(t) ==
  /\ pc[t] = "starting"
  /\ \/ /\ status[job[t]] = "absent"
        /\ Insert(job[t], "running", 1, t, "live")
        /\ Go(t, "running")
     \/ /\ status[job[t]] # "absent"
        /\ Rest(t)
        /\ UNCHANGED queueVars
  /\ UNCHANGED <<historyVars, cancelVars, procVars>>

\* claim_inline_job raised, before or after the insert: the thread runs the
\* search anyway, without renewing a lease.
BareStart(t) ==
  /\ "db_error" \in Faults
  /\ pc[t] = "starting"
  /\ \/ status[job[t]] = "absent" /\ Insert(job[t], "running", 1, t, "live")
     \/ UNCHANGED queueVars
  /\ Go(t, "bare")
  /\ UNCHANGED <<historyVars, cancelVars, procVars>>

-----------------------------------------------------------------------------
(* The worker loop                                                         *)

\* claim_job: the oldest claimable job.  If the reply is lost the job is
\* locked but nobody runs it.
Claim(w) ==
  /\ pc[w] = "idle"
  /\ \E j \in Jobs :
       /\ Claimable(j) /\ Oldest(j)
       /\ status' = [status EXCEPT ![j] = "running"]
       /\ retries' = [retries EXCEPT ![j] = @ + 1]
       /\ owner' = [owner EXCEPT ![j] = w]
       /\ lease' = [lease EXCEPT ![j] = "live"]
       /\ \/ pc' = [pc EXCEPT ![w] = "claimed"] /\ job' = [job EXCEPT ![w] = j]
          \/ "db_error" \in Faults /\ UNCHANGED <<pc, job>>
  /\ UNCHANGED <<older, result, historyVars, cancelVars, procVars, seen>>

\* _process_job up to the handler: the early cancellation check, then the
\* look-up of the handler.
Dispatch(w) ==
  /\ w \in Workers /\ pc[w] = "claimed"
  /\ Go(w, CASE Cancelled(job[w])     -> "dropping"
             [] ~Cancelled(job[w]) /\ job[w] \in NoHandler -> "raised"
             [] OTHER                  -> "running")
  /\ UNCHANGED <<queueVars, historyVars, cancelVars, procVars>>

-----------------------------------------------------------------------------
(* The handler, in the runner's thread: run_url_search, run_keyword_search *)

After(r, state) == IF pc[r] = "orphan" THEN Rest(r) ELSE Go(r, state)

\* A checkpoint sees the cancellation (mark_run_cancelled).
Abort(r) ==
  /\ Executing(r) /\ Cancelled(job[r])
  /\ SetHist(job[r], "cancelled")
  /\ cancelReq' = [cancelReq EXCEPT ![job[r]] = @ \/ hist[job[r]] # "none"]
  /\ After(r, "returned")
  /\ UNCHANGED <<queueVars, lost, cancelVars, procVars>>

\* The search ends by itself; nothing is checked after the last checkpoint.
Finish(r) ==
  /\ Executing(r)
  /\ \E outcome \in {"completed", "error"} : SetHist(job[r], outcome)
  /\ After(r, "returned")
  /\ UNCHANGED <<queueVars, cancelReq, lost, cancelVars, procVars>>

Raise(r) ==
  /\ Executing(r)
  /\ After(r, "raised")
  /\ UNCHANGED <<queueVars, historyVars, cancelVars, procVars>>

\* complete_job, by id alone.
Complete(r) ==
  /\ pc[r] \in {"returned", "dropping"}
  /\ Unlock(job[r], "completed")
  /\ result' = [result EXCEPT ![job[r]] = IF status[job[r]] = "absent" THEN @
                                          ELSE IF pc[r] = "dropping" THEN "dropped" ELSE "ran"]
  /\ Rest(r)
  /\ UNCHANGED <<historyVars, cancelVars, procVars>>

\* complete_job raised: a thread ignores it, the worker takes it for a
\* failure of the handler; before the handler it only reaches the loop.
CompleteRaises(r) ==
  /\ "db_error" \in Faults
  /\ pc[r] \in {"returned", "dropping"}
  /\ IF r \in Workers /\ pc[r] = "returned" THEN Go(r, "raised") ELSE Rest(r)
  /\ UNCHANGED <<queueVars, historyVars, cancelVars, procVars>>

\* fail_job is a read of the attempts, then an update by id alone.
FailRead(r) ==
  /\ pc[r] = "raised" /\ status[job[r]] # "absent"
  /\ pc' = [pc EXCEPT ![r] = "failing"]
  /\ seen' = [seen EXCEPT ![r] = retries[job[r]]]
  /\ UNCHANGED <<queueVars, historyVars, cancelVars, procVars, job>>

\* Nothing to fail, or fail_job raised.
FailSkip(r) ==
  /\ pc[r] = "raised" /\ (status[job[r]] = "absent" \/ "db_error" \in Faults)
  /\ IF r \in Workers THEN Rest(r) ELSE Go(r, "reporting")
  /\ UNCHANGED <<queueVars, historyVars, cancelVars, procVars>>

\* Slip: off by one.
CanRetryOnceMore(r) == r \in Workers /\ job[r] \notin NoHandler /\ seen[r] <= MaxRetries

\* can_retry and the attempts read before.
CanRetry(r) == r \in Workers /\ job[r] \notin NoHandler /\ seen[r] < MaxRetries

FailWrite(r) ==
  /\ pc[r] = "failing"
  /\ Unlock(job[r], IF CanRetry(r) THEN "queued" ELSE "failed")
  /\ UNCHANGED result
  /\ IF r \in Workers THEN Rest(r) ELSE Go(r, "reporting")
  /\ UNCHANGED <<historyVars, cancelVars, procVars>>

\* Only a thread reports the crash on the run.
Report(t) ==
  /\ pc[t] = "reporting"
  /\ SetHist(job[t], "error")
  /\ Rest(t)
  /\ UNCHANGED <<queueVars, cancelReq, lost, cancelVars, procVars>>

\* The update raised, or there was no database: the thread ends with it and
\* nothing else ends the run.
ReportRaises(t) ==
  /\ "db_error" \in Faults
  /\ pc[t] = "reporting"
  /\ lost' = [lost EXCEPT ![job[t]] = @ \/ hist[job[t]] = "running"]
  /\ Rest(t)
  /\ UNCHANGED <<queueVars, hist, cancelReq, cancelVars, procVars>>

-----------------------------------------------------------------------------
(* Cancelling: the routes check the run, flag it, and the tenant's route   *)
(* goes on to cancel_job, which updates the run and then the job.          *)

CancelCheck(j) ==
  /\ cancel[j] = "none" /\ hist[j] = "running"
  /\ cancel' = [cancel EXCEPT ![j] = "checked"]
  /\ UNCHANGED <<queueVars, historyVars, asked, procVars, runnerVars>>

\* The administrator's route stops here (mark_cancel_requested).
CancelFlag(j) ==
  /\ cancel[j] = "checked"
  /\ cancelReq' = [cancelReq EXCEPT ![j] = TRUE]
  /\ asked' = [asked EXCEPT ![j] = TRUE]
  /\ \E next \in {"flagged", "none"} : cancel' = [cancel EXCEPT ![j] = next]
  /\ UNCHANGED <<queueVars, hist, lost, procVars, runnerVars>>

CancelRun(j) ==
  /\ cancel[j] = "flagged"
  /\ hist' = [hist EXCEPT ![j] = "cancelled"]
  /\ cancel' = [cancel EXCEPT ![j] = "signalled"]
  /\ UNCHANGED <<queueVars, cancelReq, lost, asked, procVars, runnerVars>>

CancelJob(j) ==
  /\ cancel[j] = "signalled"
  /\ Unlock(j, "cancelled")
  /\ cancel' = [cancel EXCEPT ![j] = "none"]
  /\ UNCHANGED <<result, historyVars, asked, procVars, runnerVars>>

-----------------------------------------------------------------------------
(* Time                                                                    *)

\* A lease runs out only when nobody renews it, unless a holder stalls.
LeaseAge(j) ==
  /\ lease[j] \in {"live", "lapsed"}
  /\ ~Renewed(j) \/ "stall" \in Faults
  /\ lease' = [lease EXCEPT ![j] = IF @ = "live" THEN "lapsed" ELSE "stale"]
  /\ UNCHANGED <<status, retries, owner, result, older,
                 historyVars, cancelVars, procVars, runnerVars>>

\* heartbeat_job: only while the record still names this holder.
Heartbeat(r) ==
  /\ pc[r] \in {"running", "orphan"}
  /\ status[job[r]] = "running" /\ owner[job[r]] = r /\ lease[job[r]] # "live"
  /\ lease' = [lease EXCEPT ![job[r]] = "live"]
  /\ UNCHANGED <<status, retries, owner, result, older,
                 historyVars, cancelVars, procVars, runnerVars>>

-----------------------------------------------------------------------------
(* Processes                                                               *)

\* The process starts: its worker and the clean-up are separate tasks.
Boot(p) ==
  /\ up[p] = "down"
  /\ up' = [up EXCEPT ![p] = "up"]
  /\ clean' = [clean EXCEPT ![p] = TRUE]
  /\ pc' = [r \in Runners |-> IF r \in Workers /\ Host[r] = p THEN "boot" ELSE pc[r]]
  /\ UNCHANGED <<queueVars, historyVars, cancelVars, job, seen>>

\* Slip: the clean-up matches no run.
CleanNothing(p) ==
  /\ up[p] = "up" /\ clean[p]
  /\ clean' = [clean EXCEPT ![p] = FALSE]
  /\ UNCHANGED <<queueVars, historyVars, cancelVars, up, runnerVars>>

\* _clean_stale: every run still "running" is marked as interrupted.
CleanStale(p) ==
  /\ up[p] = "up" /\ clean[p]
  /\ hist' = [j \in Jobs |-> IF hist[j] = "running" THEN "cancelled" ELSE hist[j]]
  /\ clean' = [clean EXCEPT ![p] = FALSE]
  /\ UNCHANGED <<queueVars, cancelReq, lost, cancelVars, up, runnerVars>>

\* A run whose thread is gone; nothing but its handler, if a worker resumes
\* it, or a clean-up ends it.
Abandoned(j) == hist[j] = "running" /\ \A t \in Threads : job[t] # j

\* The clean-up, or a start-up step before it, raised: the whole start-up task
\* is given up with a warning, and nobody cleans up until another boot.
CleanRaises(p) ==
  /\ "db_error" \in Faults
  /\ up[p] = "up" /\ clean[p]
  /\ clean' = [clean EXCEPT ![p] = FALSE]
  /\ lost' = [j \in Jobs |-> lost[j] \/ Abandoned(j)]
  /\ UNCHANGED <<queueVars, hist, cancelReq, cancelVars, up, runnerVars>>

\* DurableQueueWorker.start: recover_crashed_jobs, then the loop.
WorkerStart(w) ==
  /\ pc[w] = "boot"
  /\ LET dead == {j \in Jobs : status[j] = "running" /\ lease[j] = "stale"}
     IN /\ status' = [j \in Jobs |-> IF j \notin dead THEN status[j]
                                     ELSE IF retries[j] < MaxRetries THEN "queued" ELSE "failed"]
        /\ owner' = [j \in Jobs |-> IF j \in dead THEN None ELSE owner[j]]
        /\ lease' = [j \in Jobs |-> IF j \in dead THEN "none" ELSE lease[j]]
  /\ Go(w, "idle")
  /\ UNCHANGED <<retries, result, older, historyVars, cancelVars, procVars>>

\* recover_crashed_jobs raised: the loop never starts in this process.
WorkerStartRaises(w) ==
  /\ "db_error" \in Faults
  /\ pc[w] = "boot"
  /\ Go(w, "off")
  /\ UNCHANGED <<queueVars, historyVars, cancelVars, procVars>>

\* A graceful stop cancels the worker's task, not the handler in its thread,
\* whose heartbeat goes on too.
Shutdown(p) ==
  /\ up[p] = "up"
  /\ up' = [up EXCEPT ![p] = "stopping"]
  /\ clean' = [clean EXCEPT ![p] = FALSE]
  /\ pc' = [r \in Runners |-> IF r \in Workers /\ Host[r] = p
                              THEN IF pc[r] = "running" THEN "orphan" ELSE "off"
                              ELSE pc[r]]
  /\ job' = [r \in Runners |-> IF pc'[r] = "off" THEN None ELSE job[r]]
  /\ UNCHANGED <<queueVars, historyVars, cancelVars, seen>>

\* The process ends, after a shutdown or by a crash.
Die(p) ==
  /\ up[p] # "down"
  /\ up' = [up EXCEPT ![p] = "down"]
  /\ clean' = [clean EXCEPT ![p] = FALSE]
  /\ pc' = [r \in Runners |-> IF Host[r] = p THEN "off" ELSE pc[r]]
  /\ job' = [r \in Runners |-> IF Host[r] = p THEN None ELSE job[r]]
  /\ UNCHANGED <<queueVars, historyVars, cancelVars, seen>>

-----------------------------------------------------------------------------
WorkerStep(w) == Claim(w) \/ Dispatch(w) \/ WorkerStart(w) \/ WorkerStartRaises(w)
ThreadStep(t) == InlineClaim(t) \/ BareStart(t) \/ Report(t) \/ ReportRaises(t)
Handler(r)    == Abort(r) \/ Finish(r) \/ Raise(r)
Ending(r)     == Complete(r) \/ CompleteRaises(r) \/ FailRead(r) \/ FailSkip(r) \/ FailWrite(r)
CancelStep(j) == CancelCheck(j) \/ CancelFlag(j) \/ CancelRun(j) \/ CancelJob(j)
ProcStep(p)   == Boot(p) \/ CleanStale(p) \/ CleanRaises(p) \/ Shutdown(p) \/ Die(p)

Next ==
  \/ \E j \in Jobs : Enqueue(j) \/ CancelStep(j) \/ LeaseAge(j)
  \/ \E t \in Threads : ThreadStep(t) \/ \E j \in Jobs : Submit(t, j)
  \/ \E w \in Workers : WorkerStep(w)
  \/ \E r \in Runners : Handler(r) \/ Ending(r) \/ Heartbeat(r)
  \/ \E p \in Procs : ProcStep(p)

Spec == Init /\ [][Next]_vars

\* What the runtime guarantees: threads and tasks of a live process go on,
\* handlers end, time passes, a stopped process dies, the supervisor boots a
\* dead one, and from some moment on the processes stay up.
Fairness ==
  /\ \A j \in Jobs : WF_vars(LeaseAge(j))
  /\ \A w \in Workers : WF_vars(WorkerStep(w))
  /\ \A t \in Threads : WF_vars(ThreadStep(t))
  /\ \A r \in Runners : WF_vars(Handler(r) \/ Ending(r))
  /\ \A p \in Procs : WF_vars(Boot(p)) /\ WF_vars(CleanStale(p) \/ CleanRaises(p)) /\ WF_vars(up[p] = "stopping" /\ Die(p))
  /\ <>[][\A p \in Procs : up[p] = "up" => up'[p] = "up"]_vars

FairSpec == Spec /\ Fairness

-----------------------------------------------------------------------------
(* Properties                                                              *)

\* A job is "running" exactly while its record names a holder and a lease:
\* every ending, by whichever of completion, failure, cancellation or
\* recovery comes last, unsets both, so no finished job can be reclaimed.
LockIffRunning ==
  \A j \in Jobs : /\ (status[j] = "running") = (owner[j] # None)
                  /\ (status[j] = "running") = (lease[j] # "none")

\* No two runners execute the handler of one job at the same time, whatever
\* the cancellations, failures, retries, crashes and restarts between them.
SingleRunner ==
  \A r, s \in Runners : Executing(r) /\ Executing(s) /\ job[r] = job[s] => r = s

\* A job is never attempted more than max_retries times, although claiming a
\* queued job checks nothing and fail_job decides on attempts read earlier.
AttemptsBounded == \A j \in Jobs : retries[j] <= MaxRetries

\* When holders may stall, a worker that read the attempts before it was
\* overtaken can requeue the job once more: the attempts pass max_retries by
\* no more than the number of workers.
AttemptsNearlyBounded == \A j \in Jobs : retries[j] <= MaxRetries + Cardinality(Workers)

FinishedStep(j) ==
  status[j] \in {"completed", "failed"} => status'[j] \in {status[j], "cancelled"}

\* A job that completed or failed is never queued or run again, although
\* every ending is an update by id that looks at no status.
FinishedStaysFinished == [][\A j \in Jobs : FinishedStep(j)]_vars

\* Once a person has asked to cancel a run no worker starts its handler,
\* even when the run overwrote its "cancelled" status and then crashed.
NoWorkAfterCancel ==
  [][\A w \in Workers : pc[w] = "claimed" /\ asked[job[w]] => pc'[w] # "running"]_vars

\* Every search that was started stops being "running": it ends, or the
\* clean-up of a later boot says it was interrupted.  What is excused is the
\* one write that was left to end it having raised: the report of a crashed
\* thread, or the clean-up of a run whose thread had died.
RunsEnd == \A j \in Jobs : hist[j] = "running" ~> hist[j] # "running" \/ lost[j]

\* Every job leaves the queue for good, or is on its last attempt.
JobsSettle ==
  \A j \in Jobs : status[j] # "absent"
     ~> (status[j] \in {"completed", "failed", "cancelled"}
         \/ (status[j] = "running" /\ retries[j] >= MaxRetries))

-----------------------------------------------------------------------------
(* What the documentation says of the queue, and the code does not do      *)

\* "Jobs survive application restarts" (docs/ARCHITECTURE.md): a job is
\* dropped before its handler runs only if a person asked to cancel it.
SurvivesRestart == \A j \in Jobs : result[j] = "dropped" => asked[j]
=============================================================================
