--------------------------- MODULE JobQueueProofs ---------------------------
(* Proofs about JobQueue: types and locks; without faults, that a job has  *)
(* at most one runner and MaxRetries attempts; with stalls, lost calls and *)
(* restarts, that its attempts overshoot by no more than there are workers *)
(* and that a cancelled job is never begun again.                          *)
EXTENDS JobQueue, FiniteSetTheorems, TLAPS

\* Every variable keeps its type under every action.
LEMMA TypeStep == TypeOK /\ [Next]_vars => TypeOK'
<1> SUFFICES ASSUME TypeOK, [Next]_vars PROVE TypeOK'
  OBVIOUS
<1> USE ConstantsAssumption DEF Runners, TypeOK, Statuses, Histories, RunnerStates,
        queueVars, historyVars, cancelVars, procVars, runnerVars
<1>1. ASSUME NEW j \in Jobs, Enqueue(j) PROVE TypeOK'
  BY <1>1 DEF Enqueue, Insert
<1>2. ASSUME NEW j \in Jobs, CancelStep(j) PROVE TypeOK'
  <2>1. CASE CancelCheck(j)
    BY <2>1 DEF CancelCheck
  <2>2. CASE CancelFlag(j)
    BY <2>2 DEF CancelFlag
  <2>3. CASE CancelRun(j)
    BY <2>3 DEF CancelRun
  <2>4. CASE CancelJob(j)
    BY <2>4 DEF CancelJob, Unlock
  <2> QED BY <1>2, <2>1, <2>2, <2>3, <2>4 DEF CancelStep
<1>3. ASSUME NEW j \in Jobs, LeaseAge(j) PROVE TypeOK'
  BY <1>3 DEF LeaseAge
<1>4. ASSUME NEW t \in Threads, NEW j \in Jobs, Submit(t, j) PROVE TypeOK'
  BY <1>4 DEF Submit
<1>5. ASSUME NEW t \in Threads, ThreadStep(t) PROVE TypeOK'
  <2>1. CASE InlineClaim(t)
    BY <2>1 DEF InlineClaim, Insert, Go, Rest
  <2>2. CASE BareStart(t)
    BY <2>2 DEF BareStart, Insert, Go
  <2>3. CASE Report(t)
    BY <2>3 DEF Report, SetHist, Rest
  <2>4. CASE ReportRaises(t)
    BY <2>4 DEF ReportRaises, Rest
  <2> QED BY <1>5, <2>1, <2>2, <2>3, <2>4 DEF ThreadStep
<1>6. ASSUME NEW w \in Workers, WorkerStep(w) PROVE TypeOK'
  <2>1. CASE Claim(w)
    BY <2>1 DEF Claim
  <2>2. CASE Dispatch(w)
    BY <2>2 DEF Dispatch, Go
  <2>3. CASE WorkerStart(w)
    BY <2>3 DEF WorkerStart, Go
  <2>4. CASE WorkerStartRaises(w)
    BY <2>4 DEF WorkerStartRaises, Go
  <2> QED BY <1>6, <2>1, <2>2, <2>3, <2>4 DEF WorkerStep
<1>7. ASSUME NEW r \in Runners, Handler(r) PROVE TypeOK'
  <2>1. job[r] \in Jobs /\ pc[r] \in {"running", "bare", "orphan"}
    BY <1>7 DEF Handler, Abort, Finish, Raise, Executing
  <2>2. ASSUME NEW state \in {"returned", "raised"}, After(r, state)
        PROVE /\ pc' \in [Runners -> RunnerStates]
              /\ job' \in [Runners -> Jobs \cup {None}]
              /\ seen' \in [Runners -> Nat]
              /\ \A s \in Runners : pc'[s] \notin {"off", "boot", "idle"} => job'[s] \in Jobs
    <3>1. CASE pc[r] = "orphan"
      BY <2>1, <2>2, <3>1 DEF After, Rest
    <3>2. CASE pc[r] # "orphan"
      BY <2>1, <2>2, <3>2 DEF After, Go
    <3> QED BY <3>1, <3>2
  <2>3. CASE Abort(r)
    <3>1. After(r, "returned")
      BY <2>3 DEF Abort
    <3>2. cancelReq' \in [Jobs -> BOOLEAN] /\ hist' \in [Jobs -> Histories]
      BY <2>3, <2>1 DEF Abort, SetHist
    <3> QED BY <2>3, <2>2, <3>1, <3>2 DEF Abort
  <2>4. CASE Finish(r)
    <3>1. After(r, "returned")
      BY <2>4 DEF Finish
    <3>2. hist' \in [Jobs -> Histories]
      BY <2>4, <2>1 DEF Finish, SetHist
    <3> QED BY <2>4, <2>2, <3>1, <3>2 DEF Finish
  <2>5. CASE Raise(r)
    <3>1. After(r, "raised")
      BY <2>5 DEF Raise
    <3> QED BY <2>5, <2>2, <3>1 DEF Raise
  <2> QED BY <1>7, <2>3, <2>4, <2>5 DEF Handler
<1>8. ASSUME NEW r \in Runners, Ending(r) PROVE TypeOK'
  <2>1. CASE Complete(r)
    BY <2>1 DEF Complete, Unlock, Rest
  <2>2. CASE CompleteRaises(r)
    BY <2>2 DEF CompleteRaises, Go, Rest
  <2>3. CASE FailRead(r)
    BY <2>3 DEF FailRead
  <2>4. CASE FailSkip(r)
    BY <2>4 DEF FailSkip, Go, Rest
  <2>5. CASE FailWrite(r)
    BY <2>5 DEF FailWrite, Unlock, Go, Rest
  <2> QED BY <1>8, <2>1, <2>2, <2>3, <2>4, <2>5 DEF Ending
<1>9. ASSUME NEW r \in Runners, Heartbeat(r) PROVE TypeOK'
  BY <1>9 DEF Heartbeat
<1>10. ASSUME NEW p \in Procs, ProcStep(p) PROVE TypeOK'
  <2>1. CASE Boot(p)
    BY <2>1 DEF Boot
  <2>2. CASE CleanStale(p)
    BY <2>2 DEF CleanStale
  <2>3. CASE Shutdown(p)
    BY <2>3 DEF Shutdown
  <2>4. CASE Die(p)
    BY <2>4 DEF Die
  <2>5. CASE CleanRaises(p)
    BY <2>5 DEF CleanRaises
  <2> QED BY <1>10, <2>1, <2>2, <2>3, <2>4, <2>5 DEF ProcStep
<1>11. CASE UNCHANGED vars
  BY <1>11 DEF vars
<1> QED BY <1>1, <1>2, <1>3, <1>4, <1>5, <1>6, <1>7, <1>8, <1>9, <1>10, <1>11 DEF Next

\* Every reachable state is well typed.
THEOREM TypeCorrect == Spec => []TypeOK
<1>1. Init => TypeOK
  BY ConstantsAssumption DEF Init, TypeOK, Statuses, Histories, RunnerStates
<1> QED BY <1>1, TypeStep, PTL DEF Spec

-----------------------------------------------------------------------------
(* The lock.  Only the actions that write job_queue matter.                *)

LEMMA LockStep == TypeOK /\ LockIffRunning /\ [Next]_vars => LockIffRunning'
<1> SUFFICES ASSUME TypeOK, LockIffRunning, [Next]_vars PROVE LockIffRunning'
  OBVIOUS
<1> USE ConstantsAssumption DEF LockIffRunning, Runners
<1>1. CASE UNCHANGED queueVars
  BY <1>1 DEF queueVars
<1>2. ASSUME NEW j \in Jobs, NEW st \in Statuses \ {"running"}, Unlock(j, st)
      PROVE LockIffRunning'
  BY <1>2 DEF Unlock, TypeOK, Statuses
<1>3. ASSUME NEW j \in Jobs, NEW t \in Threads, NEW n, Insert(j, "running", n, t, "live")
      PROVE LockIffRunning'
  BY <1>3 DEF Insert, TypeOK
<1>4. ASSUME NEW j \in Jobs, Enqueue(j) PROVE LockIffRunning'
  BY <1>4 DEF Enqueue, Insert, TypeOK
<1>5. ASSUME NEW j \in Jobs, CancelStep(j) PROVE LockIffRunning'
  BY <1>1, <1>2, <1>5
     DEF CancelStep, CancelCheck, CancelFlag, CancelRun, CancelJob, queueVars, Statuses
<1>6. ASSUME NEW j \in Jobs, LeaseAge(j) PROVE LockIffRunning'
  BY <1>6 DEF LeaseAge, TypeOK
<1>7. ASSUME NEW t \in Threads, NEW j \in Jobs, Submit(t, j) PROVE LockIffRunning'
  BY <1>1, <1>7 DEF Submit
<1>8. ASSUME NEW t \in Threads, ThreadStep(t) PROVE LockIffRunning'
  <2>1. pc[t] = "starting" => job[t] \in Jobs
    BY DEF TypeOK
  <2> QED BY <1>1, <1>3, <1>8, <2>1 DEF ThreadStep, InlineClaim, BareStart, Report, ReportRaises
<1>9. ASSUME NEW w \in Workers, WorkerStep(w) PROVE LockIffRunning'
  <2>1. CASE Claim(w)
    BY <2>1 DEF Claim, TypeOK
  <2>2. CASE WorkerStart(w)
    BY <2>2 DEF WorkerStart, TypeOK
  <2> QED BY <1>1, <1>9, <2>1, <2>2 DEF WorkerStep, Dispatch, WorkerStartRaises
<1>10. ASSUME NEW r \in Runners, Handler(r) PROVE LockIffRunning'
  BY <1>1, <1>10 DEF Handler, Abort, Finish, Raise
<1>11. ASSUME NEW r \in Runners, Ending(r) PROVE LockIffRunning'
  <2>1. pc[r] \in {"returned", "dropping", "failing"} => job[r] \in Jobs
    BY DEF TypeOK
  <2>2. CASE Complete(r)
    BY <1>2, <2>1, <2>2 DEF Complete, Statuses
  <2>3. CASE FailWrite(r)
    BY <1>2, <2>1, <2>3 DEF FailWrite, Statuses
  <2> QED BY <1>1, <1>11, <2>2, <2>3 DEF Ending, CompleteRaises, FailRead, FailSkip
<1>12. ASSUME NEW r \in Runners, Heartbeat(r) PROVE LockIffRunning'
  BY <1>12 DEF Heartbeat, TypeOK
<1>13. ASSUME NEW p \in Procs, ProcStep(p) PROVE LockIffRunning'
  BY <1>1, <1>13 DEF ProcStep, Boot, CleanStale, CleanRaises, Shutdown, Die
<1>14. CASE UNCHANGED vars
  BY <1>1, <1>14 DEF vars
<1> QED BY <1>4, <1>5, <1>6, <1>7, <1>8, <1>9, <1>10, <1>11, <1>12, <1>13, <1>14 DEF Next

\* A record names a holder and a lease exactly while its job is "running",
\* with stalls and database errors too.
THEOREM LockCorrect == Spec => []LockIffRunning
<1>1. Init => LockIffRunning
  BY DEF Init, LockIffRunning
<1> QED BY <1>1, LockStep, TypeCorrect, PTL DEF Spec

-----------------------------------------------------------------------------
(* One runner at a time, when nobody stalls and no call is lost.  A runner *)
(* that has taken a job and not yet given it back holds it: either the     *)
(* record names it and its lease is live, or the job was cancelled under   *)
(* it, and then nobody can claim the job until the runner has ended.       *)

\* No holder stalls and no call is lost.
Reliable == Faults \cap {"stall", "db_error"} = {}

Holds(r, j) == job[r] = j /\ pc[r] \in Holding

HolderKnown ==
  \A r \in Runners, j \in Jobs : Holds(r, j) =>
    \/ status[j] = "running" /\ owner[j] = r /\ lease[j] = "live"
    \/ status[j] = "cancelled"

HolderUnique == \A r, s \in Runners, j \in Jobs : Holds(r, j) /\ Holds(s, j) => r = s

NoBareRunner == \A r \in Runners : pc[r] # "bare"

Exclusive == TypeOK /\ LockIffRunning /\ HolderKnown /\ HolderUnique /\ NoBareRunner

ExclusiveParts == HolderKnown /\ HolderUnique /\ NoBareRunner

\* A step of one runner that holds no new job, and the records of the jobs
\* the others hold, keep the invariant.
LEMMA OthersKeep ==
  ASSUME Exclusive,
         NEW r \in Runners,
         \A s \in Runners \ {r} : pc'[s] = pc[s] /\ job'[s] = job[s],
         pc'[r] # "bare",
         \A j \in Jobs : Holds(r, j)' => Holds(r, j),
         \A j \in Jobs : \/ status'[j] = status[j] /\ owner'[j] = owner[j] /\ lease'[j] = lease[j]
                         \/ Holds(r, j) /\ ~Holds(r, j)'
  PROVE  ExclusiveParts'
<1> USE DEF Exclusive, ExclusiveParts, HolderKnown, HolderUnique, NoBareRunner, Holds
<1>1. HolderUnique'
  OBVIOUS
<1>2. HolderKnown'
  <2> SUFFICES ASSUME NEW s \in Runners, NEW j \in Jobs, Holds(s, j)'
               PROVE  \/ status'[j] = "running" /\ owner'[j] = s /\ lease'[j] = "live"
                      \/ status'[j] = "cancelled"
    OBVIOUS
  <2>1. Holds(s, j)
    OBVIOUS
  <2>2. ~(Holds(r, j) /\ ~Holds(r, j)')
    BY <2>1
  <2> QED BY <2>1, <2>2
<1>3. NoBareRunner'
  OBVIOUS
<1> QED BY <1>1, <1>2, <1>3

\* Taking a job that nobody holds keeps the invariant.
LEMMA TakingKeeps ==
  ASSUME Exclusive,
         NEW r \in Runners, NEW j \in Jobs,
         \A s \in Runners : ~Holds(s, j),
         \A s \in Runners \ {r} : pc'[s] = pc[s] /\ job'[s] = job[s],
         job'[r] = j, pc'[r] # "bare",
         status'[j] = "running", owner'[j] = r, lease'[j] = "live",
         \A k \in Jobs \ {j} : status'[k] = status[k] /\ owner'[k] = owner[k] /\ lease'[k] = lease[k]
  PROVE  ExclusiveParts'
BY DEF Exclusive, ExclusiveParts, HolderKnown, HolderUnique, NoBareRunner, Holds

LEMMA ExclusiveStep == Exclusive /\ Reliable /\ [Next]_vars => ExclusiveParts'
<1> SUFFICES ASSUME Exclusive, Reliable, [Next]_vars PROVE ExclusiveParts'
  OBVIOUS
<1> USE ConstantsAssumption DEF Runners, Reliable
<1>0. TypeOK /\ LockIffRunning
  BY DEF Exclusive
<1>1. CASE UNCHANGED <<status, owner, lease, pc, job>>
  BY <1>1 DEF Exclusive, ExclusiveParts, HolderKnown, HolderUnique, NoBareRunner, Holds
<1>2. ASSUME NEW j \in Jobs, Enqueue(j) PROVE ExclusiveParts'
  <2>1. \A r \in Runners : ~Holds(r, j)
    BY <1>2 DEF Enqueue, Exclusive, HolderKnown
  <2> QED BY <1>0, <1>2, <2>1
          DEF Enqueue, Insert, runnerVars, Exclusive, ExclusiveParts, HolderKnown,
              HolderUnique, NoBareRunner, Holds, TypeOK
<1>3. ASSUME NEW j \in Jobs, CancelStep(j) PROVE ExclusiveParts'
  <2>1. CASE CancelJob(j)
    BY <1>0, <2>1 DEF CancelJob, Unlock, runnerVars, Exclusive, ExclusiveParts, HolderKnown,
                      HolderUnique, NoBareRunner, Holds, TypeOK
  <2> QED BY <1>1, <1>3, <2>1
          DEF CancelStep, CancelCheck, CancelFlag, CancelRun, queueVars, runnerVars
<1>4. ASSUME NEW j \in Jobs, LeaseAge(j) PROVE ExclusiveParts'
  <2>1. \A r \in Runners : ~Holds(r, j)
    <3>1. status[j] = "running"
      BY <1>0, <1>4 DEF LeaseAge, LockIffRunning
    <3>2. ~Renewed(j)
      BY <1>4 DEF LeaseAge
    <3> QED BY <3>1, <3>2 DEF Renewed, Holds, Exclusive, HolderKnown
  <2> QED BY <1>0, <1>4, <2>1
          DEF LeaseAge, runnerVars, Exclusive, ExclusiveParts, HolderKnown, HolderUnique,
              NoBareRunner, Holds, TypeOK
<1>5. ASSUME NEW t \in Threads, NEW j \in Jobs, Submit(t, j) PROVE ExclusiveParts'
  BY <1>0, <1>5, OthersKeep DEF Submit, Holds, Holding, TypeOK, queueVars
<1>6. ASSUME NEW t \in Threads, ThreadStep(t) PROVE ExclusiveParts'
  <2>1. CASE InlineClaim(t)
    <3>1. CASE status[job[t]] = "absent"
      <4>1. job[t] \in Jobs /\ pc[t] = "starting"
        BY <1>0, <2>1 DEF InlineClaim, TypeOK
      <4>2. \A s \in Runners : ~Holds(s, job[t])
        BY <3>1, <4>1 DEF Exclusive, HolderKnown
      <4>3. Insert(job[t], "running", 1, t, "live") /\ Go(t, "running")
        BY <2>1, <3>1 DEF InlineClaim
      <4> QED BY <1>0, <4>1, <4>2, <4>3, TakingKeeps DEF Insert, Go, TypeOK
    <3>2. CASE status[job[t]] # "absent"
      BY <1>0, <2>1, <3>2, OthersKeep DEF InlineClaim, Rest, queueVars, Holds, Holding, TypeOK
    <3> QED BY <3>1, <3>2
  <2>2. CASE Report(t)
    BY <1>0, <2>2, OthersKeep DEF Report, Rest, queueVars, Holds, Holding, TypeOK
  <2> QED BY <1>6, <2>1, <2>2 DEF ThreadStep, BareStart, ReportRaises
<1>7. ASSUME NEW w \in Workers, WorkerStep(w) PROVE ExclusiveParts'
  <2>1. CASE Claim(w)
    <3>1. PICK j \in Jobs :
            /\ Claimable(j)
            /\ status' = [status EXCEPT ![j] = "running"]
            /\ owner' = [owner EXCEPT ![j] = w]
            /\ lease' = [lease EXCEPT ![j] = "live"]
            /\ pc' = [pc EXCEPT ![w] = "claimed"] /\ job' = [job EXCEPT ![w] = j]
      BY <2>1 DEF Claim
    <3>2. \A s \in Runners : ~Holds(s, j)
      BY <3>1 DEF Claimable, Exclusive, HolderKnown
    <3> QED BY <1>0, <3>1, <3>2, TakingKeeps DEF TypeOK
  <2>2. CASE Dispatch(w)
    <3>1. /\ pc[w] = "claimed" /\ UNCHANGED <<status, owner, lease, job>>
          /\ \E x \in {"dropping", "raised", "running"} : pc' = [pc EXCEPT ![w] = x]
      BY <2>2 DEF Dispatch, Go, queueVars
    <3> QED BY <1>0, <3>1, OthersKeep DEF Holds, Holding, TypeOK
  <2>3. CASE WorkerStart(w)
    <3>1. \A j \in Jobs : (\E r \in Runners : Holds(r, j)) => ~(status[j] = "running" /\ lease[j] = "stale")
      BY DEF Exclusive, HolderKnown
    <3>2. pc[w] = "boot" /\ job' = job /\ pc' = [pc EXCEPT ![w] = "idle"]
      BY <2>3 DEF WorkerStart, Go
    <3>3. \A r \in Runners, j \in Jobs : Holds(r, j)' => Holds(r, j)
      BY <1>0, <3>2 DEF Holds, Holding, TypeOK
    <3>4. \A j \in Jobs : (\E r \in Runners : Holds(r, j)) =>
             status'[j] = status[j] /\ owner'[j] = owner[j] /\ lease'[j] = lease[j]
      BY <1>0, <2>3, <3>1 DEF WorkerStart, TypeOK
    <3> QED BY <1>0, <3>2, <3>3, <3>4
            DEF Exclusive, ExclusiveParts, HolderKnown, HolderUnique, NoBareRunner, TypeOK
  <2> QED BY <1>7, <2>1, <2>2, <2>3 DEF WorkerStep, WorkerStartRaises
<1>8. ASSUME NEW r \in Runners, Handler(r) PROVE ExclusiveParts'
  <2>1. /\ pc[r] \in {"running", "bare", "orphan"} /\ UNCHANGED <<status, owner, lease>>
        /\ \E x \in {"returned", "raised"} : After(r, x)
    BY <1>8 DEF Handler, Abort, Finish, Raise, Executing, queueVars
  <2>2. PICK x \in {"returned", "raised"} : After(r, x)
    BY <2>1
  <2>3. CASE pc[r] = "orphan"
    BY <1>0, <2>1, <2>2, <2>3, OthersKeep DEF After, Rest, Holds, Holding, TypeOK
  <2>4. CASE pc[r] # "orphan"
    <3>1. pc[r] = "running" /\ pc' = [pc EXCEPT ![r] = x] /\ job' = job
      BY <2>1, <2>2, <2>4 DEF After, Go, Exclusive, NoBareRunner
    <3> QED BY <1>0, <2>1, <3>1, OthersKeep DEF Holds, Holding, TypeOK
  <2> QED BY <2>3, <2>4
<1>9. ASSUME NEW r \in Runners, Ending(r) PROVE ExclusiveParts'
  <2>1. CASE Complete(r)
    <3>1. job[r] \in Jobs /\ Holds(r, job[r])
      BY <1>0, <2>1 DEF Complete, Holds, Holding, TypeOK
    <3>2. /\ Unlock(job[r], "completed") /\ job' = [job EXCEPT ![r] = None]
          /\ pc' = [pc EXCEPT ![r] = IF r \in Workers THEN "idle" ELSE "off"]
      BY <2>1 DEF Complete, Rest
    <3>3. \A j \in Jobs : ~Holds(r, j)'
      BY <1>0, <3>2 DEF Holds, TypeOK
    <3> QED BY <1>0, <3>1, <3>2, <3>3, OthersKeep DEF Unlock, TypeOK
  <2>2. CASE FailRead(r)
    BY <1>0, <2>2, OthersKeep DEF FailRead, queueVars, Holds, Holding, TypeOK
  <2>3. CASE FailSkip(r)
    BY <1>0, <2>3, OthersKeep DEF FailSkip, Rest, Go, queueVars, Holds, Holding, TypeOK
  <2>4. CASE FailWrite(r)
    BY <1>0, <2>4, OthersKeep DEF FailWrite, Unlock, Rest, Go, Holds, Holding, TypeOK
  <2> QED BY <1>9, <2>1, <2>2, <2>3, <2>4 DEF Ending, CompleteRaises
<1>10. ASSUME NEW r \in Runners, Heartbeat(r) PROVE ExclusiveParts'
  BY <1>0, <1>10 DEF Heartbeat, runnerVars, Exclusive, ExclusiveParts, HolderKnown,
                     HolderUnique, NoBareRunner, Holds, TypeOK
<1>11. ASSUME NEW p \in Procs, ProcStep(p) PROVE ExclusiveParts'
  <2>1. UNCHANGED <<status, owner, lease>>
    BY <1>11 DEF ProcStep, Boot, CleanStale, CleanRaises, Shutdown, Die, queueVars
  <2>2. \A r \in Runners : /\ pc'[r] # "bare"
                           /\ \A j \in Jobs : Holds(r, j)' => Holds(r, j)
    <3>1. CASE Boot(p)
      BY <1>0, <3>1 DEF Boot, Holds, Holding, TypeOK, Exclusive, NoBareRunner
    <3>2. CASE CleanStale(p)
      BY <1>0, <3>2 DEF CleanStale, runnerVars, Holds, Exclusive, NoBareRunner
    <3>3. CASE Shutdown(p)
      BY <1>0, <3>3 DEF Shutdown, Holds, Holding, TypeOK, Exclusive, NoBareRunner
    <3>4. CASE Die(p)
      BY <1>0, <3>4 DEF Die, Holds, Holding, TypeOK, Exclusive, NoBareRunner
    <3> QED BY <1>11, <3>1, <3>2, <3>3, <3>4 DEF ProcStep, CleanRaises
  <2> QED BY <2>1, <2>2 DEF Exclusive, ExclusiveParts, HolderKnown, HolderUnique, NoBareRunner
<1>12. CASE UNCHANGED vars
  BY <1>1, <1>12 DEF vars, queueVars, runnerVars
<1> QED BY <1>2, <1>3, <1>4, <1>5, <1>6, <1>7, <1>8, <1>9, <1>10, <1>11, <1>12 DEF Next

LEMMA ExclusiveInvariant == Reliable /\ Spec => []Exclusive
<1> SUFFICES ASSUME Reliable PROVE Spec => []Exclusive
  OBVIOUS
<1>1. Init => Exclusive
  BY ConstantsAssumption DEF Init, Exclusive, LockIffRunning, HolderKnown, HolderUnique, NoBareRunner,
     Holds, Holding, TypeOK, Statuses, Histories, RunnerStates
<1>2. Exclusive /\ [Next]_vars => Exclusive'
  BY TypeStep, LockStep, ExclusiveStep DEF Exclusive, ExclusiveParts
<1> QED BY <1>1, <1>2, PTL DEF Spec

\* Without stalls and lost calls a job never has two runners at once: not
\* after a cancellation, a failure and its retry, a crash or a restart.
THEOREM SingleRunnerCorrect == Reliable /\ Spec => []SingleRunner
<1>1. Exclusive => SingleRunner
  <2> SUFFICES ASSUME Exclusive, NEW r \in Runners, NEW s \in Runners,
                      Executing(r), Executing(s), job[r] = job[s]
               PROVE  r = s
    BY DEF SingleRunner
  <2>1. job[r] \in Jobs
    BY DEF Exclusive, TypeOK, Executing
  <2>2. Holds(r, job[r]) /\ Holds(s, job[r])
    BY DEF Exclusive, NoBareRunner, Executing, Holds, Holding
  <2> QED BY <2>1, <2>2 DEF Exclusive, HolderUnique
<1> QED BY <1>1, ExclusiveInvariant, PTL

-----------------------------------------------------------------------------
(* The attempts.  A queued job has one left, and the attempts fail_job read *)
(* are still those of the job, because nobody else can claim it meanwhile.  *)

AttemptsInv ==
  /\ AttemptsBounded
  /\ \A j \in Jobs : status[j] = "queued" => retries[j] < MaxRetries
  /\ \A r \in Runners : pc[r] = "failing" => seen[r] = retries[job[r]]

LEMMA AttemptsStep == Exclusive /\ Reliable /\ AttemptsInv /\ [Next]_vars => AttemptsInv'
<1> SUFFICES ASSUME Exclusive, Reliable, AttemptsInv, [Next]_vars PROVE AttemptsInv'
  OBVIOUS
<1> USE ConstantsAssumption DEF Runners, Reliable
<1>0. TypeOK /\ MaxRetries \in Nat /\ 1 <= MaxRetries
  BY DEF Exclusive
<1>1. ASSUME UNCHANGED <<status, retries, seen>>,
             \A r \in Runners : pc'[r] = "failing" => pc[r] = "failing" /\ job'[r] = job[r]
      PROVE  AttemptsInv'
  BY <1>0, <1>1 DEF AttemptsInv, AttemptsBounded, TypeOK
<1>2. \A j \in Jobs : status[j] \in {"absent", "queued"} \/ lease[j] \in {"lapsed", "stale"}
        => \A r \in Runners : ~(pc[r] = "failing" /\ job[r] = j)
  BY DEF Exclusive, HolderKnown, LockIffRunning, Holds, Holding
<1>3. ASSUME NEW j \in Jobs, Enqueue(j) PROVE AttemptsInv'
  BY <1>0, <1>2, <1>3 DEF Enqueue, Insert, runnerVars, AttemptsInv, AttemptsBounded, TypeOK
<1>4. ASSUME NEW j \in Jobs, CancelStep(j) PROVE AttemptsInv'
  BY <1>0, <1>4 DEF CancelStep, CancelCheck, CancelFlag, CancelRun, CancelJob, Unlock, queueVars,
                    runnerVars, AttemptsInv, AttemptsBounded, TypeOK
<1>5. ASSUME NEW j \in Jobs, LeaseAge(j) PROVE AttemptsInv'
  BY <1>1, <1>5 DEF LeaseAge, runnerVars
<1>6. ASSUME NEW t \in Threads, NEW j \in Jobs, Submit(t, j) PROVE AttemptsInv'
  BY <1>0, <1>1, <1>6 DEF Submit, queueVars, TypeOK
<1>7. ASSUME NEW t \in Threads, ThreadStep(t) PROVE AttemptsInv'
  <2>1. CASE InlineClaim(t)
    <3>1. job[t] \in Jobs /\ pc[t] = "starting"
      BY <1>0, <2>1 DEF InlineClaim, TypeOK
    <3>2. CASE status[job[t]] = "absent"
      BY <1>0, <1>2, <2>1, <3>1, <3>2
         DEF InlineClaim, Insert, Go, AttemptsInv, AttemptsBounded, TypeOK
    <3>3. CASE status[job[t]] # "absent"
      BY <1>0, <1>1, <2>1, <3>3 DEF InlineClaim, Rest, queueVars, TypeOK
    <3> QED BY <3>2, <3>3
  <2>2. CASE Report(t)
    BY <1>0, <1>1, <2>2 DEF Report, Rest, queueVars, TypeOK
  <2> QED BY <1>7, <2>1, <2>2 DEF ThreadStep, BareStart, ReportRaises
<1>8. ASSUME NEW w \in Workers, WorkerStep(w) PROVE AttemptsInv'
  <2>1. CASE Claim(w)
    <3>1. PICK j \in Jobs :
            /\ Claimable(j)
            /\ status' = [status EXCEPT ![j] = "running"]
            /\ retries' = [retries EXCEPT ![j] = @ + 1]
            /\ pc' = [pc EXCEPT ![w] = "claimed"] /\ job' = [job EXCEPT ![w] = j]
            /\ seen' = seen
      BY <2>1 DEF Claim
    <3>2. retries[j] < MaxRetries /\ \A r \in Runners : ~(pc[r] = "failing" /\ job[r] = j)
      BY <1>2, <3>1 DEF Claimable, AttemptsInv
    <3> QED BY <1>0, <3>1, <3>2 DEF AttemptsInv, AttemptsBounded, TypeOK
  <2>2. CASE Dispatch(w)
    BY <1>0, <1>1, <2>2 DEF Dispatch, Go, queueVars, TypeOK
  <2>3. CASE WorkerStart(w)
    BY <1>0, <2>3 DEF WorkerStart, Go, AttemptsInv, AttemptsBounded, TypeOK
  <2> QED BY <1>8, <2>1, <2>2, <2>3 DEF WorkerStep, WorkerStartRaises
<1>9. ASSUME NEW r \in Runners, Handler(r) PROVE AttemptsInv'
  BY <1>0, <1>1, <1>9 DEF Handler, Abort, Finish, Raise, After, Rest, Go, queueVars, TypeOK
<1>10. ASSUME NEW r \in Runners, Ending(r) PROVE AttemptsInv'
  <2>1. CASE Complete(r)
    BY <1>0, <2>1 DEF Complete, Unlock, Rest, AttemptsInv, AttemptsBounded, TypeOK
  <2>2. CASE FailRead(r)
    BY <1>0, <2>2 DEF FailRead, queueVars, AttemptsInv, AttemptsBounded, TypeOK
  <2>3. CASE FailSkip(r)
    BY <1>0, <1>1, <2>3 DEF FailSkip, Rest, Go, queueVars, TypeOK
  <2>4. CASE FailWrite(r)
    <3>1. job[r] \in Jobs /\ pc[r] = "failing" /\ seen[r] = retries[job[r]]
      BY <1>0, <2>4 DEF FailWrite, AttemptsInv, TypeOK
    <3>2. /\ retries' = retries /\ seen' = seen
          /\ \A s \in Runners : pc'[s] = "failing" => pc[s] = "failing" /\ job'[s] = job[s]
      BY <1>0, <2>4 DEF FailWrite, Unlock, Rest, Go, TypeOK
    <3>3. \A j \in Jobs : status'[j] = "queued" => retries[j] < MaxRetries
      BY <1>0, <2>4, <3>1 DEF FailWrite, Unlock, CanRetry, AttemptsInv, TypeOK
    <3> QED BY <1>0, <3>2, <3>3 DEF AttemptsInv, AttemptsBounded, TypeOK
  <2> QED BY <1>10, <2>1, <2>2, <2>3, <2>4 DEF Ending, CompleteRaises
<1>11. ASSUME NEW r \in Runners, Heartbeat(r) PROVE AttemptsInv'
  BY <1>1, <1>11 DEF Heartbeat, runnerVars
<1>12. ASSUME NEW p \in Procs, ProcStep(p) PROVE AttemptsInv'
  BY <1>0, <1>1, <1>12
     DEF ProcStep, Boot, CleanStale, CleanRaises, Shutdown, Die, queueVars, runnerVars, TypeOK
<1>13. CASE UNCHANGED vars
  BY <1>1, <1>13 DEF vars, queueVars, runnerVars
<1> QED BY <1>3, <1>4, <1>5, <1>6, <1>7, <1>8, <1>9, <1>10, <1>11, <1>12, <1>13 DEF Next

\* Without stalls and lost calls a job is attempted at most MaxRetries times,
\* although neither the claim of a queued job nor the update of fail_job
\* looks at the attempts.
THEOREM AttemptsCorrect == Reliable /\ Spec => []AttemptsBounded
<1> SUFFICES ASSUME Reliable PROVE Spec => []AttemptsBounded
  OBVIOUS
<1>1. Init => AttemptsInv
  BY ConstantsAssumption DEF Init, AttemptsInv, AttemptsBounded
<1>2. Spec => []Exclusive
  BY ExclusiveInvariant
<1>3. AttemptsInv => AttemptsBounded
  BY DEF AttemptsInv
<1> QED BY <1>1, <1>2, <1>3, AttemptsStep, PTL DEF Spec

-----------------------------------------------------------------------------
(* A finished job has no holder, so no update by id can reach it but that  *)
(* of a cancellation.                                                      *)

LEMMA FinishedOneStep ==
  ASSUME Exclusive, Reliable, [Next]_vars, NEW j \in Jobs
  PROVE  FinishedStep(j)
<1> SUFFICES ASSUME status[j] \in {"completed", "failed"}
             PROVE  status'[j] \in {status[j], "cancelled"}
  BY DEF FinishedStep
<1> USE ConstantsAssumption DEF Runners, Reliable
<1>0. TypeOK
  BY DEF Exclusive
<1>1. \A r \in Runners : ~Holds(r, j)
  BY DEF Exclusive, HolderKnown
<1>2. CASE UNCHANGED status
  BY <1>2
<1>3. ASSUME NEW k \in Jobs, Enqueue(k) PROVE status'[j] = status[j]
  BY <1>0, <1>3 DEF Enqueue, Insert, TypeOK
<1>4. ASSUME NEW k \in Jobs, CancelStep(k) PROVE status'[j] \in {status[j], "cancelled"}
  BY <1>0, <1>4 DEF CancelStep, CancelCheck, CancelFlag, CancelRun, CancelJob, Unlock,
                    queueVars, TypeOK
<1>5. ASSUME NEW t \in Threads, ThreadStep(t) PROVE status'[j] = status[j]
  BY <1>0, <1>5 DEF ThreadStep, InlineClaim, BareStart, Report, ReportRaises, Insert, queueVars, TypeOK
<1>6. ASSUME NEW w \in Workers, WorkerStep(w) PROVE status'[j] = status[j]
  BY <1>0, <1>6 DEF WorkerStep, Claim, Claimable, Dispatch, WorkerStart, WorkerStartRaises,
                    queueVars, TypeOK
<1>7. ASSUME NEW r \in Runners, Ending(r) PROVE status'[j] = status[j]
  <2>1. pc[r] \in {"returned", "dropping", "failing"} => job[r] # j
    BY <1>1 DEF Holds, Holding
  <2> QED BY <1>0, <1>7, <2>1 DEF Ending, Complete, CompleteRaises, FailRead, FailSkip,
             FailWrite, Unlock, queueVars, TypeOK
<1>8. ASSUME NEW t \in Threads, NEW k \in Jobs, Submit(t, k) PROVE status' = status
  BY <1>8 DEF Submit, queueVars
<1>9. ASSUME NEW k \in Jobs, LeaseAge(k) PROVE status' = status
  BY <1>9 DEF LeaseAge
<1>10. ASSUME NEW r \in Runners, Handler(r) \/ Heartbeat(r) PROVE status' = status
  BY <1>10 DEF Handler, Abort, Finish, Raise, Heartbeat, queueVars
<1>11. ASSUME NEW p \in Procs, ProcStep(p) PROVE status' = status
  BY <1>11 DEF ProcStep, Boot, CleanStale, CleanRaises, Shutdown, Die, queueVars
<1>12. CASE UNCHANGED vars
  BY <1>2, <1>12 DEF vars, queueVars
<1> QED BY <1>2, <1>3, <1>4, <1>5, <1>6, <1>7, <1>8, <1>9, <1>10, <1>11, <1>12 DEF Next

\* Without stalls and lost calls a completed or failed job is never queued
\* or run again.
THEOREM FinishedCorrect == Reliable /\ Spec => FinishedStaysFinished
<1> SUFFICES ASSUME Reliable PROVE Spec => FinishedStaysFinished
  OBVIOUS
<1>1. Exclusive /\ [Next]_vars => [\A j \in Jobs : FinishedStep(j)]_vars
  BY FinishedOneStep
<1>2. Spec => []Exclusive
  BY ExclusiveInvariant
<1> QED BY <1>1, <1>2, PTL DEF Spec, FinishedStaysFinished

-----------------------------------------------------------------------------
(* The attempts under every fault.  Once the attempts of a job have reached *)
(* the limit only a worker that read them before can queue the job again,   *)
(* and no worker can join those: they are its deciders.  Each of them pays  *)
(* for one more claim.                                                      *)

Deciders(j) ==
  {w \in Workers : pc[w] = "failing" /\ job[w] = j /\ seen[w] < MaxRetries}

OneMore(j) == IF status[j] = "queued" THEN 1 ELSE 0

Budget == MaxRetries + Cardinality(Workers)

JobWithin(j) ==
  retries[j] >= MaxRetries => retries[j] + OneMore(j) + Cardinality(Deciders(j)) <= Budget

AttemptsLeft == \A j \in Jobs : JobWithin(j)

LEMMA DecidersCounted ==
  ASSUME NEW j
  PROVE  /\ IsFiniteSet(Deciders(j)) /\ Cardinality(Deciders(j)) \in Nat
         /\ Cardinality(Workers) \in Nat
         /\ Cardinality(Deciders(j)) <= Cardinality(Workers)
<1>1. Deciders(j) \subseteq Workers
  BY DEF Deciders
<1> QED BY <1>1, WorkersFinite, FS_Subset, FS_CardinalityType

\* A step that gives a job no attempt and queues it for nothing.
LEMMA NoNewDecider ==
  ASSUME TypeOK, NEW j \in Jobs, JobWithin(j),
         retries'[j] = retries[j],
         status'[j] = "queued" => status[j] = "queued" \/ retries[j] < MaxRetries,
         retries[j] >= MaxRetries => Deciders(j)' \subseteq Deciders(j)
  PROVE  JobWithin(j)'
<1> SUFFICES ASSUME retries[j] >= MaxRetries
             PROVE  retries[j] + OneMore(j)' + Cardinality(Deciders(j)') <= Budget
  BY DEF JobWithin, Budget
<1> DEFINE D == Deciders(j)
           E == Deciders(j)'
<1>1. retries[j] \in Nat /\ MaxRetries \in Nat
  BY ConstantsAssumption DEF TypeOK
<1>2. IsFiniteSet(D) /\ Cardinality(D) \in Nat /\ Cardinality(Workers) \in Nat
  BY DecidersCounted
<1>3. E \subseteq D
  OBVIOUS
<1>4. Cardinality(E) \in Nat /\ Cardinality(E) <= Cardinality(D)
  <2> HIDE DEF D, E
  <2> QED BY <1>2, <1>3, FS_Subset, FS_CardinalityType
<1>5. OneMore(j)' <= OneMore(j) /\ OneMore(j)' \in Nat /\ OneMore(j) \in Nat
  BY <1>1 DEF OneMore
<1>6. retries[j] + OneMore(j) + Cardinality(D) <= Budget
  BY DEF JobWithin
<1> HIDE DEF D, E
<1>7. retries[j] + OneMore(j)' + Cardinality(E) <= Budget
  BY <1>1, <1>2, <1>4, <1>5, <1>6, ConstantsAssumption DEF Budget
<1> QED BY <1>7 DEF E

\* A decider queues the job and is a decider no more.
LEMMA DeciderQueues ==
  ASSUME TypeOK, NEW j \in Jobs, JobWithin(j), NEW w \in Deciders(j),
         retries'[j] = retries[j],
         Deciders(j)' \subseteq Deciders(j) \ {w}
  PROVE  JobWithin(j)'
<1> SUFFICES ASSUME retries[j] >= MaxRetries
             PROVE  retries[j] + OneMore(j)' + Cardinality(Deciders(j)') <= Budget
  BY DEF JobWithin, Budget
<1> DEFINE D == Deciders(j)
           E == Deciders(j)'
<1>1. retries[j] \in Nat /\ MaxRetries \in Nat
  BY ConstantsAssumption DEF TypeOK
<1>2. IsFiniteSet(D) /\ Cardinality(D) \in Nat /\ Cardinality(Workers) \in Nat
  BY DecidersCounted
<1>3. E \subseteq D \ {w} /\ w \in D
  OBVIOUS
<1>4. Cardinality(E) \in Nat /\ Cardinality(E) <= Cardinality(D) - 1
  <2> HIDE DEF D, E
  <2>1. IsFiniteSet(D \ {w}) /\ Cardinality(D \ {w}) = Cardinality(D) - 1
    BY <1>2, <1>3, FS_RemoveElement
  <2> QED BY <1>3, <2>1, FS_Subset, FS_CardinalityType
<1>5. OneMore(j)' \in {0, 1} /\ OneMore(j) \in Nat
  BY DEF OneMore
<1>6. retries[j] + OneMore(j) + Cardinality(D) <= Budget
  BY DEF JobWithin
<1> HIDE DEF D, E
<1>7. retries[j] + OneMore(j)' + Cardinality(E) <= Budget
  BY <1>1, <1>2, <1>4, <1>5, <1>6, ConstantsAssumption DEF Budget
<1> QED BY <1>7 DEF E

\* A new record starts within the budget.
LEMMA FreshWithin ==
  ASSUME NEW j \in Jobs, NEW n \in {0, 1}, retries'[j] = n, n = 1 => status'[j] = "running"
  PROVE  JobWithin(j)'
<1> DEFINE E == Deciders(j)'
<1>1. E \subseteq Workers
  BY DEF Deciders
<1> HIDE DEF E
<1>2. Cardinality(E) \in Nat /\ Cardinality(E) <= Cardinality(Workers) /\ Cardinality(Workers) \in Nat
  BY <1>1, WorkersFinite, FS_Subset, FS_CardinalityType
<1>3. retries'[j] >= MaxRetries => retries'[j] + OneMore(j)' + Cardinality(E) <= Budget
  BY <1>2, ConstantsAssumption DEF Budget, OneMore
<1> QED BY <1>3 DEF JobWithin, Budget, E

\* A claim spends the attempt that queueing the job gave it.
LEMMA ClaimSpends ==
  ASSUME TypeOK, NEW j \in Jobs, JobWithin(j),
         retries'[j] = retries[j] + 1, status'[j] = "running",
         status[j] = "queued" \/ retries[j] < MaxRetries,
         seen' = seen,
         \A w \in Workers : pc'[w] = "failing" => pc[w] = "failing" /\ job'[w] = job[w]
  PROVE  JobWithin(j)'
<1> SUFFICES ASSUME retries[j] + 1 >= MaxRetries
             PROVE  retries[j] + 1 + OneMore(j)' + Cardinality(Deciders(j)') <= Budget
  BY DEF JobWithin, Budget
<1> DEFINE D == Deciders(j)
           E == Deciders(j)'
<1>1. retries[j] \in Nat /\ MaxRetries \in Nat
  BY ConstantsAssumption DEF TypeOK
<1>2. /\ IsFiniteSet(D) /\ Cardinality(D) \in Nat /\ Cardinality(Workers) \in Nat
      /\ Cardinality(D) <= Cardinality(Workers)
  BY DecidersCounted
<1>3. E \subseteq D
  BY DEF Deciders
<1>4. Cardinality(E) \in Nat /\ Cardinality(E) <= Cardinality(D)
  <2> HIDE DEF D, E
  <2> QED BY <1>2, <1>3, FS_Subset, FS_CardinalityType
<1>5. OneMore(j)' = 0
  BY DEF OneMore
<1>6. retries[j] >= MaxRetries => retries[j] + 1 + Cardinality(D) <= Budget
  <2>1. retries[j] >= MaxRetries => OneMore(j) = 1
    BY <1>1 DEF OneMore
  <2>2. retries[j] >= MaxRetries => retries[j] + OneMore(j) + Cardinality(D) <= Budget
    BY DEF JobWithin
  <2> QED BY <2>1, <2>2
<1> HIDE DEF D, E
<1>7. retries[j] + 1 + OneMore(j)' + Cardinality(E) <= Budget
  BY <1>1, <1>2, <1>4, <1>5, <1>6 DEF Budget
<1> QED BY <1>7 DEF E

LEMMA WithinStep == TypeOK /\ AttemptsLeft /\ [Next]_vars => AttemptsLeft'
<1> SUFFICES ASSUME TypeOK, AttemptsLeft, [Next]_vars, NEW j \in Jobs
             PROVE  JobWithin(j)'
  BY DEF AttemptsLeft
<1> USE ConstantsAssumption DEF Runners
<1>0. JobWithin(j) /\ retries[j] \in Nat /\ MaxRetries \in Nat /\ Workers \cap Threads = {}
  BY DEF AttemptsLeft, TypeOK
<1>1. CASE /\ retries'[j] = retries[j]
           /\ status'[j] = "queued" => status[j] = "queued"
           /\ \A w \in Workers : pc'[w] = "failing" => pc[w] = "failing" /\ job'[w] = job[w]
           /\ seen' = seen
  <2>1. Deciders(j)' \subseteq Deciders(j)
    BY <1>1 DEF Deciders
  <2> QED BY <1>0, <1>1, <2>1, NoNewDecider
<1>2. ASSUME NEW k \in Jobs, Enqueue(k) PROVE JobWithin(j)'
  <2>1. CASE k = j
    BY <1>2, <2>1, FreshWithin DEF Enqueue, Insert, TypeOK
  <2>2. CASE k # j
    BY <1>1, <1>2, <2>2 DEF Enqueue, Insert, TypeOK, runnerVars
  <2> QED BY <2>1, <2>2
<1>3. ASSUME NEW k \in Jobs, CancelStep(k) PROVE JobWithin(j)'
  BY <1>1, <1>3 DEF CancelStep, CancelCheck, CancelFlag, CancelRun, CancelJob, Unlock,
                    TypeOK, queueVars, runnerVars
<1>4. ASSUME NEW k \in Jobs, LeaseAge(k) PROVE JobWithin(j)'
  BY <1>1, <1>4 DEF LeaseAge, runnerVars
<1>5. ASSUME NEW t \in Threads, NEW k \in Jobs, Submit(t, k) PROVE JobWithin(j)'
  BY <1>0, <1>1, <1>5 DEF Submit, TypeOK, queueVars
<1>6. ASSUME NEW t \in Threads, ThreadStep(t) PROVE JobWithin(j)'
  <2>1. CASE UNCHANGED queueVars
    <3>1. /\ seen' = seen /\ \A w \in Workers : pc'[w] = pc[w] /\ job'[w] = job[w]
      BY <1>0, <1>6 DEF ThreadStep, InlineClaim, BareStart, Report, ReportRaises, Rest, Go, TypeOK
    <3> QED BY <1>1, <2>1, <3>1 DEF queueVars
  <2>2. CASE Insert(job[t], "running", 1, t, "live")
    <3>1. (pc[t] = "starting" /\ job[t] \in Jobs) \/ UNCHANGED queueVars
      BY <1>6 DEF ThreadStep, InlineClaim, BareStart, Report, ReportRaises, TypeOK
    <3>2. CASE job[t] = j
      BY <2>1, <2>2, <3>1, <3>2, FreshWithin DEF Insert, TypeOK
    <3>3. CASE job[t] # j
      <4>1. /\ seen' = seen /\ \A w \in Workers : pc'[w] = pc[w] /\ job'[w] = job[w]
        BY <1>0, <1>6 DEF ThreadStep, InlineClaim, BareStart, Report, ReportRaises, Rest, Go, TypeOK
      <4> QED BY <1>1, <2>2, <3>3, <4>1 DEF Insert, TypeOK
    <3> QED BY <3>2, <3>3
  <2> QED BY <1>6, <2>1, <2>2 DEF ThreadStep, InlineClaim, BareStart, Report, ReportRaises
<1>7. ASSUME NEW w \in Workers, WorkerStep(w) PROVE JobWithin(j)'
  <2>1. CASE Claim(w)
    <3>1. PICK k \in Jobs :
            /\ Claimable(k)
            /\ status' = [status EXCEPT ![k] = "running"]
            /\ retries' = [retries EXCEPT ![k] = @ + 1]
            /\ \/ pc' = [pc EXCEPT ![w] = "claimed"] /\ job' = [job EXCEPT ![w] = k]
               \/ UNCHANGED <<pc, job>>
      BY <2>1 DEF Claim
    <3>2. pc[w] = "idle" /\ seen' = seen
      BY <2>1 DEF Claim
    <3>3. \A v \in Workers : pc'[v] = "failing" => pc[v] = "failing" /\ job'[v] = job[v]
      BY <3>1, <3>2 DEF TypeOK
    <3>4. CASE k = j
      <4>1. retries'[j] = retries[j] + 1 /\ status'[j] = "running"
        BY <3>1, <3>4 DEF TypeOK
      <4>2. status[j] = "queued" \/ retries[j] < MaxRetries
        BY <3>1, <3>4 DEF Claimable
      <4> QED BY <1>0, <3>2, <3>3, <4>1, <4>2, ClaimSpends
    <3>5. CASE k # j
      BY <1>1, <3>1, <3>2, <3>3, <3>5 DEF TypeOK
    <3> QED BY <3>4, <3>5
  <2>2. CASE Dispatch(w)
    BY <1>1, <2>2 DEF Dispatch, Go, queueVars, TypeOK
  <2>3. CASE WorkerStart(w)
    <3>1. Deciders(j)' \subseteq Deciders(j)
      BY <2>3 DEF WorkerStart, Go, Deciders, TypeOK
    <3>2. /\ retries'[j] = retries[j]
          /\ status'[j] = "queued" => status[j] = "queued" \/ retries[j] < MaxRetries
      BY <2>3 DEF WorkerStart
    <3> QED BY <1>0, <3>1, <3>2, NoNewDecider
  <2>4. CASE WorkerStartRaises(w)
    BY <1>1, <2>4 DEF WorkerStartRaises, Go, queueVars, TypeOK
  <2> QED BY <1>7, <2>1, <2>2, <2>3, <2>4 DEF WorkerStep
<1>8. ASSUME NEW r \in Runners, Handler(r) PROVE JobWithin(j)'
  BY <1>1, <1>8 DEF Handler, Abort, Finish, Raise, After, Rest, Go, queueVars, TypeOK
<1>9. ASSUME NEW r \in Runners, Ending(r) PROVE JobWithin(j)'
  <2>1. CASE Complete(r)
    BY <1>1, <2>1 DEF Complete, Unlock, Rest, TypeOK
  <2>2. CASE CompleteRaises(r)
    BY <1>1, <2>2 DEF CompleteRaises, Rest, Go, queueVars, TypeOK
  <2>3. CASE FailRead(r)
    <3>1. /\ pc[r] = "raised" /\ job' = job /\ UNCHANGED <<status, retries>>
          /\ pc' = [pc EXCEPT ![r] = "failing"] /\ seen' = [seen EXCEPT ![r] = retries[job[r]]]
      BY <2>3 DEF FailRead, queueVars
    <3>2. retries[j] >= MaxRetries => Deciders(j)' \subseteq Deciders(j)
      BY <1>0, <3>1 DEF Deciders, TypeOK
    <3> QED BY <1>0, <3>1, <3>2, NoNewDecider
  <2>4. CASE FailSkip(r)
    BY <1>1, <2>4 DEF FailSkip, Rest, Go, queueVars, TypeOK
  <2>5. CASE FailWrite(r)
    <3>1. /\ pc[r] = "failing" /\ job[r] \in Jobs /\ retries' = retries /\ seen' = seen
          /\ status' = [status EXCEPT ![job[r]] = IF @ = "absent" THEN @
                                                  ELSE IF CanRetry(r) THEN "queued" ELSE "failed"]
      BY <2>5 DEF FailWrite, Unlock, Rest, Go, TypeOK
    <3>2. \A w \in Workers : pc'[w] = "failing" => w # r /\ pc[w] = "failing" /\ job'[w] = job[w]
      BY <1>0, <2>5 DEF FailWrite, Rest, Go, TypeOK
    <3>3. CASE r \in Deciders(j)
      <4>1. Deciders(j)' \subseteq Deciders(j) \ {r}
        BY <3>1, <3>2 DEF Deciders
      <4> QED BY <1>0, <3>1, <3>3, <4>1, DeciderQueues
    <3>4. CASE r \notin Deciders(j)
      <4>1. status'[j] = "queued" => status[j] = "queued"
        BY <3>1, <3>4 DEF Deciders, CanRetry, TypeOK
      <4> QED BY <1>1, <3>1, <3>2, <4>1
    <3> QED BY <3>3, <3>4
  <2> QED BY <1>9, <2>1, <2>2, <2>3, <2>4, <2>5 DEF Ending
<1>10. ASSUME NEW r \in Runners, Heartbeat(r) PROVE JobWithin(j)'
  BY <1>1, <1>10 DEF Heartbeat, runnerVars
<1>11. ASSUME NEW p \in Procs, ProcStep(p) PROVE JobWithin(j)'
  <2>1. CASE Boot(p)
    BY <1>1, <2>1 DEF Boot, queueVars
  <2>2. CASE CleanStale(p)
    BY <1>1, <2>2 DEF CleanStale, queueVars, runnerVars
  <2>3. CASE Shutdown(p)
    BY <1>1, <2>3 DEF Shutdown, queueVars
  <2>4. CASE Die(p)
    BY <1>1, <2>4 DEF Die, queueVars
  <2>5. CASE CleanRaises(p)
    BY <1>1, <2>5 DEF CleanRaises, queueVars, runnerVars
  <2> QED BY <1>11, <2>1, <2>2, <2>3, <2>4, <2>5 DEF ProcStep
<1>12. CASE UNCHANGED vars
  BY <1>1, <1>12 DEF vars, queueVars, runnerVars
<1> QED BY <1>2, <1>3, <1>4, <1>5, <1>6, <1>7, <1>8, <1>9, <1>10, <1>11, <1>12 DEF Next

\* Stalled holders and lost calls can push a job past max_retries by no more
\* attempts than there are workers: whatever fails, a job that kills its
\* workers is given up.
THEOREM AttemptsNearlyCorrect == Spec => []AttemptsNearlyBounded
<1>1. Init => AttemptsLeft
  BY ConstantsAssumption DEF Init, AttemptsLeft, JobWithin
<1>2. TypeOK /\ AttemptsLeft => AttemptsNearlyBounded
  <2> SUFFICES ASSUME TypeOK, AttemptsLeft, NEW j \in Jobs
               PROVE  retries[j] <= MaxRetries + Cardinality(Workers)
    BY DEF AttemptsNearlyBounded
  <2>1. retries[j] \in Nat /\ MaxRetries \in Nat /\ JobWithin(j)
    BY ConstantsAssumption DEF TypeOK, AttemptsLeft
  <2>2. Cardinality(Deciders(j)) \in Nat /\ Cardinality(Workers) \in Nat
    BY DecidersCounted
  <2>3. OneMore(j) \in Nat
    BY DEF OneMore
  <2>4. CASE retries[j] < MaxRetries
    BY <2>1, <2>2, <2>4
  <2>5. CASE retries[j] >= MaxRetries
    BY <2>1, <2>2, <2>3, <2>5 DEF JobWithin, Budget
  <2> QED BY <2>1, <2>4, <2>5
<1> QED BY <1>1, <1>2, WithinStep, TypeCorrect, PTL DEF Spec

-----------------------------------------------------------------------------
(* Cancelling.  A worker looks at the flag after it has claimed the job and *)
(* the flag is never taken back, whatever the run's status says by then.    *)

AskedIsFlagged == \A j \in Jobs : asked[j] => cancelReq[j]

LEMMA AskedStep == TypeOK /\ AskedIsFlagged /\ [Next]_vars => AskedIsFlagged'
<1> SUFFICES ASSUME TypeOK, AskedIsFlagged, [Next]_vars PROVE AskedIsFlagged'
  OBVIOUS
<1> USE DEF AskedIsFlagged, historyVars, cancelVars
<1>1. CASE UNCHANGED <<asked, cancelReq>>
  BY <1>1
<1>2. ASSUME NEW j \in Jobs, Enqueue(j) \/ CancelStep(j) \/ LeaseAge(j) PROVE AskedIsFlagged'
  BY <1>2 DEF Enqueue, CancelStep, CancelCheck, CancelFlag, CancelRun, CancelJob, LeaseAge, TypeOK
<1>3. ASSUME NEW t \in Threads, ThreadStep(t) \/ \E j \in Jobs : Submit(t, j) PROVE AskedIsFlagged'
  BY <1>1, <1>3 DEF ThreadStep, InlineClaim, BareStart, Report, ReportRaises, Submit
<1>4. ASSUME NEW w \in Workers, WorkerStep(w) PROVE AskedIsFlagged'
  BY <1>1, <1>4 DEF WorkerStep, Claim, Dispatch, WorkerStart, WorkerStartRaises
<1>5. ASSUME NEW r \in Runners, Handler(r) PROVE AskedIsFlagged'
  <2>1. CASE Abort(r)
    BY <2>1 DEF Abort, TypeOK
  <2> QED BY <1>1, <1>5, <2>1 DEF Handler, Finish, Raise
<1>6. ASSUME NEW r \in Runners, Ending(r) \/ Heartbeat(r) PROVE AskedIsFlagged'
  BY <1>1, <1>6 DEF Ending, Complete, CompleteRaises, FailRead, FailSkip, FailWrite, Heartbeat
<1>7. ASSUME NEW p \in Procs, ProcStep(p) PROVE AskedIsFlagged'
  BY <1>1, <1>7 DEF ProcStep, Boot, CleanStale, CleanRaises, Shutdown, Die
<1>8. CASE UNCHANGED vars
  BY <1>1, <1>8 DEF vars
<1> QED BY <1>2, <1>3, <1>4, <1>5, <1>6, <1>7, <1>8 DEF Next

LEMMA ClaimedIsDropped ==
  ASSUME TypeOK, AskedIsFlagged, [Next]_vars,
         NEW w \in Workers, pc[w] = "claimed", asked[job[w]]
  PROVE  pc'[w] # "running"
<1> USE ConstantsAssumption DEF Runners
<1>0. job[w] \in Jobs /\ Cancelled(job[w]) /\ w \notin Threads
  BY DEF TypeOK, AskedIsFlagged, Cancelled
<1>1. CASE UNCHANGED runnerVars
  BY <1>1 DEF runnerVars
<1>2. ASSUME NEW j \in Jobs, Enqueue(j) \/ CancelStep(j) \/ LeaseAge(j) PROVE pc'[w] # "running"
  BY <1>1, <1>2 DEF Enqueue, CancelStep, CancelCheck, CancelFlag, CancelRun, CancelJob, LeaseAge
<1>3. ASSUME NEW t \in Threads, ThreadStep(t) \/ \E j \in Jobs : Submit(t, j)
      PROVE  pc'[w] # "running"
  BY <1>0, <1>3 DEF ThreadStep, InlineClaim, BareStart, Report, ReportRaises, Submit, Go, Rest, TypeOK
<1>4. ASSUME NEW v \in Workers, WorkerStep(v) PROVE pc'[w] # "running"
  <2>1. CASE Claim(v)
    BY <2>1 DEF Claim, TypeOK
  <2>2. CASE Dispatch(v) /\ v = w
    BY <1>0, <2>2 DEF Dispatch, Go, TypeOK
  <2>3. CASE Dispatch(v) /\ v # w
    BY <2>3 DEF Dispatch, Go, TypeOK
  <2>4. CASE WorkerStart(v) \/ WorkerStartRaises(v)
    BY <2>4 DEF WorkerStart, WorkerStartRaises, Go, TypeOK
  <2> QED BY <1>4, <2>1, <2>2, <2>3, <2>4 DEF WorkerStep
<1>5. ASSUME NEW r \in Runners, Handler(r) PROVE pc'[w] # "running"
  BY <1>5 DEF Handler, Abort, Finish, Raise, After, Rest, Go, TypeOK
<1>6. ASSUME NEW r \in Runners, Ending(r) \/ Heartbeat(r) PROVE pc'[w] # "running"
  BY <1>1, <1>6 DEF Ending, Complete, CompleteRaises, FailRead, FailSkip, FailWrite, Heartbeat,
                    Rest, Go, TypeOK
<1>7. ASSUME NEW p \in Procs, ProcStep(p) PROVE pc'[w] # "running"
  BY <1>1, <1>7 DEF ProcStep, Boot, CleanStale, CleanRaises, Shutdown, Die, TypeOK
<1>8. CASE UNCHANGED vars
  BY <1>1, <1>8 DEF vars
<1> QED BY <1>2, <1>3, <1>4, <1>5, <1>6, <1>7, <1>8 DEF Next

\* With every fault allowed: once a person has asked to cancel a run, a
\* worker that claims its job drops it, even when the run overwrote its
\* "cancelled" status, or the job was queued again, after the request.
THEOREM CancelCorrect == Spec => NoWorkAfterCancel
<1>1. Init => AskedIsFlagged
  BY DEF Init, AskedIsFlagged
<1>2. TypeOK /\ AskedIsFlagged /\ [Next]_vars
      => [\A w \in Workers : pc[w] = "claimed" /\ asked[job[w]] => pc'[w] # "running"]_vars
  BY ClaimedIsDropped
<1> QED BY <1>1, <1>2, AskedStep, TypeCorrect, PTL DEF Spec, NoWorkAfterCancel
=============================================================================
