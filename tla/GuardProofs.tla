---------------------------- MODULE GuardProofs ----------------------------
(* Proofs about the guards in front of the work: the rate limits of        *)
(* RateLimits, the quotas and tokens of Admission, the alerts of Limits.   *)
EXTENDS RateLimits, Admission, Limits, FiniteSetTheorems, TLAPS

-----------------------------------------------------------------------------
(***************************************************************************)
(* The rate limits of RateLimits hold for every number of calls, processes *)
(* and threads: what the database let through was counted in it at that    *)
(* moment, so it is part of what was compared with the limit.  TakeBack    *)
(* only ever removes a call that was not let through.  What a process let  *)
(* through on its own is in its memory or about to be noted there by one   *)
(* of its threads.                                                         *)
(***************************************************************************)

CallPoints == {"new", "counted", "back", "fallback", "noting", "done"}

\* A call is counted before it is judged, and what was let through stays
\* counted; what a process let through it has seen or is noting.
CountedFirst ==
  /\ hits \in SUBSET Calls /\ admitted \in SUBSET Calls
  /\ seen \in [Processes -> SUBSET Calls] /\ local \in [Processes -> SUBSET Calls]
  /\ call \in [Calls -> CallPoints] /\ place \in [Calls -> Processes]
  /\ \A c \in admitted : call[c] \in {"noting", "done"} /\ c \in hits
  /\ \A c \in Calls : call[c] = "counted" => c \in hits
  /\ \A p \in Processes : \A c \in local[p] :
       place[c] = p /\ (call[c] = "noting" \/ (call[c] = "done" /\ c \in seen[p]))

\* A process works on no more calls than it has threads.
Manned == \A p \in Processes : Cardinality(AtWork(p)) <= Pool

RatesInv == CountedFirst /\ Manned /\ NeverUnlimited

\* A subset of calls has no more members than a set of calls it lies in.
LEMMA Fewer ==
  ASSUME NEW small, NEW big, small \subseteq big, big \subseteq Calls
  PROVE  /\ IsFiniteSet(small) /\ IsFiniteSet(big)
         /\ Cardinality(small) \in Nat /\ Cardinality(big) \in Nat
         /\ Cardinality(small) <= Cardinality(big)
BY RatesFinite, FS_Subset, FS_CardinalityType

\* One more call makes a set of calls at most one larger.
LEMMA OneMore ==
  ASSUME NEW set \in SUBSET Calls, NEW c \in Calls
  PROVE  Cardinality(set \cup {c}) <= Cardinality(set) + 1
<1>1. IsFiniteSet(set) /\ Cardinality(set) \in Nat  BY Fewer
<1> QED  BY <1>1, FS_AddElement

\* A call that goes on working, or ends, adds none to the calls in work.
LEMMA StillManned ==
  ASSUME CountedFirst, Manned, UNCHANGED place,
         \A c \in Calls : call[c] \in {"new", "done"} => call'[c] \in {"new", "done"}
  PROVE  Manned'
<1> SUFFICES ASSUME NEW p \in Processes PROVE Cardinality(AtWork(p)') <= Pool
  BY DEF Manned
<1>1. AtWork(p)' \subseteq AtWork(p) /\ AtWork(p) \subseteq Calls
  BY DEF AtWork, CountedFirst
<1>2. Cardinality(AtWork(p)') <= Cardinality(AtWork(p))
      /\ Cardinality(AtWork(p)') \in Nat /\ Cardinality(AtWork(p)) \in Nat
  BY <1>1, Fewer
<1>3. Cardinality(AtWork(p)) <= Pool  BY DEF Manned
<1> QED  BY <1>2, <1>3, RatesFinite

\* What a process lets through beyond what it remembers, it lets through in
\* threads that are still at work, this call's own among them.
LEMMA OneOfTheThreads ==
  ASSUME CountedFirst, Manned, Kept, NEW c \in Calls, call[c] = "fallback", ~Full(place[c])
  PROVE  Cardinality(local[place[c]] \cup {c}) <= RateLimit + Pool - 1
<1> DEFINE p == place[c]
           All == seen[p] \cup AtWork(p)
<1>1. p \in Processes /\ seen[p] \subseteq Calls /\ AtWork(p) \subseteq Calls
  BY DEF CountedFirst, AtWork
<1>2. local[p] \cup {c} \subseteq All
  <2>1. c \in AtWork(p)  BY DEF AtWork
  <2>2. ASSUME NEW d \in local[p] PROVE d \in All
    <3>1. d \in Calls  BY <1>1 DEF CountedFirst
    <3> QED  BY <1>1, <2>2, <3>1 DEF CountedFirst, AtWork
  <2> QED  BY <2>1, <2>2
<1>3. Cardinality(local[p] \cup {c}) <= Cardinality(All)
      /\ Cardinality(local[p] \cup {c}) \in Nat /\ Cardinality(All) \in Nat
  BY <1>1, <1>2, Fewer
<1>4. /\ IsFiniteSet(seen[p]) /\ IsFiniteSet(AtWork(p))
      /\ Cardinality(seen[p]) \in Nat /\ Cardinality(AtWork(p)) \in Nat
  BY <1>1, Fewer
<1>5. Cardinality(All) <= Cardinality(seen[p]) + Cardinality(AtWork(p))
  <2>1. Cardinality(All) = Cardinality(seen[p]) + Cardinality(AtWork(p))
                           - Cardinality(seen[p] \cap AtWork(p))
    BY <1>4, FS_Union
  <2>2. seen[p] \cap AtWork(p) \subseteq Calls  BY <1>1
  <2>3. Cardinality(seen[p] \cap AtWork(p)) \in Nat  BY <2>2, Fewer
  <2> QED  BY <2>1, <2>3, <1>3, <1>4
<1>6. Cardinality(seen[p]) + 1 <= RateLimit  BY <1>4, RatesFinite DEF Full
<1>7. Cardinality(AtWork(p)) <= Pool  BY <1>1 DEF Manned
<1> HIDE DEF All, p
<1>8. Cardinality(local[p] \cup {c}) <= RateLimit + Pool - 1
  BY <1>3, <1>4, <1>5, <1>6, <1>7, RatesFinite
<1> QED  BY <1>8 DEF p

LEMMA RatesStart == RatesInit => RatesInv
<1> SUFFICES ASSUME RatesInit PROVE RatesInv  OBVIOUS
<1>1. CountedFirst  BY DEF RatesInit, CountedFirst, CallPoints
<1>2. Cardinality({}) = 0  BY FS_EmptySet
<1>3. NeverUnlimited  BY <1>2, RatesFinite DEF RatesInit, NeverUnlimited
<1>4. \A p \in Processes : AtWork(p) = {}  BY DEF RatesInit, AtWork
<1>5. Manned  BY <1>2, <1>4, RatesFinite DEF Manned
<1> QED  BY <1>1, <1>3, <1>5 DEF RatesInv

LEMMA RatesStep == RatesInv /\ [RatesNext]_rateVars => RatesInv'
<1> SUFFICES ASSUME RatesInv, [RatesNext]_rateVars PROVE RatesInv'  OBVIOUS
<1> USE DEF RatesInv
<1>1. ASSUME NEW c \in Calls, Hit(c) PROVE RatesInv'
  <2>1. CountedFirst'  BY <1>1 DEF Hit, Step, CountedFirst, CallPoints
  <2>2. NeverUnlimited'  BY <1>1 DEF Hit, NeverUnlimited
  <2>3. ASSUME NEW p \in Processes PROVE Cardinality(AtWork(p)') <= Pool
    <3>1. AtWork(p) \subseteq Calls  BY DEF AtWork
    <3>2. Cardinality(AtWork(p)) \in Nat  BY <3>1, Fewer
    <3>3. CASE place[c] = p
      <4>1. AtWork(p)' \subseteq AtWork(p) \cup {c}
        BY <1>1 DEF Hit, Step, AtWork, CountedFirst
      <4>2. AtWork(p) \cup {c} \subseteq Calls  BY <3>1
      <4>3. /\ Cardinality(AtWork(p)') <= Cardinality(AtWork(p) \cup {c})
            /\ Cardinality(AtWork(p)') \in Nat /\ Cardinality(AtWork(p) \cup {c}) \in Nat
        BY <4>1, <4>2, Fewer
      <4>4. Cardinality(AtWork(p) \cup {c}) <= Cardinality(AtWork(p)) + 1  BY <3>1, OneMore
      <4>5. Cardinality(AtWork(p)) < Pool  BY <1>1, <3>3 DEF Hit
      <4> QED  BY <4>3, <4>4, <4>5, <3>2, RatesFinite
    <3>4. CASE place[c] # p
      <4>1. AtWork(p)' = AtWork(p)  BY <1>1, <3>4 DEF Hit, Step, AtWork, CountedFirst
      <4> QED  BY <4>1 DEF Manned
    <3> QED  BY <3>3, <3>4
  <2>4. Manned'  BY <2>3 DEF Manned
  <2> QED  BY <2>1, <2>2, <2>4
<1>2. ASSUME NEW c \in Calls, Judge(c) PROVE RatesInv'
  <2>1. CountedFirst'  BY <1>2 DEF Judge, Step, CountedFirst, CallPoints
  <2>2. Manned'
    BY <1>2, StillManned DEF Judge, Step, CountedFirst
  <2>3. Cardinality(admitted') <= RateLimit
    <3>1. CASE ~Over(hits) /\ Step(c, "counted", "noting") /\ admitted' = admitted \cup {c}
      <4>1. hits' \subseteq Calls /\ admitted' \subseteq hits
        BY <1>2, <2>1 DEF CountedFirst, Judge
      <4>2. Cardinality(admitted') <= Cardinality(hits)
            /\ Cardinality(admitted') \in Nat /\ Cardinality(hits) \in Nat
        BY <1>2, <4>1, Fewer DEF Judge
      <4> QED  BY <3>1, <4>2, RatesFinite DEF Over
    <3>2. CASE UNCHANGED admitted  BY <3>2 DEF NeverUnlimited
    <3> QED  BY <1>2, <3>1, <3>2 DEF Judge
  <2> QED  BY <1>2, <2>1, <2>2, <2>3 DEF Judge, NeverUnlimited
<1>3. ASSUME NEW c \in Calls, TakeBack(c) PROVE RatesInv'
  <2>1. CountedFirst'  BY <1>3 DEF TakeBack, Step, CountedFirst, CallPoints
  <2>2. Manned'  BY <1>3, StillManned DEF TakeBack, Step, CountedFirst
  <2> QED  BY <1>3, <2>1, <2>2 DEF TakeBack, NeverUnlimited
<1>4. ASSUME NEW c \in Calls, JudgeLocally(c) PROVE RatesInv'
  <2>1. CountedFirst'
    <3>1. CASE Step(c, "fallback", "done") /\ UNCHANGED local
      BY <1>4, <3>1 DEF JudgeLocally, Step, CountedFirst, CallPoints
    <3>2. CASE Step(c, "fallback", "noting")
               /\ local' = [local EXCEPT ![place[c]] = @ \cup {c}]
      <4>1. /\ hits' \in SUBSET Calls /\ admitted' \in SUBSET Calls
            /\ seen' \in [Processes -> SUBSET Calls] /\ local' \in [Processes -> SUBSET Calls]
            /\ call' \in [Calls -> CallPoints] /\ place' \in [Calls -> Processes]
        BY <1>4, <3>2 DEF JudgeLocally, Step, CountedFirst, CallPoints
      <4>2. \A d \in admitted' : call'[d] \in {"noting", "done"} /\ d \in hits'
        BY <1>4, <3>2 DEF JudgeLocally, Step, CountedFirst
      <4>3. \A d \in Calls : call'[d] = "counted" => d \in hits'
        BY <1>4, <3>2 DEF JudgeLocally, Step, CountedFirst
      <4>4. ASSUME NEW p \in Processes, NEW d \in local'[p]
            PROVE  /\ place'[d] = p
                   /\ call'[d] = "noting" \/ (call'[d] = "done" /\ d \in seen'[p])
        <5>1. d \in local[p] \/ (p = place[c] /\ d = c)
          <6>1. CASE p = place[c]  BY <3>2, <4>4, <6>1 DEF CountedFirst
          <6>2. CASE p # place[c]  BY <3>2, <4>4, <6>2 DEF CountedFirst
          <6> QED  BY <6>1, <6>2
        <5>2. CASE d = c
          <6>1. c \notin local[p]  BY <3>2 DEF Step, CountedFirst
          <6> QED  BY <1>4, <3>2, <5>1, <5>2, <6>1 DEF JudgeLocally, Step, CountedFirst
        <5>3. CASE d # c
          <6>1. d \in local[p] /\ d \in Calls  BY <5>1, <5>3 DEF CountedFirst
          <6> QED  BY <1>4, <3>2, <5>3, <6>1 DEF JudgeLocally, Step, CountedFirst
        <5> QED  BY <5>2, <5>3
      <4> QED  BY <4>1, <4>2, <4>3, <4>4 DEF CountedFirst
    <3> QED  BY <1>4, <3>1, <3>2 DEF JudgeLocally
  <2>2. Manned'  BY <1>4, StillManned DEF JudgeLocally, Step, CountedFirst
  <2>3. ASSUME Kept, NEW p \in Processes
        PROVE  Cardinality(local'[p]) <= RateLimit + Pool - 1
    <3>1. CASE local'[p] = local[p]  BY <2>3, <3>1 DEF NeverUnlimited
    <3>2. CASE local'[p] # local[p]
      <4>1. ~Full(place[c]) /\ p = place[c] /\ call[c] = "fallback"
            /\ local'[p] = local[p] \cup {c}
        BY <1>4, <3>2 DEF JudgeLocally, Step, CountedFirst
      <4> QED  BY <2>3, <4>1, OneOfTheThreads
    <3> QED  BY <3>1, <3>2
  <2> QED  BY <1>4, <2>1, <2>2, <2>3 DEF JudgeLocally, NeverUnlimited
<1>5. ASSUME NEW c \in Calls, Note(c) PROVE RatesInv'
  <2>1. CountedFirst'  BY <1>5 DEF Note, Step, CountedFirst, CallPoints
  <2>2. Manned'  BY <1>5, StillManned DEF Note, Step, CountedFirst
  <2> QED  BY <1>5, <2>1, <2>2 DEF Note, NeverUnlimited
<1>6. CASE UNCHANGED rateVars
  BY <1>6 DEF rateVars, NeverUnlimited, CountedFirst, Manned, AtWork
<1> QED  BY <1>1, <1>2, <1>3, <1>4, <1>5, <1>6 DEF RatesNext

\* The limiter never lets more through than its limit, on the word of the
\* database; a process on its own no more than that and its other threads.
THEOREM NeverUnlimitedCorrect == RatesSpec => []NeverUnlimited
<1>1. RatesInv => NeverUnlimited  BY DEF RatesInv
<1> QED  BY <1>1, RatesStart, RatesStep, PTL DEF RatesSpec

-----------------------------------------------------------------------------
(* Proofs about Admission: the quota is exceeded by no more than the checks *)
(* that overlapped, and a refused search costs nothing.                     *)

Points == {"new", "paying", "checking", "checked", "refunding", "starting", "undoing"} \union Outcomes

AdmissionTypeOK ==
  /\ kind \in [Callers -> Kinds] /\ at \in [Callers -> Points]
  /\ quota \in [Callers -> {0, 1}] /\ charged \in [Callers -> {0, 1}]
  /\ used \in [Metrics -> [Cycles -> Int]]
  /\ left \in Nat /\ cycle \in Cycles /\ faults \in Nat
  /\ peak \in [Metrics -> Nat \ {0}] /\ stuck \in SUBSET Callers

\* The requests that will still consume were counted by the peak, and leave the counter of
\* the period that runs within it; no later period was counted yet.
RoomOf(m) ==
  /\ Cardinality(Checked(m)) <= peak[m]
  /\ used[m][cycle] + Cardinality(Checked(m)) <= Limit + peak[m] - 1
  /\ \A c \in Cycles : used[m][c] <= Limit + peak[m] - 1
  /\ \A c \in Cycles : c > cycle => used[m][c] <= 0

Room == \A m \in Metrics : RoomOf(m)

\* What a request has cost at each point.
CostOf(r) ==
  /\ at[r] \in {"new", "checking", "checked", "refunding"} => quota[r] = 0
  /\ at[r] = "new" \/ kind[r] = "keyword" => charged[r] = 0
  /\ kind[r] = "url" /\ at[r] = "paying" => quota[r] = 0 /\ charged[r] = 0
  /\ at[r] = "paying" => kind[r] # "keyword"
  /\ at[r] = "undoing" => kind[r] = "keyword"
  /\ at[r] = "refunding" => kind[r] = "url"
  /\ at[r] = "refused" /\ kind[r] # "export" =>
       charged[r] = 0 /\ (quota[r] = 0 \/ (r \in stuck /\ kind[r] = "keyword"))

Costs == \A r \in Callers : CostOf(r)

-----------------------------------------------------------------------------
\* The requests between check and consumption are finitely many.
LEMMA CheckedFinite ==
  ASSUME NEW m
  PROVE  IsFiniteSet(Checked(m)) /\ Cardinality(Checked(m)) \in Nat
<1>1. IsFiniteSet(Checked(m))
  BY AdmissionAssumption, FS_Subset DEF Checked
<1> QED  BY <1>1, FS_CardinalityType

\* One more that is checked makes one more, and one that consumes makes one less.
LEMMA CheckedMoves ==
  ASSUME NEW S, NEW r, IsFiniteSet(S)
  PROVE  /\ r \notin S => Cardinality(S \union {r}) = Cardinality(S) + 1
         /\ r \in S => Cardinality(S \ {r}) = Cardinality(S) - 1
BY FS_AddElement, FS_RemoveElement

LEMMA AdmissionTypeInit == AdmissionInit => AdmissionTypeOK
BY AdmissionAssumption DEF AdmissionInit, AdmissionTypeOK, Points, Outcomes, Kinds, Cycles

\* Every step keeps the types.
LEMMA AdmissionTypeStep ==
  ASSUME AdmissionTypeOK, [AdmissionNext]_admissionVars
  PROVE  AdmissionTypeOK'
<1> USE AdmissionAssumption DEF AdmissionTypeOK
<1>1. ASSUME NEW r \in Callers, NEW k \in Kinds, Begin(r, k) PROVE AdmissionTypeOK'
  BY <1>1 DEF Begin, Go, Points
<1>2. ASSUME NEW r \in Callers, Refuse(r) PROVE AdmissionTypeOK'
  BY <1>2 DEF Refuse, Go, Points, Outcomes
<1>3. ASSUME NEW r \in Callers, ChargeTokens(r) PROVE AdmissionTypeOK'
  BY <1>3 DEF ChargeTokens, Go, Points, Outcomes
<1>4. ASSUME NEW r \in Callers, CheckQuota(r) PROVE AdmissionTypeOK'
  <2> DEFINE m == MetricOf(kind[r])
  <2>1. m \in Metrics  BY DEF MetricOf, Metrics, Kinds
  <2>2. Cardinality(Checked(m)) \in Nat  BY CheckedFinite
  <2> QED  BY <1>4, <2>1, <2>2 DEF CheckQuota, Go, Points
<1>5. ASSUME NEW r \in Callers, QuotaRefuses(r) PROVE AdmissionTypeOK'
  BY <1>5 DEF QuotaRefuses, Go, Points, Outcomes
<1>6. ASSUME NEW r \in Callers, RefundTokens(r) PROVE AdmissionTypeOK'
  BY <1>6 DEF RefundTokens, Go, Points, Outcomes
<1>7. ASSUME NEW r \in Callers, Consume(r) PROVE AdmissionTypeOK'
  BY <1>7 DEF Consume, Go, Points, MetricOf, Metrics
<1>8. ASSUME NEW r \in Callers, Start(r) PROVE AdmissionTypeOK'
  BY <1>8 DEF Start, Go, Points, Outcomes
<1>9. ASSUME NEW r \in Callers, StartFails(r) PROVE AdmissionTypeOK'
  BY <1>9 DEF StartFails, Go, Points, Outcomes
<1>10. ASSUME NEW r \in Callers, UndoStart(r) PROVE AdmissionTypeOK'
  BY <1>10 DEF UndoStart, Go, Points, Outcomes, MetricOf, Metrics
<1>11. ASSUME NEW r \in Callers, Lose(r) PROVE AdmissionTypeOK'
  BY <1>11 DEF Lose, Go, Points, Outcomes
<1>12. ASSUME NextCycle PROVE AdmissionTypeOK'
  BY <1>12 DEF NextCycle, Cycles
<1>13. ASSUME NEW r \in Callers, UndoFails(r) PROVE AdmissionTypeOK'
  BY <1>13 DEF UndoFails, Go, Points, Outcomes
<1>14. ASSUME UNCHANGED admissionVars PROVE AdmissionTypeOK'
  BY <1>14 DEF admissionVars
<1> QED
  BY <1>1, <1>2, <1>3, <1>4, <1>5, <1>6, <1>7, <1>8, <1>9, <1>10, <1>11, <1>12, <1>13, <1>14
  DEF AdmissionNext

-----------------------------------------------------------------------------
(* The room of a quota *)

LEMMA RoomInit == AdmissionInit => Room
<1> SUFFICES ASSUME AdmissionInit, NEW m \in Metrics PROVE RoomOf(m)  BY DEF Room
<1>1. Checked(m) = {}  BY DEF AdmissionInit, Checked
<1>2. Cardinality(Checked(m)) = 0  BY <1>1, FS_EmptySet
<1> QED  BY <1>2, AdmissionAssumption DEF AdmissionInit, RoomOf, Cycles

\* What keeps the counters and the peak, and lets nobody in between, keeps the room.
LEMMA RoomStays ==
  ASSUME AdmissionTypeOK, NEW m \in Metrics, RoomOf(m),
         Checked(m)' \subseteq Checked(m), UNCHANGED <<used, cycle, peak>>
  PROVE  RoomOf(m)'
<1>1. IsFiniteSet(Checked(m)) /\ Cardinality(Checked(m)) \in Nat  BY CheckedFinite
<1>2. /\ Cardinality(Checked(m)') \in Nat
      /\ Cardinality(Checked(m)') <= Cardinality(Checked(m))
  BY <1>1, FS_Subset, FS_CardinalityType
<1> QED
  BY <1>1, <1>2, AdmissionAssumption DEF RoomOf, AdmissionTypeOK, Cycles

\* A check takes one more in; it saw room for one, and the peak counts them all.
LEMMA RoomChecked ==
  ASSUME AdmissionTypeOK, NEW m \in Metrics, RoomOf(m), NEW r \in Callers, CheckQuota(r)
  PROVE  RoomOf(m)'
<1> USE DEF AdmissionTypeOK
<1>1. CASE MetricOf(kind[r]) # m
  <2>1. Checked(m)' = Checked(m)  BY <1>1 DEF CheckQuota, Go, Checked, Points
  <2>2. used' = used /\ cycle' = cycle /\ peak'[m] = peak[m]  BY <1>1 DEF CheckQuota
  <2> QED  BY <2>1, <2>2 DEF RoomOf
<1>2. CASE MetricOf(kind[r]) = m
  <2>1. r \notin Checked(m) /\ Checked(m)' = Checked(m) \union {r}
    BY <1>2 DEF CheckQuota, Go, Checked, Points
  <2>2. IsFiniteSet(Checked(m)) /\ Cardinality(Checked(m)) \in Nat  BY CheckedFinite
  <2>3. Cardinality(Checked(m)') = Cardinality(Checked(m)) + 1  BY <2>1, <2>2, CheckedMoves
  <2>4. peak'[m] = IF Cardinality(Checked(m)) < peak[m] THEN peak[m]
                   ELSE Cardinality(Checked(m)) + 1
    BY <1>2 DEF CheckQuota
  <2>5. used[m][cycle] + 1 <= Limit /\ used' = used /\ cycle' = cycle
    BY <1>2 DEF CheckQuota, Allows
  <2>6. used[m] \in [Cycles -> Int] /\ peak[m] \in Nat /\ cycle \in Cycles /\ Cycles \subseteq Int
    BY DEF Cycles
  <2>7. peak'[m] \in Nat /\ peak[m] <= peak'[m] /\ Cardinality(Checked(m)) + 1 <= peak'[m]
    BY <2>2, <2>4, <2>6
  <2> QED  BY <2>2, <2>3, <2>5, <2>6, <2>7, AdmissionAssumption DEF RoomOf
<1> QED  BY <1>1, <1>2

\* A consumption turns one that was checked into one that is counted.
LEMMA RoomConsumed ==
  ASSUME AdmissionTypeOK, NEW m \in Metrics, RoomOf(m), NEW r \in Callers, Consume(r)
  PROVE  RoomOf(m)'
<1> USE DEF AdmissionTypeOK
<1>1. CASE MetricOf(kind[r]) # m
  <2>1. Checked(m)' = Checked(m)  BY <1>1 DEF Consume, Go, Checked
  <2>2. used'[m] = used[m] /\ cycle' = cycle /\ peak' = peak  BY <1>1 DEF Consume
  <2> QED  BY <2>1, <2>2 DEF RoomOf
<1>2. CASE MetricOf(kind[r]) = m
  <2>1. r \in Checked(m) /\ Checked(m)' = Checked(m) \ {r}
    BY <1>2 DEF Consume, Go, Checked
  <2>2. IsFiniteSet(Checked(m)) /\ Cardinality(Checked(m)) \in Nat  BY CheckedFinite
  <2>3. Cardinality(Checked(m)') = Cardinality(Checked(m)) - 1  BY <2>1, <2>2, CheckedMoves
  <2>4. used'[m] = [used[m] EXCEPT ![cycle] = @ + 1] /\ cycle' = cycle /\ peak' = peak
    BY <1>2 DEF Consume
  <2>5. used[m] \in [Cycles -> Int] /\ peak[m] \in Nat /\ cycle \in Cycles /\ Cycles \subseteq Int
    BY DEF Cycles
  <2>6. Cardinality(Checked(m)) >= 1
    BY <2>1, <2>2, <2>3, FS_Subset, FS_CardinalityType
  <2> QED  BY <2>2, <2>3, <2>4, <2>5, <2>6, AdmissionAssumption DEF RoomOf
<1> QED  BY <1>1, <1>2

\* A search that is given back makes room.
LEMMA RoomUndone ==
  ASSUME AdmissionTypeOK, NEW m \in Metrics, RoomOf(m), NEW r \in Callers, UndoStart(r)
  PROVE  RoomOf(m)'
<1> USE DEF AdmissionTypeOK
<1>1. Checked(m)' = Checked(m)  BY DEF UndoStart, Go, Checked
<1>2. cycle' = cycle /\ peak' = peak  BY DEF UndoStart
<1>3. used'[m] = used[m] \/ used'[m] = [used[m] EXCEPT ![cycle] = @ - 1]  BY DEF UndoStart
<1>4. used[m] \in [Cycles -> Int] /\ peak[m] \in Nat /\ cycle \in Cycles /\ Cycles \subseteq Int
  BY DEF Cycles
<1>5. Cardinality(Checked(m)) \in Nat  BY CheckedFinite
<1>6. \A c \in Cycles : used'[m][c] \in Int /\ used'[m][c] <= used[m][c]
  <2> SUFFICES ASSUME NEW c \in Cycles PROVE used'[m][c] \in Int /\ used'[m][c] <= used[m][c]
    OBVIOUS
  <2>1. used[m][c] \in Int  BY <1>4
  <2>2. used'[m][c] = used[m][c] \/ used'[m][c] = used[m][c] - 1  BY <1>3, <1>4
  <2> QED  BY <2>1, <2>2
<1>7. used[m][cycle] \in Int /\ \A c \in Cycles : used[m][c] \in Int  BY <1>4
<1> QED  BY <1>1, <1>2, <1>4, <1>5, <1>6, <1>7, AdmissionAssumption DEF RoomOf

\* A new period begins with counters that nothing was added to.
LEMMA RoomRenewed ==
  ASSUME AdmissionTypeOK, NEW m \in Metrics, RoomOf(m), NextCycle
  PROVE  RoomOf(m)'
<1> USE DEF AdmissionTypeOK
<1>1. Checked(m)' = Checked(m)  BY DEF NextCycle, Checked
<1>2. cycle' = cycle + 1 /\ cycle' \in Cycles /\ UNCHANGED <<peak, used>>
  BY AdmissionAssumption DEF NextCycle, Cycles
<1>3. used[m] \in [Cycles -> Int] /\ peak[m] \in Nat /\ cycle \in Cycles /\ Cycles \subseteq Int
  BY DEF Cycles
<1>4. Cardinality(Checked(m)) \in Nat  BY CheckedFinite
<1>5. used[m][cycle + 1] <= 0  BY <1>2, <1>3 DEF RoomOf
<1> QED  BY <1>1, <1>2, <1>3, <1>4, <1>5, AdmissionAssumption DEF RoomOf

LEMMA RoomStep ==
  ASSUME AdmissionTypeOK, Room, [AdmissionNext]_admissionVars
  PROVE  Room'
<1> SUFFICES ASSUME NEW m \in Metrics PROVE RoomOf(m)'  BY DEF Room
<1>0. RoomOf(m)  BY DEF Room
<1>1. ASSUME NEW r \in Callers, CheckQuota(r) PROVE RoomOf(m)'  BY <1>0, <1>1, RoomChecked
<1>2. ASSUME NEW r \in Callers, Consume(r) PROVE RoomOf(m)'  BY <1>0, <1>2, RoomConsumed
<1>3. ASSUME NEW r \in Callers, UndoStart(r) PROVE RoomOf(m)'  BY <1>0, <1>3, RoomUndone
<1>4. ASSUME NextCycle PROVE RoomOf(m)'  BY <1>0, <1>4, RoomRenewed
<1>5. ASSUME NEW r \in Callers,
             \/ \E k \in Kinds : Begin(r, k)
             \/ Refuse(r) \/ ChargeTokens(r) \/ QuotaRefuses(r) \/ RefundTokens(r)
             \/ Start(r) \/ StartFails(r) \/ UndoFails(r) \/ Lose(r)
      PROVE RoomOf(m)'
  <2>1. Checked(m)' \subseteq Checked(m)
    BY <1>5 DEF AdmissionTypeOK, Checked, Go, Begin, Refuse, ChargeTokens, QuotaRefuses,
                RefundTokens, Start, StartFails, UndoFails, Lose
  <2>2. UNCHANGED <<used, cycle, peak>>
    BY <1>5 DEF Begin, Refuse, ChargeTokens, QuotaRefuses, RefundTokens, Start, StartFails,
                UndoFails, Lose
  <2> QED  BY <1>0, <2>1, <2>2, RoomStays
<1>6. ASSUME UNCHANGED admissionVars PROVE RoomOf(m)'
  BY <1>0, <1>6 DEF admissionVars, RoomOf, Checked
<1> QED  BY <1>1, <1>2, <1>3, <1>4, <1>5, <1>6 DEF AdmissionNext

-----------------------------------------------------------------------------
(* What a refusal costs *)

LEMMA CostsInit == AdmissionInit => Costs
BY DEF AdmissionInit, Costs, CostOf

LEMMA CostsStep ==
  ASSUME AdmissionTypeOK, Costs, [AdmissionNext]_admissionVars
  PROVE  Costs'
<1> SUFFICES ASSUME NEW q \in Callers PROVE CostOf(q)'  BY DEF Costs
<1>0. CostOf(q)  BY DEF Costs
<1> USE <1>0 DEF CostOf, AdmissionTypeOK
<1>1. ASSUME NEW r \in Callers, NEW k \in Kinds, Begin(r, k) PROVE CostOf(q)'
  BY <1>1 DEF Begin, Go
<1>2. ASSUME NEW r \in Callers, Refuse(r) PROVE CostOf(q)'
  BY <1>2 DEF Refuse, Go
<1>3. ASSUME NEW r \in Callers, ChargeTokens(r) PROVE CostOf(q)'
  BY <1>3 DEF ChargeTokens, Go, Kinds
<1>4. ASSUME NEW r \in Callers, CheckQuota(r) PROVE CostOf(q)'
  BY <1>4 DEF CheckQuota, Go
<1>5. ASSUME NEW r \in Callers, QuotaRefuses(r) PROVE CostOf(q)'
  BY <1>5 DEF QuotaRefuses, Go, Kinds
<1>6. ASSUME NEW r \in Callers, RefundTokens(r) PROVE CostOf(q)'
  BY <1>6 DEF RefundTokens, Go
<1>7. ASSUME NEW r \in Callers, Consume(r) PROVE CostOf(q)'
  BY <1>7 DEF Consume, Go
<1>8. ASSUME NEW r \in Callers, Start(r) PROVE CostOf(q)'
  BY <1>8 DEF Start, Go
<1>9. ASSUME NEW r \in Callers, StartFails(r) PROVE CostOf(q)'
  BY <1>9 DEF StartFails, Go
<1>10. ASSUME NEW r \in Callers, UndoStart(r) PROVE CostOf(q)'
  BY <1>10 DEF UndoStart, Go
<1>11. ASSUME NEW r \in Callers, Lose(r) PROVE CostOf(q)'
  BY <1>11 DEF Lose, Go
<1>12. ASSUME NEW r \in Callers, UndoFails(r) PROVE CostOf(q)'
  BY <1>12 DEF UndoFails, Go
<1>13. ASSUME NextCycle \/ UNCHANGED admissionVars PROVE CostOf(q)'
  BY <1>13 DEF NextCycle, admissionVars
<1> QED
  BY <1>1, <1>2, <1>3, <1>4, <1>5, <1>6, <1>7, <1>8, <1>9, <1>10, <1>11, <1>12, <1>13
  DEF AdmissionNext

-----------------------------------------------------------------------------
\* entitlements.py: whatever the limit, the number of requests and of periods, no counter
\* passes its limit by more than the checks that overlapped.
THEOREM QuotaNearlyBoundedCorrect == AdmissionSpec => []QuotaNearlyBounded
<1>1. AdmissionInit => AdmissionTypeOK /\ Room  BY AdmissionTypeInit, RoomInit
<1>2. AdmissionTypeOK /\ Room /\ [AdmissionNext]_admissionVars => (AdmissionTypeOK /\ Room)'
  BY AdmissionTypeStep, RoomStep
<1>3. Room => QuotaNearlyBounded  BY DEF Room, RoomOf, QuotaNearlyBounded
<1> QED  BY <1>1, <1>2, <1>3, PTL DEF AdmissionSpec

\* search.py, discovery/service.py: a refused search has used neither tokens nor quota, but
\* for a keyword search whose start failed and could not be undone, which keeps its quota.
THEOREM RefusedIsFreeCorrect == AdmissionSpec => []RefusedIsFree
<1>1. AdmissionInit => AdmissionTypeOK /\ Costs  BY AdmissionTypeInit, CostsInit
<1>2. AdmissionTypeOK /\ Costs /\ [AdmissionNext]_admissionVars => (AdmissionTypeOK /\ Costs)'
  BY AdmissionTypeStep, CostsStep
<1>3. Costs => RefusedIsFree  BY DEF Costs, CostOf, RefusedIsFree
<1> QED  BY <1>1, <1>2, <1>3, PTL DEF AdmissionSpec

-----------------------------------------------------------------------------
(* Proof about Limits: however checks and refused calls overlap and die,   *)
(* the conditional update of an alert lets one thread announce a level.    *)

Levels == Readings \union Refusals \union {"unknown"}
Events == [level : Refusals, number : Nat, at : Nat, brief : BOOLEAN]
StatusDocuments ==
  [level : Levels, period : UsageCycles, event : {Nothing} \union Events, streak : 0..2, bad : Nat]
AlertDocuments ==
  [level : AlertLevels, rank : 0..4, levels : SUBSET AlertLevels, recovered : BOOLEAN,
   old : BOOLEAN]
Notices == [alert : UsageCycles, turn : Nat, level : AlertLevels]
Threads ==
  [at : {"idle", "reading", "saving", "evaluating", "raising", "telling", "closing"},
   period : {0} \union UsageCycles, status : {Nothing} \union StatusDocuments,
   found : SUBSET UsageCycles, notice : {Nothing} \union Notices]

\* There is a first period, and Nothing is no alert.
LimitsAssumption == MaxPeriods \in Nat \ {0} /\ Nothing \notin AlertDocuments

LimitsTypeOK ==
  /\ stored \in {Nothing} \union StatusDocuments
  /\ alerts \in [UsageCycles -> {Nothing} \union AlertDocuments]
  /\ caller \in [Checkers -> Threads]
  /\ clock \in Nat /\ period \in UsageCycles /\ refused \in Nat /\ proven \in Nat
  /\ opened \in [UsageCycles -> Nat]
  /\ notified \in SUBSET Notices /\ missed \in SUBSET Notices

\* What a thread knows at its control point.
Knows ==
  \A c \in Checkers :
    /\ caller[c].at = "reading" => caller[c].period \in UsageCycles
    /\ caller[c].at \in {"saving", "evaluating", "raising"} => caller[c].status \in StatusDocuments
    /\ caller[c].at = "raising" => caller[c].status.level \in AlertLevels
    /\ caller[c].at = "telling" => caller[c].notice \in Notices
    /\ caller[c].at \in {"raising", "closing"} => \A p \in caller[c].found : alerts[p] # Nothing

\* The alert of a notice holds its level, and ranks no lower.
Recorded(n) ==
  /\ alerts[n.alert] # Nothing
  /\ n.level \in alerts[n.alert].levels /\ Rank(n.level) <= alerts[n.alert].rank

\* Of notices sent or missed only those are kept that concern the alert as it was opened last;
\* a thread may still have to send an earlier one.
Announced ==
  /\ \A n \in notified \union missed : n.turn = opened[n.alert] /\ Recorded(n)
  /\ \A c \in Checkers :
       caller[c].at = "telling" =>
         /\ caller[c].notice.turn <= opened[caller[c].notice.alert]
         /\ caller[c].notice.turn = opened[caller[c].notice.alert] => Recorded(caller[c].notice)

LimitsInv == LimitsTypeOK /\ Knows /\ Announced /\ AnnouncedOnce

-----------------------------------------------------------------------------
(* Types *)

LEMMA RankType == \A l : Rank(l) \in 0..4
BY DEF Rank

LEMMA AlertType ==
  ASSUME NEW l \in AlertLevels, NEW ls \in SUBSET AlertLevels, NEW old \in BOOLEAN
  PROVE  Alert(l, ls, old) \in AlertDocuments
BY RankType DEF Alert, AlertDocuments

LEMMA KnownPeriodType == LimitsTypeOK => KnownPeriod \in UsageCycles
BY DEF LimitsTypeOK, KnownPeriod, StatusDocuments

LEMMA TrackedType ==
  ASSUME LimitsTypeOK, NEW prev \in {Nothing} \union StatusDocuments, NEW level
  PROVE  Tracked(level, prev) \in [streak : 0..2, bad : Nat]
<1> DEFINE streak == IF prev = Nothing THEN 0 ELSE prev.streak
           bad    == IF prev = Nothing THEN 0 ELSE prev.bad
<1>1. streak \in 0..2 /\ bad \in Nat /\ clock \in Nat
  BY DEF StatusDocuments, LimitsTypeOK
<1>2. (IF streak < 2 THEN streak + 1 ELSE 2) \in 0..2  BY <1>1
<1> HIDE DEF streak, bad
<1>3. CASE level \in AlertLevels
  <2>1. level # "ok"  BY <1>3 DEF AlertLevels
  <2>2. Tracked(level, prev) = [streak |-> 0, bad |-> clock]
    BY <1>3, <2>1 DEF Tracked, streak, bad
  <2> QED  BY <1>1, <2>2
<1>4. CASE level \notin AlertLevels /\ level = "ok"
  <2>1. Tracked(level, prev) =
          [streak |-> IF streak < 2 THEN streak + 1 ELSE 2, bad |-> bad]
    BY <1>4 DEF Tracked, streak, bad
  <2> QED  BY <1>1, <1>2, <2>1
<1>5. CASE level \notin AlertLevels /\ level # "ok"
  <2>1. Tracked(level, prev) = [streak |-> streak, bad |-> bad]
    BY <1>5 DEF Tracked, streak, bad
  <2> QED  BY <1>1, <2>1
<1> QED  BY <1>3, <1>4, <1>5

LEMMA MergedType ==
  ASSUME LimitsTypeOK, NEW before \in UsageCycles, NEW answer \in Answers(before)
  PROVE  Merged(answer, stored) \in StatusDocuments
<1> DEFINE event == IF stored = Nothing THEN Nothing ELSE stored.event
           kept  == InForce(event)
           level == IF kept /\ (Rank(event.level) > Rank(answer.level) \/ answer.level = "unknown")
                    THEN event.level ELSE answer.level
           track == Tracked(level, stored)
<1>1. event \in {Nothing} \union Events  BY DEF LimitsTypeOK, StatusDocuments
<1>2. answer.level \in Readings /\ answer.period \in UsageCycles
  BY DEF Answers, LimitsTypeOK
<1>3. kept => event \in Events  BY <1>1 DEF InForce
<1>4. level \in Levels  BY <1>2, <1>3 DEF Levels, Events
<1>5. (IF kept THEN event ELSE Nothing) \in {Nothing} \union Events  BY <1>1
<1>6. track \in [streak : 0..2, bad : Nat]  BY TrackedType DEF LimitsTypeOK
<1>7. Merged(answer, stored) =
        [level |-> level, period |-> answer.period, event |-> IF kept THEN event ELSE Nothing,
         streak |-> track.streak, bad |-> track.bad]
  BY DEF Merged
<1> HIDE DEF event, kept, level, track
<1> QED  BY <1>2, <1>4, <1>5, <1>6, <1>7 DEF StatusDocuments

LEMMA LimitsInvInit == LimitsAssumption /\ LimitsInit => LimitsInv
<1> SUFFICES ASSUME LimitsAssumption, LimitsInit PROVE LimitsInv  OBVIOUS
<1> USE DEF LimitsInit, LimitsAssumption, UsageCycles
<1>1. LimitsTypeOK  BY DEF LimitsTypeOK, Idle, Bare, Threads
<1>2. Knows  BY DEF Knows, Idle, Bare
<1>3. Announced  BY DEF Announced, Idle, Bare
<1>4. AnnouncedOnce  BY DEF AnnouncedOnce, Open, Tellers, Idle, Bare
<1> QED  BY <1>1, <1>2, <1>3, <1>4 DEF LimitsInv

-----------------------------------------------------------------------------
(* Steps *)

\* A step that neither writes an alert nor settles a notice.
LEMMA QuietStep ==
  ASSUME LimitsInv, LimitsTypeOK', UNCHANGED <<alerts, news>>, Knows',
         Tellers' = Tellers, \A c \in Tellers : caller'[c].notice = caller[c].notice
  PROVE  LimitsInv'
<1> USE DEF LimitsInv, news
<1>1. Announced'
  <2>1. \A n \in notified' \union missed' : n.turn = opened'[n.alert] /\ Recorded(n)'
    BY DEF Announced, Recorded
  <2>2. ASSUME NEW c \in Tellers
        PROVE  /\ caller'[c].notice.turn <= opened'[caller'[c].notice.alert]
               /\ caller'[c].notice.turn = opened'[caller'[c].notice.alert]
                    => Recorded(caller[c].notice)'
    BY DEF Announced, Recorded, Tellers
  <2> QED  BY <2>1, <2>2 DEF Announced, Tellers, Recorded
<1>2. AnnouncedOnce'
  <2>1. /\ \A c \in Tellers : Timely(c)' = Timely(c)
        /\ Open' = Open /\ \A p \in UsageCycles : Of(p)' = Of(p)
    BY DEF Timely, Tellers, Open, Of
  <2> QED  BY <2>1 DEF AnnouncedOnce, Open
<1> QED  BY <1>1, <1>2

\* A thread goes to a control point with what it should know there, and has no notice to send
\* before or after.
LEMMA ThreadStep ==
  ASSUME LimitsInv, NEW c \in Checkers, NEW t \in Threads,
         caller' = [caller EXCEPT ![c] = t], UNCHANGED <<alerts, news>>,
         stored' \in {Nothing} \union StatusDocuments,
         UNCHANGED <<clock, period, proven>>, refused' \in Nat,
         caller[c].at # "telling", t.at # "telling",
         t.at = "reading" => t.period \in UsageCycles,
         t.at \in {"saving", "evaluating", "raising"} => t.status \in StatusDocuments,
         t.at = "raising" => t.status.level \in AlertLevels,
         t.at \in {"raising", "closing"} => \A p \in t.found : alerts[p] # Nothing
  PROVE  LimitsInv'
<1>1. /\ caller' \in [Checkers -> Threads] /\ caller'[c] = t
      /\ \A d \in Checkers \ {c} : caller'[d] = caller[d]
  BY DEF LimitsInv, LimitsTypeOK
<1>2. LimitsTypeOK'  BY <1>1 DEF LimitsInv, LimitsTypeOK, news
<1>3. Knows'  BY <1>1 DEF LimitsInv, Knows
<1>4. Tellers' = Tellers /\ \A d \in Tellers : caller'[d].notice = caller[d].notice
  BY <1>1 DEF Tellers
<1> QED  BY <1>2, <1>3, <1>4, QuietStep

\* A thread that wrote news has the first notice of its level to send.
LEMMA WriteStep ==
  ASSUME LimitsAssumption, LimitsInv, NEW c \in Checkers, caller[c].at = "raising",
         NEW p \in UsageCycles, NEW a \in AlertDocuments,
         a.rank = Rank(a.level), a.level \in a.levels, ~a.recovered,
         p \in Open => News(alerts[p], a.level) /\ alerts[p].levels \subseteq a.levels,
         WriteAlert(c, p, a), UNCHANGED <<stored, world>>
  PROVE  LimitsInv'
<1> USE DEF LimitsInv
<1>a. PICK turn : turn = IF p \in Open THEN opened[p] ELSE opened[p] + 1  OBVIOUS
<1>b. PICK past : past = IF p \in Open THEN {} ELSE Of(p)  OBVIOUS
<1>c. PICK n : n = [alert |-> p, turn |-> turn, level |-> a.level]  OBVIOUS
<1>d. PICK t : t = [at |-> "telling", period |-> 0, status |-> Nothing, found |-> {},
                    notice |-> n]
  OBVIOUS
<1>1. opened[p] \in Nat /\ turn \in Nat /\ a.level \in AlertLevels
  BY <1>a DEF LimitsTypeOK, AlertDocuments
<1>2. n \in Notices /\ n.alert = p /\ n.turn = turn /\ n.level = a.level
  BY <1>1, <1>c DEF Notices
<1>3. /\ caller' = [caller EXCEPT ![c] = t] /\ alerts' = [alerts EXCEPT ![p] = a]
      /\ opened' = [opened EXCEPT ![p] = turn]
      /\ notified' = notified \ past /\ missed' = missed \ past
  BY <1>a, <1>b, <1>c, <1>d DEF WriteAlert, Bare
<1>4. p \in Open => opened[p] = turn /\ past = {}  BY <1>a, <1>b
<1>5. p \notin Open => opened[p] < turn /\ past = Of(p)  BY <1>1, <1>a, <1>b
<1>6. t \in Threads /\ t.at = "telling" /\ t.notice = n  BY <1>2, <1>d DEF Threads
<1>7. /\ caller' \in [Checkers -> Threads] /\ caller'[c] = t
      /\ \A d \in Checkers \ {c} : caller'[d] = caller[d]
  BY <1>3, <1>6 DEF LimitsTypeOK
<1>8. /\ alerts' \in [UsageCycles -> {Nothing} \union AlertDocuments] /\ alerts'[p] = a
      /\ \A q \in UsageCycles \ {p} : alerts'[q] = alerts[q]
      /\ a # Nothing
  BY <1>3 DEF LimitsTypeOK, LimitsAssumption
<1>9. /\ opened' \in [UsageCycles -> Nat] /\ opened'[p] = turn
      /\ \A q \in UsageCycles \ {p} : opened'[q] = opened[q]
  BY <1>1, <1>3 DEF LimitsTypeOK
<1>10. LimitsTypeOK'  BY <1>3, <1>7, <1>8, <1>9 DEF LimitsTypeOK, world
<1>11. Knows'
  <2>1. \A q \in UsageCycles : alerts[q] # Nothing => alerts'[q] # Nothing  BY <1>8
  <2>2. \A d \in Checkers : caller[d].found \subseteq UsageCycles  BY DEF LimitsTypeOK, Threads
  <2> QED  BY <1>2, <1>6, <1>7, <2>1, <2>2 DEF Knows
<1>12. p \in Open => alerts[p] \in AlertDocuments /\ alerts[p].rank <= a.rank
  <2>1. SUFFICES ASSUME p \in Open PROVE alerts[p] \in AlertDocuments /\ alerts[p].rank <= a.rank
    OBVIOUS
  <2>2. alerts[p] \in AlertDocuments /\ ~alerts[p].recovered  BY <2>1 DEF Open, LimitsTypeOK
  <2>3. alerts[p].rank \in 0..4 /\ Rank(a.level) \in 0..4  BY <2>2, RankType DEF AlertDocuments
  <2> QED  BY <2>1, <2>2, <2>3 DEF News
<1>13. \A m \in Notices : Recorded(m) /\ m.turn = opened[m.alert] /\ m.turn = opened'[m.alert]
                           => Recorded(m)'
  <2> SUFFICES ASSUME NEW m \in Notices, Recorded(m), m.turn = opened[m.alert],
                      m.turn = opened'[m.alert]
               PROVE  Recorded(m)'
    OBVIOUS
  <2>1. m.alert \in UsageCycles /\ m.level \in AlertLevels /\ m.turn \in Nat  BY DEF Notices
  <2>2. CASE m.alert # p  BY <1>8, <2>1, <2>2 DEF Recorded
  <2>3. CASE m.alert = p
    <3>1. p \in Open
      <4>1. opened[p] = turn  BY <1>9, <2>3
      <4> QED  BY <1>1, <1>5, <4>1
    <3>2. /\ m.level \in alerts[p].levels /\ Rank(m.level) <= alerts[p].rank
          /\ Rank(m.level) \in 0..4 /\ a.rank \in 0..4 /\ alerts[p].rank \in 0..4
      BY <1>12, <2>3, <3>1, RankType DEF Recorded, AlertDocuments
    <3>3. Rank(m.level) <= a.rank /\ m.level \in a.levels  BY <1>12, <3>1, <3>2
    <3> QED  BY <1>8, <2>3, <3>3 DEF Recorded
  <2> QED  BY <2>2, <2>3
<1>14. ASSUME NEW m \in Notices, m = n, m.turn = opened[m.alert] => Recorded(m),
              m.turn <= opened[m.alert]
       PROVE  FALSE
  <2>1. m.alert = p /\ m.turn = turn /\ m.level = a.level  BY <1>2, <1>14
  <2>2. p \in Open /\ Recorded(m)  BY <1>1, <1>4, <1>5, <1>14, <2>1
  <2>3. a.level \in alerts[p].levels /\ Rank(a.level) <= alerts[p].rank
    BY <2>1, <2>2 DEF Recorded
  <2>4. ~alerts[p].recovered /\ alerts[p].rank \in 0..4 /\ Rank(a.level) \in 0..4
    BY <1>12, <2>2, RankType DEF Open, AlertDocuments
  <2> QED  BY <2>2, <2>3, <2>4 DEF News
<1>15. ASSUME NEW m \in notified' \union missed'
       PROVE  m.turn = opened'[m.alert] /\ Recorded(m)'
  <2>1. m \in notified \union missed /\ m \in Notices /\ m \notin past
    BY <1>3 DEF LimitsTypeOK
  <2>2. m.turn = opened[m.alert] /\ Recorded(m) /\ m.alert \in UsageCycles
    BY <2>1 DEF Announced, Notices
  <2>3. m.alert = p => p \in Open  BY <1>5, <2>1 DEF Of
  <2>4. m.turn = opened'[m.alert]  BY <1>4, <1>9, <2>2, <2>3
  <2> QED  BY <1>13, <2>1, <2>2, <2>4
<1>16. Tellers' = Tellers \union {c} /\ c \notin Tellers /\ c \in Tellers'
  BY <1>6, <1>7 DEF Tellers
<1>17. ASSUME NEW d \in Tellers
       PROVE  /\ caller'[d] = caller[d] /\ caller[d].notice \in Notices
              /\ caller[d].notice.turn <= opened[caller[d].notice.alert]
              /\ caller[d].notice.turn = opened[caller[d].notice.alert]
                   => Recorded(caller[d].notice)
  BY <1>7, <1>16 DEF Tellers, Knows, Announced
<1>18. Announced'
  <2>1. ASSUME NEW d \in Tellers
        PROVE  /\ caller'[d].notice.turn <= opened'[caller'[d].notice.alert]
               /\ caller'[d].notice.turn = opened'[caller'[d].notice.alert]
                    => Recorded(caller[d].notice)'
    <3>0. PICK m : m = caller[d].notice  OBVIOUS
    <3>1. /\ m \in Notices /\ m.turn \in Nat /\ m.alert \in UsageCycles
          /\ opened[m.alert] \in Nat /\ caller'[d].notice = m
      BY <1>17, <3>0 DEF Notices, LimitsTypeOK
    <3>2. m.turn <= opened[m.alert] /\ (m.turn = opened[m.alert] => Recorded(m))
      BY <1>17, <3>0 DEF Recorded
    <3>3. opened[m.alert] <= opened'[m.alert]  BY <1>1, <1>4, <1>5, <1>9, <3>1
    <3>4. opened'[m.alert] \in Nat  BY <1>9, <3>1
    <3>5. m.turn <= opened'[m.alert]  BY <3>1, <3>2, <3>3, <3>4
    <3>6. m.turn = opened'[m.alert] => m.turn = opened[m.alert]  BY <3>1, <3>2, <3>3, <3>4
    <3>7. m.turn = opened'[m.alert] => Recorded(m)'  BY <1>13, <3>1, <3>2, <3>6
    <3> QED  BY <3>0, <3>1, <3>5, <3>7 DEF Recorded
  <2>2. /\ caller'[c].notice = n /\ n.turn <= opened'[n.alert] /\ Recorded(n)'
    <3>1. caller'[c].notice = n /\ n.turn <= opened'[n.alert]  BY <1>1, <1>2, <1>6, <1>7, <1>9
    <3>2. Recorded(n)'
      <4>1. Rank(a.level) <= a.rank  BY RankType
      <4> QED  BY <1>2, <1>8, <4>1 DEF Recorded
    <3> QED  BY <3>1, <3>2
  <2>3. ASSUME NEW d \in Checkers, caller'[d].at = "telling"
        PROVE  /\ caller'[d].notice.turn <= opened'[caller'[d].notice.alert]
               /\ caller'[d].notice.turn = opened'[caller'[d].notice.alert]
                    => Recorded(caller[d].notice)'
    <3>1. CASE d = c  BY <2>2, <3>1 DEF Recorded
    <3>2. CASE d # c  BY <1>16, <2>1, <2>3, <3>2 DEF Tellers
    <3> QED  BY <3>1, <3>2
  <2> QED  BY <1>15, <2>3 DEF Announced
<1>19. AnnouncedOnce'
  <2>1. n \notin notified /\ n \notin notified'
    <3>1. SUFFICES ASSUME n \in notified PROVE FALSE  BY <1>3
    <3>2. n.turn = opened[n.alert] /\ Recorded(n)  BY <3>1 DEF Announced
    <3>3. n.turn <= opened[n.alert]  BY <1>1, <1>2, <3>2
    <3> QED  BY <1>2, <1>14, <3>2, <3>3
  <2>2. \A d \in Tellers : caller[d].notice # n  BY <1>2, <1>14, <1>17
  <2>3. ASSUME NEW d \in Tellers'
        PROVE  /\ caller'[d].notice \notin notified'
               /\ \A e \in Tellers' \ {d} : caller'[e].notice # caller'[d].notice
    <3>1. CASE d = c  BY <1>6, <1>7, <1>16, <1>17, <2>1, <2>2, <3>1
    <3>2. CASE d # c
      <4>1. d \in Tellers /\ caller'[d] = caller[d]  BY <1>16, <1>17, <3>2
      <4>2. caller'[d].notice \notin notified'  BY <1>3, <4>1 DEF AnnouncedOnce
      <4>3. ASSUME NEW e \in Tellers' \ {d} PROVE caller'[e].notice # caller'[d].notice
        <5>1. CASE e = c  BY <1>6, <1>7, <2>2, <4>1, <5>1
        <5>2. CASE e # c  BY <1>16, <1>17, <4>1, <5>2 DEF AnnouncedOnce
        <5> QED  BY <5>1, <5>2
      <4> QED  BY <4>2, <4>3
    <3> QED  BY <3>1, <3>2
  <2>4. ASSUME NEW q \in Open'
        PROVE  /\ \/ \E m \in Of(q)' : m.level = alerts'[q].level
                  \/ \E d \in Tellers' : \E m \in Timely(d)' :
                       m.alert = q /\ m.level = alerts'[q].level
               /\ \A m \in Of(q)' : Rank(m.level) <= alerts'[q].rank
    <3>1. \A m \in Of(q)' : Rank(m.level) <= alerts'[q].rank
      BY <1>15 DEF Of, Recorded
    <3>2. CASE q = p
      <4>1. n \in Timely(c)'  BY <1>2, <1>6, <1>7, <1>9 DEF Timely
      <4> QED  BY <1>2, <1>8, <1>16, <3>1, <3>2, <4>1
    <3>3. CASE q # p
      <4>1. q \in Open /\ alerts'[q] = alerts[q] /\ q \in UsageCycles
        BY <1>8, <3>3 DEF Open
      <4>2. Of(q)' = Of(q)
        <5>1. past \intersect Of(q) = {}  BY <1>4, <1>5, <3>3 DEF Of
        <5> QED  BY <1>3, <5>1 DEF Of
      <4>3. ASSUME NEW d \in Tellers, NEW m \in Timely(d), m.alert = q
            PROVE  d \in Tellers' /\ m \in Timely(d)'
        BY <1>9, <1>16, <1>17, <3>3, <4>1, <4>3 DEF Timely
      <4> QED  BY <3>1, <4>1, <4>2, <4>3 DEF AnnouncedOnce
    <3> QED  BY <3>2, <3>3
  <2> QED  BY <2>3, <2>4 DEF AnnouncedOnce
<1> QED  BY <1>10, <1>11, <1>18, <1>19

LEMMA RaiseStep ==
  ASSUME LimitsAssumption, LimitsInv, NEW c \in Checkers, Raise(c)
  PROVE  LimitsInv'
<1> USE DEF LimitsInv
<1> DEFINE level == caller[c].status.level
           p == IF caller[c].found = {} THEN caller[c].status.period
                ELSE CHOOSE q \in caller[c].found : TRUE
<1>1. /\ level \in AlertLevels /\ p \in UsageCycles /\ caller[c].at = "raising"
      /\ UNCHANGED <<stored, world>>
  <2>1. caller[c].status \in StatusDocuments /\ level \in AlertLevels
        /\ caller[c].found \subseteq UsageCycles
    BY DEF Raise, Knows, LimitsTypeOK, Threads
  <2> QED  BY <2>1 DEF Raise, StatusDocuments
<1>2. CASE alerts[p] = Nothing /\ WriteAlert(c, p, Alert(level, {level}, FALSE))
  <2> HIDE DEF level, p
  <2> DEFINE a == Alert(level, {level}, FALSE)
  <2>1. a \in AlertDocuments  BY <1>1, AlertType
  <2>2. a.level = level /\ a.rank = Rank(level) /\ a.levels = {level} /\ ~a.recovered
    BY DEF Alert
  <2>3. p \notin Open  BY <1>2 DEF Open
  <2> HIDE DEF a
  <2>4. WriteAlert(c, p, a)  BY <1>2 DEF a
  <2> QED  BY <1>1, <2>1, <2>2, <2>3, <2>4, WriteStep
<1>3. CASE /\ alerts[p] # Nothing /\ News(alerts[p], level)
           /\ WriteAlert(c, p, Alert(level, alerts[p].levels \union {level}, alerts[p].old))
  <2> HIDE DEF level, p
  <2> DEFINE a == Alert(level, alerts[p].levels \union {level}, alerts[p].old)
  <2>1. alerts[p] \in AlertDocuments  BY <1>1, <1>3 DEF LimitsTypeOK
  <2>2. alerts[p].old \in BOOLEAN /\ alerts[p].levels \union {level} \in SUBSET AlertLevels
    BY <1>1, <2>1 DEF AlertDocuments
  <2>3. a \in AlertDocuments  BY <1>1, <2>2, AlertType
  <2>4. /\ a.level = level /\ a.rank = Rank(level) /\ ~a.recovered
        /\ a.levels = alerts[p].levels \union {level}
    BY DEF Alert
  <2> HIDE DEF a
  <2>5. WriteAlert(c, p, a)  BY <1>3 DEF a
  <2> QED  BY <1>1, <1>3, <2>3, <2>4, <2>5, WriteStep
<1>4. CASE caller' = [caller EXCEPT ![c] = Idle] /\ UNCHANGED <<alerts, news>>
  <2>1. Idle \in Threads /\ Idle.at = "idle"  BY DEF Idle, Bare, Threads
  <2> QED  BY <1>1, <1>4, <2>1, ThreadStep DEF world, LimitsTypeOK
<1> QED  BY <1>2, <1>3, <1>4 DEF Raise

\* A notice is sent, or missed: the thread has no other.
LEMMA SettleStep ==
  ASSUME LimitsInv, NEW c \in Tellers,
         caller' = [caller EXCEPT ![c] = Idle], UNCHANGED <<stored, alerts, world, opened>>,
         \/ notified' = notified \union Timely(c) /\ missed' = missed
         \/ missed' = missed \union Timely(c) /\ notified' = notified
  PROVE  LimitsInv'
<1> USE DEF LimitsInv
<1> DEFINE n == caller[c].notice
<1>1. c \in Checkers /\ n \in Notices  BY DEF Tellers, Knows
<1>2. Idle \in Threads /\ Idle.at = "idle"  BY DEF Idle, Bare, Threads
<1>3. /\ caller' \in [Checkers -> Threads] /\ caller'[c].at = "idle"
      /\ \A d \in Checkers \ {c} : caller'[d] = caller[d]
  BY <1>1, <1>2 DEF LimitsTypeOK
<1>4. /\ Timely(c) \subseteq {n}
      /\ \A m \in Timely(c) : m \in Notices /\ m.turn = opened[m.alert] /\ Recorded(m)
  BY <1>1 DEF Timely, Announced
<1>5. /\ notified' \subseteq notified \union Timely(c) /\ missed' \subseteq missed \union Timely(c)
      /\ notified' \union missed' = notified \union missed \union Timely(c)
  OBVIOUS
<1>6. LimitsTypeOK'  BY <1>3, <1>4, <1>5 DEF LimitsTypeOK, world
<1>7. Knows'  BY <1>3 DEF Knows
<1>8. Tellers' = Tellers \ {c}  BY <1>1, <1>3 DEF Tellers
<1>9. Announced'
  <2>1. \A m \in notified' \union missed' : m.turn = opened'[m.alert] /\ Recorded(m)'
    BY <1>4, <1>5 DEF Announced, Recorded
  <2> QED  BY <1>3, <2>1 DEF Announced, Recorded
<1>10. AnnouncedOnce'
  <2>1. \A d \in Tellers' :
          /\ caller'[d].notice \notin notified'
          /\ \A e \in Tellers' \ {d} : caller'[e].notice # caller'[d].notice
    <3> TAKE d \in Tellers'
    <3>1. d \in Tellers /\ d # c /\ caller'[d] = caller[d]  BY <1>3, <1>8 DEF Tellers
    <3>2. caller[d].notice # n /\ caller[d].notice \notin notified  BY <3>1 DEF AnnouncedOnce
    <3>3. \A e \in Tellers' : e \in Tellers /\ caller'[e] = caller[e]  BY <1>3, <1>8 DEF Tellers
    <3> QED  BY <1>4, <1>5, <3>1, <3>2, <3>3 DEF AnnouncedOnce
  <2>2. ASSUME NEW q \in Open'
        PROVE  /\ \/ \E m \in Of(q)' : m.level = alerts'[q].level
                  \/ \E d \in Tellers' : \E m \in Timely(d)' :
                       m.alert = q /\ m.level = alerts'[q].level
               /\ \A m \in Of(q)' : Rank(m.level) <= alerts'[q].rank
    <3>1. q \in Open /\ alerts'[q] = alerts[q]  BY DEF Open
    <3>2. Of(q)' = Of(q) \union {m \in Timely(c) : m.alert = q}  BY <1>5 DEF Of
    <3>3. \A d \in Tellers \ {c} : d \in Tellers' /\ Timely(d)' = Timely(d)
      BY <1>3, <1>8 DEF Timely, Tellers
    <3>4. \A m \in Of(q)' : Rank(m.level) <= alerts'[q].rank
      BY <1>4, <3>1, <3>2 DEF AnnouncedOnce, Recorded
    <3> QED  BY <3>1, <3>2, <3>3, <3>4 DEF AnnouncedOnce
  <2> QED  BY <2>1, <2>2 DEF AnnouncedOnce
<1> QED  BY <1>6, <1>7, <1>9, <1>10

\* A document of an alert changes in a way that notices do not see.
LEMMA AlertStep ==
  ASSUME LimitsAssumption, LimitsInv, NEW p \in UsageCycles, NEW a \in AlertDocuments,
         alerts[p] # Nothing, alerts' = [alerts EXCEPT ![p] = a],
         a.level = alerts[p].level, a.rank = alerts[p].rank, a.levels = alerts[p].levels,
         alerts[p].recovered => a.recovered,
         UNCHANGED <<stored, world, news>>,
         caller' \in [Checkers -> Threads],
         \A d \in Checkers : /\ caller'[d].at = caller[d].at
                             /\ caller'[d].status = caller[d].status
                             /\ caller'[d].period = caller[d].period
                             /\ caller'[d].notice = caller[d].notice
                             /\ caller'[d].found \subseteq caller[d].found
  PROVE  LimitsInv'
<1> USE DEF LimitsInv
<1>1. /\ alerts' \in [UsageCycles -> {Nothing} \union AlertDocuments]
      /\ alerts'[p] = a /\ \A q \in UsageCycles \ {p} : alerts'[q] = alerts[q]
  BY DEF LimitsTypeOK
<1>2. \A q \in UsageCycles : alerts[q] # Nothing => alerts'[q] # Nothing
  BY <1>1 DEF LimitsAssumption
<1>3. LimitsTypeOK'  BY <1>1 DEF LimitsTypeOK, world, news
<1>4. \A d \in Checkers : caller[d].found \subseteq UsageCycles  BY DEF LimitsTypeOK, Threads
<1>5. Knows'  BY <1>2, <1>4 DEF Knows
<1>6. \A m \in Notices : Recorded(m) => Recorded(m)'
  BY <1>1, <1>2 DEF Recorded, Notices
<1>7. UNCHANGED <<opened, notified, missed>>  BY DEF news
<1>8. \A d \in Checkers : caller[d].at = "telling" => caller[d].notice \in Notices  BY DEF Knows
<1>9. Announced'
  <2>1. ASSUME NEW m \in notified' \union missed'
        PROVE  m.turn = opened'[m.alert] /\ Recorded(m)'
    BY <1>6, <1>7 DEF Announced, LimitsTypeOK
  <2>2. ASSUME NEW d \in Checkers, caller'[d].at = "telling"
        PROVE  /\ caller'[d].notice.turn <= opened'[caller'[d].notice.alert]
               /\ caller'[d].notice.turn = opened'[caller'[d].notice.alert]
                    => Recorded(caller[d].notice)'
    <3>0. PICK m : m = caller[d].notice  OBVIOUS
    <3>1. caller'[d].notice = m /\ m \in Notices /\ m.turn <= opened[m.alert]
          /\ (m.turn = opened[m.alert] => Recorded(m))
      BY <1>8, <2>2, <3>0 DEF Announced, Recorded
    <3>2. m.turn = opened[m.alert] => Recorded(m)'  BY <1>6, <3>1
    <3> QED  BY <1>7, <3>1, <3>2 DEF Recorded
  <2> QED  BY <2>1, <2>2 DEF Announced, Recorded
<1>10. AnnouncedOnce'
  <2>1. Tellers' = Tellers /\ \A d \in Tellers : Timely(d)' = Timely(d)
    BY <1>7 DEF Tellers, Timely
  <2>2. \A q \in UsageCycles : Of(q)' = Of(q)  BY <1>7 DEF Of
  <2>3. \A q \in Open' :
          q \in Open /\ alerts'[q].level = alerts[q].level /\ alerts'[q].rank = alerts[q].rank
    BY <1>1 DEF Open
  <2>4. \A q \in Open' : q \in UsageCycles  BY DEF Open
  <2> QED  BY <1>7, <2>1, <2>2, <2>3, <2>4 DEF AnnouncedOnce, Tellers
<1> QED  BY <1>3, <1>5, <1>9, <1>10

LEMMA CloseStep ==
  ASSUME LimitsAssumption, LimitsInv, NEW c \in Checkers, Close(c)
  PROVE  LimitsInv'
<1> USE DEF LimitsInv
<1>1. CASE caller[c].found = {}
  <2>1. Idle \in Threads /\ Idle.at = "idle"  BY DEF Idle, Bare, Threads
  <2>2. /\ caller' = [caller EXCEPT ![c] = Idle] /\ caller[c].at = "closing"
        /\ UNCHANGED <<stored, alerts, world, news>>
    BY <1>1 DEF Close
  <2> QED  BY <2>1, <2>2, ThreadStep DEF world, LimitsTypeOK
<1>2. CASE caller[c].found # {}
  <2>1. PICK p \in caller[c].found :
          /\ alerts' = [alerts EXCEPT ![p].recovered = TRUE]
          /\ caller' = [caller EXCEPT ![c].found = @ \ {p}]
    BY <1>2 DEF Close
  <2>2. UNCHANGED <<stored, world, news>>  BY DEF Close
  <2>3. p \in UsageCycles /\ alerts[p] # Nothing /\ alerts[p] \in AlertDocuments
    BY <2>1 DEF Close, Knows, LimitsTypeOK, Threads
  <2> DEFINE a == [alerts[p] EXCEPT !.recovered = TRUE]
  <2>4. /\ a \in AlertDocuments /\ a.recovered
        /\ a.level = alerts[p].level /\ a.rank = alerts[p].rank /\ a.levels = alerts[p].levels
    BY <2>3 DEF AlertDocuments
  <2>5. alerts' = [alerts EXCEPT ![p] = a]  BY <2>1
  <2> HIDE DEF a
  <2>6. /\ caller' \in [Checkers -> Threads]
        /\ \A d \in Checkers : /\ caller'[d].at = caller[d].at
                              /\ caller'[d].status = caller[d].status
                              /\ caller'[d].period = caller[d].period
                              /\ caller'[d].notice = caller[d].notice
                              /\ caller'[d].found \subseteq caller[d].found
    BY <2>1 DEF LimitsTypeOK, Threads
  <2> QED  BY <2>2, <2>3, <2>4, <2>5, <2>6, AlertStep
<1> QED  BY <1>1, <1>2

LEMMA AgeStep ==
  ASSUME LimitsAssumption, LimitsInv, NEW p \in UsageCycles, Age(p)
  PROVE  LimitsInv'
<1> USE DEF LimitsInv
<1> DEFINE a == [alerts[p] EXCEPT !.old = TRUE]
<1>1. alerts[p] \in AlertDocuments /\ alerts[p] # Nothing  BY DEF Age, LimitsTypeOK
<1>2. /\ a \in AlertDocuments /\ a.level = alerts[p].level /\ a.rank = alerts[p].rank
      /\ a.levels = alerts[p].levels /\ a.recovered = alerts[p].recovered
  BY <1>1 DEF AlertDocuments
<1>3. alerts' = [alerts EXCEPT ![p] = a] /\ UNCHANGED <<stored, caller, world, news>>
  BY DEF Age
<1> HIDE DEF a
<1>4. caller' \in [Checkers -> Threads] /\ caller' = caller  BY <1>3 DEF LimitsTypeOK
<1> QED  BY <1>1, <1>2, <1>3, <1>4, AlertStep

LEMMA BeginCheckStep ==
  ASSUME LimitsInv, NEW c \in Checkers, BeginCheck(c)
  PROVE  LimitsInv'
<1> DEFINE t == [caller[c] EXCEPT !.at = "reading", !.period = KnownPeriod]
<1>1. caller[c] \in Threads /\ KnownPeriod \in UsageCycles
  BY KnownPeriodType DEF LimitsInv, LimitsTypeOK
<1>2. t \in Threads /\ t.at = "reading" /\ t.period \in UsageCycles  BY <1>1 DEF Threads
<1>3. caller' = [caller EXCEPT ![c] = t]  BY DEF BeginCheck
<1> HIDE DEF t
<1> QED  BY <1>2, <1>3, ThreadStep DEF BeginCheck, LimitsInv, LimitsTypeOK, world

LEMMA ReadStep ==
  ASSUME LimitsInv, NEW c \in Checkers, Read(c)
  PROVE  LimitsInv'
<1>1. PICK answer \in Answers(caller[c].period) :
        caller' = [caller EXCEPT ![c].at = "saving", ![c].status = Merged(answer, stored)]
  BY DEF Read
<1> DEFINE m == Merged(answer, stored)
           t == [caller[c] EXCEPT !.at = "saving", !.status = m]
<1>2. caller[c].period \in UsageCycles /\ caller[c] \in Threads
  BY DEF Read, LimitsInv, Knows, LimitsTypeOK
<1>3. m \in StatusDocuments  BY <1>2, MergedType DEF LimitsInv
<1> HIDE DEF m
<1>4. t \in Threads /\ t.at = "saving" /\ t.status \in StatusDocuments
  BY <1>2, <1>3 DEF Threads
<1>5. caller' = [caller EXCEPT ![c] = t]  BY <1>1 DEF m
<1> HIDE DEF t
<1> QED  BY <1>4, <1>5, ThreadStep DEF Read, LimitsInv, LimitsTypeOK, world

LEMMA RefusedStep ==
  ASSUME LimitsInv, NEW c \in Checkers, NEW level \in Refusals, Refused(c, level)
  PROVE  LimitsInv'
<1> DEFINE was   == IF stored = Nothing THEN "unknown" ELSE stored.level
           event == [level |-> level, number |-> refused + 1, at |-> clock,
                     brief |-> level = "warning"]
           now   == IF Rank(level) >= Rank(was) THEN level ELSE was
           s     == [level |-> now, period |-> KnownPeriod, event |-> event, streak |-> 0,
                     bad |-> clock]
           t     == [caller[c] EXCEPT !.at = "saving", !.status = s]
<1>1. /\ caller[c] \in Threads /\ refused \in Nat /\ clock \in Nat
      /\ stored \in {Nothing} \union StatusDocuments
  BY DEF LimitsInv, LimitsTypeOK
<1>2. event \in Events  BY <1>1 DEF Events
<1>3. now \in Levels  BY <1>1 DEF Levels, StatusDocuments
<1>4. KnownPeriod \in UsageCycles  BY KnownPeriodType DEF LimitsInv
<1>5. caller' = [caller EXCEPT ![c] = t]  BY DEF Refused
<1> HIDE DEF event, now
<1>6. s \in StatusDocuments  BY <1>1, <1>2, <1>3, <1>4 DEF StatusDocuments
<1> HIDE DEF s
<1>7. t \in Threads /\ t.at = "saving" /\ t.status \in StatusDocuments
  BY <1>1, <1>6 DEF Threads
<1>8. /\ refused' \in Nat /\ UNCHANGED <<stored, alerts, clock, period, proven, news>>
      /\ caller[c].at # "telling"
  BY <1>1 DEF Refused
<1> HIDE DEF t
<1> QED  BY <1>1, <1>5, <1>7, <1>8, ThreadStep

LEMMA SaveStep ==
  ASSUME LimitsInv, NEW c \in Checkers, Save(c)
  PROVE  LimitsInv'
<1> DEFINE t == [caller[c] EXCEPT !.at = "evaluating"]
<1>1. /\ caller[c] \in Threads /\ caller[c].status \in StatusDocuments
      /\ stored' = caller[c].status /\ UNCHANGED <<alerts, world, news>> /\ refused \in Nat
      /\ caller[c].at = "saving"
  BY DEF Save, LimitsInv, LimitsTypeOK, Knows
<1>2. t \in Threads /\ t.at = "evaluating" /\ t.status = caller[c].status
  BY <1>1 DEF Threads
<1>3. caller' = [caller EXCEPT ![c] = t]  BY DEF Save
<1> HIDE DEF t
<1> QED  BY <1>1, <1>2, <1>3, ThreadStep DEF world

LEMMA LookStep ==
  ASSUME LimitsInv, NEW c \in Checkers, Look(c)
  PROVE  LimitsInv'
<1> DEFINE status == caller[c].status
<1>1. /\ caller[c] \in Threads /\ status \in StatusDocuments /\ caller[c].at = "evaluating"
      /\ UNCHANGED <<stored, alerts, world, news>> /\ refused \in Nat
      /\ stored \in {Nothing} \union StatusDocuments
  BY DEF Look, LimitsInv, LimitsTypeOK, Knows
<1>2. Open \subseteq UsageCycles /\ \A p \in Open : alerts[p] # Nothing  BY DEF Open
<1>3. CASE status.level \in AlertLevels
  <2> DEFINE t == [caller[c] EXCEPT !.at = "raising", !.found = Carried]
  <2>1. Carried \subseteq Open  BY DEF Carried
  <2>2. /\ t \in Threads /\ t.at = "raising" /\ t.status = status
        /\ \A p \in t.found : alerts[p] # Nothing
    BY <1>1, <1>2, <2>1 DEF Threads
  <2>3. caller' = [caller EXCEPT ![c].at = "raising", ![c].found = Carried]
    BY <1>3 DEF Look, AlertLevels
  <2>4. caller' = [caller EXCEPT ![c] = t]  BY <2>3
  <2> HIDE DEF t
  <2> QED  BY <1>1, <1>3, <2>2, <2>4, ThreadStep DEF world
<1>4. CASE status.level = "ok" /\ RecoveryReady(status)
  <2> DEFINE found == {p \in Open : alerts[p].rank >= 3}
             t == [at |-> "closing", period |-> 0, status |-> Nothing, found |-> found,
                   notice |-> Nothing]
  <2>1. /\ t \in Threads /\ t.at = "closing" /\ \A p \in t.found : alerts[p] # Nothing
    BY <1>2 DEF Threads
  <2>2. caller' = [caller EXCEPT ![c] = Bare("closing", found, Nothing)]
    BY <1>4 DEF Look, AlertLevels
  <2>3. caller' = [caller EXCEPT ![c] = t]  BY <2>2 DEF Bare
  <2> HIDE DEF t
  <2> QED  BY <1>1, <2>1, <2>3, ThreadStep DEF world
<1>5. CASE status.level \notin AlertLevels /\ ~(status.level = "ok" /\ RecoveryReady(status))
  <2>1. caller' = [caller EXCEPT ![c] = Idle]  BY <1>5 DEF Look
  <2>2. Idle \in Threads /\ Idle.at = "idle"  BY DEF Idle, Bare, Threads
  <2> QED  BY <1>1, <2>1, <2>2, ThreadStep DEF world
<1> QED  BY <1>3, <1>4, <1>5

LEMMA TellStep ==
  ASSUME LimitsInv, NEW c \in Checkers, Tell(c)
  PROVE  LimitsInv'
BY SettleStep DEF Tell, Tellers

LEMMA DieStep ==
  ASSUME LimitsInv, NEW c \in Checkers, Die(c)
  PROVE  LimitsInv'
<1>1. CASE caller[c].at = "telling"  BY <1>1, SettleStep DEF Die, Tellers
<1>2. CASE caller[c].at # "telling"
  <2>1. Idle \in Threads /\ Idle.at = "idle"  BY DEF Idle, Bare, Threads
  <2>2. Timely(c) = {}  BY <1>2 DEF Timely
  <2>3. missed' = missed  BY <2>2 DEF Die
  <2> QED  BY <1>2, <2>1, <2>3, ThreadStep DEF Die, LimitsInv, LimitsTypeOK, world, news
<1> QED  BY <1>1, <1>2

-----------------------------------------------------------------------------
\* However many threads check and have calls refused, and wherever they die or fail: no notice
\* is sent twice between two recoveries of an alert, and the level of an open alert was
\* announced, is about to be, or was lost with the one thread that had to announce it.
THEOREM AnnouncedOnceCorrect ==
  ASSUME LimitsAssumption
  PROVE  LimitsSpec => []AnnouncedOnce
<1>1. LimitsInit => LimitsInv  BY LimitsInvInit
<1>2. LimitsInv /\ [LimitsNext]_limitVars => LimitsInv'
  <2> SUFFICES ASSUME LimitsInv, [LimitsNext]_limitVars PROVE LimitsInv'  OBVIOUS
  <2>1. ASSUME NEW c \in Checkers,
               \/ BeginCheck(c) \/ Read(c) \/ Save(c) \/ Look(c) \/ Raise(c) \/ Tell(c)
               \/ Close(c) \/ Die(c)
        PROVE  LimitsInv'
    BY <2>1, BeginCheckStep, ReadStep, SaveStep, LookStep, RaiseStep, TellStep, CloseStep, DieStep
  <2>2. ASSUME NEW c \in Checkers, NEW level \in Refusals, Refused(c, level)
        PROVE  LimitsInv'
    BY <2>2, RefusedStep
  <2>3. CASE HalfHour \/ NewCycle \/ Succeed \/ UNCHANGED limitVars
    <3>1. LimitsTypeOK'
      BY <2>3 DEF HalfHour, NewCycle, Succeed, limitVars, LimitsInv, LimitsTypeOK, UsageCycles, news,
                  LimitsAssumption
    <3>2. Knows'
      BY <2>3 DEF HalfHour, NewCycle, Succeed, limitVars, LimitsInv, Knows
    <3>3. UNCHANGED <<alerts, news, caller>>
      BY <2>3 DEF HalfHour, NewCycle, Succeed, limitVars, news
    <3> QED  BY <3>1, <3>2, <3>3, QuietStep DEF Tellers
  <2>4. ASSUME NEW p \in UsageCycles, Age(p) PROVE LimitsInv'  BY <2>4, AgeStep
  <2> QED  BY <2>1, <2>2, <2>3, <2>4 DEF LimitsNext
<1>3. LimitsInv => AnnouncedOnce  BY DEF LimitsInv
<1> QED  BY <1>1, <1>2, <1>3, PTL DEF LimitsSpec
=============================================================================
