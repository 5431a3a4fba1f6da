------------------------------- MODULE Limits -------------------------------
(***************************************************************************)
(* The limits of one provider account (Apify), watched: app/limits.        *)
(* Scheduled passes and refreshes by hand read the provider and store a    *)
(* status; a refused call stores one at once.  Each stored status is then  *)
(* evaluated: an alert is raised, raised further, or closed.               *)
(*                                                                         *)
(* One document holds the status and is replaced whole; one document per   *)
(* period of the provider holds the alert and is written conditionally.    *)
(* The clock counts half hours.                                            *)
(*                                                                         *)
(* Left out: percentages and thresholds (a reading is a level), the        *)
(* history, who is told and in which words, the notices of a recovery, the *)
(* throttle of the hooks, and freshness, which only skips a check.  The     *)
(* scheduled pass runs on one worker at a time, but checks by hand overlap *)
(* with it all the same.                                                   *)
(***************************************************************************)
EXTENDS Integers, FiniteSets

CONSTANTS Nothing,
          Checkers,     \* threads that check, or that had a call refused
          Readings,    \* levels a check may read
          Refusals,    \* levels a refused call may mean
          MaxPeriods, MaxClock, MaxRefused, MaxTurns   \* bounds

VARIABLES
  stored,   \* the status document, or Nothing
  alerts,   \* the alert document of each period, or Nothing
  caller,   \* control point and locals of each thread
  clock,
  period,   \* the provider's usage cycle
  refused,  \* refused calls so far
  proven,   \* the refusals that a later successful call proved to be over
  opened,   \* times each alert was opened: at first, and after each recovery
  notified, \* notices sent about each alert since it was opened last
  missed    \* those that were due and were not sent

limitVars ==
  <<stored, alerts, caller, clock, period, refused, proven, opened, notified, missed>>
world == <<clock, period, refused, proven>>
news == <<opened, notified, missed>>

UsageCycles == 1..MaxPeriods
AlertLevels == {"warning", "critical", "error", "exhausted"}

\* ALERT_RANK
Rank(level) ==
  CASE level = "exhausted"             -> 4
    [] level \in {"critical", "error"} -> 3
    [] level = "warning"               -> 2
    [] level = "ok"                    -> 1
    [] OTHER                           -> 0

\* check_apify: what the account's limits or the error answer mean, and in which period:
\* a good read tells the cycle, an error keeps the one of the stored status.
Answers(before) ==
  [level : Readings \ {"error", "unknown"}, period : {period}] \union
  [level : Readings \ {"ok", "critical"}, period : {before}]

\* A thread that has no status at hand.
Bare(at, found, notice) ==
  [at |-> at, period |-> 0, status |-> Nothing, found |-> found, notice |-> notice]
Idle == Bare("idle", {}, Nothing)

LimitsInit ==
  /\ stored = Nothing /\ alerts = [p \in UsageCycles |-> Nothing]
  /\ caller = [c \in Checkers |-> Idle]
  /\ clock = 1 /\ period = 1 /\ refused = 0 /\ proven = 0
  /\ opened = [p \in UsageCycles |-> 0] /\ notified = {} /\ missed = {}

-----------------------------------------------------------------------------
(* The status *)

\* apify_event_active
InForce(event) ==
  event # Nothing /\ event.number > proven /\ ~(event.brief /\ event.at < clock)

\* track_streak; the streak counts no further than recovery looks.
Tracked(level, prev) ==
  LET streak == IF prev = Nothing THEN 0 ELSE prev.streak
      bad    == IF prev = Nothing THEN 0 ELSE prev.bad
  IN CASE level \in AlertLevels -> [streak |-> 0, bad |-> clock]
       [] level = "ok"          -> [streak |-> IF streak < 2 THEN streak + 1 ELSE 2, bad |-> bad]
       [] OTHER                 -> [streak |-> streak, bad |-> bad]

\* merge_live_event: a live error stays over a reading that looks fine.
Merged(answer, prev) ==
  LET event == IF prev = Nothing THEN Nothing ELSE prev.event
      kept  == InForce(event)
      level == IF kept /\ (Rank(event.level) > Rank(answer.level) \/ answer.level = "unknown")
               THEN event.level ELSE answer.level
      track == Tracked(level, prev)
  IN [level |-> level, period |-> answer.period, event |-> IF kept THEN event ELSE Nothing,
      streak |-> track.streak, bad |-> track.bad]

KnownPeriod == IF stored = Nothing THEN period ELSE stored.period

\* A check begins, scheduled or by hand: check_apify is given the stored status, for its
\* period.
BeginCheck(c) ==
  /\ caller[c].at = "idle"
  /\ caller' = [caller EXCEPT ![c].at = "reading", ![c].period = KnownPeriod]
  /\ UNCHANGED <<stored, alerts, world, news>>

\* The provider answered; _finish reads the status again and merges.
Read(c) ==
  /\ caller[c].at = "reading"
  /\ \E answer \in Answers(caller[c].period) :
       caller' = [caller EXCEPT ![c].at = "saving", ![c].status = Merged(answer, stored)]
  /\ UNCHANGED <<stored, alerts, world, news>>

\* _record_event: a call was refused, which the stored status is made to tell.  A warning is
\* of a moment in which the account is busy, and expires.
Refused(c, level) ==
  /\ caller[c].at = "idle" /\ refused < MaxRefused
  /\ refused' = refused + 1
  /\ LET was   == IF stored = Nothing THEN "unknown" ELSE stored.level
         event == [level |-> level, number |-> refused + 1, at |-> clock,
                   brief |-> level = "warning"]
         now   == IF Rank(level) >= Rank(was) THEN level ELSE was
     IN caller' = [caller EXCEPT ![c].at = "saving", ![c].status =
          [level |-> now, period |-> KnownPeriod, event |-> event, streak |-> 0, bad |-> clock]]
  /\ UNCHANGED <<stored, alerts, clock, period, proven, news>>

-----------------------------------------------------------------------------
(* The alert *)

\* recovery_ready: two good checks in a row, and half an hour since the last bad state.
RecoveryReady(status) == status.streak >= 2 /\ status.bad < clock

Open == {p \in UsageCycles : alerts[p] # Nothing /\ ~alerts[p].recovered}

\* The open alert _raise carries over: the newest of the last 35 days.
Carried ==
  LET young == {p \in Open : ~alerts[p].old}
  IN {p \in young : \A q \in young : q <= p}

\* save_status
Save(c) ==
  /\ caller[c].at = "saving"
  /\ stored' = caller[c].status
  /\ caller' = [caller EXCEPT ![c].at = "evaluating"]
  /\ UNCHANGED <<alerts, world, news>>

\* evaluate: what the status calls for, and the alerts it concerns now.
Look(c) ==
  /\ caller[c].at = "evaluating"
  /\ LET status == caller[c].status
         well   == status.level = "ok" /\ RecoveryReady(status)
     IN \/ /\ status.level \in AlertLevels
           /\ caller' = [caller EXCEPT ![c].at = "raising", ![c].found = Carried]
        \/ /\ well
           /\ caller' = [caller EXCEPT ![c] =
                Bare("closing", {p \in Open : alerts[p].rank >= 3}, Nothing)]
        \/ /\ status.level \notin AlertLevels /\ ~well
           /\ caller' = [caller EXCEPT ![c] = Idle]
  /\ UNCHANGED <<stored, alerts, world, news>>

\* Slip: any other level of a rank is announced again and again.
NewsEither(alert, level) ==
  alert.rank <= Rank(level) \/ alert.recovered

\* The condition of the update in _raise: higher, open again, or another level of the rank.
News(alert, level) ==
  \/ alert.rank < Rank(level)
  \/ alert.recovered
  \/ alert.rank = Rank(level) /\ level \notin alert.levels

Alert(level, levels, old) ==
  [level |-> level, rank |-> Rank(level), levels |-> levels, recovered |-> FALSE, old |-> old]

Of(p) == {n \in notified \union missed : n.alert = p}

\* The alert is written; whoever wrote it has a notice to send.
WriteAlert(c, p, alert) ==
  LET turn == IF p \in Open THEN opened[p] ELSE opened[p] + 1
      past == IF p \in Open THEN {} ELSE Of(p)
  IN /\ turn <= MaxTurns
     /\ alerts' = [alerts EXCEPT ![p] = alert]
     /\ opened' = [opened EXCEPT ![p] = turn]
     /\ notified' = notified \ past /\ missed' = missed \ past
     /\ caller' = [caller EXCEPT ![c] =
          Bare("telling", {}, [alert |-> p, turn |-> turn, level |-> alert.level])]

\* _raise: into the open alert that was found, else a new one of the period; where that
\* exists, conditionally.
Raise(c) ==
  /\ caller[c].at = "raising"
  /\ LET level == caller[c].status.level
         p == IF caller[c].found = {} THEN caller[c].status.period
              ELSE CHOOSE q \in caller[c].found : TRUE
     IN \/ /\ alerts[p] = Nothing
           /\ WriteAlert(c, p, Alert(level, {level}, FALSE))
        \/ /\ alerts[p] # Nothing /\ News(alerts[p], level)
           /\ WriteAlert(c, p, Alert(level, alerts[p].levels \union {level}, alerts[p].old))
        \/ /\ alerts[p] # Nothing /\ ~News(alerts[p], level)
           /\ caller' = [caller EXCEPT ![c] = Idle]
           /\ UNCHANGED <<alerts, news>>
  /\ UNCHANGED <<stored, world>>

\* The notice a thread is about to send, if it is about the alert as it was opened last.
Timely(c) ==
  {n \in {caller[c].notice} : caller[c].at = "telling" /\ n.turn = opened[n.alert]}

\* _dispatch
Tell(c) ==
  /\ caller[c].at = "telling"
  /\ notified' = notified \union Timely(c)
  /\ caller' = [caller EXCEPT ![c] = Idle]
  /\ UNCHANGED <<stored, alerts, world, opened, missed>>

\* _recover: each alert that was found open is closed, unless it was meanwhile.
Close(c) ==
  /\ caller[c].at = "closing"
  /\ IF caller[c].found = {}
     THEN caller' = [caller EXCEPT ![c] = Idle] /\ UNCHANGED alerts
     ELSE \E p \in caller[c].found :
            /\ alerts' = [alerts EXCEPT ![p].recovered = TRUE]
            /\ caller' = [caller EXCEPT ![c].found = @ \ {p}]
  /\ UNCHANGED <<stored, world, news>>

-----------------------------------------------------------------------------
(* The world *)

\* A thread dies with its process, or evaluate catches an exception; a notice it was to
\* send is not sent.
Die(c) ==
  /\ caller[c].at # "idle"
  /\ missed' = missed \union Timely(c)
  /\ caller' = [caller EXCEPT ![c] = Idle]
  /\ UNCHANGED <<stored, alerts, world, opened, notified>>

HalfHour ==
  /\ clock < MaxClock /\ clock' = clock + 1
  /\ UNCHANGED <<stored, alerts, caller, period, refused, proven, news>>

NewCycle ==
  /\ period < MaxPeriods /\ period' = period + 1
  /\ UNCHANGED <<stored, alerts, caller, clock, refused, proven, news>>

\* 35 days after an alert was opened.
Age(p) ==
  /\ alerts[p] # Nothing /\ ~alerts[p].old /\ p < period
  /\ alerts' = [alerts EXCEPT ![p].old = TRUE]
  /\ UNCHANGED <<stored, caller, world, news>>

\* A call made after every refusal succeeds.
Succeed ==
  /\ proven < refused /\ proven' = refused
  /\ UNCHANGED <<stored, alerts, caller, clock, period, refused, news>>

LimitsNext ==
  \/ \E c \in Checkers :
       \/ BeginCheck(c) \/ Read(c) \/ Save(c) \/ Look(c) \/ Raise(c) \/ Tell(c)
       \/ Close(c) \/ Die(c)
       \/ \E level \in Refusals : Refused(c, level)
  \/ HalfHour \/ NewCycle \/ Succeed \/ \E p \in UsageCycles : Age(p)

LimitsSpec == LimitsInit /\ [][LimitsNext]_limitVars

-----------------------------------------------------------------------------
(* Properties *)

Tellers == {c \in Checkers : caller[c].at = "telling"}

\* alerts.py: "who is told what, once per level and period", until a recovery.  However many
\* threads evaluate and wherever they die, no notice is sent twice; the level of an open alert
\* was announced since the alert was opened, or is about to be, unless the one thread that
\* had to do it died or failed; and nothing higher was announced.  A level the alert had
\* before a recovery is not announced when it follows another of the same rank after it:
\* the alert then goes on to hold that other level.
AnnouncedOnce ==
  /\ \A c \in Tellers :
       /\ caller[c].notice \notin notified
       /\ \A d \in Tellers \ {c} : caller[d].notice # caller[c].notice
  /\ \A p \in Open :
       /\ \/ \E n \in Of(p) : n.level = alerts[p].level
          \/ \E c \in Tellers : \E n \in Timely(c) : n.alert = p /\ n.level = alerts[p].level
       /\ \A n \in Of(p) : Rank(n.level) <= alerts[p].rank
=============================================================================
