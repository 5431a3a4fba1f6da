----------------------------- MODULE RateLimits -----------------------------
(***************************************************************************)
(* RateLimiter.consume of app/auth/rate_limit.py: one key, one window,     *)
(* several server processes of several threads.  A hit is counted in the   *)
(* database first, the hits are read, and a hit that went over the limit   *)
(* is taken back.  When the database fails, the process judges by the hits *)
(* its own limiter remembers: it reads them under the limiter's lock,      *)
(* releases it, and adds its own hit under it again.                       *)
(*                                                                         *)
(* Every call makes one hit, so the counters are sets of calls.  Left out: *)
(* a window that moves on while calls are made; the cool-down after a      *)
(* failure (any call may find the database failing); state, hit and reset, *)
(* which the login uses apart from each other.                             *)
(***************************************************************************)
EXTENDS Integers, FiniteSets

CONSTANTS Calls, Processes,
          RateLimit,    \* hits allowed in the window
          Pool,      \* calls a process works on at once; 1 for an async route
          Kept          \* the limiter lives as long as its process, not as the request

ASSUME RatesFinite ==
  /\ IsFiniteSet(Calls) /\ IsFiniteSet(Processes) /\ RateLimit \in Nat
  /\ Pool \in Nat \ {0} /\ Kept \in BOOLEAN

VARIABLES
  hits,      \* the calls counted in the database
  seen,      \* the calls each process counted in its memory
  call,      \* control point of each call
  place,     \* the process that works on it
  admitted,  \* the calls let through on the word of the database
  local      \* the calls each process let through on its own

rateVars == <<hits, seen, call, place, admitted, local>>

RatesInit ==
  /\ hits = {} /\ admitted = {}
  /\ seen = [p \in Processes |-> {}] /\ local = [p \in Processes |-> {}]
  /\ call = [c \in Calls |-> "new"]
  /\ place \in [Calls -> Processes]

Step(c, from, to) == call[c] = from /\ call' = [call EXCEPT ![c] = to]

\* The calls a process works on.
AtWork(p) == {c \in Calls : place[c] = p /\ call[c] \notin {"new", "done"}}

\* Slip: the limit is compared before this call's own hit counts.
OverLate(set) == Cardinality(set) > RateLimit + 1

\* The hits are more than the limit.
Over(set) == Cardinality(set) > RateLimit

\* _db_hit; a failing write may have been counted all the same.
Hit(c) ==
  /\ Cardinality(AtWork(place[c])) < Pool
  /\ \/ Step(c, "new", "counted") /\ hits' = hits \cup {c}
     \/ Step(c, "new", "fallback") /\ hits' \in {hits, hits \cup {c}}
  /\ UNCHANGED <<seen, place, admitted, local>>

\* _db_state: the call is let through, or its hit is to be taken back.
Judge(c) ==
  /\ \/ ~Over(hits) /\ Step(c, "counted", "noting") /\ admitted' = admitted \cup {c}
     \/ Over(hits) /\ Step(c, "counted", "back") /\ UNCHANGED admitted
     \/ Step(c, "counted", "fallback") /\ UNCHANGED admitted
  /\ UNCHANGED <<hits, seen, place, local>>

TakeBack(c) ==
  /\ \/ Step(c, "back", "done") /\ hits' = hits \ {c}
     \/ Step(c, "back", "fallback") /\ hits' \in {hits, hits \ {c}}
  /\ UNCHANGED <<seen, place, admitted, local>>

\* The limiter remembers as many hits as the limit allows.
Full(p) == Kept /\ Cardinality(seen[p]) >= RateLimit

\* _mem_state: the memory is read; the call's own hit is not in it yet.
JudgeLocally(c) ==
  /\ \/ Full(place[c]) /\ Step(c, "fallback", "done") /\ UNCHANGED local
     \/ /\ ~Full(place[c]) /\ Step(c, "fallback", "noting")
        /\ local' = [local EXCEPT ![place[c]] = @ \cup {c}]
  /\ UNCHANGED <<hits, seen, place, admitted>>

\* _mem_hit
Note(c) ==
  /\ Step(c, "noting", "done")
  /\ seen' = [seen EXCEPT ![place[c]] = @ \cup {c}]
  /\ UNCHANGED <<hits, place, admitted, local>>

RatesNext ==
  \E c \in Calls : Hit(c) \/ Judge(c) \/ TakeBack(c) \/ JudgeLocally(c) \/ Note(c)

RatesSpec == RatesInit /\ [][RatesNext]_rateVars

-----------------------------------------------------------------------------
(* Properties *)

\* However many processes count at once, the database lets no more than the
\* limit through.  A process on its own passes the limit by no more than the
\* threads that read its memory before the last hit was added to it: an
\* outage never means that everyone is unlimited.  This is so only where the
\* limiter lives on from call to call: one built for a request remembers
\* nothing.
NeverUnlimited ==
  /\ Cardinality(admitted) <= RateLimit
  /\ Kept => \A p \in Processes : Cardinality(local[p]) <= RateLimit + Pool - 1
=============================================================================
