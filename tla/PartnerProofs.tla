---------------------------- MODULE PartnerProofs ---------------------------
(* Proofs about Flags and Applications.  An open flag whose hold was       *)
(* carried out keeps its referral marked and every commission held but     *)
(* those beyond it, however raising, settling, reviewing and creating      *)
(* commissions overlap.  Where an edit overlaps no decision, the partner   *)
(* comes from the one application that is approved.                        *)
EXTENDS Flags, Applications, SequenceTheorems, TLAPS

Points == {"idle", "inserting", "holding", "stopping", "marking", "dismiss", "confirm",
           "invalidate_referral", "looking", "judging", "paying", "approving"} \union Reviewing
Documents == [signal : Signals, status : {"open", "dismissed", "confirmed"}]
Locals == [at : Points, flag : {Nil} \union Nat, signal : {Nil} \union Signals,
           manual : BOOLEAN, of : {Nil} \union Payments]
Statuses == {"pending", "qualified", "approved", "payable", "reversed"}

FlagsTypeOK ==
  /\ flags \in Seq(Documents)
  /\ referral \in [active : BOOLEAN, suspicious : BOOLEAN]
  /\ commission \in [Payments -> {Nil} \union [status : Statuses, manual : BOOLEAN]]
  /\ actor \in [Hands -> Locals]
  /\ beyond \in SUBSET Payments /\ cut \in BOOLEAN /\ gone \in Nat

\* Who inserted a flag has its number, and a hold that was carried out is of a flag.
Numbered ==
  /\ holds \subseteq 1 .. Len(flags)
  /\ \A h \in Hands : actor[h].at \in {"holding", "stopping"} => actor[h].flag \in 1 .. Len(flags)
  /\ \A h \in Hands : actor[h].at = "inserting" => actor[h].signal \in Signals
  /\ \A h \in Hands : actor[h].at \in {"paying", "approving"} => actor[h].of \in Payments

\* No review is under way, and none was cut short.
Reviewed == ~cut /\ \A h \in Hands : actor[h].at \notin Reviewing

InForce == OpenFlags \intersect holds # {}

Stays(p) ==
  \/ p \in beyond \/ commission[p] = Nil \/ commission[p].status = "reversed"
  \/ commission[p].manual /\ commission[p].status \in {"pending", "qualified"}

\* About to make a commission that is not held, or to approve one found when it was not.
Slips(h) == At(h, "approving") \/ (At(h, "paying") /\ ~actor[h].manual)

\* What a hold has to keep: the mark, so that new commissions are held, those that are, and
\* that nobody is about to undo it.
Kept ==
  /\ referral.suspicious
  /\ \A p \in Payments : Stays(p)
  /\ \A h \in Hands : Slips(h) => actor[h].of \in beyond

\* HeldUntilReviewed with that, and the half of it that a hold half way has done.
Held ==
  Reviewed =>
    /\ InForce => Kept
    /\ \A h \in Hands : At(h, "stopping") /\ actor[h].flag \in OpenFlags => referral.suspicious

FlagsInv == FlagsTypeOK /\ Numbered /\ Held

-----------------------------------------------------------------------------
(* Types *)

LEMMA FlagsInvInit == FlagsInit => FlagsInv
<1> SUFFICES ASSUME FlagsInit PROVE FlagsInv  OBVIOUS
<1> USE DEF FlagsInit, Free
<1>1. FlagsTypeOK  BY EmptySeq DEF FlagsTypeOK, Points, Locals
<1>2. Numbered  BY DEF Numbered
<1>3. Held  BY DEF Held, At, InForce
<1> QED  BY <1>1, <1>2, <1>3 DEF FlagsInv

\* A flag that is settled is a flag, no longer open.
LEMMA SettledDocument ==
  ASSUME NEW d \in Documents, NEW s \in {"dismissed", "confirmed"}
  PROVE  /\ [d EXCEPT !.status = s] \in Documents
         /\ [d EXCEPT !.status = s].status # "open"
BY DEF Documents

\* A flag keeps its place: settling changes statuses, inserting adds one at the end.
LEMMA SettledSeq ==
  ASSUME FlagsTypeOK, NEW f \in OpenFlags, NEW s \in {"dismissed", "confirmed"},
         flags' = [flags EXCEPT ![f] = [@ EXCEPT !.status = s]]
  PROVE  flags' \in Seq(Documents) /\ Len(flags') = Len(flags) /\ OpenFlags' \subseteq OpenFlags
<1>1. flags \in Seq(Documents) /\ DOMAIN flags = 1 .. Len(flags)
  BY LenProperties DEF FlagsTypeOK
<1>2. f \in 1 .. Len(flags) /\ flags[f] \in Documents
  BY <1>1, ElementOfSeq DEF OpenFlags
<1> DEFINE d == [flags[f] EXCEPT !.status = s]
<1>3. d \in Documents /\ d.status # "open"  BY <1>2, SettledDocument
<1>4. flags' = [flags EXCEPT ![f] = d]  OBVIOUS
<1> HIDE DEF d
<1>5. /\ flags' \in Seq(Documents) /\ Len(flags') = Len(flags)
      /\ \A g \in 1 .. Len(flags) : flags'[g] = IF g = f THEN d ELSE flags[g]
  BY <1>1, <1>2, <1>3, <1>4, ExceptSeq
<1>6. DOMAIN flags' = DOMAIN flags  BY <1>4
<1> QED  BY <1>1, <1>3, <1>5, <1>6 DEF OpenFlags

LEMMA ClosedSeq ==
  ASSUME FlagsTypeOK, NEW s \in {"dismissed", "confirmed"}, flags' = Closed(s)
  PROVE  flags' \in Seq(Documents) /\ Len(flags') = Len(flags) /\ OpenFlags' = {}
<1> DEFINE e(f) == IF f \in OpenFlags THEN [flags[f] EXCEPT !.status = s] ELSE flags[f]
<1>1. flags \in Seq(Documents) /\ DOMAIN flags = 1 .. Len(flags) /\ Len(flags) \in Nat
  BY LenProperties DEF FlagsTypeOK
<1>2. \A f \in 1 .. Len(flags) : flags[f] \in Documents  BY <1>1, ElementOfSeq
<1>3. ASSUME NEW f \in 1 .. Len(flags) PROVE e(f) \in Documents /\ e(f).status # "open"
  <2>1. CASE f \in OpenFlags  BY <2>1, <1>2, SettledDocument
  <2>2. CASE f \notin OpenFlags  BY <2>2, <1>1, <1>2 DEF OpenFlags
  <2> QED  BY <2>1, <2>2
<1>4. flags' = [f \in 1 .. Len(flags) |-> e(f)]  BY <1>1 DEF Closed
<1> HIDE DEF e
<1>5. flags' \in [1 .. Len(flags) -> Documents]  BY <1>3, <1>4
<1>6. flags' \in Seq(Documents)  BY <1>1, <1>5
<1>7. DOMAIN flags' = 1 .. Len(flags)  BY <1>5
<1>8. Len(flags') = Len(flags)  BY <1>1, <1>6, <1>7, LenProperties
<1> QED  BY <1>3, <1>4, <1>6, <1>7, <1>8 DEF OpenFlags

LEMMA InsertedSeq ==
  ASSUME FlagsTypeOK, NEW d \in Documents, flags' = Append(flags, d)
  PROVE  /\ flags' \in Seq(Documents) /\ Len(flags') = Len(flags) + 1
         /\ OpenFlags' \subseteq OpenFlags \union {Len(flags) + 1}
<1>1. flags \in Seq(Documents) /\ Len(flags) \in Nat /\ DOMAIN flags = 1 .. Len(flags)
  BY DEF FlagsTypeOK
<1>2. /\ flags' \in Seq(Documents) /\ Len(flags') = Len(flags) + 1
      /\ \A i \in 1 .. Len(flags) : flags'[i] = flags[i]
  BY <1>1, AppendProperties
<1>3. DOMAIN flags' = 1 .. (Len(flags) + 1)  BY <1>1, <1>2
<1>4. \A i \in DOMAIN flags' : i \in 1 .. Len(flags) \/ i = Len(flags) + 1  BY <1>1, <1>3
<1> QED  BY <1>1, <1>2, <1>4 DEF OpenFlags

\* Control points that carry no more than their name.
Plain == Points \ {"inserting", "holding", "stopping", "paying", "approving"}

Actors ==
  /\ actor \in [Hands -> Locals]
  /\ \A h \in Hands : actor[h].at \in {"holding", "stopping"} => actor[h].flag \in 1 .. Len(flags)
  /\ \A h \in Hands : actor[h].at = "inserting" => actor[h].signal \in Signals
  /\ \A h \in Hands : actor[h].at \in {"paying", "approving"} => actor[h].of \in Payments

\* Who begins, goes on to or leaves such a point is in order, and so are the others.
LEMMA ActorMoves ==
  ASSUME Actors, 1 .. Len(flags) \subseteq 1 .. Len(flags'), NEW h \in Hands, NEW point \in Plain,
         Leaves(h) \/ Begins(h, point) \/ Goes(h, point) \/ UNCHANGED actor
  PROVE  Actors'
<1> USE DEF Actors, Plain, Points, Locals, Reviewing
<1>1. CASE Leaves(h)  BY <1>1 DEF Leaves, Free
<1>2. CASE Begins(h, point)
  <2> DEFINE r == [Free EXCEPT !.at = point]
  <2>1. r \in Locals /\ r.at = point
    BY DEF Free
  <2>2. actor' = [actor EXCEPT ![h] = r]  BY <1>2 DEF Begins
  <2> HIDE DEF r
  <2>3. actor'[h].at = point /\ \A g \in Hands \ {h} : actor'[g] = actor[g]  BY <2>1, <2>2
  <2> QED  BY <2>1, <2>2, <2>3
<1>3. CASE Goes(h, point)  BY <1>3 DEF Goes
<1>4. CASE UNCHANGED actor  BY <1>4
<1> QED  BY <1>1, <1>2, <1>3, <1>4

\* Every step keeps the types and the numbers of the flags.
LEMMA FlagsTypeStep ==
  ASSUME FlagsTypeOK, Numbered, [FlagsNext]_flagVars
  PROVE  FlagsTypeOK' /\ Numbered'
<1> USE DEF FlagsTypeOK, Numbered, Locals
<1>0. flags \in Seq(Documents) /\ Len(flags) \in Nat /\ DOMAIN flags = 1 .. Len(flags)
  BY LenProperties
<1> DEFINE Good == FlagsTypeOK' /\ Numbered'
<1>1. ASSUME NEW h \in Hands, NEW s \in Signals, FindFlag(h, s) PROVE Good
  <2>1. CASE UNCHANGED actor \/ Begins(h, "marking")
    <3>1. Actors'  BY <1>0, <1>1, <2>1, ActorMoves DEF FindFlag, Actors, Plain, Points
    <3> QED  BY <1>1, <3>1 DEF FindFlag, Actors
  <2>2. CASE actor' = [actor EXCEPT ![h] = [Free EXCEPT !.at = "inserting", !.signal = s]]
    BY <1>1, <2>2 DEF FindFlag, Free, Points
  <2> QED  BY <1>1, <2>1, <2>2 DEF FindFlag
<1>2. ASSUME NEW h \in Hands, InsertFlag(h) PROVE Good
  <2> DEFINE d == [signal |-> actor[h].signal, status |-> "open"]
  <2>1. d \in Documents  BY <1>2 DEF InsertFlag, At, Documents
  <2>2. flags' = Append(flags, d)  BY <1>2 DEF InsertFlag
  <2>3. flags' \in Seq(Documents) /\ Len(flags') = Len(flags) + 1
    BY <2>1, <2>2, AppendProperties
  <2>4. 1 .. Len(flags) \subseteq 1 .. Len(flags') /\ Len(flags) + 1 \in 1 .. Len(flags')
    BY <1>0, <2>3
  <2>5. Len(flags) + 1 \in Nat  BY <1>0
  <2> DEFINE r == [actor[h] EXCEPT !.at = "holding", !.flag = Len(flags) + 1]
  <2>6. r \in Locals
        /\ r.at = "holding" /\ r.flag = Len(flags) + 1
    BY <2>5 DEF Points
  <2>7. actor' = [actor EXCEPT ![h] = r]  BY <1>2 DEF InsertFlag
  <2> HIDE DEF r
  <2>8. /\ actor'[h] = r /\ \A g \in Hands \ {h} : actor'[g] = actor[g]
        /\ actor' \in [Hands -> Locals]
    BY <2>6, <2>7
  <2>9. Actors'  BY <2>4, <2>6, <2>8 DEF Actors
  <2> QED  BY <1>2, <2>3, <2>4, <2>9 DEF InsertFlag, Actors
<1>3. ASSUME NEW h \in Hands, HoldReferral(h) PROVE Good
  BY <1>3 DEF HoldReferral, Goes, At, Points, Reviewing
<1>4. ASSUME NEW h \in Hands, HoldCommissions(h) PROVE Good
  <2>1. \A p \in Payments : Stopped(commission[p]) \in {Nil} \union [status : Statuses, manual : BOOLEAN]
    BY DEF Stopped
  <2>2. Actors'
    BY <1>4, ActorMoves DEF HoldCommissions, Actors, Plain, Points
  <2>3. actor[h].flag \in 1 .. Len(flags)  BY <1>4 DEF HoldCommissions, At
  <2> QED  BY <1>4, <2>1, <2>2, <2>3 DEF HoldCommissions, Actors
<1>5. ASSUME NEW h \in Hands, MarkReferral(h) PROVE Good
  BY <1>5 DEF MarkReferral, Leaves, Free, Points, Reviewing
<1>6. ASSUME NEW h \in Hands, NEW f \in OpenFlags,
             NEW d \in {"dismiss", "confirm", "invalidate_referral"}, ReadFlag(h, f, d) PROVE Good
  <2>1. f \in Nat /\ d \in Points  BY <1>0 DEF OpenFlags, Points
  <2> DEFINE r == [Free EXCEPT !.at = d, !.flag = f]
  <2>2. r \in Locals /\ r.at = d
    BY <2>1 DEF Free
  <2>3. actor' = [actor EXCEPT ![h] = r]  BY <1>6 DEF ReadFlag
  <2> HIDE DEF r
  <2>4. actor'[h].at = d /\ \A g \in Hands \ {h} : actor'[g] = actor[g]  BY <2>2, <2>3
  <2> QED  BY <1>6, <2>2, <2>3, <2>4 DEF ReadFlag
<1>7. ASSUME NEW h \in Hands, SettleFlag(h) PROVE Good
  <2> DEFINE s == IF actor[h].at = "dismiss" THEN "dismissed" ELSE "confirmed"
  <2> DEFINE f == actor[h].flag
  <2>1. flags' \in Seq(Documents) /\ Len(flags') = Len(flags)
    <3>1. CASE f \in OpenFlags
      <4>1. flags' = [flags EXCEPT ![f] = [@ EXCEPT !.status = s]]
        BY <1>7, <3>1 DEF SettleFlag
      <4> QED  BY <3>1, <4>1, SettledSeq
    <3>2. CASE f \notin OpenFlags  BY <1>0, <1>7, <3>2 DEF SettleFlag
    <3> QED  BY <3>1, <3>2
  <2>2. \/ Begins(h, "looking") \/ Leaves(h) \/ Begins(h, "judging")
    BY <1>7 DEF SettleFlag
  <2>3. Actors'
    BY <2>1, <2>2, ActorMoves DEF Actors, Plain, Points
  <2> QED  BY <1>7, <2>1, <2>3 DEF SettleFlag, Actors
<1>8. ASSUME NEW h \in Hands, LookForOthers(h) PROVE Good
  <2>1. Actors'  BY <1>8, ActorMoves DEF LookForOthers, Actors, Plain, Points, Reviewing
  <2> QED  BY <1>8, <2>1 DEF LookForOthers, Actors
<1>9. ASSUME NEW h \in Hands, JudgeReferral(h) PROVE Good
  <2>1. Actors'  BY <1>9, ActorMoves DEF JudgeReferral, Actors, Plain, Points, Reviewing
  <2> QED  BY <1>9, <2>1 DEF JudgeReferral, Actors
<1>10. ASSUME NEW h \in Hands, NEW d \in {"clearing", "reversing"}, Review(h, d) PROVE Good
  BY <1>10 DEF Review, Begins, Free, Points, Reviewing
<1>11. ASSUME NEW h \in Hands, ClearReferral(h) PROVE Good
  BY <1>11 DEF ClearReferral, Goes, Points, Reviewing
<1>12. ASSUME NEW h \in Hands, FreeCommissions(h) PROVE Good
  BY <1>12 DEF FreeCommissions, Goes, Points, Reviewing
<1>13. ASSUME NEW h \in Hands, ReverseCommissions(h) PROVE Good
  BY <1>13 DEF ReverseCommissions, Goes, Points, Reviewing, Statuses
<1>14. ASSUME NEW h \in Hands, Invalidate(h) PROVE Good
  BY <1>14 DEF Invalidate, Goes, Points, Reviewing
<1>15. ASSUME NEW h \in Hands, CloseFlags(h) PROVE Good
  <2>1. flags' \in Seq(Documents) /\ Len(flags') = Len(flags)
    <3>1. \/ flags' = Closed("dismissed") \/ flags' = Closed("confirmed")
      BY <1>15 DEF CloseFlags
    <3> QED  BY <3>1, ClosedSeq
  <2> QED  BY <1>15, <2>1 DEF CloseFlags, Leaves, Free, Points, Reviewing
<1>16. ASSUME NEW h \in Hands, NEW p \in Payments, BeginPayment(h, p) PROVE Good
  BY <1>16 DEF BeginPayment, Free, Points, Reviewing
<1>17. ASSUME NEW h \in Hands, NEW p \in Payments, FindQualified(h, p) PROVE Good
  BY <1>17 DEF FindQualified, Free, Points, Reviewing
<1>18. ASSUME NEW h \in Hands, InsertCommission(h) PROVE Good
  BY <1>18 DEF InsertCommission, Leaves, Free, Points, Reviewing, Statuses, At
<1>19. ASSUME NEW h \in Hands, AutoApprove(h) PROVE Good
  BY <1>19 DEF AutoApprove, Becomes, Leaves, Free, Points, Reviewing, Statuses, At
<1>20. ASSUME NEW h \in Hands, HandDies(h) PROVE Good
  BY <1>20 DEF HandDies, Leaves, Free, Points, Reviewing
<1>21. ASSUME NEW p \in Payments, Qualify(p) PROVE Good
  BY <1>21 DEF Qualify, Becomes, Statuses
<1>22. ASSUME NEW p \in Payments, Approve(p) PROVE Good
  BY <1>22 DEF Approve, Statuses
<1>23. ASSUME NEW p \in Payments, MakePayable(p) PROVE Good
  BY <1>23 DEF MakePayable, Becomes, Statuses
<1>24. ASSUME UNCHANGED flagVars PROVE Good
  BY <1>24 DEF flagVars
<1> QED
  BY <1>1, <1>2, <1>3, <1>4, <1>5, <1>6, <1>7, <1>8, <1>9, <1>10, <1>11, <1>12, <1>13, <1>14,
     <1>15, <1>16, <1>17, <1>18, <1>19, <1>20, <1>21, <1>22, <1>23, <1>24 DEF FlagsNext

-----------------------------------------------------------------------------
(* The hold *)

\* A step of one that is not reviewing, that begins no hold, takes nothing of one away and
\* opens no flag.
LEMMA OrdinaryStep ==
  ASSUME Held, NEW h \in Hands, \A g \in Hands \ {h} : actor'[g] = actor[g],
         actor'[h].at # "stopping", actor[h].at \notin Reviewing,
         OpenFlags' \subseteq OpenFlags, holds' = holds, cut' = cut,
         referral.suspicious => referral'.suspicious,
         Kept => Kept'
  PROVE  Held'
<1>1. Reviewed' => Reviewed  BY DEF Reviewed
<1>2. InForce' => InForce  BY DEF InForce
<1>3. \A g \in Hands : actor'[g].at = "stopping" => actor'[g] = actor[g]  OBVIOUS
<1> QED  BY <1>1, <1>2, <1>3 DEF Held, At

\* One that leaves the commissions alone and is not about to make or approve one.
LEMMA QuietStep ==
  ASSUME NEW h \in Hands, \A g \in Hands \ {h} : actor'[g] = actor[g],
         actor'[h].at \notin {"paying", "approving"},
         commission' = commission, beyond' = beyond,
         referral.suspicious => referral'.suspicious
  PROVE  Kept => Kept'
BY DEF Kept, Stays, Slips, At

\* A review that goes on.
LEMMA ReviewStep ==
  ASSUME NEW h \in Hands, actor'[h].at \in Reviewing
  PROVE  Held'
BY DEF Held, Reviewed

LEMMA HoldStep ==
  ASSUME FlagsInv, FlagsTypeOK', [FlagsNext]_flagVars
  PROVE  Held'
<1> USE DEF FlagsInv, Locals, At, Leaves, Begins, Goes, Free, Reviewing
<1>0. actor \in [Hands -> Locals]  BY DEF FlagsTypeOK
<1>1. ASSUME NEW h \in Hands, NEW s \in Signals, FindFlag(h, s) PROVE Held'
  <2>1. /\ actor'[h].at \in {"idle", "marking", "inserting"} /\ actor[h].at = "idle"
        /\ \A g \in Hands \ {h} : actor'[g] = actor[g]
    BY <1>0, <1>1 DEF FindFlag
  <2>2. Kept => Kept'  BY <1>1, <2>1, QuietStep DEF FindFlag
  <2> QED  BY <1>1, <2>1, <2>2, OrdinaryStep DEF FindFlag, OpenFlags
<1>2. ASSUME NEW h \in Hands, InsertFlag(h) PROVE Held'
  <2>1. flags \in Seq(Documents) /\ Len(flags) \in Nat  BY LenProperties DEF FlagsTypeOK
  <2> DEFINE d == [signal |-> actor[h].signal, status |-> "open"]
  <2>2. d \in Documents /\ flags' = Append(flags, d)
    BY <1>2 DEF InsertFlag, Documents, Numbered
  <2>3. OpenFlags' \subseteq OpenFlags \union {Len(flags) + 1}  BY <2>2, InsertedSeq
  <2>4. Len(flags) + 1 \notin holds /\ holds' = holds  BY <1>2, <2>1 DEF InsertFlag, Numbered
  <2>5. /\ actor'[h].at = "holding" /\ actor[h].at = "inserting"
        /\ \A g \in Hands \ {h} : actor'[g] = actor[g]
    BY <1>0, <1>2 DEF InsertFlag
  <2>6. Kept => Kept'  BY <1>2, <2>5, QuietStep DEF InsertFlag
  <2>7. InForce' => InForce  BY <2>3, <2>4 DEF InForce
  <2>8. Reviewed' => Reviewed  BY <1>2, <2>5 DEF Reviewed, InsertFlag
  <2>9. \A g \in Hands : actor'[g].at = "stopping" =>
          actor'[g] = actor[g] /\ actor[g].flag # Len(flags) + 1
    BY <2>1, <2>5 DEF Numbered
  <2>10. referral' = referral  BY <1>2 DEF InsertFlag
  <2> QED  BY <2>3, <2>6, <2>7, <2>8, <2>9, <2>10 DEF Held
<1>3. ASSUME NEW h \in Hands, HoldReferral(h) PROVE Held'
  <2>1. /\ actor'[h].at = "stopping" /\ actor[h].at = "holding"
        /\ \A g \in Hands \ {h} : actor'[g] = actor[g]
    BY <1>0, <1>3 DEF HoldReferral
  <2>2. Kept => Kept'  BY <1>3, <2>1, QuietStep DEF HoldReferral, FlagsTypeOK
  <2>3. Reviewed' => Reviewed  BY <1>3, <2>1 DEF Reviewed, HoldReferral
  <2>4. referral'.suspicious  BY <1>3 DEF HoldReferral, FlagsTypeOK
  <2> QED  BY <1>3, <2>2, <2>3, <2>4 DEF HoldReferral, Held, InForce, OpenFlags
<1>4. ASSUME NEW h \in Hands, HoldCommissions(h) PROVE Held'
  <2>1. /\ actor'[h].at \in {"idle", "marking"} /\ actor[h].at = "stopping"
        /\ \A g \in Hands \ {h} : actor'[g] = actor[g]
    BY <1>0, <1>4 DEF HoldCommissions
  <2>2. Reviewed' => Reviewed  BY <1>4, <2>1 DEF Reviewed, HoldCommissions
  <2>3. /\ holds' = holds \union {actor[h].flag} /\ beyond' = {p \in Payments : Late(p)}
        /\ referral' = referral /\ OpenFlags' = OpenFlags
    BY <1>4 DEF HoldCommissions, OpenFlags
  <2>4. \A p \in Payments : Stays(p)'
    <3> SUFFICES ASSUME NEW p \in Payments PROVE Stays(p)'  OBVIOUS
    <3>1. commission'[p] = Stopped(commission[p])  BY <1>4 DEF HoldCommissions
    <3>2. commission[p] \in {Nil} \union [status : Statuses, manual : BOOLEAN]
      BY DEF FlagsTypeOK
    <3>3. CASE Late(p)  BY <2>3, <3>3 DEF Stays
    <3>4. CASE ~Late(p)
      <4>1. commission[p] = Nil \/ commission[p].status \in {"pending", "qualified", "reversed"}
        BY <3>2, <3>4 DEF Late, Statuses
      <4> QED  BY <3>1, <3>2, <4>1 DEF Stopped, Stays, Statuses
    <3> QED  BY <3>3, <3>4
  <2>5. ASSUME NEW g \in Hands, Slips(g)' PROVE actor'[g].of \in beyond'
    <3>1. g # h /\ actor'[g] = actor[g] /\ Slips(g)  BY <2>1, <2>5 DEF Slips
    <3>2. actor[g].of \in Payments  BY <3>1 DEF Numbered, Slips
    <3>3. Late(actor[g].of)  BY <3>1, <3>2 DEF Late, Slips
    <3> QED  BY <2>3, <3>1, <3>2, <3>3
  <2>6. referral.suspicious => Kept'  BY <2>3, <2>4, <2>5 DEF Kept
  <2>7. \A g \in Hands : actor'[g].at = "stopping" => actor'[g] = actor[g]  BY <2>1
  <2>8. Reviewed /\ InForce' => referral.suspicious
    BY <2>1, <2>3 DEF Held, InForce, Kept
  <2> QED  BY <2>1, <2>2, <2>3, <2>6, <2>7, <2>8 DEF Held
<1>5. ASSUME NEW h \in Hands, MarkReferral(h) PROVE Held'
  <2>1. /\ actor'[h].at = "idle" /\ actor[h].at = "marking"
        /\ \A g \in Hands \ {h} : actor'[g] = actor[g]
    BY <1>0, <1>5 DEF MarkReferral
  <2>2. referral'.suspicious  BY <1>5 DEF MarkReferral, FlagsTypeOK
  <2>3. Kept => Kept'  BY <1>5, <2>1, <2>2, QuietStep DEF MarkReferral
  <2> QED  BY <1>5, <2>1, <2>2, <2>3, OrdinaryStep DEF MarkReferral, OpenFlags
<1>6. ASSUME NEW h \in Hands, NEW f \in OpenFlags,
             NEW d \in {"dismiss", "confirm", "invalidate_referral"}, ReadFlag(h, f, d)
      PROVE  Held'
  <2>1. /\ actor'[h].at = d /\ actor[h].at = "idle"
        /\ \A g \in Hands \ {h} : actor'[g] = actor[g]
    BY <1>0, <1>6 DEF ReadFlag
  <2>2. Kept => Kept'  BY <1>6, <2>1, QuietStep DEF ReadFlag
  <2> QED  BY <1>6, <2>1, <2>2, OrdinaryStep DEF ReadFlag, OpenFlags
<1>7. ASSUME NEW h \in Hands, SettleFlag(h) PROVE Held'
  <2>1. OpenFlags' \subseteq OpenFlags
    <3> DEFINE f == actor[h].flag
    <3> DEFINE s == IF actor[h].at = "dismiss" THEN "dismissed" ELSE "confirmed"
    <3>1. CASE f \in OpenFlags
      <4>1. flags' = [flags EXCEPT ![f] = [@ EXCEPT !.status = s]]  BY <1>7, <3>1 DEF SettleFlag
      <4> QED  BY <3>1, <4>1, SettledSeq
    <3>2. CASE f \notin OpenFlags  BY <1>7, <3>2 DEF SettleFlag, OpenFlags
    <3> QED  BY <3>1, <3>2
  <2>2. /\ actor'[h].at \in {"looking", "idle", "judging"}
        /\ actor[h].at \in {"dismiss", "confirm", "invalidate_referral"}
        /\ \A g \in Hands \ {h} : actor'[g] = actor[g]
    BY <1>0, <1>7 DEF SettleFlag
  <2>3. Kept => Kept'  BY <1>7, <2>2, QuietStep DEF SettleFlag
  <2> QED  BY <1>7, <2>1, <2>2, <2>3, OrdinaryStep DEF SettleFlag
<1>8. ASSUME NEW h \in Hands, LookForOthers(h) PROVE Held'
  <2>1. /\ actor'[h].at \in {"clearing", "idle"} /\ actor[h].at = "looking"
        /\ \A g \in Hands \ {h} : actor'[g] = actor[g]
    BY <1>0, <1>8 DEF LookForOthers
  <2>2. Kept => Kept'  BY <1>8, <2>1, QuietStep DEF LookForOthers
  <2> QED  BY <1>8, <2>1, <2>2, OrdinaryStep DEF LookForOthers, OpenFlags
<1>9. ASSUME NEW h \in Hands, JudgeReferral(h) PROVE Held'
  <2>1. /\ actor'[h].at \in {"reversing", "idle"} /\ actor[h].at = "judging"
        /\ \A g \in Hands \ {h} : actor'[g] = actor[g]
    BY <1>0, <1>9 DEF JudgeReferral
  <2>2. Kept => Kept'  BY <1>9, <2>1, QuietStep DEF JudgeReferral
  <2> QED  BY <1>9, <2>1, <2>2, OrdinaryStep DEF JudgeReferral, OpenFlags
<1>10. ASSUME NEW h \in Hands, NEW d \in {"clearing", "reversing"}, Review(h, d) PROVE Held'
  <2>1. actor'[h].at \in Reviewing  BY <1>0, <1>10 DEF Review
  <2> QED  BY <2>1, ReviewStep
<1>11. ASSUME NEW h \in Hands, ClearReferral(h) PROVE Held'
  BY <1>0, <1>11, ReviewStep DEF ClearReferral
<1>12. ASSUME NEW h \in Hands, FreeCommissions(h) PROVE Held'
  BY <1>0, <1>12, ReviewStep DEF FreeCommissions
<1>13. ASSUME NEW h \in Hands, ReverseCommissions(h) PROVE Held'
  BY <1>0, <1>13, ReviewStep DEF ReverseCommissions
<1>14. ASSUME NEW h \in Hands, Invalidate(h) PROVE Held'
  BY <1>0, <1>14, ReviewStep DEF Invalidate
<1>15. ASSUME NEW h \in Hands, CloseFlags(h) PROVE Held'
  <2>1. flags' = Closed("dismissed") \/ flags' = Closed("confirmed")  BY <1>15 DEF CloseFlags
  <2>2. OpenFlags' = {}  BY <2>1, ClosedSeq
  <2> QED  BY <2>2 DEF Held, InForce
<1>16. ASSUME NEW h \in Hands, NEW p \in Payments, BeginPayment(h, p) PROVE Held'
  <2> DEFINE r == [Free EXCEPT !.at = "paying", !.of = p, !.manual = referral.suspicious]
  <2>1. r.at = "paying" /\ r.manual = referral.suspicious  OBVIOUS
  <2>2. actor' = [actor EXCEPT ![h] = r]  BY <1>16 DEF BeginPayment
  <2> HIDE DEF r
  <2>3. actor'[h] = r /\ \A g \in Hands \ {h} : actor'[g] = actor[g]  BY <1>0, <2>2
  <2>4. Kept => Kept'  BY <1>16, <2>1, <2>3 DEF Kept, Stays, Slips, BeginPayment
  <2> QED  BY <1>16, <2>1, <2>3, <2>4, OrdinaryStep DEF BeginPayment, OpenFlags
<1>17. ASSUME NEW h \in Hands, NEW p \in Payments, FindQualified(h, p) PROVE Held'
  <2>1. /\ actor'[h].at = "approving" /\ actor'[h].of = p /\ actor[h].at = "idle"
        /\ \A g \in Hands \ {h} : actor'[g] = actor[g]
    BY <1>0, <1>17 DEF FindQualified
  <2>2. Kept => p \in beyond  BY <1>17 DEF FindQualified, Kept, Stays
  <2>3. Kept => Kept'  BY <1>17, <2>1, <2>2 DEF Kept, Stays, Slips, FindQualified
  <2> QED  BY <1>17, <2>1, <2>3, OrdinaryStep DEF FindQualified, OpenFlags
<1>18. ASSUME NEW h \in Hands, InsertCommission(h) PROVE Held'
  <2>1. /\ actor'[h].at = "idle" /\ actor[h].at = "paying"
        /\ \A g \in Hands \ {h} : actor'[g] = actor[g]
    BY <1>0, <1>18 DEF InsertCommission
  <2>2. Kept => \A p \in Payments : Stays(p)'
    <3> SUFFICES ASSUME Kept, NEW p \in Payments PROVE Stays(p)'  OBVIOUS
    <3>1. beyond' = beyond /\ Stays(p)  BY <1>18 DEF InsertCommission, Kept
    <3>2. CASE p = actor[h].of /\ commission[p] = Nil
      <4>1. commission'[p] = [status |-> "pending", manual |-> actor[h].manual]
        BY <1>18, <3>2 DEF InsertCommission, FlagsTypeOK
      <4>2. actor[h].manual \/ p \in beyond  BY <2>1, <3>2 DEF Kept, Slips
      <4> QED  BY <3>1, <4>1, <4>2 DEF Stays
    <3>3. CASE ~(p = actor[h].of /\ commission[p] = Nil)
      <4>1. commission'[p] = commission[p]
        BY <1>18, <3>3 DEF InsertCommission, FlagsTypeOK
      <4> QED  BY <3>1, <4>1 DEF Stays
    <3> QED  BY <3>2, <3>3
  <2>3. Kept => Kept'  BY <1>18, <2>1, <2>2 DEF Kept, Slips, InsertCommission
  <2> QED  BY <1>18, <2>1, <2>3, OrdinaryStep DEF InsertCommission, OpenFlags
<1>19. ASSUME NEW h \in Hands, AutoApprove(h) PROVE Held'
  <2>1. /\ actor'[h].at = "idle" /\ actor[h].at = "approving"
        /\ \A g \in Hands \ {h} : actor'[g] = actor[g]
        /\ beyond' = beyond /\ referral' = referral /\ holds' = holds /\ cut' = cut
        /\ flags' = flags
    BY <1>0, <1>19 DEF AutoApprove, Becomes
  <2>2. \A p \in Payments \ {actor[h].of} : commission'[p] = commission[p]
    BY <1>19 DEF AutoApprove, Becomes, FlagsTypeOK
  <2>3. Kept => Kept'  BY <2>1, <2>2 DEF Kept, Stays, Slips
  <2> QED  BY <2>1, <2>3, OrdinaryStep DEF OpenFlags
<1>20. ASSUME NEW h \in Hands, HandDies(h) PROVE Held'
  <2>1. /\ actor'[h].at = "idle" /\ \A g \in Hands \ {h} : actor'[g] = actor[g]
    BY <1>0, <1>20 DEF HandDies
  <2>2. CASE actor[h].at \in Reviewing
    BY <1>20, <2>2 DEF HandDies, Held, Reviewed
  <2>3. CASE actor[h].at \notin Reviewing
    <3>1. cut' = cut  BY <1>20, <2>3 DEF HandDies, FlagsTypeOK
    <3>2. Kept => Kept'  BY <1>20, <2>1, QuietStep DEF HandDies
    <3> QED  BY <1>20, <2>1, <2>3, <3>1, <3>2, OrdinaryStep DEF HandDies, OpenFlags
  <2> QED  BY <2>2, <2>3
<1>21. ASSUME NEW p \in Payments, Qualify(p) PROVE Held'
  <2>1. Kept => Kept'
    BY <1>21 DEF Qualify, Becomes, Kept, Stays, Slips, FlagsTypeOK, Statuses
  <2> QED  BY <1>21, <2>1 DEF Qualify, Becomes, Held, Reviewed, InForce, OpenFlags
<1>22. ASSUME NEW p \in Payments, Approve(p) PROVE Held'
  <2>1. Kept => Kept'  BY <1>22 DEF Approve, Kept, Stays, Slips, FlagsTypeOK
  <2> QED  BY <1>22, <2>1 DEF Approve, Held, Reviewed, InForce, OpenFlags
<1>23. ASSUME NEW p \in Payments, MakePayable(p) PROVE Held'
  <2>1. Kept => p \in beyond  BY <1>23 DEF MakePayable, Becomes, Kept, Stays
  <2>2. \A q \in Payments \ {p} : commission'[q] = commission[q]
    BY <1>23 DEF MakePayable, Becomes, FlagsTypeOK
  <2>3. Kept => Kept'
    BY <1>23, <2>1, <2>2 DEF MakePayable, Becomes, Kept, Stays, Slips
  <2> QED  BY <1>23, <2>3 DEF MakePayable, Becomes, Held, Reviewed, InForce, OpenFlags
<1>24. ASSUME UNCHANGED flagVars PROVE Held'
  BY <1>24 DEF flagVars, Held, Reviewed, InForce, Kept, Slips, OpenFlags, Stays
<1> QED
  BY <1>1, <1>2, <1>3, <1>4, <1>5, <1>6, <1>7, <1>8, <1>9, <1>10, <1>11, <1>12, <1>13, <1>14,
     <1>15, <1>16, <1>17, <1>18, <1>19, <1>20, <1>21, <1>22, <1>23, <1>24 DEF FlagsNext

-----------------------------------------------------------------------------
\* While a flag whose hold was carried out is open, the referral stays marked and every
\* commission not beyond the hold is held or reversed until a review takes the hold off, for
\* any flags, payments, requests and deaths.
THEOREM HeldUntilReviewedCorrect == FlagsSpec => []HeldUntilReviewed
<1>1. FlagsInit => FlagsInv  BY FlagsInvInit
<1>2. FlagsInv /\ [FlagsNext]_flagVars => FlagsInv'
  <2> SUFFICES ASSUME FlagsInv, [FlagsNext]_flagVars PROVE FlagsInv'  OBVIOUS
  <2>1. FlagsTypeOK' /\ Numbered'  BY FlagsTypeStep DEF FlagsInv
  <2>2. Held'  BY <2>1, HoldStep
  <2> QED  BY <2>1, <2>2 DEF FlagsInv
<1>3. FlagsInv => HeldUntilReviewed
  BY DEF FlagsInv, Held, HeldUntilReviewed, Reviewed, InForce, Kept, Stays
<1> QED  BY <1>1, <1>2, <1>3, PTL DEF FlagsSpec

-----------------------------------------------------------------------------
(***************************************************************************)
(* Applications: the partner is the approved application.                  *)
(***************************************************************************)
FormStatuses == {"absent", "pending", "changes_requested", "approved", "rejected"}
Standings == {"none", "active", "suspended"}
Decisions == {"approve", "reject", "return"}
Executions == [kind : {"none", "submit", "edit", "suspend", "reactivate"} \union Decisions,
               at : {"free", "write", "insert", "link"}, form : Forms \union {"none"},
               seen : FormStatuses \union Standings]

FormsTypeOK ==
  /\ form \in [Forms -> FormStatuses]
  /\ partner \in Standings /\ dropped \in Nat
  /\ officer \in [Officers -> Executions]

\* What a handler under way relies on: the application it is to insert is not there yet, the
\* one it edits is still sent back, and the one it has approved is approved, by it alone, and
\* is the partner's as soon as the partner is inserted.
Relies(o) ==
  LET r == officer[o] IN
  /\ r.at = "free" <=> r.kind = "none"
  /\ r.kind = "submit" =>
       /\ r.at = "write" /\ r.form \in Forms /\ form[r.form] = "absent"
       /\ \A d \in Officers \ {o} : officer[d].kind = "submit" => officer[d].form # r.form
  /\ r.kind = "edit" =>
       /\ r.at = "write" /\ r.form \in Forms /\ form[r.form] = "changes_requested"
       /\ \A d \in Officers \ {o} : officer[d].at = "free"
  /\ r.kind \in Decisions =>
       r.form \in Forms /\ r.seen \in {"pending", "changes_requested"} /\ form[r.form] # "absent"
  /\ r.at \in {"insert", "link"} =>
       /\ r.kind = "approve" /\ form[r.form] = "approved"
       /\ \A d \in Officers \ {o} : officer[d].at \in {"insert", "link"} => officer[d].form # r.form
  /\ r.at = "insert" => partner = "none" \/ r.form # source
  /\ r.at = "link" => partner # "none" /\ r.form = source
  /\ r.kind \in {"suspend", "reactivate"} => partner # "none"

\* The partner was made from an approved application; any other that is approved has a handler
\* that goes on to insert the partner or to give the approval back.
Sourced ==
  /\ partner # "none" => source \in Forms /\ form[source] = "approved"
  /\ linked \subseteq {source} /\ (partner = "none" => linked = {})

InHand(f) == \E o \in Officers : officer[o].at = "insert" /\ officer[o].form = f
Linking(f) == \E o \in Officers : officer[o].at = "link" /\ officer[o].form = f
Explained(f) ==
  form[f] = "approved" =>
    InHand(f) \/ (partner # "none" /\ f = source /\ (f \in linked \/ Linking(f)))

FormsInv ==
  /\ FormsTypeOK /\ Sourced
  /\ \A o \in Officers : Relies(o)
  /\ dropped = 0 => \A f \in Forms : Explained(f)

LEMMA FormsInvInit == FormsInit => FormsInv
<1> SUFFICES ASSUME FormsInit PROVE FormsInv  OBVIOUS
<1> USE DEF FormsInit, OffDuty
<1>1. FormsTypeOK  BY DEF FormsTypeOK, FormStatuses, Standings, Executions
<1>2. Sourced  BY DEF Sourced
<1>3. \A o \in Officers : Relies(o)  BY DEF Relies, Decisions
<1>4. \A f \in Forms : Explained(f)  BY DEF Explained
<1> QED  BY <1>1, <1>2, <1>3, <1>4 DEF FormsInv

\* Who frees itself leaves the others as they are.
LEMMA Freed ==
  ASSUME FormsTypeOK, NEW o \in Officers, Frees(o)
  PROVE  /\ officer' \in [Officers -> Executions]
         /\ officer'[o] = OffDuty
         /\ \A d \in Officers \ {o} : officer'[d] = officer[d]
<1>1. OffDuty \in Executions  BY DEF OffDuty, Executions, Standings
<1> QED  BY <1>1 DEF Frees, FormsTypeOK

\* Who starts was free, is alone with an edit, and has read the status of what it works on.
LEMMA Started ==
  ASSUME FormsTypeOK, EditAlone, NEW o \in Officers, NEW f \in Forms \union {"none"},
         NEW kind \in {"submit", "edit", "suspend", "reactivate"} \union Decisions,
         Starts(o, kind, f)
  PROVE  /\ officer[o].at = "free"
         /\ officer' \in [Officers -> Executions]
         /\ officer'[o].kind = kind /\ officer'[o].at = "write" /\ officer'[o].form = f
         /\ f \in Forms => officer'[o].seen = form[f]
         /\ \A d \in Officers \ {o} : officer'[d] = officer[d]
         /\ IF kind = "edit" THEN \A d \in Officers : officer[d].at = "free"
            ELSE \A d \in Officers : officer[d].at # "free" => officer[d].kind # "edit"
<1> DEFINE r == [kind |-> kind, at |-> "write", form |-> f,
                 seen |-> IF f \in Forms THEN form[f] ELSE partner]
<1>1. r \in Executions  BY DEF FormsTypeOK, Executions
<1>2. r.kind = kind /\ r.at = "write" /\ r.form = f /\ (f \in Forms => r.seen = form[f])
  OBVIOUS
<1>3. officer' = [officer EXCEPT ![o] = r]  BY DEF Starts
<1> HIDE DEF r
<1> QED  BY <1>1, <1>2, <1>3 DEF Starts, OnDuty, FormsTypeOK

\* Starting work changes no document and disturbs nobody.
LEMMA StartsStep ==
  ASSUME FormsInv, EditAlone, NEW o \in Officers, NEW f \in Forms \union {"none"},
         NEW kind \in {"submit", "edit", "suspend", "reactivate"} \union Decisions,
         Starts(o, kind, f), UNCHANGED <<form, linked, partnerVars, dropped>>,
         kind = "submit" => /\ f \in Forms /\ form[f] = "absent"
                            /\ \A d \in Officers : officer[d].form # f,
         kind = "edit" => f \in Forms /\ form[f] = "changes_requested",
         kind \in Decisions => f \in Forms /\ form[f] \in {"pending", "changes_requested"},
         kind \in {"suspend", "reactivate"} => partner # "none"
  PROVE  FormsInv'
<1>1. FormsTypeOK /\ Sourced /\ \A d \in Officers : Relies(d)  BY DEF FormsInv
<1>2. /\ officer[o].at = "free"
      /\ officer' \in [Officers -> Executions]
      /\ officer'[o].kind = kind /\ officer'[o].at = "write" /\ officer'[o].form = f
      /\ f \in Forms => officer'[o].seen = form[f]
      /\ \A d \in Officers \ {o} : officer'[d] = officer[d]
      /\ IF kind = "edit" THEN \A d \in Officers : officer[d].at = "free"
         ELSE \A d \in Officers : officer[d].at # "free" => officer[d].kind # "edit"
  BY <1>1, Started
<1>3. FormsTypeOK' /\ Sourced'  BY <1>1, <1>2 DEF FormsTypeOK, Sourced, partnerVars
<1>4. Relies(o)'  BY <1>1, <1>2 DEF Relies, Decisions, partnerVars
<1>5. ASSUME NEW d \in Officers \ {o} PROVE Relies(d)'
  <2>1. Relies(d) /\ officer'[d] = officer[d]  BY <1>1, <1>2
  <2> QED  BY <1>1, <1>2, <2>1 DEF Relies, Decisions, partnerVars
<1>6. dropped' = 0 => \A g \in Forms : Explained(g)'
  BY <1>2 DEF FormsInv, Explained, InHand, Linking, partnerVars
<1> QED  BY <1>3, <1>4, <1>5, <1>6 DEF FormsInv

\* Whoever ends by giving an application another status than approved spoils nothing, where
\* nobody else is to insert, edit or link it and it is not the partner's.
LEMMA EndsStep ==
  ASSUME FormsInv, NEW o \in Officers, Frees(o), officer[o].form \in Forms,
         NEW s \in {"pending", "changes_requested", "rejected"},
         form' = [form EXCEPT ![officer[o].form] = s], UNCHANGED <<linked, partnerVars, dropped>>,
         partner = "none" \/ officer[o].form # source,
         \A d \in Officers \ {o} :
           officer[d].kind \in {"submit", "edit"} \/ officer[d].at \in {"insert", "link"}
             => officer[d].form # officer[o].form
  PROVE  FormsInv'
<1> DEFINE f == officer[o].form
<1>1. FormsTypeOK /\ Sourced /\ \A d \in Officers : Relies(d)  BY DEF FormsInv
<1>2. /\ officer' \in [Officers -> Executions] /\ officer'[o] = OffDuty
      /\ \A d \in Officers \ {o} : officer'[d] = officer[d]
  BY <1>1, Freed
<1>3. /\ form' \in [Forms -> FormStatuses] /\ form'[f] = s
      /\ \A g \in Forms \ {f} : form'[g] = form[g]
  BY <1>1 DEF FormsTypeOK, FormStatuses
<1>4. FormsTypeOK' /\ Sourced'  BY <1>1, <1>2, <1>3 DEF FormsTypeOK, Sourced, partnerVars
<1>5. Relies(o)'  BY <1>2 DEF Relies, OffDuty, Decisions
<1>6. ASSUME NEW d \in Officers \ {o} PROVE Relies(d)'
  <2>1. Relies(d) /\ officer'[d] = officer[d]  BY <1>1, <1>2
  <2> QED  BY <1>2, <1>3, <2>1 DEF Relies, Decisions, OffDuty, partnerVars
<1>7. ASSUME dropped' = 0, NEW g \in Forms PROVE Explained(g)'
  <2>1. CASE g = f  BY <1>3, <2>1 DEF Explained
  <2>2. CASE g # f
    <3>1. Explained(g) /\ form'[g] = form[g]  BY <1>3, <1>7, <2>2 DEF FormsInv, partnerVars
    <3>2. InHand(g) => InHand(g)'  BY <1>2, <2>2 DEF InHand
    <3>3. Linking(g) => Linking(g)'  BY <1>2, <2>2 DEF Linking
    <3> QED  BY <3>1, <3>2, <3>3 DEF Explained, partnerVars
  <2> QED  BY <2>1, <2>2
<1> QED  BY <1>4, <1>5, <1>6, <1>7 DEF FormsInv

LEMMA InsertFormStep ==
  ASSUME FormsInv, NEW o \in Officers, InsertForm(o) \/ WriteEdit(o)
  PROVE  FormsInv'
<1> DEFINE f == officer[o].form
<1>1. FormsTypeOK /\ Sourced /\ \A d \in Officers : Relies(d)  BY DEF FormsInv
<1>2. f \in Forms /\ form[f] \in {"absent", "changes_requested"}
  BY <1>1 DEF InsertForm, WriteEdit, Relies
<1>3. partner = "none" \/ f # source  BY <1>1, <1>2 DEF Sourced
<1>4. ASSUME NEW d \in Officers \ {o}
      PROVE  officer[d].kind \in {"submit", "edit"} \/ officer[d].at \in {"insert", "link"}
               => officer[d].form # f
  <2>1. Relies(d) /\ Relies(o)  BY <1>1
  <2> QED  BY <1>2, <2>1 DEF Relies, InsertForm, WriteEdit
<1> QED  BY <1>2, <1>3, <1>4, EndsStep DEF InsertForm, WriteEdit

LEMMA TransitionStep ==
  ASSUME FormsInv, NEW o \in Officers, Transition(o)
  PROVE  FormsInv'
<1> DEFINE f == officer[o].form
<1>1. FormsTypeOK /\ Sourced /\ \A d \in Officers : Relies(d)  BY DEF FormsInv
<1>2. /\ f \in Forms /\ officer[o].seen \in {"pending", "changes_requested"}
      /\ form[f] # "absent" /\ officer[o].kind \in Decisions
  BY <1>1 DEF Transition, Relies, Decisions
<1>3. CASE form[f] # officer[o].seen
  <2>1. Frees(o) /\ UNCHANGED <<form, linked, partnerVars, dropped>>
    BY <1>3 DEF Transition, SameForm
  <2>2. /\ officer' \in [Officers -> Executions] /\ officer'[o] = OffDuty
        /\ \A d \in Officers \ {o} : officer'[d] = officer[d]
    BY <1>1, <2>1, Freed
  <2>3. FormsTypeOK' /\ Sourced'  BY <1>1, <2>1, <2>2 DEF FormsTypeOK, Sourced, partnerVars
  <2>4. ASSUME NEW d \in Officers PROVE Relies(d)'
    <3>1. Relies(d)  BY <1>1
    <3> QED  BY <2>1, <2>2, <3>1 DEF Relies, Decisions, OffDuty, partnerVars
  <2>5. officer[o].at = "write"  BY DEF Transition
  <2>6. dropped' = 0 => \A g \in Forms : Explained(g)'
    BY <2>1, <2>2, <2>5 DEF FormsInv, Explained, InHand, Linking, partnerVars
  <2> QED  BY <2>3, <2>4, <2>6 DEF FormsInv
<1>4. ASSUME form[f] = officer[o].seen
      PROVE  /\ partner = "none" \/ f # source
             /\ \A d \in Officers \ {o} : officer[d].at \in {"insert", "link"} => officer[d].form # f
             /\ \A d \in Officers \ {o} : officer[d].kind \in {"submit", "edit"} => officer[d].form # f
  <2>1. partner = "none" \/ f # source  BY <1>1, <1>2, <1>4 DEF Sourced
  <2>2. ASSUME NEW d \in Officers \ {o}
        PROVE  /\ officer[d].at \in {"insert", "link"} => officer[d].form # f
               /\ officer[d].kind \in {"submit", "edit"} => officer[d].form # f
    <3>1. Relies(d) /\ officer[o].at # "free"  BY <1>1 DEF Transition
    <3> QED  BY <1>2, <1>4, <3>1 DEF Relies
  <2> QED  BY <2>1, <2>2
<1>5. CASE form[f] = officer[o].seen /\ officer[o].kind # "approve"
  <2> DEFINE s == Decided(officer[o].kind)
  <2>1. s \in {"rejected", "changes_requested"}  BY <1>2, <1>5 DEF Decided, Decisions
  <2>2. Frees(o) /\ form' = [form EXCEPT ![f] = s] /\ UNCHANGED <<linked, partnerVars, dropped>>
    BY <1>1, <1>5 DEF Transition, SameForm, Frees, FormsTypeOK
  <2>3. \A d \in Officers \ {o} :
          officer[d].kind \in {"submit", "edit"} \/ officer[d].at \in {"insert", "link"}
            => officer[d].form # f
    BY <1>4, <1>5
  <2>4. (partner = "none" \/ f # source) /\ f \in Forms /\ officer[o].form = f
    BY <1>2, <1>4, <1>5
  <2>5. s \in {"pending", "changes_requested", "rejected"}  BY <2>1
  <2> HIDE DEF s
  <2> QED  BY <2>2, <2>3, <2>4, <2>5, EndsStep
<1>6. CASE form[f] = officer[o].seen /\ officer[o].kind = "approve"
  <2> DEFINE r == [officer[o] EXCEPT !.at = "insert"]
  <2>1. /\ r \in Executions /\ r.at = "insert" /\ r.kind = "approve" /\ r.form = f
        /\ r.seen = officer[o].seen
    BY <1>1, <1>6 DEF FormsTypeOK, Executions
  <2>2. /\ form' = [form EXCEPT ![f] = "approved"] /\ officer' = [officer EXCEPT ![o] = r]
        /\ UNCHANGED <<linked, partnerVars, dropped>>
    BY <1>6 DEF Transition, SameForm, Decided
  <2> HIDE DEF r
  <2>0. officer[o].at = "write"  BY DEF Transition
  <2>8. /\ officer' \in [Officers -> Executions] /\ officer'[o] = r
        /\ \A d \in Officers \ {o} : officer'[d] = officer[d]
    BY <1>1, <2>1, <2>2 DEF FormsTypeOK
  <2>9. /\ form' \in [Forms -> FormStatuses] /\ form'[f] = "approved"
        /\ \A g \in Forms \ {f} : form'[g] = form[g]
    BY <1>1, <1>2, <2>2 DEF FormsTypeOK, FormStatuses
  <2>3. /\ officer' \in [Officers -> Executions] /\ officer'[o] = r
        /\ \A d \in Officers \ {o} : officer'[d] = officer[d]
        /\ form' \in [Forms -> FormStatuses] /\ form'[f] = "approved"
        /\ \A g \in Forms \ {f} : form'[g] = form[g]
    BY <2>8, <2>9
  <2>4. FormsTypeOK' /\ Sourced'
    BY <1>1, <1>4, <1>6, <2>2, <2>3 DEF FormsTypeOK, Sourced, partnerVars
  <2>5. Relies(o)'
    BY <1>2, <1>4, <1>6, <2>1, <2>2, <2>3 DEF Relies, Decisions, partnerVars
  <2>6. ASSUME NEW d \in Officers \ {o} PROVE Relies(d)'
    <3>1. Relies(d) /\ officer'[d] = officer[d]  BY <1>1, <2>3
    <3>2. /\ officer[d].at \in {"insert", "link"} => officer[d].form # f
          /\ officer[d].kind \in {"submit", "edit"} => officer[d].form # f
      BY <1>4, <1>6
    <3> QED  BY <1>2, <2>0, <2>1, <2>2, <2>3, <3>1, <3>2 DEF Relies, Decisions, partnerVars
  <2>7. ASSUME dropped' = 0, NEW g \in Forms PROVE Explained(g)'
    <3>1. CASE g = f
      <4>1. InHand(g)'  BY <2>1, <2>3, <3>1 DEF InHand
      <4> QED  BY <4>1 DEF Explained
    <3>2. CASE g # f
      <4>1. Explained(g) /\ form'[g] = form[g]
        BY <2>2, <2>3, <2>7, <3>2 DEF FormsInv, partnerVars
      <4>2. (InHand(g) => InHand(g)') /\ (Linking(g) => Linking(g)')
        BY <2>3, <3>2 DEF InHand, Linking
      <4> QED  BY <2>2, <4>1, <4>2 DEF Explained, partnerVars
    <3> QED  BY <3>1, <3>2
  <2> QED  BY <2>4, <2>5, <2>6, <2>7 DEF FormsInv
<1> QED  BY <1>3, <1>5, <1>6

\* The partner is inserted once, of an application that is approved and stays so; a second
\* one's application gets its status back.
LEMMA InsertPartnerStep ==
  ASSUME FormsInv, NEW o \in Officers, InsertPartner(o)
  PROVE  FormsInv'
<1> DEFINE f == officer[o].form
<1>1. FormsTypeOK /\ Sourced /\ \A d \in Officers : Relies(d)  BY DEF FormsInv
<1>2. /\ officer[o].at = "insert" /\ officer[o].kind = "approve"
      /\ f \in Forms /\ form[f] = "approved" /\ officer[o].seen \in {"pending", "changes_requested"}
      /\ partner = "none" \/ f # source
      /\ \A d \in Officers \ {o} : officer[d].at \in {"insert", "link"} => officer[d].form # f
  BY <1>1 DEF InsertPartner, Relies, Decisions
<1>3. \A d \in Officers \ {o} : officer[d].kind \in {"submit", "edit"} => officer[d].form # f
  BY <1>1, <1>2 DEF Relies
<1>4. CASE partner # "none"
  <2> DEFINE s == officer[o].seen
  <2>1. /\ form' = [form EXCEPT ![f] = s] /\ Frees(o)
        /\ UNCHANGED <<linked, partnerVars, dropped>>
    BY <1>4 DEF InsertPartner, partnerVars
  <2>2. \A d \in Officers \ {o} :
          officer[d].kind \in {"submit", "edit"} \/ officer[d].at \in {"insert", "link"}
            => officer[d].form # f
    BY <1>2, <1>3
  <2>3. s \in {"pending", "changes_requested", "rejected"}  BY <1>2
  <2>4. officer[o].form = f /\ f \in Forms /\ (partner = "none" \/ f # source)  BY <1>2
  <2> HIDE DEF s
  <2> QED  BY <2>1, <2>2, <2>3, <2>4, EndsStep
<1>5. CASE partner = "none"
  <2> DEFINE r == [officer[o] EXCEPT !.at = "link"]
  <2>1. /\ r \in Executions /\ r.at = "link" /\ r.kind = "approve" /\ r.form = f
        /\ r.seen = officer[o].seen
    BY <1>1, <1>2 DEF FormsTypeOK, Executions
  <2>2. /\ partner' = "active" /\ source' = f /\ officer' = [officer EXCEPT ![o] = r]
        /\ UNCHANGED <<form, linked, dropped>>
    BY <1>1, <1>5 DEF InsertPartner, FormsTypeOK
  <2> HIDE DEF r
  <2>3. /\ officer' \in [Officers -> Executions] /\ officer'[o] = r
        /\ \A d \in Officers \ {o} : officer'[d] = officer[d]
    BY <1>1, <2>1, <2>2 DEF FormsTypeOK
  <2>4. FormsTypeOK' /\ Sourced'
    BY <1>1, <1>2, <1>5, <2>2, <2>3 DEF FormsTypeOK, Sourced, Standings
  <2>5. Relies(o)'  BY <1>2, <2>1, <2>2, <2>3 DEF Relies, Decisions
  <2>6. ASSUME NEW d \in Officers \ {o} PROVE Relies(d)'
    <3>1. Relies(d) /\ officer'[d] = officer[d]  BY <1>1, <2>3
    <3> QED  BY <1>2, <1>5, <2>1, <2>2, <2>3, <3>1 DEF Relies, Decisions
  <2>7. ASSUME dropped' = 0, NEW g \in Forms PROVE Explained(g)'
    <3>1. CASE g = f
      <4>1. Linking(g)'  BY <2>1, <2>3, <3>1 DEF Linking
      <4> QED  BY <2>2, <3>1, <4>1 DEF Explained
    <3>2. CASE g # f
      <4>1. Explained(g)  BY <2>2, <2>7 DEF FormsInv
      <4>2. InHand(g) => InHand(g)'  BY <2>3, <3>2 DEF InHand
      <4> QED  BY <1>5, <2>2, <4>1, <4>2 DEF Explained
    <3> QED  BY <3>1, <3>2
  <2> QED  BY <2>4, <2>5, <2>6, <2>7 DEF FormsInv
<1> QED  BY <1>4, <1>5

\* Whoever ends without touching an application or the partner's, where it has nothing left to
\* explain.
LEMMA LeavesStep ==
  ASSUME FormsInv, NEW o \in Officers, Frees(o), UNCHANGED <<form, source>>,
         partner' \in Standings, partner' = "none" <=> partner = "none",
         linked \subseteq linked', linked' \subseteq {source}, partner = "none" => linked' = {},
         dropped' \in Nat, dropped' = 0 => dropped = 0,
         dropped' = 0 /\ officer[o].at \in {"insert", "link"} => officer[o].form \in linked'
  PROVE  FormsInv'
<1>1. FormsTypeOK /\ Sourced /\ \A d \in Officers : Relies(d)  BY DEF FormsInv
<1>2. /\ officer' \in [Officers -> Executions] /\ officer'[o] = OffDuty
      /\ \A d \in Officers \ {o} : officer'[d] = officer[d]
  BY <1>1, Freed
<1>3. FormsTypeOK' /\ Sourced'  BY <1>1, <1>2 DEF FormsTypeOK, Sourced
<1>4. ASSUME NEW d \in Officers PROVE Relies(d)'
  <2>1. Relies(d)  BY <1>1
  <2> QED  BY <1>2, <2>1 DEF Relies, Decisions, OffDuty
<1>5. ASSUME dropped' = 0, NEW g \in Forms PROVE Explained(g)'
  <2>1. Explained(g)  BY <1>5 DEF FormsInv
  <2>2. InHand(g) => InHand(g)' \/ g \in linked'  BY <1>2, <1>5 DEF InHand
  <2>3. Linking(g) => Linking(g)' \/ g \in linked'  BY <1>2, <1>5 DEF Linking
  <2>4. g \in linked' => partner' # "none" /\ g = source  BY <1>3 DEF Sourced
  <2> QED  BY <2>1, <2>2, <2>3, <2>4 DEF Explained
<1> QED  BY <1>3, <1>4, <1>5 DEF FormsInv

LEMMA LinkPartnerStep ==
  ASSUME FormsInv, NEW o \in Officers, LinkPartner(o) \/ OfficerDies(o) \/ SetPartner(o)
  PROVE  FormsInv'
<1>1. FormsTypeOK /\ Sourced /\ Relies(o)  BY DEF FormsInv
<1>2. CASE LinkPartner(o)
  <2>1. partner # "none" /\ officer[o].form = source  BY <1>1, <1>2 DEF LinkPartner, Relies
  <2>2. linked' = linked \union {source} /\ linked' \subseteq {source}
    BY <1>1, <1>2, <2>1 DEF LinkPartner, Sourced
  <2> QED
    BY <1>1, <1>2, <2>1, <2>2, LeavesStep DEF LinkPartner, partnerVars, FormsTypeOK
<1>3. CASE OfficerDies(o)
  <2>1. dropped' = dropped + 1 /\ dropped \in Nat  BY <1>1, <1>3 DEF OfficerDies, FormsTypeOK
  <2>2. dropped' \in Nat /\ dropped' # 0  BY <2>1
  <2> QED
    BY <1>1, <1>3, <2>2, LeavesStep DEF OfficerDies, partnerVars, FormsTypeOK, Sourced
<1>4. CASE SetPartner(o)
  <2>1. partner # "none"  BY <1>1, <1>4 DEF SetPartner, Relies
  <2>2. partner' \in {"active", "suspended", partner}  BY <1>4 DEF SetPartner
  <2>3. partner' \in Standings /\ partner' # "none"  BY <1>1, <2>1, <2>2 DEF FormsTypeOK, Standings
  <2> QED  BY <1>1, <1>4, <2>1, <2>3, LeavesStep DEF SetPartner, FormsTypeOK, Sourced
<1> QED  BY <1>2, <1>3, <1>4

LEMMA FormsStep ==
  ASSUME FormsInv, EditAlone, [FormsNext]_formVars
  PROVE  FormsInv'
<1>1. ASSUME NEW o \in Officers, InsertForm(o) \/ WriteEdit(o) PROVE FormsInv'
  BY <1>1, InsertFormStep
<1>2. ASSUME NEW o \in Officers, Transition(o) PROVE FormsInv'  BY <1>2, TransitionStep
<1>3. ASSUME NEW o \in Officers, InsertPartner(o) PROVE FormsInv'  BY <1>3, InsertPartnerStep
<1>4. ASSUME NEW o \in Officers, LinkPartner(o) \/ OfficerDies(o) \/ SetPartner(o)
      PROVE  FormsInv'
  BY <1>4, LinkPartnerStep
<1>5. ASSUME NEW o \in Officers, NEW f \in Forms, CheckNew(o, f) PROVE FormsInv'
  BY <1>5, StartsStep DEF CheckNew, Decisions
<1>6. ASSUME NEW o \in Officers, NEW f \in Forms, CheckEdit(o, f) PROVE FormsInv'
  BY <1>6, StartsStep DEF CheckEdit, Decisions
<1>7. ASSUME NEW o \in Officers, NEW f \in Forms, NEW kind \in {"approve", "reject", "return"},
             CheckDecision(o, kind, f)
      PROVE  FormsInv'
  BY <1>7, StartsStep DEF CheckDecision, Decisions
<1>8. ASSUME NEW o \in Officers, NEW kind \in {"suspend", "reactivate"}, CheckPartner(o, kind)
      PROVE  FormsInv'
  BY <1>8, StartsStep DEF CheckPartner, Decisions
<1>9. CASE CreateKey \/ UNCHANGED formVars
  <2>1. UNCHANGED <<form, linked, partner, source, officer, dropped>>
    BY <1>9 DEF CreateKey, formVars
  <2> QED  BY <2>1 DEF FormsInv, FormsTypeOK, Sourced, Relies, Explained, InHand, Linking
<1> QED
  BY <1>1, <1>2, <1>3, <1>4, <1>5, <1>6, <1>7, <1>8, <1>9 DEF FormsNext

\* Where an edit overlaps no decision: once every handler is done, the partner comes from an
\* application that is approved, it is the only one approved, and no application is approved
\* without a partner unless a handler died, for any number of applications and decisions
\* (approve_application, app/partners/service.py).
THEOREM PartnerIsApprovedCorrect ==
  ASSUME EditAlone
  PROVE  FormsSpec => []PartnerIsApproved
<1>1. FormsInv => PartnerIsApproved
  <2> SUFFICES ASSUME FormsInv, OnDuty = {} PROVE PartnerIsApproved  BY DEF PartnerIsApproved
  <2>1. \A f \in Forms : ~InHand(f) /\ ~Linking(f)  BY DEF OnDuty, InHand, Linking
  <2>2. partner # "none" => source \in Forms /\ form[source] = "approved"
    BY DEF FormsInv, Sourced
  <2>3. ASSUME dropped = 0, NEW f \in Forms
        PROVE  form[f] = "approved" <=> (f = source /\ f \in linked)
    BY <2>1, <2>2, <2>3 DEF FormsInv, Sourced, Explained
  <2> QED  BY <2>2, <2>3 DEF PartnerIsApproved
<1>2. FormsInv /\ [FormsNext]_formVars => FormsInv'  BY FormsStep
<1> QED  BY <1>1, <1>2, FormsInvInit, PTL DEF FormsSpec
=============================================================================
