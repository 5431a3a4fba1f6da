---------------------------- MODULE PeopleProofs ----------------------------
(* Proofs about the people of an organization: its members and invitations *)
(* (Members), an account and its sessions (Accounts), its demo (Demo).     *)
EXTENDS Members, Accounts, Demo, FiniteSetTheorems, SequenceTheorems, TLAPS

-----------------------------------------------------------------------------
(***************************************************************************)
(* Members.  A request that writes a membership has checked the one it     *)
(* read; the owner's is never among those it goes on with, because no      *)
(* other step makes an owner or unmakes this one.  An invitation is        *)
(* claimed by one request, which alone then admits.                        *)
(***************************************************************************)

Roles == {"none", "owner", "admin", "member"}
Standings == {"none", "active", "inactive", "suspended", "removed"}
Memberships == [role : Roles, status : Standings]
Invitations ==
  [who : People, role : {"admin", "member"},
   status : {"pending", "accepted", "cancelled", "expired"}, late : BOOLEAN, closed : BOOLEAN,
   admitted : Nat]
Requested ==
  [op : {"none", "invite", "look", "join", "register", "update", "bulk", "role"},
   at : {"idle", "resend", "known", "count", "seats", "replace", "insert", "validate", "mark",
         "claim", "join", "find", "write", "revoke"},
   by : Roles, who : SUBSET People, role : Roles \ {"owner"}, status : Standings,
   inv : Nat, used : Nat]

MembersTypeOK ==
  /\ member \in [People -> Memberships]
  /\ accounts \subseteq People /\ signedIn \subseteq People
  /\ invites \in Seq(Invitations)
  /\ req \in [Handlers -> Requested]
  /\ \A h \in Handlers : req[h].at \in {"resend", "validate", "mark", "claim", "join"}
                           => req[h].inv \in 1 .. Len(invites)

\* Only a request that has yet to look at the memberships may be about the owner.
Spared ==
  /\ \A i \in 1 .. Len(invites) : invites[i].who # Owner
  /\ \A h \in Handlers : /\ req[h].at \notin {"known", "find"} => Owner \notin req[h].who
                         /\ req[h].op \in {"invite", "join", "register", "role"}
                              => req[h].role \in {"admin", "member"}

Joins(h, i) == req[h].at = "join" /\ req[h].inv = i

\* An invitation that may still be claimed has admitted nobody and nobody is
\* about to join with it; who is about to join does so alone.
EntryOf(i) ==
  /\ invites[i].status = "pending"
       => invites[i].admitted = 0 /\ ~invites[i].closed /\ \A h \in Handlers : ~Joins(h, i)
  /\ invites[i].admitted > 0
       => invites[i].admitted = 1 /\ ~invites[i].closed /\ \A h \in Handlers : ~Joins(h, i)
  /\ \A h \in Handlers :
       Joins(h, i) => ~invites[i].closed /\ \A g \in Handlers : Joins(g, i) => g = h

Entries == \A i \in 1 .. Len(invites) : EntryOf(i)

MembersInv == MembersTypeOK /\ Spared /\ OwnerStays /\ Entries

\* What a request may become without joining anybody.
Fit(r) ==
  /\ r \in Requested /\ r.at # "join"
  /\ r.at \in {"resend", "validate", "mark", "claim"} => r.inv \in 1 .. Len(invites)
  /\ r.at \notin {"known", "find"} => Owner \notin r.who
  /\ r.op \in {"invite", "join", "register", "role"} => r.role \in {"admin", "member"}

\* The step moves request h, and no other.
Moves(h) ==
  /\ req' \in [Handlers -> Requested] /\ Fit(req'[h])
  /\ \A g \in Handlers \ {h} : req'[g] = req[g]

-----------------------------------------------------------------------------
(* Helpers *)

LEMMA QuietRequested == Quiet \in Requested
BY DEF Quiet, Requested, Roles, Standings

LEMMA MembersInvInit == MembersInit => MembersInv
<1> SUFFICES ASSUME MembersInit PROVE MembersInv  OBVIOUS
<1> USE DEF MembersInit
<1>1. MembersTypeOK
  BY MembersAssumption, QuietRequested, EmptySeq
  DEF MembersTypeOK, Memberships, Roles, Standings, Nobody, Quiet
<1>2. Spared  BY DEF Spared, Quiet
<1>3. OwnerStays  BY DEF OwnerStays, Nobody
<1>4. Entries  BY DEF Entries
<1> QED  BY <1>1, <1>2, <1>3, <1>4 DEF MembersInv

LEMMA MoveTo ==
  ASSUME MembersTypeOK, NEW h \in Handlers, NEW r, Fit(r), req' = [req EXCEPT ![h] = r]
  PROVE  Moves(h)
BY DEF Moves, MembersTypeOK, Fit

\* A request that goes on, or ends, without writing.
LEMMA RequestStep ==
  ASSUME MembersInv, NEW h \in Handlers, Moves(h),
         UNCHANGED <<member, invites>>, accounts' \subseteq People, signedIn' \subseteq People
  PROVE  MembersInv'
<1> USE DEF MembersInv, Fit, Moves
<1>1. MembersTypeOK'  BY DEF MembersTypeOK
<1>2. Spared'  BY DEF Spared, MembersTypeOK
<1>3. OwnerStays'  BY DEF OwnerStays
<1>4. Entries'
  <2>1. \A g \in Handlers, i \in 1 .. Len(invites) : Joins(g, i)' => Joins(g, i)
    BY DEF Joins, MembersTypeOK
  <2> QED  BY <2>1 DEF Entries, EntryOf
<1> QED  BY <1>1, <1>2, <1>3, <1>4

\* Invitations change their status, but none is open again, and only an open
\* one is closed.
LEMMA InvitesStep ==
  ASSUME MembersInv,
         req' = req \/ \E h \in Handlers : Moves(h),
         UNCHANGED <<member, accounts, signedIn>>,
         invites' \in Seq(Invitations), Len(invites') = Len(invites),
         \A i \in 1 .. Len(invites) :
           /\ invites'[i].who = invites[i].who /\ invites'[i].admitted = invites[i].admitted
           /\ invites'[i].closed => invites[i].closed \/ invites[i].status = "pending"
           /\ invites'[i].status = "pending"
                => invites[i].status = "pending" /\ invites'[i].closed = invites[i].closed
  PROVE  MembersInv'
<1> USE DEF MembersInv, Fit, Moves
<1>1. MembersTypeOK'  BY DEF MembersTypeOK
<1>2. Spared'  BY DEF Spared, MembersTypeOK
<1>3. OwnerStays'  BY DEF OwnerStays
<1>4. Entries'
  <2>1. \A g \in Handlers, i \in 1 .. Len(invites) : Joins(g, i)' => Joins(g, i)
    BY DEF Joins, MembersTypeOK
  <2>2. \A i \in 1 .. Len(invites) : invites[i] \in Invitations
    BY DEF MembersTypeOK
  <2>3. ASSUME NEW i \in 1 .. Len(invites) PROVE EntryOf(i)'
    BY <2>1, <2>2 DEF Entries, EntryOf, Invitations
  <2> QED  BY <2>3 DEF Entries
<1> QED  BY <1>1, <1>2, <1>3, <1>4

LEMMA InvitedPerson ==
  ASSUME MembersInv, NEW i \in 1 .. Len(invites)
  PROVE  /\ i \in Nat /\ {invites[i].who} \in SUBSET People /\ invites[i].who # Owner
         /\ invites[i].role \in Roles \ {"owner"} /\ invites[i].role \in {"admin", "member"}
<1>1. invites[i] \in Invitations /\ Len(invites) \in Nat
  BY DEF MembersInv, MembersTypeOK
<1> QED  BY <1>1 DEF MembersInv, Spared, Invitations, Roles

\* The steps of a request that write no membership and no invitation.
LEMMA ReadingStep ==
  ASSUME MembersInv, NEW h \in Handlers,
         \/ Invite(h) \/ Resend(h) \/ Known(h) \/ CountMembers(h) \/ CountInvites(h) \/ Accept(h)
         \/ Register(h) \/ Revalidate(h) \/ Manage(h) \/ Find(h) \/ RevokeSessions(h)
         \/ ChangeRole(h) \/ Validate(h) \/ Kill(h)
  PROVE  MembersInv'
<1> USE DEF MembersInv
<1>1. req[h] \in Requested  BY DEF MembersTypeOK
<1>2. Fit(Quiet)  BY QuietRequested DEF Fit, Quiet
<1>3. ASSUME End(h) PROVE Moves(h)
  BY <1>2, <1>3 DEF End, Moves, MembersTypeOK, Fit
<1>4. ASSUME NEW at \in {"count", "seats", "replace", "insert", "validate", "mark", "claim",
                           "write", "revoke"},
             GoTo(h, at), Owner \notin req[h].who,
             at \in {"validate", "mark", "claim"} => req[h].inv \in 1 .. Len(invites)
      PROVE  Moves(h)
  BY <1>1, <1>4 DEF GoTo, Moves, MembersTypeOK, Fit, Requested, Spared
<1>5. CASE Invite(h)
  <2>p. PICK a \in Managers, p \in People, role \in {"admin", "member"} :
        req' = [req EXCEPT ![h] = [Quiet EXCEPT !.op = "invite", !.at = "known",
                                       !.by = member[a].role, !.who = {p}, !.role = role]]
    BY <1>5 DEF Invite
  <2> DEFINE r == [Quiet EXCEPT !.op = "invite", !.at = "known",
                                !.by = member[a].role, !.who = {p}, !.role = role]
  <2>0. req' = [req EXCEPT ![h] = r]  BY <2>p
  <2>1. member[a].role \in Roles  BY DEF MembersTypeOK, Managers, Memberships
  <2>2. r \in Requested  BY <2>1, QuietRequested DEF Requested, Roles
  <2>3. r.at = "known" /\ r.role \in {"admin", "member"}  BY QuietRequested DEF Requested
  <2> HIDE DEF r
  <2>4. Moves(h)  BY <2>0, <2>2, <2>3, MoveTo DEF Fit
  <2> QED  BY <1>5, <2>4, RequestStep DEF Invite, MembersTypeOK
<1>6. CASE Resend(h)
  <2>p. PICK a \in Managers, i \in 1 .. Len(invites) :
        req' = [req EXCEPT ![h] = [Quiet EXCEPT !.op = "invite", !.at = "resend", !.inv = i,
                                       !.by = member[a].role, !.who = {invites[i].who},
                                       !.role = invites[i].role]]
    BY <1>6 DEF Resend
  <2> DEFINE r == [Quiet EXCEPT !.op = "invite", !.at = "resend", !.inv = i,
                     !.by = member[a].role, !.who = {invites[i].who}, !.role = invites[i].role]
  <2>0. req' = [req EXCEPT ![h] = r]  BY <2>p
  <2>1. /\ i \in Nat /\ {invites[i].who} \in SUBSET People /\ invites[i].who # Owner
        /\ invites[i].role \in Roles \ {"owner"} /\ invites[i].role \in {"admin", "member"}
    BY InvitedPerson
  <2>2. member[a].role \in Roles  BY DEF MembersTypeOK, Managers, Memberships
  <2>3. r \in Requested  BY <2>1, <2>2, QuietRequested DEF Requested
  <2>4. r.at = "resend" /\ r.inv = i /\ r.who = {invites[i].who} /\ r.role \in {"admin", "member"}
    BY <2>1, QuietRequested DEF Requested
  <2> HIDE DEF r
  <2>5. Moves(h)  BY <2>0, <2>1, <2>3, <2>4, MoveTo DEF Fit
  <2> QED  BY <1>6, <2>5, RequestStep DEF Resend, MembersTypeOK
<1>7. CASE Known(h)
  <2>1. ASSUME End(h) PROVE MembersInv'
    BY <1>3, <1>7, <2>1, RequestStep DEF Known, MembersTypeOK
  <2>2. ASSUME \A p \in req[h].who : Invitable(p),
               req' = [req EXCEPT ![h].used = 1, ![h].at = "count"]
        PROVE  MembersInv'
    <3>1. Owner \notin req[h].who
      BY <1>1, <2>2, MembersAssumption DEF Invitable, Active, OwnerStays, Requested
    <3> DEFINE r == [req[h] EXCEPT !.used = 1, !.at = "count"]
    <3>2. req' = [req EXCEPT ![h] = r]  BY <2>2 DEF MembersTypeOK
    <3>3. r \in Requested /\ r.at = "count" /\ r.who = req[h].who /\ r.op = req[h].op
          /\ r.role = req[h].role
      BY <1>1 DEF Requested
    <3> HIDE DEF r
    <3>4. Moves(h)  BY <3>1, <3>2, <3>3, MoveTo DEF Fit, Spared
    <3> QED  BY <1>7, <3>4, RequestStep DEF Known, MembersTypeOK
  <2> QED  BY <1>7, <2>1, <2>2 DEF Known
<1>8. CASE CountMembers(h)
  <2>1. Cardinality(Counted) \in Nat
    BY MembersAssumption, FS_Subset, FS_CardinalityType DEF Counted
  <2>2. Moves(h)
    BY <1>1, <1>8, <2>1 DEF CountMembers, Moves, Fit, Requested, MembersTypeOK, Spared
  <2> QED  BY <1>8, <2>2, RequestStep DEF CountMembers, MembersTypeOK
<1>9. CASE CountInvites(h)
  <2>1. Moves(h)
    BY <1>1, <1>3, <1>4, <1>9 DEF CountInvites, Spared
  <2> QED  BY <1>9, <2>1, RequestStep DEF CountInvites, MembersTypeOK
<1>10. CASE Accept(h)
  <2>p. PICK i \in 1 .. Len(invites) :
        req' = [req EXCEPT ![h] = [Quiet EXCEPT !.op = "join", !.at = "claim", !.inv = i,
                                       !.who = {invites[i].who}, !.role = invites[i].role]]
    BY <1>10 DEF Accept
  <2> DEFINE r == [Quiet EXCEPT !.op = "join", !.at = "claim", !.inv = i,
                                !.who = {invites[i].who}, !.role = invites[i].role]
  <2>0. req' = [req EXCEPT ![h] = r]  BY <2>p
  <2>1. /\ i \in Nat /\ {invites[i].who} \in SUBSET People /\ invites[i].who # Owner
        /\ invites[i].role \in Roles \ {"owner"} /\ invites[i].role \in {"admin", "member"}
    BY InvitedPerson
  <2>2. r \in Requested  BY <2>1, QuietRequested DEF Requested
  <2>3. r.at = "claim" /\ r.inv = i /\ r.who = {invites[i].who} /\ r.role \in {"admin", "member"}
    BY <2>1, QuietRequested DEF Requested
  <2> HIDE DEF r
  <2>4. Moves(h)  BY <2>0, <2>1, <2>2, <2>3, MoveTo DEF Fit
  <2> QED  BY <1>10, <2>4, RequestStep DEF Accept, MembersTypeOK
<1>11. CASE Register(h)
  <2>p. PICK i \in 1 .. Len(invites) :
        /\ accounts' = accounts \cup {invites[i].who}
        /\ req' = [req EXCEPT ![h] = [Quiet EXCEPT !.op = "register", !.at = "validate", !.inv = i,
                                       !.who = {invites[i].who}, !.role = invites[i].role]]
    BY <1>11 DEF Register
  <2> DEFINE r == [Quiet EXCEPT !.op = "register", !.at = "validate", !.inv = i,
                                !.who = {invites[i].who}, !.role = invites[i].role]
  <2>0. req' = [req EXCEPT ![h] = r]  BY <2>p
  <2>1. /\ i \in Nat /\ {invites[i].who} \in SUBSET People /\ invites[i].who # Owner
        /\ invites[i].role \in Roles \ {"owner"} /\ invites[i].role \in {"admin", "member"}
    BY InvitedPerson
  <2>2. r \in Requested  BY <2>1, QuietRequested DEF Requested
  <2>3. r.at = "validate" /\ r.inv = i /\ r.who = {invites[i].who} /\ r.role \in {"admin", "member"}
    BY <2>1, QuietRequested DEF Requested
  <2> HIDE DEF r
  <2>4. Moves(h)  BY <2>0, <2>1, <2>2, <2>3, MoveTo DEF Fit
  <2>5. accounts' \subseteq People  BY <2>1, <2>p DEF MembersTypeOK
  <2> QED  BY <1>11, <2>4, <2>5, RequestStep DEF Register, MembersTypeOK
<1>12. CASE Revalidate(h)
  <2>1. Moves(h)
    BY <1>1, <1>3, <1>4, <1>12 DEF Revalidate, Is, Spared, MembersTypeOK
  <2> QED  BY <1>12, <2>1, RequestStep DEF Revalidate, MembersTypeOK
<1>13. CASE Manage(h)
  <2>p. PICK a \in Managers, who \in SUBSET People, role \in {"none", "admin", "member"},
           status \in {"none", "active", "inactive", "suspended", "removed"} :
       /\ who # {} /\ a \notin who /\ (role # "none" \/ status # "none")
       /\ Cardinality(who) > 1 => role = "none" /\ status \notin {"none", "removed"}
       /\ status = "removed" => role = "none"
       /\ req' = [req EXCEPT ![h] = [Quiet EXCEPT
                    !.op = IF Cardinality(who) > 1 THEN "bulk" ELSE "update", !.at = "find",
                    !.by = member[a].role, !.who = who, !.role = role, !.status = status]]
    BY Zenon, <1>13 DEF Manage
  <2> DEFINE op == IF Cardinality(who) > 1 THEN "bulk" ELSE "update"
             r  == [Quiet EXCEPT !.op = op, !.at = "find",
                    !.by = member[a].role, !.who = who, !.role = role, !.status = status]
  <2>0. req' = [req EXCEPT ![h] = r]  BY <2>p
  <2>1. op \in {"bulk", "update"}  OBVIOUS
  <2>2. member[a].role \in Roles  BY DEF MembersTypeOK, Managers, Memberships
  <2> HIDE DEF op
  <2>3. r \in Requested  BY <2>1, <2>2, QuietRequested DEF Requested, Roles, Standings
  <2>4. r.at = "find" /\ r.op = op  BY QuietRequested DEF Requested
  <2> HIDE DEF r
  <2>5. Moves(h)  BY <2>0, <2>1, <2>3, <2>4, MoveTo DEF Fit
  <2> QED  BY <1>13, <2>5, RequestStep DEF Manage, MembersTypeOK
<1>14. CASE Find(h)
  <2>1. ASSUME End(h) PROVE MembersInv'
    BY <1>3, <1>14, <2>1, RequestStep DEF Find, MembersTypeOK
  <2>2. ASSUME req' = [req EXCEPT
       ![h].who = Managed(h), ![h].used = Cardinality(Restored(h)),
       ![h].at = IF req[h].status = "active" /\ Restored(h) # {} THEN "count" ELSE "write"]
        PROVE  MembersInv'
    <3> DEFINE at == IF req[h].status = "active" /\ Restored(h) # {} THEN "count" ELSE "write"
    <3>1. Managed(h) \subseteq People /\ Owner \notin Managed(h)
      BY <1>1, MembersAssumption DEF Managed, Requested, MayManage, OwnerStays
    <3>2. Cardinality(Restored(h)) \in Nat
      BY <3>1, MembersAssumption, FS_Subset, FS_CardinalityType DEF Restored
    <3>3. at \in {"count", "write"}  OBVIOUS
    <3> HIDE DEF at
    <3>4. req' = [req EXCEPT ![h].who = Managed(h), ![h].used = Cardinality(Restored(h)), ![h].at = at]
      BY <2>2 DEF at
    <3> DEFINE r == [req[h] EXCEPT !.who = Managed(h), !.used = Cardinality(Restored(h)), !.at = at]
    <3>5. req' = [req EXCEPT ![h] = r]  BY <3>4 DEF MembersTypeOK
    <3>6. r \in Requested /\ r.at = at /\ r.who = Managed(h) /\ r.op = req[h].op
      BY <1>1, <3>1, <3>2, <3>3 DEF Requested
    <3> HIDE DEF r
    <3>7. Moves(h)  BY <1>14, <3>1, <3>3, <3>5, <3>6, MoveTo DEF Fit, Find, Is
    <3> QED  BY <1>14, <3>7, RequestStep DEF Find, MembersTypeOK
  <2> QED  BY <1>14, <2>1, <2>2 DEF Find
<1>15. CASE RevokeSessions(h)
  BY <1>3, <1>15, RequestStep DEF RevokeSessions, MembersTypeOK
<1>16. CASE ChangeRole(h)
  <2>p. PICK p \in People, role \in {"admin", "member"} :
        /\ member[p].role # "owner"
        /\ req' = [req EXCEPT ![h] = [Quiet EXCEPT !.op = "role", !.at = "write",
                                       !.who = {p}, !.role = role]]
    BY <1>16 DEF ChangeRole
  <2> DEFINE r == [Quiet EXCEPT !.op = "role", !.at = "write", !.who = {p}, !.role = role]
  <2>0. req' = [req EXCEPT ![h] = r]  BY <2>p
  <2>1. p # Owner  BY <2>p DEF OwnerStays
  <2>2. r \in Requested  BY QuietRequested DEF Requested, Roles
  <2>3. r.at = "write" /\ r.who = {p} /\ r.role = role  BY QuietRequested DEF Requested
  <2> HIDE DEF r
  <2>4. Moves(h)  BY <2>0, <2>1, <2>2, <2>3, MoveTo DEF Fit
  <2> QED  BY <1>16, <2>4, RequestStep DEF ChangeRole, MembersTypeOK
<1>17. CASE Kill(h)
  BY <1>3, <1>17, RequestStep DEF Kill, MembersTypeOK
<1>18. CASE Validate(h)
  <2>p. PICK i \in Pending :
        req' = [req EXCEPT ![h] = [Quiet EXCEPT !.op = "look", !.at = "mark", !.inv = i]]
    BY <1>18 DEF Validate
  <2> DEFINE r == [Quiet EXCEPT !.op = "look", !.at = "mark", !.inv = i]
  <2>0. req' = [req EXCEPT ![h] = r]  BY <2>p
  <2>1. i \in 1 .. Len(invites) /\ i \in Nat  BY DEF Pending, MembersTypeOK
  <2>2. r \in Requested  BY <2>1, QuietRequested DEF Requested
  <2>3. r.at = "mark" /\ r.op = "look" /\ r.who = {} /\ r.inv = i
    BY QuietRequested DEF Requested, Quiet
  <2> HIDE DEF r
  <2>4. Moves(h)  BY <2>0, <2>1, <2>2, <2>3, MoveTo DEF Fit
  <2> QED  BY <1>18, <2>4, RequestStep DEF Validate, MembersTypeOK
<1> QED
  BY <1>5, <1>6, <1>7, <1>8, <1>9, <1>10, <1>11, <1>12, <1>13, <1>14, <1>15, <1>16, <1>17, <1>18
\* Invitations that are cancelled, replaced or expire.
LEMMA ClosingStep ==
  ASSUME MembersInv,
         \/ \E h \in Handlers : CancelResent(h) \/ MarkExpired(h) \/ Replace(h)
         \/ \E i \in 1 .. Len(invites) : Revoke(i) \/ PassExpiry(i)
  PROVE  MembersInv'
<1> USE DEF MembersInv
<1>1. invites \in Seq(Invitations) /\ Len(invites) \in Nat  BY DEF MembersTypeOK
<1>2. \A i \in 1 .. Len(invites) : invites[i] \in Invitations  BY <1>1
<1>3. ASSUME NEW i \in 1 .. Len(invites), NEW s \in {"cancelled", "expired"}
      PROVE  LET c == CloseInvite(invites[i], s) IN
               /\ c \in Invitations /\ c.status = s
               /\ c.who = invites[i].who /\ c.admitted = invites[i].admitted
               /\ c.closed => invites[i].closed \/ invites[i].status = "pending"
  BY <1>2 DEF CloseInvite, Invitations
<1>4. ASSUME NEW i \in 1 .. Len(invites), NEW s \in {"cancelled", "expired"},
             invites' = [invites EXCEPT ![i] = CloseInvite(@, s)],
             UNCHANGED <<member, accounts, signedIn>>,
             req' = req \/ \E h \in Handlers : Moves(h)
      PROVE  MembersInv'
  <2> DEFINE c == CloseInvite(invites[i], s)
  <2>1. /\ c \in Invitations /\ c.status = s
        /\ c.who = invites[i].who /\ c.admitted = invites[i].admitted
        /\ c.closed => invites[i].closed \/ invites[i].status = "pending"
    BY <1>3
  <2>2. invites' = [invites EXCEPT ![i] = c]  BY <1>4
  <2> HIDE DEF c
  <2>3. invites' \in Seq(Invitations) /\ Len(invites') = Len(invites)
    BY <1>1, <2>1, <2>2, ExceptSeq
  <2>4. \A j \in 1 .. Len(invites) : invites'[j] = IF j = i THEN c ELSE invites[j]
    BY <1>1, <2>2
  <2> QED  BY <1>4, <2>1, <2>3, <2>4, InvitesStep
<1>5. ASSUME NEW h \in Handlers, CancelResent(h) PROVE MembersInv'
  <2>1. req[h] \in Requested /\ req[h].inv \in 1 .. Len(invites) /\ Owner \notin req[h].who
    BY <1>5 DEF CancelResent, Is, MembersTypeOK, Spared
  <2> DEFINE r == [req[h] EXCEPT !.at = "known"]
  <2>2. req' = [req EXCEPT ![h] = r]  BY <1>5 DEF CancelResent, GoTo
  <2>3. r \in Requested /\ r.at = "known" /\ r.op = req[h].op /\ r.role = req[h].role
    BY <2>1 DEF Requested
  <2> HIDE DEF r
  <2>4. Moves(h)  BY <2>2, <2>3, MoveTo DEF Fit, Spared
  <2> QED  BY <1>4, <1>5, <2>1, <2>4 DEF CancelResent
<1>6. ASSUME NEW h \in Handlers, Replace(h) PROVE MembersInv'
  <2>1. req[h] \in Requested /\ Owner \notin req[h].who
    BY <1>6 DEF Replace, Is, MembersTypeOK, Spared
  <2> DEFINE r == [req[h] EXCEPT !.at = "insert"]
             Changed(i) == i \in Pending /\ invites[i].who \in req[h].who
  <2>2. req' = [req EXCEPT ![h] = r]  BY <1>6 DEF Replace, GoTo
  <2>3. r \in Requested /\ r.at = "insert" /\ r.op = req[h].op /\ r.role = req[h].role
        /\ r.who = req[h].who
    BY <2>1 DEF Requested
  <2>4. invites' = [i \in 1 .. Len(invites) |->
                      IF Changed(i) THEN CloseInvite(invites[i], "cancelled") ELSE invites[i]]
    BY <1>6 DEF Replace
  <2> HIDE DEF r, Changed
  <2>5. Moves(h)  BY <2>1, <2>2, <2>3, MoveTo DEF Fit, Spared
  <2>6. \A i \in 1 .. Len(invites) :
          invites'[i] = IF Changed(i) THEN CloseInvite(invites[i], "cancelled") ELSE invites[i]
    BY <2>4
  <2>7. \A i \in 1 .. Len(invites) : invites'[i] \in Invitations
    BY <1>2, <1>3, <2>6
  <2>8. invites' \in Seq(Invitations) /\ Len(invites') = Len(invites)
    BY <1>1, <2>4, <2>7, IsASeq
  <2> QED  BY <1>3, <1>6, <2>5, <2>6, <2>8, InvitesStep DEF Replace
<1>7. ASSUME NEW i \in 1 .. Len(invites), Revoke(i) PROVE MembersInv'
  BY <1>4, <1>7 DEF Revoke
<1>8. ASSUME NEW h \in Handlers, MarkExpired(h) PROVE MembersInv'
  <2>1. Fit(Quiet)  BY QuietRequested DEF Fit, Quiet
  <2>2. Moves(h)  BY <1>8, <2>1, MoveTo DEF MarkExpired, End
  <2>3. req[h].inv \in 1 .. Len(invites)  BY <1>8 DEF MarkExpired, Is, MembersTypeOK
  <2> QED  BY <1>4, <1>8, <2>2, <2>3 DEF MarkExpired
<1>9. ASSUME NEW i \in 1 .. Len(invites), PassExpiry(i) PROVE MembersInv'
  <2> DEFINE c == [invites[i] EXCEPT !.late = TRUE]
  <2>1. /\ c \in Invitations /\ c.status = invites[i].status /\ c.closed = invites[i].closed
        /\ c.who = invites[i].who /\ c.admitted = invites[i].admitted
    BY <1>2 DEF Invitations
  <2>2. invites' = [invites EXCEPT ![i] = c]  BY <1>9 DEF PassExpiry
  <2> HIDE DEF c
  <2>3. invites' \in Seq(Invitations) /\ Len(invites') = Len(invites)
    BY <1>1, <2>1, <2>2, ExceptSeq
  <2>4. \A j \in 1 .. Len(invites) : invites'[j] = IF j = i THEN c ELSE invites[j]
    BY <1>1, <2>2
  <2> QED  BY <1>9, <2>1, <2>3, <2>4, InvitesStep DEF PassExpiry
<1> QED  BY <1>5, <1>6, <1>7, <1>8, <1>9

\* A new invitation is for somebody else than the owner, and nobody holds its number.
LEMMA InsertInviteStep ==
  ASSUME MembersInv, NEW h \in Handlers, InsertInvite(h)
  PROVE  MembersInv'
<1> USE DEF MembersInv
<1>1. invites \in Seq(Invitations) /\ Len(invites) \in Nat  BY DEF MembersTypeOK
<1>2. /\ req[h] \in Requested /\ Owner \notin req[h].who /\ req[h].role \in {"admin", "member"}
  BY DEF InsertInvite, Is, MembersTypeOK, Spared
<1>3. PICK p \in req[h].who :
        invites' = Append(invites, [who |-> p, role |-> req[h].role, status |-> "pending",
                                   late |-> FALSE, closed |-> FALSE, admitted |-> 0])
  BY DEF InsertInvite
<1> DEFINE new == [who |-> p, role |-> req[h].role, status |-> "pending",
                   late |-> FALSE, closed |-> FALSE, admitted |-> 0]
<1>4. new \in Invitations /\ new.who # Owner /\ new.status = "pending" /\ ~new.closed /\ new.admitted = 0
  BY <1>2 DEF Invitations, Requested
<1>5. invites' = Append(invites, new)  BY <1>3
<1> HIDE DEF new
<1>6. /\ invites' \in Seq(Invitations) /\ Len(invites') = Len(invites) + 1
      /\ \A i \in 1 .. Len(invites) : invites'[i] = invites[i]
      /\ invites'[Len(invites) + 1] = new
  BY <1>1, <1>4, <1>5, AppendProperties
<1>7. /\ req' \in [Handlers -> Requested] /\ req'[h] = Quiet
      /\ \A g \in Handlers \ {h} : req'[g] = req[g]
  BY QuietRequested DEF InsertInvite, End, MembersTypeOK
<1>8. MembersTypeOK'
  BY <1>1, <1>6, <1>7 DEF InsertInvite, MembersTypeOK, Quiet
<1>9. Spared'
  BY <1>1, <1>4, <1>6, <1>7 DEF Spared, Quiet
<1>10. OwnerStays'  BY DEF InsertInvite, OwnerStays
<1>11. Entries'
  <2>1. \A g \in Handlers, i \in 1 .. Len(invites') : Joins(g, i)' => Joins(g, i) /\ i \in 1 .. Len(invites)
    BY <1>7 DEF Joins, Quiet, MembersTypeOK
  <2>2. ASSUME NEW i \in 1 .. Len(invites') PROVE EntryOf(i)'
    <3>1. CASE i \in 1 .. Len(invites)
      BY <1>6, <2>1, <3>1 DEF Entries, EntryOf
    <3>2. CASE i = Len(invites) + 1
      BY <1>1, <1>4, <1>6, <2>1, <3>2 DEF EntryOf
    <3> QED  BY <1>1, <1>6, <3>1, <3>2
  <2> QED  BY <2>2 DEF Entries
<1> QED  BY <1>8, <1>9, <1>10, <1>11

\* Claiming takes an open invitation from everybody else.
LEMMA ClaimStep ==
  ASSUME MembersInv, NEW h \in Handlers, Claim(h)
  PROVE  MembersInv'
<1> USE DEF MembersInv
<1>1. /\ req[h] \in Requested /\ Owner \notin req[h].who /\ req[h].inv \in 1 .. Len(invites)
      /\ req[h].role \in {"admin", "member"}
  BY DEF Claim, Is, MembersTypeOK, Spared
<1>2. CASE ~Claimable(req[h].inv)
  <2>1. Fit(Quiet)  BY QuietRequested DEF Fit, Quiet
  <2>2. Moves(h)  BY <1>2, <2>1, MoveTo DEF Claim, End
  <2> QED  BY <1>2, <2>2, RequestStep DEF Claim, MembersTypeOK
<1>3. CASE Claimable(req[h].inv)
  <2> DEFINE n == req[h].inv
             c == [invites[n] EXCEPT !.status = "accepted"]
             r == [req[h] EXCEPT !.at = "join"]
  <2>1. invites \in Seq(Invitations) /\ Len(invites) \in Nat /\ invites[n] \in Invitations
    BY <1>1 DEF MembersTypeOK
  <2>2. /\ c \in Invitations /\ c.status = "accepted" /\ c.closed = invites[n].closed
        /\ c.who = invites[n].who /\ c.admitted = invites[n].admitted
    BY <2>1 DEF Invitations
  <2>3. r \in Requested /\ r.at = "join" /\ r.inv = n /\ r.who = req[h].who /\ r.role = req[h].role
    BY <1>1 DEF Requested
  <2>4. invites' = [invites EXCEPT ![n] = c] /\ req' = [req EXCEPT ![h] = r]
    BY <1>3 DEF Claim, GoTo
  <2>5. invites[n].status = "pending"  BY <1>3 DEF Claimable
  <2>6. n \in 1 .. Len(invites)  BY <1>1
  <2> HIDE DEF n, c, r
  <2>7. invites' \in Seq(Invitations) /\ Len(invites') = Len(invites)
    BY <2>1, <2>2, <2>4, <2>6, ExceptSeq
  <2>8. \A i \in 1 .. Len(invites) : invites'[i] = IF i = n THEN c ELSE invites[i]
    BY <2>1, <2>4
  <2>9. /\ req' \in [Handlers -> Requested] /\ req'[h] = r
        /\ \A g \in Handlers \ {h} : req'[g] = req[g]
    BY <2>3, <2>4 DEF MembersTypeOK
  <2>10. MembersTypeOK'
    BY <2>3, <2>6, <2>7, <2>9 DEF Claim, MembersTypeOK
  <2>11. Spared'
    BY <1>1, <2>2, <2>3, <2>6, <2>7, <2>8, <2>9 DEF Spared
  <2>12. OwnerStays'  BY DEF Claim, OwnerStays
  <2>13. Entries'
    <3>1. \A g \in Handlers, i \in 1 .. Len(invites) :
            Joins(g, i)' <=> IF g = h THEN i = n ELSE Joins(g, i)
      BY <2>3, <2>9 DEF Joins
    <3>2. ~Joins(h, n)  BY DEF Claim, Is, Joins
    <3>3. EntryOf(n) /\ \A i \in 1 .. Len(invites) : EntryOf(i)  BY <2>6 DEF Entries
    <3>4. ASSUME NEW i \in 1 .. Len(invites) PROVE EntryOf(i)'
      <4>1. CASE i = n
        BY <2>2, <2>5, <2>6, <2>8, <3>1, <3>3, <4>1 DEF EntryOf
      <4>2. CASE i # n
        BY <2>8, <3>1, <3>3, <4>2 DEF EntryOf
      <4> QED  BY <4>1, <4>2
    <3> QED  BY <2>7, <3>4 DEF Entries
  <2> QED  BY <2>10, <2>11, <2>12, <2>13
<1> QED  BY <1>2, <1>3

\* The one that claimed the invitation joins, and nobody joins with it again.
LEMMA JoinStep ==
  ASSUME MembersInv, NEW h \in Handlers, Join(h)
  PROVE  MembersInv'
<1> USE DEF MembersInv
<1> DEFINE n == req[h].inv
           c == [invites[n] EXCEPT !.admitted = @ + 1]
<1>1. /\ req[h] \in Requested /\ Owner \notin req[h].who /\ n \in 1 .. Len(invites)
      /\ req[h].role \in {"admin", "member"} /\ Joins(h, n)
  BY DEF Join, Is, MembersTypeOK, Spared, Joins
<1>2. invites \in Seq(Invitations) /\ Len(invites) \in Nat /\ invites[n] \in Invitations
  BY <1>1 DEF MembersTypeOK
<1>3. /\ c \in Invitations /\ c.status = invites[n].status /\ c.closed = invites[n].closed
      /\ c.who = invites[n].who /\ c.admitted = invites[n].admitted + 1
  BY <1>2 DEF Invitations
<1>4. invites' = [invites EXCEPT ![n] = c]  BY DEF Join
<1> HIDE DEF n, c
<1>5. invites' \in Seq(Invitations) /\ Len(invites') = Len(invites)
  BY <1>1, <1>2, <1>3, <1>4, ExceptSeq
<1>6. \A i \in 1 .. Len(invites) : invites'[i] = IF i = n THEN c ELSE invites[i]
  BY <1>2, <1>4
<1>7. /\ req' \in [Handlers -> Requested] /\ req'[h] = Quiet
      /\ \A g \in Handlers \ {h} : req'[g] = req[g]
  BY QuietRequested DEF Join, End, MembersTypeOK
<1>8. MembersTypeOK'
  <2>1. member' \in [People -> Memberships]
    BY <1>1 DEF Join, MembersTypeOK, Memberships, Roles, Standings
  <2>2. signedIn' \subseteq People /\ accounts' \subseteq People
    BY <1>1 DEF Join, MembersTypeOK, Requested
  <2> QED  BY <1>5, <1>7, <2>1, <2>2 DEF MembersTypeOK, Quiet
<1>9. Spared'
  BY <1>1, <1>3, <1>5, <1>6, <1>7 DEF Spared, Quiet
<1>10. OwnerStays'
  BY <1>1 DEF Join, OwnerStays, MembersTypeOK
<1>11. Entries'
  <2>1. \A g \in Handlers, i \in 1 .. Len(invites) : Joins(g, i)' => Joins(g, i) /\ g # h
    BY <1>7 DEF Joins, Quiet
  <2>2. EntryOf(n) /\ \A i \in 1 .. Len(invites) : EntryOf(i)  BY <1>1 DEF Entries
  <2>3. invites[n].status # "pending" /\ invites[n].admitted = 0 /\ ~invites[n].closed
        /\ \A g \in Handlers : Joins(g, n) => g = h
    BY <1>1, <1>2, <2>2 DEF EntryOf, Invitations
  <2>4. ASSUME NEW i \in 1 .. Len(invites) PROVE EntryOf(i)'
    <3>1. CASE i = n
      BY <1>3, <1>6, <2>1, <2>3, <3>1 DEF EntryOf
    <3>2. CASE i # n
      BY <1>6, <2>1, <2>2, <3>2 DEF EntryOf
    <3> QED  BY <3>1, <3>2
  <2> QED  BY <1>5, <2>4 DEF Entries
<1> QED  BY <1>8, <1>9, <1>10, <1>11

\* A role or a status is written for others than the owner, and no role is the owner's.
LEMMA WritingStep ==
  ASSUME MembersInv, NEW h \in Handlers, Write(h) \/ WriteRole(h)
  PROVE  MembersInv'
<1> USE DEF MembersInv
<1>1. req[h] \in Requested /\ Owner \notin req[h].who
  BY DEF Write, WriteRole, Is, MembersTypeOK, Spared
<1>2. /\ member' \in [People -> Memberships]
      /\ \A p \in People : /\ p \notin req[h].who => member'[p] = member[p]
                           /\ p \in req[h].who /\ member[p].role # "owner" => member'[p].role # "owner"
  <2>1. CASE Write(h)
    <3>1. \A p \in People : member[p] \in Memberships  BY DEF MembersTypeOK
    <3> QED  BY <1>1, <2>1, <3>1 DEF Write, Memberships, Requested, Roles
  <2>2. CASE WriteRole(h)
    <3>1. req[h].role \in {"admin", "member"}  BY <2>2 DEF WriteRole, Is, Spared
    <3>2. \A p \in People : member[p] \in Memberships  BY DEF MembersTypeOK
    <3> QED  BY <1>1, <2>2, <3>1, <3>2 DEF WriteRole, Memberships, Roles
  <2> QED  BY <2>1, <2>2
<1>3. /\ req' \in [Handlers -> Requested] /\ req'[h].at \in {"revoke", "idle"}
      /\ Owner \notin req'[h].who
      /\ req'[h].op \in {"invite", "join", "register", "role"} => req'[h].role \in {"admin", "member"}
      /\ \A g \in Handlers \ {h} : req'[g] = req[g]
  <2>1. CASE Write(h)
    BY <1>1, <2>1 DEF Write, GoTo, MembersTypeOK, Requested, Spared
  <2>2. CASE WriteRole(h)
    BY <2>2, QuietRequested DEF WriteRole, End, MembersTypeOK, Quiet
  <2> QED  BY <2>1, <2>2
<1>4. UNCHANGED <<accounts, signedIn, invites>>  BY DEF Write, WriteRole
<1>5. MembersTypeOK'  BY <1>2, <1>3, <1>4 DEF MembersTypeOK
<1>6. Spared'  BY <1>3, <1>4 DEF Spared
<1>7. OwnerStays'
  <2>1. ASSUME NEW p \in People
        PROVE  (member'[p].role = "owner" <=> p = Owner) /\ (p = Owner => member'[p].status = "active")
    <3>1. (member[p].role = "owner" <=> p = Owner) /\ (p = Owner => member[p].status = "active")
      BY DEF OwnerStays
    <3>2. CASE p \in req[h].who  BY <1>1, <1>2, <3>1, <3>2
    <3>3. CASE p \notin req[h].who  BY <1>2, <3>1, <3>3
    <3> QED  BY <3>2, <3>3
  <2> QED  BY <2>1 DEF OwnerStays
<1>8. Entries'
  <2>1. \A g \in Handlers, i \in 1 .. Len(invites) : Joins(g, i)' => Joins(g, i)
    BY <1>3 DEF Joins
  <2> QED  BY <1>4, <2>1 DEF Entries, EntryOf
<1> QED  BY <1>5, <1>6, <1>7, <1>8

LEMMA MembersInvStep == MembersInv /\ [MembersNext]_memberVars => MembersInv'
<1> SUFFICES ASSUME MembersInv, [MembersNext]_memberVars PROVE MembersInv'  OBVIOUS
<1>1. CASE UNCHANGED memberVars
  BY <1>1 DEF memberVars, MembersInv, MembersTypeOK, Spared, OwnerStays, Entries, EntryOf, Joins
<1>2. CASE \E p \in People : SignIn(p)
  BY <1>2 DEF SignIn, MembersInv, MembersTypeOK, Spared, OwnerStays, Entries, EntryOf, Joins
<1>3. CASE \E h \in Handlers : Claim(h) \/ Join(h) \/ Write(h) \/ WriteRole(h) \/ InsertInvite(h)
  BY <1>3, ClaimStep, JoinStep, WritingStep, InsertInviteStep
<1>4. CASE \/ \E h \in Handlers : CancelResent(h) \/ MarkExpired(h) \/ Replace(h)
           \/ \E i \in 1 .. Len(invites) : Revoke(i) \/ PassExpiry(i)
  BY <1>4, ClosingStep
<1>5. ASSUME NEW h \in Handlers,
         \/ Invite(h) \/ Resend(h) \/ Known(h) \/ CountMembers(h) \/ CountInvites(h) \/ Accept(h)
         \/ Register(h) \/ Revalidate(h) \/ Manage(h) \/ Find(h) \/ RevokeSessions(h)
         \/ ChangeRole(h) \/ Validate(h) \/ Kill(h)
      PROVE  MembersInv'
  BY <1>5, ReadingStep
<1> QED  BY <1>1, <1>2, <1>3, <1>4, <1>5 DEF MembersNext

\* An organization keeps its owner, and nobody else becomes one, for any
\* people, requests and invitations, however they overlap and die
\* (assert_can_manage_member, change_member_role, create_invitation).
THEOREM OwnerStaysCorrect == MembersSpec => []OwnerStays
<1>1. MembersInv => OwnerStays  BY DEF MembersInv
<1> QED  BY <1>1, MembersInvInit, MembersInvStep, PTL DEF MembersSpec

\* An invitation admits at most once, and never after it was revoked,
\* replaced or marked expired (accept_invitation claims it in one update).
THEOREM AdmitsOnceCorrect == MembersSpec => []AdmitsOnce
<1>1. MembersInv => AdmitsOnce  BY DEF MembersInv, Entries, EntryOf, AdmitsOnce
<1> QED  BY <1>1, MembersInvInit, MembersInvStep, PTL DEF MembersSpec
-----------------------------------------------------------------------------
(***************************************************************************)
(* Demo, with one decision at a time and a sweep apart from them.  A       *)
(* decision that passed its check finds the request as it was until it     *)
(* writes it itself; the organization's status is written first, so one    *)
(* that dies leaves at most an organization that has less access, or one   *)
(* whose request is still open.                                            *)
(***************************************************************************)

Serial == MaxDeciders = 1 /\ SweepAlone

Requests == {"none", "pending", "approved", "extended", "rejected", "cancelled", "converted"}
Deciders1 ==
  [kind : {"none", "approve", "reject", "extend", "cancel", "convert"},
   at : {"idle", "load", "org", "owner", "tokens", "request"},
   days : BOOLEAN, tokens : BOOLEAN, seen : Requests]

DemoTypeOK ==
  /\ request \in Requests
  /\ org \in {"none", "pending", "demo", "rejected", "cancelled", "active"}
  /\ owner \in {"none", "pending_approval", "active", "rejected"}
  /\ ends \in {"none", "far", "soon", "over"} /\ told \subseteq {"expired", "expiring"}
  /\ decider \in [Deciders -> Deciders1]
  /\ sweep \in {"none", "expired", "expiring"} /\ subscribed \in BOOLEAN /\ losses \in Nat

OneDecides ==
  \A c, d \in Deciders : decider[c].at # "idle" /\ decider[d].at # "idle" => c = d

\* The sweep meets no decision, and says of a demo that it ended only if it did.
Swept ==
  /\ sweep # "none" => \A d \in Deciders : decider[d].at = "idle"
  /\ sweep = "expired" => ends = "over"
  /\ "expired" \in told => ends = "over"

\* How far a decision has come, in the order of its writes.
Underway(r) ==
  /\ r.at # "idle" => request # "none" /\ r.kind # "none"
  /\ r.at \in {"org", "owner", "tokens", "request"} /\ r.kind # "convert" =>
       request \in Accepts(r.kind) /\ r.seen = request
  /\ r.at = "owner" => r.kind \in {"approve", "reject", "cancel", "convert"}
  /\ r.at = "tokens" => r.kind \in {"approve", "extend", "convert"}
  /\ r.at \in {"owner", "tokens", "request"} =>
       /\ r.kind = "approve" => org = "demo"
       /\ r.kind = "extend" /\ losses = 0 => org = "demo"
       /\ r.kind = "reject" => org = "rejected"
       /\ r.kind = "cancel" => org = "cancelled"
  /\ r.at \in {"tokens", "request"} /\ r.kind = "approve" => owner = "active"
  /\ r.at # "idle" /\ r.kind = "convert" =>
       /\ subscribed
       /\ r.at = "request" => request \in Accepts("convert")
       /\ r.at # "org" => org = "active"
       /\ r.at \notin {"org", "owner"} /\ request \in Accepts("convert") /\ losses = 0 =>
            owner = "active"

Withdrawing == \E d \in Deciders : decider[d].kind = "cancel" /\ decider[d].at \in {"owner", "request"}
Refusing == \E d \in Deciders : decider[d].kind \in {"reject", "cancel"} /\ decider[d].at = "request"
Converting == \E d \in Deciders : decider[d].kind = "convert" /\ decider[d].at # "idle"

\* What the request's status says about the organization and its owner.
Decided1 ==
  /\ request = "none" => org = "none" /\ ~subscribed
  /\ ~subscribed =>
       /\ request = "rejected" => org = "rejected"
       /\ request = "cancelled" => org = "cancelled"
  /\ losses = 0 =>
       /\ request = "pending" => owner \in {"pending_approval", "active"} \/ Refusing
       /\ request \in {"approved", "extended"} =>
            owner = "active" /\ (org = "demo" \/ Withdrawing \/ Converting)
       /\ request = "converted" => owner = "active" /\ org = "active"
       /\ subscribed =>
            Converting \/ (org = "active" /\ request \in {"converted", "rejected", "cancelled"})

DemoInv ==
  /\ DemoTypeOK /\ OneDecides /\ Swept /\ Decided1
  /\ \A d \in Deciders : Underway(decider[d])

LEMMA DemoInvInit == DemoInit => DemoInv
<1> SUFFICES ASSUME DemoInit PROVE DemoInv  OBVIOUS
<1>1. Waiting \in Deciders1 /\ Waiting.at = "idle"  BY DEF Waiting, Deciders1, Requests
<1>2. DemoTypeOK  BY <1>1 DEF DemoInit, DemoTypeOK, Requests
<1>3. \A d \in Deciders : decider[d].at = "idle"  BY <1>1 DEF DemoInit
<1>4. OneDecides /\ Swept /\ Decided1  BY <1>3 DEF DemoInit, OneDecides, Swept, Decided1
<1>5. \A d \in Deciders : Underway(decider[d])  BY <1>3 DEF Underway
<1> QED  BY <1>2, <1>4, <1>5 DEF DemoInv

\* Who may decide finds nobody else deciding.
LEMMA NobodyDecides ==
  ASSUME Serial, MayDecide
  PROVE  sweep = "none" /\ \A d \in Deciders : decider[d].at = "idle"
<1>1. IsFiniteSet(Deciding)  BY DemoAssumption, FS_Subset DEF Deciding
<1>2. Cardinality(Deciding) \in Nat /\ Cardinality(Deciding) < 1
  BY <1>1, FS_CardinalityType DEF Serial, MayDecide
<1>3. Deciding = {}  BY <1>1, <1>2, FS_EmptySet
<1> QED  BY <1>3 DEF Deciding, Serial, MayDecide

\* The step of the one decision there is: it leads to r.
LEMMA DecisionStep ==
  ASSUME DemoInv, NEW d \in Deciders, NEW r \in Deciders1,
         \A e \in Deciders \ {d} : decider[e].at = "idle",
         decider' = [decider EXCEPT ![d] = r],
         Underway(r)',
         sweep' = sweep, sweep = "none" \/ r.at = "idle", ends' = "over" \/ UNCHANGED ends \/ sweep = "none",
         "expired" \in told' => ends' = "over"
  PROVE  /\ OneDecides' /\ Swept' /\ \A e \in Deciders : Underway(decider[e])'
         /\ decider' \in [Deciders -> Deciders1]
         /\ Withdrawing' <=> r.kind = "cancel" /\ r.at \in {"owner", "request"}
         /\ Converting' <=> r.kind = "convert" /\ r.at # "idle"
         /\ Refusing' <=> r.kind \in {"reject", "cancel"} /\ r.at = "request"
<1>1. decider \in [Deciders -> Deciders1]  BY DEF DemoInv, DemoTypeOK
<1>2. decider'[d] = r /\ \A e \in Deciders \ {d} : decider'[e] = decider[e] /\ decider'[e].at = "idle"
  BY <1>1
<1>3. OneDecides'  BY <1>2 DEF OneDecides
<1>4. Swept'  BY <1>2 DEF DemoInv, Swept
<1>5. ASSUME NEW e \in Deciders PROVE Underway(decider[e])'
  BY <1>2 DEF Underway
<1>6. Withdrawing' <=> r.kind = "cancel" /\ r.at \in {"owner", "request"}
  BY <1>2 DEF Withdrawing
<1>7. Converting' <=> r.kind = "convert" /\ r.at # "idle"
  BY <1>2 DEF Converting
<1>8. Refusing' <=> r.kind \in {"reject", "cancel"} /\ r.at = "request"
  BY <1>2 DEF Refusing
<1> QED  BY <1>1, <1>3, <1>4, <1>5, <1>6, <1>7, <1>8

\* A decision begins: by hand, with the sign-up, or by a paid subscription.
LEMMA BeginStep ==
  ASSUME Serial, DemoInv, NEW d \in Deciders,
         \/ SignUp(d) \/ ConfirmPaid(d)
         \/ \E kind \in {"approve", "reject", "extend", "cancel"}, days, more \in BOOLEAN :
              Decide(d, kind, days, more)
  PROVE  DemoInv'
<1>1. MayDecide  BY DEF SignUp, ConfirmPaid, Decide
<1>2. sweep = "none" /\ \A e \in Deciders : decider[e].at = "idle"  BY <1>1, NobodyDecides
<1>3. ~Withdrawing /\ ~Converting /\ ~Refusing  BY <1>2 DEF Withdrawing, Converting, Refusing
<1> USE DEF DemoInv
<1>4. Waiting \in Deciders1  BY DEF Waiting, Deciders1, Requests
<1>5. decider \in [Deciders -> Deciders1]  BY DEF DemoTypeOK
<1>6. CASE SignUp(d)
  <2>1. DemoTypeOK' /\ (UNCHANGED decider \/ decider' = [decider EXCEPT ![d] = [Waiting EXCEPT !.kind = "approve", !.at = "load"]])
    <3>1. [Waiting EXCEPT !.kind = "approve", !.at = "load"] \in Deciders1
      BY <1>4 DEF Deciders1
    <3> QED  BY <1>5, <1>6, <3>1 DEF SignUp, DemoTypeOK, Requests
  <2>2. Decided1'  BY <1>6 DEF SignUp, Decided1
  <2>3. CASE UNCHANGED decider
    BY <1>2, <1>6, <2>1, <2>2, <2>3 DEF SignUp, OneDecides, Swept, Underway
  <2>4. CASE decider' = [decider EXCEPT ![d] = [Waiting EXCEPT !.kind = "approve", !.at = "load"]]
    <3> DEFINE r == [Waiting EXCEPT !.kind = "approve", !.at = "load"]
    <3>1. r \in Deciders1 /\ r.kind = "approve" /\ r.at = "load"
      BY <1>4 DEF Deciders1
    <3>2. decider' = [decider EXCEPT ![d] = r]  BY <2>4
    <3> HIDE DEF r
    <3>3. Underway(r)'  BY <1>6, <3>1 DEF SignUp, Underway
    <3> QED  BY <1>2, <1>6, <2>1, <2>2, <3>1, <3>2, <3>3, DecisionStep DEF SignUp, Swept
  <2> QED  BY <2>1, <2>3, <2>4
<1>7. ASSUME NEW kind \in {"approve", "reject", "extend", "cancel"}, NEW days \in BOOLEAN,
             NEW more \in BOOLEAN, Decide(d, kind, days, more)
      PROVE  DemoInv'
  <2> DEFINE r == [kind |-> kind, at |-> "load", days |-> days, tokens |-> more, seen |-> "none"]
  <2>1. r \in Deciders1 /\ r.kind = kind /\ r.at = "load"  BY DEF Deciders1, Requests
  <2>2. decider' = [decider EXCEPT ![d] = r]  BY <1>7 DEF Decide
  <2> HIDE DEF r
  <2>3. UNCHANGED <<records, sweep, subscribed, losses>> /\ request # "none"  BY <1>7 DEF Decide
  <2>4. Underway(r)'  BY <2>1, <2>3 DEF records, Underway
  <2>5. /\ OneDecides' /\ Swept' /\ \A e \in Deciders : Underway(decider[e])'
        /\ decider' \in [Deciders -> Deciders1] /\ ~Withdrawing' /\ ~Converting'
    BY <1>2, <2>1, <2>2, <2>3, <2>4, DecisionStep DEF records, Swept
  <2>6. DemoTypeOK'  BY <2>3, <2>5 DEF records, DemoTypeOK
  <2>7. Decided1'  BY <1>3, <2>3, <2>5 DEF records, Decided1
  <2> QED  BY <2>5, <2>6, <2>7
<1>8. CASE ConfirmPaid(d)
  <2> DEFINE r == [Waiting EXCEPT !.kind = "convert", !.at = "org"]
  <2>1. r \in Deciders1 /\ r.kind = "convert" /\ r.at = "org"  BY <1>4 DEF Deciders1
  <2>2. decider' = [decider EXCEPT ![d] = r]  BY <1>8 DEF ConfirmPaid
  <2> HIDE DEF r
  <2>3. UNCHANGED <<records, sweep, losses>> /\ request # "none" /\ subscribed'
    BY <1>8 DEF ConfirmPaid
  <2>4. Underway(r)'  BY <2>1, <2>3 DEF records, Underway
  <2>5. /\ OneDecides' /\ Swept' /\ \A e \in Deciders : Underway(decider[e])'
        /\ decider' \in [Deciders -> Deciders1] /\ ~Withdrawing' /\ Converting'
    BY <1>2, <2>1, <2>2, <2>3, <2>4, DecisionStep DEF records, Swept
  <2>6. DemoTypeOK'  BY <1>8, <2>3, <2>5 DEF ConfirmPaid, records, DemoTypeOK
  <2>7. Decided1'  BY <1>3, <2>3, <2>5 DEF records, Decided1
  <2> QED  BY <2>5, <2>6, <2>7
<1> QED  BY <1>6, <1>7, <1>8

LEMMA LoadStep ==
  ASSUME Serial, DemoInv, NEW d \in Deciders, Load(d)
  PROVE  DemoInv'
<1> USE DEF DemoInv
<1>1. decider[d] \in Deciders1 /\ Underway(decider[d]) /\ \A e \in Deciders \ {d} : decider[e].at = "idle"
  BY DEF Load, OneDecides, DemoTypeOK
<1>2. Waiting \in Deciders1 /\ Waiting.at = "idle"  BY DEF Waiting, Deciders1, Requests
<1>q. PICK q : q = decider[d]  OBVIOUS
<1>s. PICK s : s = [q EXCEPT !.at = IF q.kind = "convert" THEN "request" ELSE "org", !.seen = request]
  OBVIOUS
<1>r. PICK r : r = IF request \in Accepts(q.kind) THEN s ELSE Waiting  OBVIOUS
<1>3. request \in Accepts(q.kind) =>
        s \in Deciders1 /\ s.kind = q.kind /\ s.seen = request
        /\ s.at = IF q.kind = "convert" THEN "request" ELSE "org"
  BY <1>1, <1>q, <1>s DEF Deciders1, DemoTypeOK
<1>4. decider' = [decider EXCEPT ![d] = r]  BY <1>q, <1>s, <1>r DEF Load
<1>5. UNCHANGED <<request, org, owner, ends, tokens, told, sweep, subscribed, losses>>
  BY DEF Load, records
<1>6. q.at = "load" /\ q.kind # "none" /\ request # "none" /\ (q.kind = "convert" => subscribed)
  BY <1>1, <1>q DEF Load, Underway
<1>7. r \in Deciders1  BY <1>2, <1>3, <1>r
<1>8. Underway(r)'
  BY <1>1, <1>2, <1>3, <1>5, <1>6, <1>q, <1>r DEF Underway, Accepts
<1>9. ~Withdrawing /\ ~Refusing /\ (Converting => q.kind = "convert")
  BY <1>1, <1>6, <1>q DEF Withdrawing, Refusing, Converting
<1>10. /\ OneDecides' /\ Swept' /\ \A e \in Deciders : Underway(decider[e])'
       /\ decider' \in [Deciders -> Deciders1] /\ (Converting' <=> r.kind = "convert" /\ r.at # "idle")
  <2>1. sweep = "none"  BY <1>6, <1>q DEF Swept
  <2> QED  BY <1>1, <1>4, <1>5, <1>7, <1>8, <2>1, DecisionStep DEF Swept
<1>11. DemoTypeOK'  BY <1>5, <1>10 DEF DemoTypeOK
<1>12. Decided1'
  <2>1. CASE q.kind # "convert"  BY <1>5, <1>9, <2>1 DEF Decided1
  <2>2. CASE q.kind = "convert" /\ request \in Accepts("convert")
    <3>1. Converting'  BY <1>3, <1>10, <1>r, <2>2
    <3> QED  BY <1>5, <1>9, <3>1 DEF Decided1
  <2>3. CASE q.kind = "convert" /\ request \notin Accepts("convert")
    <3>1. org = "active"  BY <1>1, <1>6, <1>q, <2>3 DEF Underway
    <3>2. request \in {"converted", "rejected", "cancelled"}
      BY <1>6, <2>3 DEF DemoTypeOK, Requests, Accepts
    <3> QED  BY <1>5, <3>1, <3>2, <1>6, <2>3 DEF Decided1
  <2> QED  BY <2>1, <2>2, <2>3
<1> QED  BY <1>10, <1>11, <1>12

\* A decision goes on to its next write.
LEMMA GoesOn ==
  ASSUME DemoInv, NEW d \in Deciders, NEW at \in {"owner", "tokens", "load", "request"},
         decider[d].at # "idle", Next1(decider[d].kind, decider[d].at) = at,
         NEW r, r = [decider[d] EXCEPT !.at = at], Underway(r)',
         Proceed(d), sweep' = sweep, ends' = ends \/ told' = {}, told' = told \/ told' = {}
  PROVE  /\ OneDecides' /\ Swept' /\ \A e \in Deciders : Underway(decider[e])'
         /\ decider' \in [Deciders -> Deciders1]
         /\ Withdrawing' <=> decider[d].kind = "cancel" /\ at \in {"owner", "request"}
         /\ Converting' <=> decider[d].kind = "convert"
         /\ Refusing' <=> decider[d].kind \in {"reject", "cancel"} /\ at = "request"
<1> USE DEF DemoInv
<1>1. decider[d] \in Deciders1 /\ \A e \in Deciders \ {d} : decider[e].at = "idle"
  BY DEF OneDecides, DemoTypeOK
<1>2. r \in Deciders1 /\ r.at = at /\ r.kind = decider[d].kind  BY <1>1 DEF Deciders1
<1>3. decider' = [decider EXCEPT ![d] = r]  BY DEF Proceed
<1>4. sweep = "none"  BY DEF Swept
<1>5. "expired" \in told' => ends' = "over"  BY DEF Swept
<1> QED  BY <1>1, <1>2, <1>3, <1>4, <1>5, DecisionStep

\* While someone decides who was let in by the request, nobody has paid.
LEMMA NotPaid ==
  ASSUME DemoInv, NEW d \in Deciders, losses = 0, decider[d].kind # "convert",
         decider[d].at \in {"org", "owner", "tokens", "request"}
  PROVE  ~subscribed /\ ~Converting
<1> USE DEF DemoInv
<1>1. Underway(decider[d]) /\ decider[d].at # "idle"  OBVIOUS
<1>2. ~Converting  BY <1>1 DEF Converting, OneDecides
<1>3. decider[d] \in Deciders1  BY DEF DemoTypeOK
<1>4. request \in {"pending", "approved", "extended"}
  BY <1>1, <1>3 DEF Underway, Accepts, Deciders1
<1> QED  BY <1>2, <1>4 DEF Decided1

LEMMA WriteOrgStep ==
  ASSUME Serial, DemoInv, NEW d \in Deciders, WriteOrg(d)
  PROVE  DemoInv'
<1> USE DEF DemoInv
<1>q. PICK q : q = decider[d]  OBVIOUS
<1>1. q \in Deciders1 /\ Underway(q) /\ q.at = "org"
      /\ q.kind \in {"approve", "reject", "extend", "cancel", "convert"}
  BY <1>q DEF WriteOrg, DemoTypeOK, Underway, Deciders1
<1>2. PICK at \in {"owner", "tokens"} : at = Next1(q.kind, "org")
  BY <1>1 DEF Next1
<1>r. PICK r : r = [q EXCEPT !.at = at]  OBVIOUS
<1>3. r \in Deciders1 /\ r.at = at /\ r.kind = q.kind /\ r.seen = q.seen  BY <1>1, <1>r DEF Deciders1
<1>4. at = IF q.kind = "extend" THEN "tokens" ELSE "owner"  BY <1>2 DEF Next1
<1>5. losses = 0 /\ q.kind # "convert" => ~subscribed /\ ~Converting  BY <1>1, <1>q, NotPaid
<1>6. ~Withdrawing /\ ~Refusing  BY <1>1, <1>q DEF Withdrawing, Refusing, OneDecides
<1>7. /\ q.kind = "approve" => org' = "demo"
      /\ q.kind = "extend" => org' = org \/ org' = "demo"
      /\ q.kind = "extend" /\ losses = 0 => org' = "demo"
      /\ q.kind = "reject" => org' = "rejected"
      /\ q.kind = "cancel" => org' = "cancelled"
      /\ q.kind = "convert" => org' = "active"
  BY <1>1, <1>5, <1>6, <1>q DEF WriteOrg, Underway, Decided1, Accepts
<1>8. UNCHANGED <<request, owner, tokens, sweep, subscribed, losses>>
  BY DEF WriteOrg
<1>9. Underway(r)'
  BY <1>1, <1>3, <1>4, <1>7, <1>8 DEF Underway
<1>10. (ends' = ends /\ told' = told) \/ told' = {}
  BY DEF WriteOrg, NothingTold
<1>11. /\ OneDecides' /\ Swept' /\ \A e \in Deciders : Underway(decider[e])'
       /\ decider' \in [Deciders -> Deciders1]
       /\ Withdrawing' <=> q.kind = "cancel" /\ at \in {"owner", "request"}
       /\ Converting' <=> q.kind = "convert"
  <2>1. Proceed(d)  BY DEF WriteOrg
  <2> QED  BY <1>1, <1>2, <1>8, <1>9, <1>10, <1>q, <1>r, <2>1, GoesOn
<1>12. DemoTypeOK'
  <2>1. org' \in {"none", "pending", "demo", "rejected", "cancelled", "active"}
    BY <1>1, <1>7 DEF DemoTypeOK
  <2>2. ends' \in {"none", "far", "soon", "over"}  BY DEF WriteOrg, Prolonged, DemoTypeOK
  <2> QED  BY <1>8, <1>10, <1>11, <2>1, <2>2 DEF DemoTypeOK
<1>13. Decided1'
  <2>1. CASE q.kind = "convert"
    <3>1. subscribed /\ request # "none"  BY <1>1, <2>1 DEF Underway
    <3> QED  BY <1>6, <1>7, <1>8, <1>11, <2>1, <3>1 DEF Decided1
  <2>2. CASE q.kind # "convert"
    <3>1. request \in Accepts(q.kind)  BY <1>1, <2>2 DEF Underway
    <3> QED
      BY <1>1, <1>4, <1>5, <1>6, <1>7, <1>8, <1>11, <2>2, <3>1 DEF Decided1, Accepts
  <2> QED  BY <2>1, <2>2
<1> QED  BY <1>11, <1>12, <1>13

LEMMA WriteOwnerStep ==
  ASSUME Serial, DemoInv, NEW d \in Deciders, WriteOwner(d)
  PROVE  DemoInv'
<1> USE DEF DemoInv
<1>q. PICK q : q = decider[d]  OBVIOUS
<1>1. q \in Deciders1 /\ Underway(q) /\ q.at = "owner"
      /\ q.kind \in {"approve", "reject", "cancel", "convert"}
  BY <1>q DEF WriteOwner, DemoTypeOK, Underway
<1>2. PICK at \in {"tokens", "request"} : at = Next1(q.kind, "owner")
  BY <1>1 DEF Next1
<1>r. PICK r : r = [q EXCEPT !.at = at]  OBVIOUS
<1>3. r \in Deciders1 /\ r.at = at /\ r.kind = q.kind /\ r.seen = q.seen  BY <1>1, <1>r DEF Deciders1
<1>4. at = IF q.kind \in {"approve", "convert"} THEN "tokens" ELSE "request"  BY <1>2 DEF Next1
<1>5. losses = 0 /\ q.kind # "convert" => ~subscribed /\ ~Converting  BY <1>1, <1>q, NotPaid
<1>6. ~Refusing  BY <1>1, <1>q DEF Refusing, OneDecides
<1>7. /\ owner' \in {"none", "pending_approval", "active", "rejected"}
      /\ q.kind = "approve" => owner' = "active"
      /\ q.kind = "cancel" /\ request # "pending" => owner' = owner
      /\ q.kind = "convert" => owner' = IF owner = "pending_approval" THEN "active" ELSE owner
  BY <1>1, <1>q DEF WriteOwner, Underway, DemoTypeOK
<1>8. UNCHANGED <<request, org, ends, tokens, told, sweep, subscribed, losses>>
  BY DEF WriteOwner
<1>9. q.kind = "convert" /\ request \in Accepts("convert") /\ losses = 0 => owner' = "active"
  BY <1>6, <1>7 DEF Decided1, Accepts
<1>10. Underway(r)'
  BY <1>1, <1>3, <1>4, <1>7, <1>8, <1>9 DEF Underway
<1>11. /\ OneDecides' /\ Swept' /\ \A e \in Deciders : Underway(decider[e])'
       /\ decider' \in [Deciders -> Deciders1]
       /\ Withdrawing' <=> q.kind = "cancel" /\ at \in {"owner", "request"}
       /\ Converting' <=> q.kind = "convert"
       /\ Refusing' <=> q.kind \in {"reject", "cancel"} /\ at = "request"
  <2>1. Proceed(d)  BY DEF WriteOwner
  <2> QED  BY <1>1, <1>2, <1>8, <1>10, <1>q, <1>r, <2>1, GoesOn
<1>12. DemoTypeOK'  BY <1>7, <1>8, <1>11 DEF DemoTypeOK
<1>13. Decided1'
  <2>1. CASE q.kind = "convert"
    <3>1. subscribed /\ request # "none" /\ org = "active"  BY <1>1, <2>1 DEF Underway
    <3>2. owner = "active" => owner' = "active"  BY <1>7, <2>1
    <3> QED  BY <1>6, <1>8, <1>9, <1>11, <2>1, <3>1, <3>2 DEF Decided1, Accepts
  <2>2. CASE q.kind # "convert"
    <3>1. request \in Accepts(q.kind)  BY <1>1, <2>2 DEF Underway
    <3> QED
      BY <1>1, <1>4, <1>5, <1>6, <1>7, <1>8, <1>11, <2>2, <3>1 DEF Decided1, Accepts
  <2> QED  BY <2>1, <2>2
<1> QED  BY <1>11, <1>12, <1>13

LEMMA WriteTokensStep ==
  ASSUME Serial, DemoInv, NEW d \in Deciders, WriteTokens(d)
  PROVE  DemoInv'
<1> USE DEF DemoInv
<1>q. PICK q : q = decider[d]  OBVIOUS
<1>1. q \in Deciders1 /\ Underway(q) /\ q.at = "tokens" /\ q.kind \in {"approve", "extend", "convert"}
  BY <1>q DEF WriteTokens, DemoTypeOK, Underway
<1>2. PICK at \in {"load", "request"} : at = Next1(q.kind, "tokens")
  BY <1>1 DEF Next1
<1>r. PICK r : r = [q EXCEPT !.at = at]  OBVIOUS
<1>3. r \in Deciders1 /\ r.at = at /\ r.kind = q.kind /\ r.seen = q.seen
  BY <1>1, <1>r DEF Deciders1
<1>4. at = IF q.kind = "convert" THEN "load" ELSE "request"  BY <1>2 DEF Next1
<1>5. UNCHANGED <<request, org, owner, ends, told, sweep, subscribed, losses>>
  BY DEF WriteTokens
<1>6. Underway(r)'  BY <1>1, <1>3, <1>4, <1>5 DEF Underway
<1>7. /\ OneDecides' /\ Swept' /\ \A e \in Deciders : Underway(decider[e])'
      /\ decider' \in [Deciders -> Deciders1] /\ (Converting' <=> q.kind = "convert")
  <2>1. Proceed(d)  BY DEF WriteTokens
  <2> QED  BY <1>1, <1>2, <1>5, <1>6, <1>q, <1>r, <2>1, GoesOn
<1>8. ~Withdrawing /\ ~Refusing /\ (Converting => q.kind = "convert")
  BY <1>1, <1>q DEF Withdrawing, Refusing, Converting, OneDecides
<1>9. Decided1'  BY <1>5, <1>7, <1>8 DEF Decided1
<1>10. DemoTypeOK'  BY <1>5, <1>7 DEF DemoTypeOK
<1> QED  BY <1>7, <1>9, <1>10

LEMMA WriteRequestStep ==
  ASSUME Serial, DemoInv, NEW d \in Deciders, WriteRequest(d)
  PROVE  DemoInv'
<1> USE DEF DemoInv
<1>q. PICK q : q = decider[d]  OBVIOUS
<1>1. q \in Deciders1 /\ Underway(q) /\ q.at = "request"
      /\ q.kind \in {"approve", "reject", "extend", "cancel", "convert"}
  BY <1>q DEF WriteRequest, DemoTypeOK, Underway, Deciders1
<1>2. Waiting \in Deciders1 /\ Waiting.at = "idle"  BY DEF Waiting, Deciders1, Requests
<1>3. \A e \in Deciders \ {d} : decider[e].at = "idle"  BY <1>1, <1>q DEF OneDecides
<1>4. UNCHANGED <<org, ends, tokens, told, sweep, subscribed, losses>>
      /\ decider' = [decider EXCEPT ![d] = Waiting]
  BY DEF WriteRequest
<1>5. request' = CASE q.kind = "approve" -> "approved"
                  [] q.kind = "reject"  -> "rejected"
                  [] q.kind = "extend"  -> "extended"
                  [] q.kind = "cancel"  -> "cancelled"
                  [] q.kind = "convert" -> "converted"
  BY <1>q DEF WriteRequest
<1>6. owner' = owner \/ (owner' = "active" /\ q.kind = "convert")
  BY <1>q DEF WriteRequest
<1>7. Underway(Waiting)'  BY <1>2 DEF Underway
<1>8. /\ OneDecides' /\ Swept' /\ \A e \in Deciders : Underway(decider[e])'
      /\ decider' \in [Deciders -> Deciders1]
  BY <1>2, <1>3, <1>4, <1>7, DecisionStep DEF Swept
<1>9. DemoTypeOK'  BY <1>1, <1>4, <1>5, <1>6, <1>8 DEF DemoTypeOK, Requests
<1>10. Decided1'
  <2>1. CASE q.kind = "convert"
    <3>1. subscribed /\ org = "active" /\ request' = "converted"
      BY <1>1, <1>5, <2>1 DEF Underway
    <3>2. losses = 0 => owner' = "active"  BY <1>1, <1>6, <2>1 DEF Underway
    <3> QED  BY <1>4, <3>1, <3>2 DEF Decided1
  <2>2. CASE q.kind # "convert"
    <3>1. losses = 0 => ~subscribed  BY <1>1, <1>q, <2>2, NotPaid
    <3>2. request \in Accepts(q.kind) /\ owner' = owner  BY <1>1, <1>6, <2>2 DEF Underway
    <3>3. q.kind = "extend" /\ losses = 0 => owner = "active"
      BY <3>2 DEF Decided1, Accepts
    <3> QED  BY <1>1, <1>4, <1>5, <2>2, <3>1, <3>2, <3>3 DEF Decided1, Underway
  <2> QED  BY <2>1, <2>2
<1> QED  BY <1>8, <1>9, <1>10

LEMMA LosesStep ==
  ASSUME Serial, DemoInv, NEW d \in Deciders, Loses(d)
  PROVE  DemoInv'
<1> USE DEF DemoInv
<1>1. decider[d].at # "idle"  BY DEF Loses
<1>2. Waiting \in Deciders1 /\ Waiting.at = "idle"  BY DEF Waiting, Deciders1, Requests
<1>3. \A e \in Deciders \ {d} : decider[e].at = "idle"  BY <1>1 DEF OneDecides
<1>4. UNCHANGED <<request, org, owner, ends, tokens, told, sweep, subscribed>> /\ losses' = losses + 1
      /\ decider' = [decider EXCEPT ![d] = Waiting]
  BY DEF Loses, records
<1>5. Underway(Waiting)'  BY <1>2 DEF Underway
<1>6. /\ OneDecides' /\ Swept' /\ \A e \in Deciders : Underway(decider[e])'
      /\ decider' \in [Deciders -> Deciders1]
  BY <1>2, <1>3, <1>4, <1>5, DecisionStep DEF Swept
<1>7. DemoTypeOK'  BY <1>4, <1>6 DEF DemoTypeOK
<1>8. losses' # 0  BY <1>4 DEF DemoTypeOK
<1>9. Decided1'  BY <1>4, <1>8 DEF Decided1
<1> QED  BY <1>6, <1>7, <1>9

LEMMA DemoInvStep ==
  ASSUME Serial, DemoInv, [DemoNext]_demoVars
  PROVE  DemoInv'
<1>1. ASSUME NEW d \in Deciders,
             \/ SignUp(d) \/ ConfirmPaid(d)
             \/ \E kind \in {"approve", "reject", "extend", "cancel"}, days, more \in BOOLEAN :
                  Decide(d, kind, days, more)
      PROVE  DemoInv'
  BY <1>1, BeginStep
<1>2. ASSUME NEW d \in Deciders, \/ Load(d) \/ WriteOrg(d) \/ WriteOwner(d) \/ WriteTokens(d)
                                 \/ WriteRequest(d) \/ Loses(d)
      PROVE  DemoInv'
  BY <1>2, LoadStep, WriteOrgStep, WriteOwnerStep, WriteTokensStep, WriteRequestStep, LosesStep
<1> USE DEF DemoInv
<1>3. CASE TimePasses
  <2>1. UNCHANGED <<request, org, owner, told, decider, sweep, subscribed, losses>>
        /\ ends' \in {"soon", "over"} /\ ends # "over"
    BY <1>3 DEF TimePasses
  <2> QED  BY <2>1 DEF DemoTypeOK, OneDecides, Swept, Decided1, Withdrawing, Converting, Refusing, Underway
<1>4. CASE SweepReads
  <2>1. \A d \in Deciders : decider[d].at = "idle"  BY <1>4 DEF SweepReads, Serial, Deciding
  <2>2. UNCHANGED <<request, org, owner, ends, tokens, told, decider, subscribed, losses>>
        /\ sweep' = Owed
    BY <1>4 DEF SweepReads, records
  <2>3. sweep' \in {"none", "expired", "expiring"} /\ (sweep' = "expired" => ends = "over")
    BY <2>2 DEF Owed
  <2> QED  BY <2>1, <2>2, <2>3 DEF DemoTypeOK, OneDecides, Swept, Decided1, Withdrawing, Converting, Refusing, Underway
<1>5. CASE SweepTells
  <2>1. UNCHANGED <<request, org, owner, ends, tokens, decider, subscribed, losses>>
        /\ told' = told \cup {sweep} /\ sweep' = "none" /\ sweep # "none"
    BY <1>5 DEF SweepTells
  <2> QED  BY <2>1 DEF DemoTypeOK, OneDecides, Swept, Decided1, Withdrawing, Converting, Refusing, Underway
<1>6. CASE UNCHANGED demoVars
  BY <1>6 DEF demoVars, DemoTypeOK, OneDecides, Swept, Decided1, Withdrawing, Converting, Refusing, Underway
<1> QED  BY <1>1, <1>2, <1>3, <1>4, <1>5, <1>6 DEF DemoNext

\* Where decisions come one at a time and the sweep apart from them: who was
\* refused or cancelled and has not paid has no access, wherever a decision
\* died; who was approved has it unless one died, a paid organization is
\* ended by no decision about its demo, and nobody is told that a demo ended
\* which has not (app/lifecycle/demo.py, maintenance.py).
THEOREM AccessIsDecidedCorrect ==
  ASSUME Serial
  PROVE  DemoSpec => []AccessIsDecided
<1>1. DemoInv => AccessIsDecided
  <2> SUFFICES ASSUME DemoInv PROVE AccessIsDecided  OBVIOUS
  <2>1. Decided1 /\ Swept  BY DEF DemoInv
  <2>2. Deciding = {} => ~Converting /\ ~Withdrawing  BY DEF Deciding, Converting, Withdrawing
  <2> QED  BY <2>1, <2>2 DEF Decided1, Swept, AccessIsDecided, Access
<1>2. DemoInv /\ [DemoNext]_demoVars => DemoInv'  BY DemoInvStep
<1> QED  BY <1>1, <1>2, DemoInvInit, PTL DEF DemoSpec

-----------------------------------------------------------------------------
(***************************************************************************)
(* Accounts, where administrators change nothing while the account's own   *)
(* requests are busy.  A password is written before the sessions it makes  *)
(* void are revoked, so only who is about to revoke may leave others live, *)
(* and a handler that stops there goes down in lapsed.                     *)
(***************************************************************************)

AccountRecords ==
  [password : Nat, address : Nat, verified : BOOLEAN, must : BOOLEAN,
   status : {"active", "suspended"}, factor : BOOLEAN]
Sessions == [password : Nat, must : BOOLEAN, live : BOOLEAN, switched : BOOLEAN]
Desks ==
  [op : {"none", "login", "switch", "change", "reset", "address", "phone", "set", "move", "suspend", "access"},
   at : {"idle", "factor", "session", "write", "revoke", "send", "links"}, n : Nat, must : BOOLEAN]

AccountsTypeOK ==
  /\ account \in AccountRecords
  /\ sessions \in Seq(Sessions) /\ passwords \in Nat
  /\ desk \in Desks /\ admin \in Desks

\* Passwords are numbered as they are chosen, and the last is the account's.
Numbered ==
  /\ account.password = passwords
  /\ \A i \in 1 .. Len(sessions) : sessions[i].password <= passwords

\* A session of this password, restricted or not, and opened by a switch or
\* not, is there rightly, or because those before it did not revoke it.
Rightly(password, must, switched, spared) ==
  /\ \A n \in Nat : password < n /\ n <= account.password => n \in lapsed \cup spared
  /\ account.must /\ password = account.password => must \/ switched

\* A login holds the password it compared, a switch that of the session it
\* replaces, a change the number of its session.
AtDesk ==
  /\ desk.at # "idle" => admin.at = "idle"
  /\ desk.at = "factor" => desk.op = "login"
  /\ desk.at = "session" => desk.op \in {"login", "switch"}
  /\ desk.op = "login" /\ desk.at \in {"factor", "session"} => desk.n = account.password
  /\ desk.at = "session" =>
       /\ desk.n <= account.password
       /\ Rightly(desk.n, desk.must, desk.op = "switch", {})
  /\ desk.op = "change" => desk.n \in 1 .. Len(sessions)
  /\ desk.op = "change" /\ desk.at = "revoke" => ~account.must

\* Who wrote a password has yet to revoke.
AboutToRevoke == desk.at = "revoke" \/ (admin.op = "set" /\ admin.at # "idle")

Standing(spared) ==
  \A i \in Live : Rightly(sessions[i].password, sessions[i].must, sessions[i].switched, spared)
Stand == (~AboutToRevoke => Standing({})) /\ Standing({account.password})

AccountsInv == AccountsTypeOK /\ Numbered /\ AtDesk /\ Stand

LEMMA AccountsInvInit == AccountsInit => AccountsInv
<1> SUFFICES ASSUME AccountsInit PROVE AccountsInv  OBVIOUS
<1>1. Off \in Desks /\ Off.at = "idle" /\ Off.op = "none"  BY DEF Off, Desks
<1>2. AccountsTypeOK  BY <1>1, EmptySeq DEF AccountsInit, AccountsTypeOK, AccountRecords
<1>3. AtDesk  BY <1>1 DEF AccountsInit, AtDesk
<1>4. Live = {} /\ Numbered  BY DEF AccountsInit, Live, Numbered
<1> QED  BY <1>2, <1>3, <1>4 DEF AccountsInv, Stand, Standing

\* Revoking keeps the sessions that are left as they are.
LEMMA RevokedSessions ==
  ASSUME AccountsTypeOK, NEW which
  PROVE  /\ Revoked(which) \in Seq(Sessions) /\ Len(Revoked(which)) = Len(sessions)
         /\ \A i \in 1 .. Len(sessions) :
              /\ Revoked(which)[i].live => i \in Live \ which /\ Revoked(which)[i] = sessions[i]
              /\ Revoked(which)[i].password = sessions[i].password
<1>1. sessions \in Seq(Sessions) /\ Len(sessions) \in Nat
      /\ \A i \in 1 .. Len(sessions) : sessions[i] \in Sessions
  BY DEF AccountsTypeOK
<1>2. \A i \in 1 .. Len(sessions) :
        Revoked(which)[i] = IF i \in which THEN [sessions[i] EXCEPT !.live = FALSE] ELSE sessions[i]
  BY DEF Revoked, All
<1>3. \A i \in 1 .. Len(sessions) : Revoked(which)[i] \in Sessions
  BY <1>1, <1>2 DEF Sessions
<1>4. Revoked(which) \in Seq(Sessions) /\ Len(Revoked(which)) = Len(sessions)
  BY <1>1, <1>3, IsASeq DEF Revoked, All
<1> QED  BY <1>1, <1>2, <1>4 DEF Live, Sessions

LEMMA OffDesk == Off \in Desks /\ Off.at = "idle" /\ Off.op = "none"
BY DEF Off, Desks

\* Sessions may be revoked at any time.
LEMMA RevokeStep ==
  ASSUME AccountsInv, NEW which, sessions' = Revoked(which),
         UNCHANGED <<account, passwords, lapsed>>,
         desk' \in Desks, admin' \in Desks, AtDesk', AboutToRevoke => AboutToRevoke'
  PROVE  AccountsInv'
<1> USE DEF AccountsInv
<1>1. /\ sessions' \in Seq(Sessions) /\ Len(sessions') = Len(sessions)
      /\ \A i \in 1 .. Len(sessions) :
           /\ sessions'[i].live => i \in Live /\ sessions'[i] = sessions[i]
           /\ sessions'[i].password = sessions[i].password
  BY RevokedSessions
<1>2. AccountsTypeOK'  BY <1>1 DEF AccountsTypeOK
<1>3. Numbered'  BY <1>1 DEF Numbered
<1>4. Stand'  BY <1>1 DEF Stand, Standing, Rightly, Live
<1> QED  BY <1>2, <1>3, <1>4

\* Nothing of an account or a session changes, and who was about to revoke is.
LEMMA SameSessions ==
  ASSUME AccountsInv, UNCHANGED <<sessions, passwords, lapsed>>,
         account' \in AccountRecords,
         account'.password = account.password, account'.must = account.must,
         desk' \in Desks, admin' \in Desks, AtDesk', AboutToRevoke => AboutToRevoke'
  PROVE  AccountsInv'
<1> USE DEF AccountsInv
<1>1. AccountsTypeOK' /\ Numbered'  BY DEF AccountsTypeOK, Numbered
<1>2. Stand'  BY DEF Stand, Standing, Rightly, Live
<1> QED  BY <1>1, <1>2

\* A handler that wrote a password goes without having revoked a session.
LEMMA LapseStep ==
  ASSUME AccountsInv, lapsed' = lapsed \cup {account.password},
         UNCHANGED <<account, sessions, passwords>>,
         desk' \in Desks, admin' \in Desks, desk'.at = "idle", desk'.op = "none" \/ desk' = desk
  PROVE  AccountsInv'
<1> USE DEF AccountsInv
<1>1. AccountsTypeOK' /\ Numbered'  BY DEF AccountsTypeOK, Numbered
<1>2. AtDesk'  BY DEF AtDesk
<1>3. Standing({account.password}) => Standing({})' /\ Standing({account.password})'
  BY DEF Standing, Rightly, Live
<1> QED  BY <1>1, <1>2, <1>3 DEF Stand

\* After all of them are revoked, none is left to stand on a password.
LEMMA RevokeAll ==
  ASSUME AccountsTypeOK, sessions' = Revoked(Live)
  PROVE  sessions' \in Seq(Sessions) /\ Len(sessions') = Len(sessions) /\ Live' = {}
BY RevokedSessions DEF Live

LEMMA LoginStep ==
  ASSUME AccountsInv, AdminAlone, Verify \/ SecondFactor \/ OpenSession \/ Switch \/ BeginChange
  PROVE  AccountsInv'
<1> USE DEF AccountsInv
<1>1. sessions \in Seq(Sessions) /\ Len(sessions) \in Nat /\ account.password \in Nat
      /\ account.must \in BOOLEAN /\ desk \in Desks /\ admin \in Desks /\ account \in AccountRecords
  BY DEF AccountsTypeOK, AccountRecords
<1>2. CASE Verify
  <2> DEFINE r == [Off EXCEPT !.op = "login", !.at = "factor", !.n = account.password]
  <2>1. r \in Desks /\ r.op = "login" /\ r.at = "factor" /\ r.n = account.password
    BY <1>1, OffDesk DEF Desks
  <2>2. desk' = r /\ UNCHANGED <<account, sessions, passwords, admin, lapsed>>
        /\ desk.at = "idle" /\ admin.at = "idle"
    BY <1>2 DEF Verify, DeskFree
  <2> HIDE DEF r
  <2>3. AtDesk'  BY <2>1, <2>2 DEF AtDesk
  <2> QED  BY <1>1, <2>1, <2>2, <2>3, SameSessions DEF AboutToRevoke
<1>3. CASE SecondFactor
  <2> DEFINE r == [desk EXCEPT !.at = "session", !.must = account.must]
  <2>1. r \in Desks /\ r.op = desk.op /\ r.at = "session" /\ r.n = desk.n /\ r.must = account.must
    BY <1>1 DEF Desks
  <2>2. (desk' = r \/ desk' = Off) /\ UNCHANGED <<account, sessions, passwords, admin, lapsed>>
        /\ desk.at = "factor" /\ admin.at = "idle" /\ desk.op = "login" /\ desk.n = account.password
    BY <1>3 DEF SecondFactor, AtDesk
  <2> HIDE DEF r
  <2>3. CASE desk' = r
    <3>1. \A n \in Nat : ~(desk'.n < n /\ n <= account'.password)
      BY <1>1, <2>1, <2>2, <2>3
    <3>2. ASSUME account'.must PROVE desk'.must
      BY <2>1, <2>2, <2>3, <3>2
    <3>4. /\ desk'.at = "session" /\ desk'.op = "login" /\ admin'.at = "idle"
          /\ desk'.n = account'.password /\ desk'.n <= account'.password
      BY <1>1, <2>1, <2>2, <2>3
    <3>3. AtDesk'  BY <3>1, <3>2, <3>4 DEF AtDesk, Rightly
    <3> QED  BY <1>1, <2>1, <2>2, <2>3, <3>3, SameSessions DEF AboutToRevoke
  <2>4. CASE desk' = Off
    <3>1. AtDesk'  BY <2>4, OffDesk DEF AtDesk
    <3> QED  BY <1>1, <2>2, <2>4, <3>1, OffDesk, SameSessions DEF AboutToRevoke
  <2> QED  BY <2>2, <2>3, <2>4
<1>4. CASE OpenSession
  <2> DEFINE new == [password |-> desk.n, must |-> desk.must, live |-> TRUE,
                     switched |-> desk.op = "switch"]
  <2>0. desk.n <= account.password /\ Rightly(desk.n, desk.must, desk.op = "switch", {})
        /\ desk.at = "session" /\ admin.at = "idle"
    BY <1>4 DEF OpenSession, AtDesk
  <2>1. new \in Sessions /\ new.password <= passwords
        /\ new.password = desk.n /\ new.must = desk.must /\ new.switched = (desk.op = "switch")
    BY <1>1, <2>0 DEF Sessions, Desks, Numbered
  <2>2. sessions' = Append(sessions, new) /\ desk' = Off
        /\ UNCHANGED <<account, passwords, admin, lapsed>>
    BY <1>4 DEF OpenSession
  <2> HIDE DEF new
  <2>3. /\ sessions' \in Seq(Sessions) /\ Len(sessions') = Len(sessions) + 1
        /\ \A i \in 1 .. Len(sessions) : sessions'[i] = sessions[i]
        /\ sessions'[Len(sessions) + 1] = new
    BY <1>1, <2>1, <2>2, AppendProperties
  <2>4. \A i \in 1 .. Len(sessions') : i \in 1 .. Len(sessions) \/ i = Len(sessions) + 1
    BY <1>1, <2>3
  <2>5. AccountsTypeOK' /\ AtDesk'  BY <2>2, <2>3, OffDesk DEF AccountsTypeOK, AtDesk
  <2>6. Numbered'  BY <2>1, <2>2, <2>3, <2>4 DEF Numbered
  <2>7. ~AboutToRevoke  BY <2>0 DEF AboutToRevoke
  <2>8. Standing({}) /\ Standing({account.password})  BY <2>7 DEF Stand
  <2>9. ASSUME NEW i \in Live' PROVE i \in Live \/ sessions'[i] = new
    BY <2>3, <2>4 DEF Live
  <2>10. ASSUME NEW spared
         PROVE  Rightly(new.password, new.must, new.switched, spared)
    BY <2>0, <2>1 DEF Rightly
  <2>11. \A i \in Live : sessions'[i] = sessions[i]  BY <2>3 DEF Live
  <2>12. Standing({})'
    <3> SUFFICES ASSUME NEW i \in Live'
                 PROVE  Rightly(sessions[i].password, sessions[i].must, sessions[i].switched, {})'
      BY DEF Standing
    <3>1. CASE i \in Live  BY <2>2, <2>8, <2>11, <3>1 DEF Standing, Rightly
    <3>2. CASE sessions'[i] = new  BY <2>2, <2>10, <3>2 DEF Rightly
    <3> QED  BY <2>9, <3>1, <3>2
  <2>13. Standing({account.password})'  BY <2>12 DEF Standing, Rightly
  <2> QED  BY <2>5, <2>6, <2>12, <2>13 DEF Stand
<1>5. CASE BeginChange
  <2>p. PICK i \in Live : desk' = [Off EXCEPT !.op = "change", !.at = "write", !.n = i]
    BY <1>5 DEF BeginChange
  <2> DEFINE r == [Off EXCEPT !.op = "change", !.at = "write", !.n = i]
  <2>0. i \in Nat /\ i \in 1 .. Len(sessions)  BY <1>1 DEF Live
  <2>1. r \in Desks /\ r.op = "change" /\ r.at = "write" /\ r.n = i
    BY <2>0, OffDesk DEF Desks
  <2>2. desk' = r /\ UNCHANGED <<account, sessions, passwords, admin, lapsed>>
        /\ desk.at = "idle" /\ admin.at = "idle"
    BY <1>5, <2>p DEF BeginChange, DeskFree
  <2> HIDE DEF r
  <2>3. AtDesk'  BY <2>0, <2>1, <2>2 DEF AtDesk
  <2> QED  BY <1>1, <2>1, <2>2, <2>3, SameSessions DEF AboutToRevoke
<1>6. CASE Switch
  <2>p. PICK i \in Live :
          /\ sessions' = Revoked({i})
          /\ desk' = [op |-> "switch", at |-> "session", n |-> sessions[i].password, must |-> FALSE]
    BY <1>6 DEF Switch
  <2>0. i \in 1 .. Len(sessions) /\ sessions[i] \in Sessions  BY <1>1, ElementOfSeq DEF Live
  <2>1. desk' \in Desks /\ desk'.op = "switch" /\ desk'.at = "session"
        /\ desk'.n = sessions[i].password
    BY <2>p, <2>0 DEF Desks, Sessions
  <2>2. UNCHANGED <<account, passwords, admin, lapsed>> /\ desk.at = "idle" /\ admin.at = "idle"
    BY <1>6 DEF Switch, DeskFree
  <2>3. ~AboutToRevoke  BY <2>2 DEF AboutToRevoke
  <2>4. \A n \in Nat : sessions[i].password < n /\ n <= account.password => n \in lapsed
    BY <2>3 DEF Stand, Standing, Rightly
  <2>5. desk'.n <= account'.password  BY <2>0, <2>1, <2>2 DEF Numbered
  <2>6. Rightly(desk.n, desk.must, desk.op = "switch", {})'
    BY <2>1, <2>2, <2>4 DEF Rightly
  <2>7. AtDesk'  BY <2>1, <2>2, <2>5, <2>6 DEF AtDesk
  <2> QED  BY <1>1, <2>p, <2>1, <2>2, <2>3, <2>7, RevokeStep
<1> QED  BY <1>2, <1>3, <1>4, <1>5, <1>6

\* A new password: the one that wrote it is about to revoke.
LEMMA ChooseStep ==
  ASSUME AccountsInv, ~AboutToRevoke, NEW must \in BOOLEAN, Choose(must),
         UNCHANGED <<sessions, lapsed>>,
         desk' \in Desks, admin' \in Desks, AtDesk', AboutToRevoke'
  PROVE  AccountsInv'
<1> USE DEF AccountsInv
<1>1. account \in AccountRecords /\ passwords \in Nat  BY DEF AccountsTypeOK
<1>2. PICK n \in Nat : n = passwords + 1  BY <1>1
<1>3. account' = [account EXCEPT !.password = n, !.must = must] /\ passwords' = n
  BY <1>2 DEF Choose
<1>4. account' \in AccountRecords /\ account'.password = n  BY <1>1, <1>3 DEF AccountRecords
<1>5. AccountsTypeOK'  BY <1>3, <1>4 DEF AccountsTypeOK
<1>6. \A i \in 1 .. Len(sessions) : sessions[i].password \in Nat
  <2> TAKE i \in 1 .. Len(sessions)
  <2>1. sessions \in Seq(Sessions)  BY DEF AccountsTypeOK
  <2>2. sessions[i] \in Sessions  BY <2>1, ElementOfSeq
  <2> QED  BY <2>2 DEF Sessions
<1>7. Numbered'  BY <1>1, <1>2, <1>3, <1>4, <1>6 DEF Numbered
<1>8. Standing({account.password})'
  <2> SUFFICES ASSUME NEW i \in Live
               PROVE  Rightly(sessions[i].password, sessions[i].must, sessions[i].switched,
                              {account.password})'
    BY DEF Standing, Live
  <2>1. i \in 1 .. Len(sessions) /\ sessions[i].password \in Nat  BY <1>6 DEF Live
  <2>2. sessions[i].password < n  BY <1>1, <1>2, <2>1 DEF Numbered
  <2>3. ASSUME NEW k \in Nat, sessions[i].password < k, k <= n PROVE k \in lapsed \cup {n}
    <3>1. k <= passwords \/ k = n  BY <1>1, <1>2, <2>3
    <3> QED  BY <2>3, <3>1 DEF Stand, Standing, Rightly, Numbered
  <2> QED  BY <1>4, <2>1, <2>2, <2>3 DEF Rightly
<1> QED  BY <1>5, <1>7, <1>8 DEF Stand

LEMMA PasswordStep ==
  ASSUME AccountsInv, AdminAlone, WriteChange \/ WriteReset \/ BeginSet
  PROVE  AccountsInv'
<1> USE DEF AccountsInv
<1>0. desk \in Desks /\ admin \in Desks  BY DEF AccountsTypeOK
<1>1. CASE WriteChange \/ WriteReset
  <2> DEFINE r == [desk EXCEPT !.at = "revoke"]
  <2>1. r \in Desks /\ r.op = desk.op /\ r.at = "revoke" /\ r.n = desk.n
    BY <1>0 DEF Desks
  <2>2. /\ desk' = r /\ UNCHANGED <<sessions, admin, lapsed>> /\ Choose(FALSE)
        /\ desk.at = "write" /\ admin.at = "idle"
    BY <1>1 DEF WriteChange, WriteReset, AtDesk
  <2> HIDE DEF r
  <2>3. ~account'.must
    BY <2>2 DEF Choose, AccountsTypeOK, AccountRecords
  <2>4. AtDesk'  BY <2>1, <2>2, <2>3 DEF AtDesk
  <2> QED  BY <1>0, <2>1, <2>2, <2>4, ChooseStep DEF AboutToRevoke
<1>2. CASE BeginSet
  <2> DEFINE r == [Off EXCEPT !.op = "set", !.at = "links"]
  <2>1. r \in Desks /\ r.op = "set" /\ r.at = "links"  BY OffDesk DEF Desks
  <2>2. PICK must \in BOOLEAN : Choose(must)  BY <1>2 DEF BeginSet
  <2>3. admin' = r /\ UNCHANGED <<sessions, desk, lapsed>> /\ desk.at = "idle" /\ admin.at = "idle"
    BY <1>2 DEF BeginSet, AdminFree
  <2> HIDE DEF r
  <2>4. AtDesk'  BY <2>1, <2>3 DEF AtDesk
  <2> QED  BY <1>0, <2>1, <2>2, <2>3, <2>4, ChooseStep DEF AboutToRevoke
<1> QED  BY <1>1, <1>2

\* What revokes the sessions of an earlier password, or fails to.
LEMMA EndStep ==
  ASSUME AccountsInv, AdminAlone, EndOthers \/ EndReset \/ EndAdmin
  PROVE  AccountsInv'
<1> USE DEF AccountsInv
<1>0. desk \in Desks /\ admin \in Desks  BY DEF AccountsTypeOK
<1>1. CASE EndOthers
  <2> DEFINE n == desk.n
             rest == Revoked(Live \ {n})
  <2>1. n \in 1 .. Len(sessions) /\ ~account.must /\ account.password \in Nat
    BY <1>1 DEF EndOthers, AtDesk, AccountsTypeOK, AccountRecords
  <2>2. /\ rest \in Seq(Sessions) /\ Len(rest) = Len(sessions)
        /\ \A i \in 1 .. Len(sessions) :
             /\ rest[i].live => i \in Live \ (Live \ {n})
             /\ rest[i].password = sessions[i].password
    BY RevokedSessions
  <2>3. rest[n] \in Sessions  BY <2>1, <2>2, ElementOfSeq
  <2> DEFINE new == [rest[n] EXCEPT !.password = account.password, !.must = FALSE]
  <2>4. new \in Sessions /\ new.password = account.password  BY <2>1, <2>3 DEF Sessions
  <2>5. sessions' = [rest EXCEPT ![n] = new]
    BY <1>1, <2>1, <2>2 DEF EndOthers
  <2>6. desk' = Off /\ UNCHANGED <<account, passwords, admin, lapsed>>  BY <1>1 DEF EndOthers
  <2> HIDE DEF rest, new, n
  <2>7. sessions' \in Seq(Sessions) /\ Len(sessions') = Len(sessions)
        /\ \A i \in 1 .. Len(sessions) : sessions'[i] = IF i = n THEN new ELSE rest[i]
    BY <2>1, <2>2, <2>4, <2>5, ExceptSeq
  <2>8. AccountsTypeOK' /\ AtDesk'  BY <2>6, <2>7, OffDesk DEF AccountsTypeOK, AtDesk
  <2>9. Numbered'  BY <2>1, <2>2, <2>4, <2>6, <2>7 DEF Numbered
  <2>10. \A i \in Live' : sessions'[i].password = account.password
    BY <2>2, <2>4, <2>7 DEF Live
  <2>11. \A k \in Nat : account.password < k => ~(k <= account.password)  BY <2>1
  <2>12. ASSUME NEW spared
         PROVE  \A i \in Live' :
                  Rightly(sessions[i].password, sessions[i].must, sessions[i].switched, spared)'
    BY <2>1, <2>6, <2>10, <2>11 DEF Rightly
  <2>13. Standing({})' /\ Standing({account.password})'
    BY <2>12 DEF Standing, Rightly
  <2> QED  BY <2>8, <2>9, <2>13 DEF Stand
<1>2. CASE EndReset
  <2>1. desk' = Off /\ UNCHANGED <<account, passwords, admin>>
    BY <1>2 DEF EndReset
  <2>2. CASE sessions' = Revoked(Live) /\ UNCHANGED lapsed
    <3>1. Live' = {} /\ sessions' \in Seq(Sessions) /\ Len(sessions') = Len(sessions)
          /\ \A i \in 1 .. Len(sessions) : sessions'[i].password = sessions[i].password
      BY <2>2, RevokedSessions DEF Live
    <3>2. AccountsTypeOK' /\ AtDesk' /\ Numbered'
      BY <2>1, <3>1, OffDesk DEF AccountsTypeOK, AtDesk, Numbered
    <3> QED  BY <3>1, <3>2 DEF Stand, Standing
  <2>3. CASE UNCHANGED sessions /\ lapsed' = lapsed \cup {account.password}
    BY <1>0, <2>1, <2>3, OffDesk, LapseStep
  <2> QED  BY <1>2, <2>2, <2>3 DEF EndReset
<1>3. CASE EndAdmin
  <2>1. admin' = Off /\ UNCHANGED <<account, passwords, desk, lapsed>>
        /\ admin.at = "revoke" /\ desk.at = "idle"
    BY <1>3 DEF EndAdmin, AtDesk
  <2>2. CASE sessions' = Revoked(Live)
    <3>1. Live' = {} /\ sessions' \in Seq(Sessions) /\ Len(sessions') = Len(sessions)
          /\ \A i \in 1 .. Len(sessions) : sessions'[i].password = sessions[i].password
      BY <2>2, RevokedSessions DEF Live
    <3>2. AccountsTypeOK' /\ AtDesk' /\ Numbered'
      BY <2>1, <3>1, OffDesk DEF AccountsTypeOK, AtDesk, Numbered
    <3> QED  BY <3>1, <3>2 DEF Stand, Standing
  <2>3. CASE UNCHANGED sessions /\ admin.op = "suspend"
    <3>1. AtDesk' /\ ~AboutToRevoke /\ account \in AccountRecords
      BY <2>1, <2>3, OffDesk DEF AtDesk, AboutToRevoke, AccountsTypeOK
    <3> QED  BY <1>0, <2>1, <2>3, <3>1, OffDesk, SameSessions
  <2> QED  BY <1>3, <2>2, <2>3 DEF EndAdmin
<1> QED  BY <1>1, <1>2, <1>3

\* The administrators' steps that change no password.
LEMMA AdminStep ==
  ASSUME AccountsInv, AdminAlone,
         CloseLinks \/ BeginMove \/ BeginSuspend \/ ActivateUser \/ SwitchFactor
           \/ \E i \in All(proofs) : Prove(i)
  PROVE  AccountsInv'
<1> USE DEF AccountsInv
<1>1. ASSUME UNCHANGED <<sessions, passwords, desk, lapsed>>, account'.password = account.password,
             account'.must = account.must,
             account' \in AccountRecords,
             admin' \in Desks,
             \/ UNCHANGED admin
             \/ desk.at = "idle" /\ admin.at = "idle" /\ admin'.op # "set"
             \/ admin.at # "idle" /\ admin'.at # "idle" /\ admin'.op = admin.op
      PROVE  AccountsInv'
  <2>1. Rightly(desk.n, desk.must, desk.op = "switch", {})
          => Rightly(desk.n, desk.must, desk.op = "switch", {})'
    BY <1>1 DEF Rightly
  <2>2. AtDesk'  BY <1>1, <2>1 DEF AtDesk
  <2>3. AboutToRevoke => AboutToRevoke'  BY <1>1 DEF AboutToRevoke
  <2>4. desk' \in Desks  BY <1>1 DEF AccountsTypeOK
  <2> QED  BY <1>1, <2>2, <2>3, <2>4, SameSessions
<1>2. account \in AccountRecords /\ admin \in Desks
  BY DEF AccountsTypeOK
<1>3. CASE CloseLinks
  <2>1. [admin EXCEPT !.at = "revoke"] \in Desks /\ [admin EXCEPT !.at = "revoke"].at = "revoke"
        /\ [admin EXCEPT !.at = "revoke"].op = admin.op
    BY <1>2 DEF Desks
  <2> QED  BY <1>1, <1>2, <1>3, <2>1 DEF CloseLinks
<1>4. CASE BeginMove
  <2>1. [Off EXCEPT !.op = "move", !.at = "revoke"] \in Desks
        /\ [Off EXCEPT !.op = "move", !.at = "revoke"].op = "move"
    BY OffDesk DEF Desks
  <2>2. UNCHANGED <<sessions, passwords, desk, lapsed>> /\ desk.at = "idle" /\ admin.at = "idle"
        /\ admin' = [Off EXCEPT !.op = "move", !.at = "revoke"]
    BY <1>4 DEF BeginMove, AdminFree
  <2>3. /\ account'.password = account.password /\ account'.must = account.must
        /\ account' \in AccountRecords
    <3>1. PICK n \in Nat : n = account.address + 1  BY <1>2 DEF AccountRecords
    <3>2. account' = [account EXCEPT !.address = n, !.verified = FALSE]
      BY <1>4, <3>1 DEF BeginMove
    <3> QED  BY <1>2, <3>2 DEF AccountRecords
  <2> QED  BY <1>1, <2>1, <2>2, <2>3
<1>5. CASE BeginSuspend
  <2>1. [Off EXCEPT !.op = "suspend", !.at = "revoke"] \in Desks
        /\ [Off EXCEPT !.op = "suspend", !.at = "revoke"].op = "suspend"
    BY OffDesk DEF Desks
  <2>2. UNCHANGED <<sessions, passwords, desk, lapsed>> /\ desk.at = "idle" /\ admin.at = "idle"
        /\ admin' = [Off EXCEPT !.op = "suspend", !.at = "revoke"]
    BY <1>5 DEF BeginSuspend, AdminFree
  <2>3. /\ account'.password = account.password /\ account'.must = account.must
        /\ account' \in AccountRecords
    BY <1>2, <1>5 DEF BeginSuspend, AccountRecords
  <2> QED  BY <1>1, <2>1, <2>2, <2>3
<1>6. CASE ActivateUser \/ SwitchFactor \/ \E i \in All(proofs) : Prove(i)
  <2>1. UNCHANGED <<sessions, passwords, desk, admin, lapsed>>
    BY <1>6 DEF ActivateUser, SwitchFactor, Prove
  <2>2. /\ account'.password = account.password /\ account'.must = account.must
        /\ account' \in AccountRecords
    BY <1>2, <1>6 DEF ActivateUser, SwitchFactor, Prove, AccountRecords
  <2> QED  BY <1>1, <1>2, <2>1, <2>2
<1> QED  BY <1>3, <1>4, <1>5, <1>6

\* Links and codes: the desk takes other points than those of a login or a change.
LEMMA LinkStep ==
  ASSUME AccountsInv, AdminAlone, Forgot \/ Send \/ \E i \in All(links) : ClaimLink(i)
  PROVE  AccountsInv'
<1> USE DEF AccountsInv
<1>1. ASSUME UNCHANGED <<account, sessions, passwords, admin, lapsed>>, desk' \in Desks,
             desk' = Off \/ (desk'.at \in {"send", "write"} /\ admin.at = "idle"
                             /\ desk'.op \in {"address", "phone", "reset"}),
             desk.at # "revoke"
      PROVE  AccountsInv'
  <2>1. AtDesk'  BY <1>1, OffDesk DEF AtDesk
  <2>2. AboutToRevoke => AboutToRevoke'  BY <1>1 DEF AboutToRevoke
  <2>3. account \in AccountRecords /\ admin \in Desks  BY DEF AccountsTypeOK
  <2> QED  BY <1>1, <2>1, <2>2, <2>3, SameSessions
<1>2. CASE Forgot
  <2>p. PICK to \in {"address", "phone"} : desk' = [Off EXCEPT !.op = to, !.at = "send", !.n = account.address]
    BY <1>2 DEF Forgot
  <2>1. account.address \in Nat  BY DEF AccountsTypeOK, AccountRecords
  <2>2. desk' \in Desks /\ desk'.at = "send" /\ desk'.op = to  BY <2>1, <2>p, OffDesk DEF Desks
  <2> QED  BY <1>1, <1>2, <2>2 DEF Forgot, DeskFree
<1>3. CASE Send
  BY <1>1, <1>3, OffDesk DEF Send
<1>4. ASSUME NEW i \in All(links), ClaimLink(i) PROVE AccountsInv'
  <2>1. desk' \in Desks /\ desk'.at = "write" /\ desk'.op = "reset"
    BY <1>4, OffDesk DEF ClaimLink, Desks
  <2> QED  BY <1>1, <1>4, <2>1 DEF ClaimLink, DeskFree
<1> QED  BY <1>2, <1>3, <1>4

\* A handler stops: at the desk, or an administrator's.
LEMMA StopStep ==
  ASSUME AccountsInv, StopDesk \/ StopAdmin
  PROVE  AccountsInv'
<1> USE DEF AccountsInv
<1>0. desk \in Desks /\ admin \in Desks /\ account \in AccountRecords  BY DEF AccountsTypeOK
<1>1. UNCHANGED <<account, sessions, passwords>>  BY DEF StopDesk, StopAdmin
<1>2. CASE StopDesk
  <2>1. desk' = Off /\ UNCHANGED admin /\ admin.at = "idle"  BY <1>2 DEF StopDesk, AtDesk
  <2>2. CASE desk.at = "revoke"
    <3>1. lapsed' = lapsed \cup {account.password}  BY <1>2, <2>2 DEF StopDesk
    <3> QED  BY <1>0, <1>1, <2>1, <3>1, OffDesk, LapseStep
  <2>3. CASE desk.at # "revoke"
    <3>1. UNCHANGED lapsed  BY <1>2, <2>3 DEF StopDesk
    <3>2. AtDesk'  BY <2>1, OffDesk DEF AtDesk
    <3>3. ~AboutToRevoke  BY <2>1, <2>3 DEF AboutToRevoke
    <3> QED  BY <1>0, <1>1, <2>1, <3>1, <3>2, <3>3, OffDesk, SameSessions
  <2> QED  BY <2>2, <2>3
<1>3. CASE StopAdmin
  <2>1. admin' = Off /\ UNCHANGED desk /\ desk.at = "idle"  BY <1>3 DEF StopAdmin, AtDesk
  <2>2. CASE admin.op = "set"
    <3>1. lapsed' = lapsed \cup {account.password}  BY <1>3, <2>2 DEF StopAdmin
    <3> QED  BY <1>0, <1>1, <2>1, <3>1, OffDesk, LapseStep
  <2>3. CASE admin.op # "set"
    <3>1. UNCHANGED lapsed  BY <1>3, <2>3 DEF StopAdmin
    <3>2. AtDesk'  BY <1>1, <2>1 DEF AtDesk
    <3>3. ~AboutToRevoke  BY <2>1, <2>3 DEF AboutToRevoke
    <3> QED  BY <1>0, <1>1, <2>1, <3>1, <3>2, <3>3, OffDesk, SameSessions
  <2> QED  BY <2>2, <2>3
<1> QED  BY <1>2, <1>3

LEMMA AccountsInvStep ==
  ASSUME AdminAlone, AccountsInv, [AccountsNext]_accountVars
  PROVE  AccountsInv'
<1>1. CASE Verify \/ SecondFactor \/ OpenSession \/ Switch \/ BeginChange
  BY <1>1, LoginStep
<1>2. CASE WriteChange \/ WriteReset \/ BeginSet
  BY <1>2, PasswordStep
<1>3. CASE EndOthers \/ EndReset \/ EndAdmin
  BY <1>3, EndStep
<1>4. CASE CloseLinks \/ BeginMove \/ BeginSuspend \/ ActivateUser \/ SwitchFactor
           \/ \E i \in All(proofs) : Prove(i)
  BY <1>4, AdminStep
<1>5. CASE Forgot \/ Send \/ \E i \in All(links) : ClaimLink(i)
  BY <1>5, LinkStep
<1>6. CASE Leave \/ EndAccess
  <2>1. (\E which : sessions' = Revoked(which)) \/ UNCHANGED sessions
    BY <1>6 DEF Leave, EndAccess
  <2>2. UNCHANGED <<account, passwords, desk, admin, lapsed>>  BY <1>6 DEF Leave, EndAccess
  <2>3. desk \in Desks /\ admin \in Desks /\ account \in AccountRecords
    BY DEF AccountsInv, AccountsTypeOK
  <2>4. CASE UNCHANGED sessions
    <3>1. AtDesk'  BY <2>2, <2>4 DEF AccountsInv, AtDesk, Rightly
    <3> QED  BY <2>2, <2>3, <2>4, <3>1, SameSessions DEF AboutToRevoke
  <2>5. ASSUME NEW which, sessions' = Revoked(which) PROVE AccountsInv'
    <3>1. Len(sessions') = Len(sessions)  BY <2>5, RevokedSessions DEF AccountsInv
    <3>2. AtDesk'  BY <2>2, <3>1 DEF AccountsInv, AtDesk, Rightly
    <3> QED  BY <2>2, <2>3, <2>5, <3>2, RevokeStep DEF AboutToRevoke
  <2> QED  BY <2>1, <2>4, <2>5
<1>7. CASE \/ Fail \/ LockEnds \/ AskProof \/ BeginAccess \/ SendAccess \/ StopAide
           \/ UNCHANGED accountVars \/ \E i \in All(links) : LinkExpires(i)
  <2>1. UNCHANGED <<account, sessions, passwords, desk, admin, lapsed>>
    BY <1>7 DEF Fail, LockEnds, AskProof, BeginAccess, SendAccess, StopAide, accountVars, LinkExpires
  <2>2. desk \in Desks /\ admin \in Desks /\ account \in AccountRecords
    BY DEF AccountsInv, AccountsTypeOK
  <2>3. AtDesk'  BY <2>1 DEF AccountsInv, AtDesk, Rightly
  <2> QED  BY <2>1, <2>2, <2>3, SameSessions DEF AboutToRevoke
<1>8. CASE StopDesk \/ StopAdmin
  BY <1>8, StopStep
<1> QED  BY <1>1, <1>2, <1>3, <1>4, <1>5, <1>6, <1>7, <1>8 DEF AccountsNext

\* Where administrators wait for the account's own requests: between requests
\* a live session stands on the present password, or every handler that wrote
\* one since stopped before it revoked the session; and one that stands on a
\* temporary password is restricted, or was opened by a switch; for any number
\* of passwords, sessions, links and deaths (change_password, reset_password,
\* set_password, login, switch_organization).
THEOREM SessionsStandOnPasswordCorrect ==
  ASSUME AdminAlone
  PROVE  AccountsSpec => []SessionsStandOnPassword
<1>1. AccountsInv => SessionsStandOnPassword
  <2> SUFFICES ASSUME AccountsInv, desk.at = "idle", admin.at = "idle", NEW i \in Live
               PROVE  /\ sessions[i].password + 1 .. account.password \subseteq lapsed
                      /\ account.must /\ sessions[i].password = account.password =>
                           sessions[i].must \/ sessions[i].switched
    BY DEF SessionsStandOnPassword
  <2>0. ~AboutToRevoke  BY DEF AboutToRevoke
  <2>1. Rightly(sessions[i].password, sessions[i].must, sessions[i].switched, {})
    BY <2>0 DEF AccountsInv, Stand, Standing
  <2>2. sessions[i].password \in Nat /\ account.password \in Nat
    <3>1. sessions \in Seq(Sessions) /\ i \in 1 .. Len(sessions) /\ account \in AccountRecords
      BY DEF AccountsInv, AccountsTypeOK, Live
    <3>2. sessions[i] \in Sessions  BY <3>1, ElementOfSeq
    <3> QED  BY <3>1, <3>2 DEF Sessions, AccountRecords
  <2>3. ASSUME NEW n \in sessions[i].password + 1 .. account.password PROVE n \in lapsed
    <3>1. n \in Nat /\ sessions[i].password < n /\ n <= account.password  BY <2>2
    <3>2. n \in lapsed \cup {}  BY <2>1, <3>1, Zenon DEF Rightly
    <3> QED  BY <3>2
  <2>4. account.must /\ sessions[i].password = account.password =>
          sessions[i].must \/ sessions[i].switched
    BY <2>1 DEF Rightly
  <2> QED  BY <2>3, <2>4
<1>2. AccountsInv /\ [AccountsNext]_accountVars => AccountsInv'  BY AccountsInvStep
<1> QED  BY <1>1, <1>2, AccountsInvInit, PTL DEF AccountsSpec
=============================================================================
