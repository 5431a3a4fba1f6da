------------------------------ MODULE Members ------------------------------
(***************************************************************************)
(* The members of one organization and the invitations to it: the routes   *)
(* of app/api/routes/organizations.py, app/billing/invitations.py, bulk    *)
(* changes (org_admin.py) and the Super Admin's change of a role           *)
(* (super_admin_platform.py).                                              *)
(*                                                                         *)
(* A request reads its caller's role once, then reads and writes one       *)
(* document at a time; others run at every await.                          *)
(*                                                                         *)
(* Manager, member and viewer are one role here, "member": none of them    *)
(* may manage others by default.  Left out: permission overrides, the      *)
(* organization's own status (see Demo and Subscriptions), the audit.      *)
(***************************************************************************)
EXTENDS Integers, FiniteSets, Sequences

CONSTANTS People,
          Owner,         \* who created the organization
          Elsewhere,     \* people who are also members of another organization
          Seats,         \* members and invitations the plan allows
          Handlers,      \* request executions
          MaxHandlers,   \* bound on those in flight
          MaxInvites,    \* bound on the invitations ever made
          MaxKilled      \* bound on the requests that die half way

ASSUME MembersAssumption == IsFiniteSet(People) /\ Owner \in People /\ Elsewhere \subseteq People

VARIABLES
  member,     \* membership of each person: role and status, "none" if never
  accounts,   \* people with an account
  signedIn,   \* people with a session
  invites,    \* the invitations in order of creation
  req,        \* control point of each request
  killed

memberVars == <<member, accounts, signedIn, invites, req, killed>>

Nobody == [role |-> "none", status |-> "none"]
Quiet == [op |-> "none", at |-> "idle", by |-> "none", who |-> {}, role |-> "none",
          status |-> "none", inv |-> 0, used |-> 0]

MembersInit ==
  /\ member = [p \in People |-> IF p = Owner THEN [role |-> "owner", status |-> "active"] ELSE Nobody]
  /\ accounts \in {{Owner}, {Owner} \cup Elsewhere} /\ signedIn = accounts
  /\ invites = <<>> /\ req = [h \in Handlers |-> Quiet] /\ killed = 0

Busy == {h \in Handlers : req[h].at # "idle"}
MayEnter(h) == req[h].at = "idle" /\ Cardinality(Busy) < MaxHandlers
Active(p) == member[p].status = "active"
Managers == {p \in signedIn : Active(p) /\ member[p].role \in {"owner", "admin"}}
Is(h, ops, at) == req[h].op \in ops /\ req[h].at = at
GoTo(h, at) == req' = [req EXCEPT ![h].at = at]
End(h) == req' = [req EXCEPT ![h] = Quiet]

\* assert_can_manage_member, for a caller with role by.
MayManage(by, target, role) ==
  /\ target # "owner"
  /\ by = "owner" \/ "admin" \notin {target, role}

Pending == {i \in 1 .. Len(invites) : invites[i].status = "pending"}
Counted == {p \in People : member[p].status \in {"active", "suspended"}}

\* An invitation with a new status; closed records that nobody had used it.
CloseInvite(invite, status) ==
  [invite EXCEPT !.status = status, !.closed = @ \/ invite.status = "pending"]

-----------------------------------------------------------------------------
(* Inviting *)

\* Slip: an invitation to anybody, the members included.
InvitesAnyone(p) == TRUE

\* create_invitation refuses the active members of the organization.
Invitable(p) == ~Active(p)

\* invite_team_member.
Invite(h) ==
  /\ MayEnter(h)
  /\ \E a \in Managers, p \in People, role \in {"admin", "member"} :
       /\ MayManage(member[a].role, "none", role)
       /\ req' = [req EXCEPT ![h] = [Quiet EXCEPT !.op = "invite", !.at = "known",
                                       !.by = member[a].role, !.who = {p}, !.role = role]]
  /\ UNCHANGED <<member, accounts, signedIn, invites, killed>>

\* resend_team_invitation: the old invitation is found, then cancelled, then
\* a new one is made as for an invitation.
Resend(h) ==
  /\ MayEnter(h)
  /\ \E a \in Managers, i \in 1 .. Len(invites) :
       /\ invites[i].status \in {"pending", "expired"}
       /\ MayManage(member[a].role, "none", invites[i].role)
       /\ req' = [req EXCEPT ![h] = [Quiet EXCEPT !.op = "invite", !.at = "resend", !.inv = i,
                                       !.by = member[a].role, !.who = {invites[i].who},
                                       !.role = invites[i].role]]
  /\ UNCHANGED <<member, accounts, signedIn, invites, killed>>

CancelResent(h) ==
  /\ Is(h, {"invite"}, "resend")
  /\ invites' = [invites EXCEPT ![req[h].inv] = CloseInvite(@, "cancelled")]
  /\ GoTo(h, "known")
  /\ UNCHANGED <<member, accounts, signedIn, killed>>

Known(h) ==
  /\ Is(h, {"invite"}, "known")
  /\ IF \A p \in req[h].who : Invitable(p)
     THEN req' = [req EXCEPT ![h].used = 1, ![h].at = "count"] ELSE End(h)
  /\ UNCHANGED <<member, accounts, signedIn, invites, killed>>

\* check_limit counts the members, then the pending invitations, on top of
\* the seats the request asks for.
CountMembers(h) ==
  /\ req[h].at = "count"
  /\ req' = [req EXCEPT ![h].used = @ + Cardinality(Counted), ![h].at = "seats"]
  /\ UNCHANGED <<member, accounts, signedIn, invites, killed>>

CountInvites(h) ==
  /\ req[h].at = "seats"
  /\ IF req[h].used + Cardinality(Pending) <= Seats
     THEN GoTo(h, IF req[h].op = "invite" THEN "replace" ELSE "write")
     ELSE End(h)
  /\ UNCHANGED <<member, accounts, signedIn, invites, killed>>

\* Earlier invitations of the address are cancelled, then the new one is made.
Replace(h) ==
  /\ Is(h, {"invite"}, "replace")
  /\ invites' = [i \in 1 .. Len(invites) |->
                   IF i \in Pending /\ invites[i].who \in req[h].who
                   THEN CloseInvite(invites[i], "cancelled") ELSE invites[i]]
  /\ GoTo(h, "insert")
  /\ UNCHANGED <<member, accounts, signedIn, killed>>

InsertInvite(h) ==
  /\ Is(h, {"invite"}, "insert") /\ Len(invites) < MaxInvites
  /\ \E p \in req[h].who :
       invites' = Append(invites, [who |-> p, role |-> req[h].role, status |-> "pending",
                                   late |-> FALSE, closed |-> FALSE, admitted |-> 0])
  /\ End(h)
  /\ UNCHANGED <<member, accounts, signedIn, killed>>

\* revoke_team_invitation: one conditional update.
Revoke(i) ==
  /\ Managers # {} /\ i \in Pending
  /\ invites' = [invites EXCEPT ![i] = CloseInvite(@, "cancelled")]
  /\ UNCHANGED <<member, accounts, signedIn, req, killed>>

-----------------------------------------------------------------------------
(* Joining *)

PassExpiry(i) ==
  /\ i \in Pending /\ ~invites[i].late
  /\ invites' = [invites EXCEPT ![i].late = TRUE]
  /\ UNCHANGED <<member, accounts, signedIn, req, killed>>

\* validate_invitation finds an invitation too late ...
Validate(h) ==
  /\ MayEnter(h)
  /\ \E i \in Pending :
       /\ invites[i].late
       /\ req' = [req EXCEPT ![h] = [Quiet EXCEPT !.op = "look", !.at = "mark", !.inv = i]]
  /\ UNCHANGED <<member, accounts, signedIn, invites, killed>>

\* ... and marks it, whatever became of it since.
MarkExpired(h) ==
  /\ Is(h, {"look", "register"}, "mark")
  /\ invites' = [invites EXCEPT ![req[h].inv] = CloseInvite(@, "expired")]
  /\ End(h)
  /\ UNCHANGED <<member, accounts, signedIn, killed>>

Valid(i) == i \in Pending /\ ~invites[i].late

\* accept_invitation_endpoint, for the account with the invited address.
Accept(h) ==
  /\ MayEnter(h)
  /\ \E i \in 1 .. Len(invites) :
       /\ Valid(i) /\ invites[i].who \in signedIn
       /\ req' = [req EXCEPT ![h] = [Quiet EXCEPT !.op = "join", !.at = "claim", !.inv = i,
                                       !.who = {invites[i].who}, !.role = invites[i].role]]
  /\ UNCHANGED <<member, accounts, signedIn, invites, killed>>

\* register_from_invitation makes the account first; the address is unique.
Register(h) ==
  /\ MayEnter(h)
  /\ \E i \in 1 .. Len(invites) :
       /\ Valid(i) /\ invites[i].who \notin accounts
       /\ accounts' = accounts \cup {invites[i].who}
       /\ req' = [req EXCEPT ![h] = [Quiet EXCEPT !.op = "register", !.at = "validate", !.inv = i,
                                       !.who = {invites[i].who}, !.role = invites[i].role]]
  /\ UNCHANGED <<member, signedIn, invites, killed>>

Revalidate(h) ==
  /\ Is(h, {"register"}, "validate")
  /\ \/ Valid(req[h].inv)      /\ GoTo(h, "claim")
     \/ req[h].inv \in Pending /\ invites[req[h].inv].late /\ GoTo(h, "mark")
     \/ req[h].inv \notin Pending /\ End(h)
  /\ UNCHANGED <<member, accounts, signedIn, invites, killed>>

\* Slip: the invitation is claimed whatever became of it.
ClaimableAlways(i) == TRUE

\* The condition of the update that claims the invitation.
Claimable(i) == invites[i].status = "pending"

Claim(h) ==
  /\ Is(h, {"join", "register"}, "claim")
  /\ IF Claimable(req[h].inv)
     THEN /\ invites' = [invites EXCEPT ![req[h].inv].status = "accepted"]
          /\ GoTo(h, "join")
     ELSE UNCHANGED invites /\ End(h)
  /\ UNCHANGED <<member, accounts, signedIn, killed>>

\* The membership is made, or revived with the role of the invitation.
Join(h) ==
  /\ Is(h, {"join", "register"}, "join")
  /\ member' = [p \in People |-> IF p \in req[h].who
                                 THEN [role |-> req[h].role, status |-> "active"] ELSE member[p]]
  /\ invites' = [invites EXCEPT ![req[h].inv].admitted = @ + 1]
  /\ signedIn' = IF req[h].op = "register" THEN signedIn \cup req[h].who ELSE signedIn
  /\ End(h)
  /\ UNCHANGED <<accounts, killed>>

\* login: only with an active membership of some organization.
SignIn(p) ==
  /\ p \in accounts \ signedIn /\ (Active(p) \/ p \in Elsewhere)
  /\ signedIn' = signedIn \cup {p}
  /\ UNCHANGED <<member, accounts, invites, req, killed>>

-----------------------------------------------------------------------------
(* Managing *)

\* update_team_member, remove_team_member, bulk_members: the caller's role.
Manage(h) ==
  /\ MayEnter(h)
  /\ \E a \in Managers, who \in SUBSET People, role \in {"none", "admin", "member"},
        status \in {"none", "active", "inactive", "suspended", "removed"} :
       /\ who # {} /\ a \notin who /\ (role # "none" \/ status # "none")
       /\ Cardinality(who) > 1 => role = "none" /\ status \notin {"none", "removed"}
       /\ status = "removed" => role = "none"
       /\ req' = [req EXCEPT ![h] = [Quiet EXCEPT
                    !.op = IF Cardinality(who) > 1 THEN "bulk" ELSE "update", !.at = "find",
                    !.by = member[a].role, !.who = who, !.role = role, !.status = status]]
  /\ UNCHANGED <<member, accounts, signedIn, invites, killed>>

\* A bulk request skips those its caller may not manage.
Managed(h) == {p \in req[h].who : MayManage(req[h].by, member[p].role, req[h].role)
                                  /\ (req[h].op = "bulk" => member[p].status # req[h].status)}

Restored(h) == {p \in Managed(h) : member[p].status = "inactive"}

\* The memberships are read: a request for someone who is not a member is refused.
Find(h) ==
  /\ Is(h, {"update", "bulk"}, "find")
  /\ IF Managed(h) = {} \/ \E p \in req[h].who : member[p].status \in {"none", "removed"}
     THEN End(h)
     ELSE req' = [req EXCEPT
       ![h].who = Managed(h), ![h].used = Cardinality(Restored(h)),
       ![h].at = IF req[h].status = "active" /\ Restored(h) # {} THEN "count" ELSE "write"]
  /\ UNCHANGED <<member, accounts, signedIn, invites, killed>>

\* By membership id; a bulk update leaves the removed alone.
Write(h) ==
  /\ Is(h, {"update", "bulk"}, "write")
  /\ member' = [p \in People |->
       IF p \notin req[h].who \/ (req[h].op = "bulk" /\ member[p].status = "removed")
       THEN member[p]
       ELSE [role   |-> IF req[h].role = "none" THEN member[p].role ELSE req[h].role,
             status |-> IF req[h].status = "none" THEN member[p].status ELSE req[h].status]]
  /\ GoTo(h, "revoke")
  /\ UNCHANGED <<accounts, signedIn, invites, killed>>

\* revoke_user_sessions
RevokeSessions(h) ==
  /\ Is(h, {"update", "bulk"}, "revoke")
  /\ signedIn' = signedIn \ req[h].who
  /\ End(h)
  /\ UNCHANGED <<member, accounts, invites, killed>>

\* change_member_role, by a Super Admin: any membership but the owner's.
ChangeRole(h) ==
  /\ MayEnter(h)
  /\ \E p \in People, role \in {"admin", "member"} :
       /\ member[p].role \notin {"none", "owner", role}
       /\ req' = [req EXCEPT ![h] = [Quiet EXCEPT !.op = "role", !.at = "write",
                                       !.who = {p}, !.role = role]]
  /\ UNCHANGED <<member, accounts, signedIn, invites, killed>>

WriteRole(h) ==
  /\ Is(h, {"role"}, "write")
  /\ member' = [p \in People |-> IF p \in req[h].who THEN [member[p] EXCEPT !.role = req[h].role]
                                                     ELSE member[p]]
  /\ End(h)
  /\ UNCHANGED <<accounts, signedIn, invites, killed>>

\* The process is stopped under the request.
Kill(h) ==
  /\ h \in Busy /\ killed < MaxKilled
  /\ killed' = killed + 1 /\ End(h)
  /\ UNCHANGED <<member, accounts, signedIn, invites>>

MembersNext ==
  \/ \E h \in Handlers : \/ Invite(h) \/ Resend(h) \/ CancelResent(h) \/ Known(h)
                         \/ CountMembers(h) \/ CountInvites(h) \/ Replace(h) \/ InsertInvite(h)
                         \/ Validate(h) \/ MarkExpired(h) \/ Accept(h) \/ Register(h)
                         \/ Revalidate(h) \/ Claim(h) \/ Join(h)
                         \/ Manage(h) \/ Find(h) \/ Write(h) \/ RevokeSessions(h)
                         \/ ChangeRole(h) \/ WriteRole(h) \/ Kill(h)
  \/ \E i \in 1 .. Len(invites) : Revoke(i) \/ PassExpiry(i)
  \/ \E p \in People : SignIn(p)

MembersSpec == MembersInit /\ [][MembersNext]_memberVars

-----------------------------------------------------------------------------
(* Properties *)

\* An organization keeps its owner: whatever invitations, resent links, role
\* changes and bulk requests overlap, nobody touches the owner's membership
\* and nobody else becomes one.
OwnerStays ==
  \A p \in People : /\ member[p].role = "owner" <=> p = Owner
                    /\ p = Owner => member[p].status = "active"

\* An invitation admits at most once, and never after it was revoked, replaced
\* or marked expired, however its acceptance overlaps a revocation, a resend
\* or a second acceptance.
AdmitsOnce ==
  \A i \in 1 .. Len(invites) :
    invites[i].admitted > 0 => invites[i].admitted = 1 /\ ~invites[i].closed
=============================================================================
