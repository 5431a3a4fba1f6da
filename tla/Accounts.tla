------------------------------ MODULE Accounts ------------------------------
(***************************************************************************)
(* One account: signing in, its sessions, password, second factor, reset   *)
(* links and codes, verification links, and what administrators change     *)
(* about it.  Routes: app/api/routes/auth.py and the credential routes of  *)
(* org_admin.py, super_admin_platform.py and admin.py; app/auth/service.py *)
(* and app/auth/credentials.py.                                            *)
(*                                                                         *)
(* The account's own requests read and write the database without leaving  *)
(* the event loop: one of them runs at a time (desk).  set_password and    *)
(* change_email run in a thread (admin), and an administrator's reset link *)
(* awaits between its writes (aide): both overlap the desk.                *)
(*                                                                         *)
(* Passwords and addresses are numbered as they are chosen.  Left out:     *)
(* limits per network address (see RateLimits), the choice of the portal,  *)
(* impersonation, the first session of an account that is just being made, *)
(* legacy hashes, texts and the audit.                                     *)
(***************************************************************************)
EXTENDS Integers, Sequences

CONSTANTS AdminAlone,    \* administrators change nothing while the desk is busy
          Threshold,     \* wrong passwords that lock the account
          MaxPasswords, MaxAddresses, MaxSessions, MaxLinks  \* bounds on those ever made

VARIABLES
  account,   \* password, address, verified, must (change it), status, factor
  lock,      \* failures counted, and whether the account is locked
  sessions,  \* in order of creation: the password it stands on, must, live;
             \* and, as history, whether an organization switch opened it
  links,     \* reset links and codes: the address (or "phone") they were sent to
  proofs,    \* verification links
  passwords, \* passwords chosen so far
  lapsed,    \* history: those whose writer revoked no session in the end
  desk, admin, aide

accountVars == <<account, lock, sessions, links, proofs, passwords, lapsed, desk, admin, aide>>

Off == [op |-> "none", at |-> "idle", n |-> 0, must |-> FALSE]

AccountsInit ==
  /\ account = [password |-> 1, address |-> 1, verified |-> FALSE, must |-> FALSE,
                status |-> "active", factor |-> FALSE]
  /\ lock = [failures |-> 0, locked |-> FALSE]
  /\ sessions = <<>> /\ links = <<>> /\ proofs = <<>> /\ passwords = 1 /\ lapsed = {}
  /\ desk = Off /\ admin = Off /\ aide = Off

DeskFree == desk.at = "idle" /\ (AdminAlone => admin.at = "idle")
AdminFree == admin.at = "idle" /\ (AdminAlone => desk.at = "idle")
Live == {i \in 1 .. Len(sessions) : sessions[i].live}
Unlocked == [failures |-> 0, locked |-> FALSE]
Closing(list, which) == [i \in 1 .. Len(list) |-> IF i \in which THEN [list[i] EXCEPT !.open = FALSE]
                                                                 ELSE list[i]]
All(list) == 1 .. Len(list)
\* Slip: the sessions an administrator opened the account with stay.
RevokedTemporary(which) == [i \in All(sessions) |->
  IF i \in which /\ ~sessions[i].must THEN [sessions[i] EXCEPT !.live = FALSE] ELSE sessions[i]]

\* The sessions, some of them revoked.
Revoked(which) == [i \in All(sessions) |->
  IF i \in which THEN [sessions[i] EXCEPT !.live = FALSE] ELSE sessions[i]]

\* A password nobody has chosen before.
Choose(must) ==
  /\ passwords < MaxPasswords
  /\ passwords' = passwords + 1
  /\ account' = [account EXCEPT !.password = passwords + 1, !.must = must]

-----------------------------------------------------------------------------
(* Signing in *)

\* login with a wrong password: the account locks at the threshold.  (A wrong
\* code counts against the network address only.)
Fail ==
  /\ DeskFree /\ ~lock.locked
  /\ lock' = IF lock.failures + 1 >= Threshold THEN [failures |-> 0, locked |-> TRUE]
             ELSE [lock EXCEPT !.failures = @ + 1]
  /\ UNCHANGED <<account, sessions, links, proofs, passwords, desk, admin, aide, lapsed>>

LockEnds ==
  /\ lock.locked
  /\ lock' = [lock EXCEPT !.locked = FALSE]
  /\ UNCHANGED <<account, sessions, links, proofs, passwords, desk, admin, aide, lapsed>>

\* login: the password is compared with the account as it was read.
Verify ==
  /\ DeskFree /\ ~lock.locked /\ account.status = "active"
  /\ desk' = [Off EXCEPT !.op = "login", !.at = "factor", !.n = account.password]
  /\ UNCHANGED <<account, lock, sessions, links, proofs, passwords, admin, aide, lapsed>>

\* The second factor, if it is on by now, may be missing or wrong; otherwise the
\* failures are forgotten and the account is asked whether its password must change.
SecondFactor ==
  /\ desk.at = "factor"
  /\ \/ desk' = [desk EXCEPT !.at = "session", !.must = account.must] /\ lock' = Unlocked
     \/ account.factor /\ desk' = Off /\ UNCHANGED lock
  /\ UNCHANGED <<account, sessions, links, proofs, passwords, admin, aide, lapsed>>

\* create_tracked_session
OpenSession ==
  /\ desk.at = "session" /\ Len(sessions) < MaxSessions
  /\ sessions' = Append(sessions, [password |-> desk.n, must |-> desk.must, live |-> TRUE,
                                   switched |-> desk.op = "switch"])
  /\ desk' = Off
  /\ UNCHANGED <<account, lock, links, proofs, passwords, admin, aide, lapsed>>

\* switch_organization: the session ends and another is opened for the same
\* person, from claims that say nothing of a password to be changed.
Switch ==
  /\ DeskFree
  /\ \E i \in Live :
       /\ sessions' = Revoked({i})
       /\ desk' = [op |-> "switch", at |-> "session", n |-> sessions[i].password, must |-> FALSE]
  /\ UNCHANGED <<account, lock, links, proofs, passwords, admin, aide, lapsed>>

\* logout, revoke_my_session (one, or all the others), and an administrator
\* revoking every session.
Leave ==
  /\ desk.at = "idle"
  /\ \E i \in Live : \E which \in {{i}, Live \ {i}, Live} : sessions' = Revoked(which)
  /\ UNCHANGED <<account, lock, links, proofs, passwords, desk, admin, aide, lapsed>>

-----------------------------------------------------------------------------
(* The account's own changes *)

\* change_password: the current password is checked, the new one is written,
\* and the other sessions end; this one goes on without the restriction.
BeginChange ==
  /\ DeskFree
  /\ \E i \in Live : desk' = [Off EXCEPT !.op = "change", !.at = "write", !.n = i]
  /\ UNCHANGED <<account, lock, sessions, links, proofs, passwords, admin, aide, lapsed>>

WriteChange ==
  /\ desk.op = "change" /\ desk.at = "write"
  /\ Choose(FALSE) /\ desk' = [desk EXCEPT !.at = "revoke"]
  /\ UNCHANGED <<lock, sessions, links, proofs, admin, aide, lapsed>>

EndOthers ==
  /\ desk.op = "change" /\ desk.at = "revoke"
  /\ sessions' = [Revoked(Live \ {desk.n}) EXCEPT ![desk.n].password = account.password,
                                                  ![desk.n].must = FALSE]
  /\ desk' = Off
  /\ UNCHANGED <<account, lock, links, proofs, passwords, admin, aide, lapsed>>

\* forgot_password: earlier links and codes are closed, then one is sent, to
\* the address or to the phone.
Forgot ==
  /\ DeskFree /\ account.status = "active" /\ Len(links) < MaxLinks
  /\ links' = Closing(links, All(links))
  /\ \E to \in {"address", "phone"} :
       desk' = [Off EXCEPT !.op = to, !.at = "send", !.n = account.address]
  /\ UNCHANGED <<account, lock, sessions, proofs, passwords, admin, aide, lapsed>>

Send ==
  /\ desk.at = "send" /\ Len(links) < MaxLinks
  /\ links' = Append(links, [to |-> IF desk.op = "phone" THEN 0 ELSE desk.n, open |-> TRUE])
  /\ desk' = Off
  /\ UNCHANGED <<account, lock, sessions, proofs, passwords, admin, aide, lapsed>>

LinkExpires(i) ==
  /\ links[i].open
  /\ links' = Closing(links, {i})
  /\ UNCHANGED <<account, lock, sessions, proofs, passwords, desk, admin, aide, lapsed>>

\* reset_password, _use_sms_code: the link or code is claimed, the password
\* written, every session revoked and the lock opened; revoke_user_sessions
\* may fail and does not say so.
ClaimLink(i) ==
  /\ DeskFree /\ links[i].open
  /\ links' = Closing(links, {i})
  /\ desk' = [Off EXCEPT !.op = "reset", !.at = "write"]
  /\ UNCHANGED <<account, lock, sessions, proofs, passwords, admin, aide, lapsed>>

WriteReset ==
  /\ desk.op = "reset" /\ desk.at = "write"
  /\ Choose(FALSE) /\ desk' = [desk EXCEPT !.at = "revoke"]
  /\ UNCHANGED <<lock, sessions, links, proofs, admin, aide, lapsed>>

EndReset ==
  /\ desk.op = "reset" /\ desk.at = "revoke"
  /\ \/ sessions' = Revoked(Live) /\ UNCHANGED lapsed
     \/ UNCHANGED sessions /\ lapsed' = lapsed \cup {account.password}
  /\ lock' = Unlocked /\ desk' = Off
  /\ UNCHANGED <<account, links, proofs, passwords, admin, aide>>

\* enable_2fa never replaces a factor; disable_2fa asks for the password or a code.
SwitchFactor ==
  /\ DeskFree /\ Live # {}
  /\ account' = [account EXCEPT !.factor = ~@]
  /\ UNCHANGED <<lock, sessions, links, proofs, passwords, desk, admin, aide, lapsed>>

\* resend_email_verification, for an address that is not verified.
AskProof ==
  /\ DeskFree /\ ~account.verified /\ Len(proofs) < MaxLinks
  /\ proofs' = Append(Closing(proofs, All(proofs)), [to |-> account.address, open |-> TRUE])
  /\ UNCHANGED <<account, lock, sessions, links, passwords, desk, admin, aide, lapsed>>

\* verify_email
Prove(i) ==
  /\ DeskFree /\ proofs[i].open
  /\ proofs' = Closing(proofs, {i})
  /\ account' = [account EXCEPT !.verified = TRUE]
  /\ UNCHANGED <<lock, sessions, links, passwords, desk, admin, aide, lapsed>>

-----------------------------------------------------------------------------
(* Administrators *)

\* set_password: written, then links closed, then sessions and lock.
BeginSet ==
  /\ AdminFree /\ \E must \in BOOLEAN : Choose(must)
  /\ admin' = [Off EXCEPT !.op = "set", !.at = "links"]
  /\ UNCHANGED <<lock, sessions, links, proofs, desk, aide, lapsed>>

CloseLinks ==
  /\ admin.at = "links"
  /\ links' = Closing(links, All(links)) /\ admin' = [admin EXCEPT !.at = "revoke"]
  /\ UNCHANGED <<account, lock, sessions, proofs, passwords, desk, aide, lapsed>>

\* change_email: the address, which is no longer verified; then the sessions.
BeginMove ==
  /\ AdminFree /\ account.address < MaxAddresses
  /\ account' = [account EXCEPT !.address = @ + 1, !.verified = FALSE]
  /\ admin' = [Off EXCEPT !.op = "move", !.at = "revoke"]
  /\ UNCHANGED <<lock, sessions, links, proofs, passwords, desk, aide, lapsed>>

\* suspend_user writes the status, then revokes, as the reset does.
BeginSuspend ==
  /\ AdminFree /\ account.status = "active"
  /\ account' = [account EXCEPT !.status = "suspended"]
  /\ admin' = [Off EXCEPT !.op = "suspend", !.at = "revoke"]
  /\ UNCHANGED <<lock, sessions, links, proofs, passwords, desk, aide, lapsed>>

EndAdmin ==
  /\ admin.at = "revoke"
  /\ sessions' \in {Revoked(Live)} \cup (IF admin.op = "suspend" THEN {sessions} ELSE {})
  /\ admin' = Off
  /\ lock' = IF admin.op = "suspend" THEN lock ELSE Unlocked
  /\ UNCHANGED <<account, links, proofs, passwords, desk, aide, lapsed>>

ActivateUser ==
  /\ AdminFree /\ account.status = "suspended"
  /\ account' = [account EXCEPT !.status = "active"]
  /\ UNCHANGED <<lock, sessions, links, proofs, passwords, desk, admin, aide, lapsed>>

\* reset_user_access: links are closed, one is sent, and the sessions may end.
BeginAccess ==
  /\ aide.at = "idle" /\ AdminFree /\ account.status = "active" /\ Len(links) < MaxLinks
  /\ links' = Closing(links, All(links))
  /\ aide' = [Off EXCEPT !.op = "access", !.at = "send", !.n = account.address]
  /\ UNCHANGED <<account, lock, sessions, proofs, passwords, desk, admin, lapsed>>

SendAccess ==
  /\ aide.at = "send" /\ Len(links) < MaxLinks
  /\ links' = Append(links, [to |-> aide.n, open |-> TRUE])
  /\ aide' = [aide EXCEPT !.at = "revoke"]
  /\ UNCHANGED <<account, lock, sessions, proofs, passwords, desk, admin, lapsed>>

EndAccess ==
  /\ aide.at = "revoke"
  /\ sessions' \in {sessions, Revoked(Live)} /\ aide' = Off
  /\ UNCHANGED <<account, lock, links, proofs, passwords, desk, admin, lapsed>>

-----------------------------------------------------------------------------
(* The process stops, or a write fails, and the handler does nothing more. *)

StopDesk ==
  /\ desk.at # "idle" /\ desk' = Off
  /\ lapsed' = IF desk.at = "revoke" THEN lapsed \cup {account.password} ELSE lapsed
  /\ UNCHANGED <<account, lock, sessions, links, proofs, passwords, admin, aide>>

StopAdmin ==
  /\ admin.at # "idle" /\ admin' = Off
  /\ lapsed' = IF admin.op = "set" THEN lapsed \cup {account.password} ELSE lapsed
  /\ UNCHANGED <<account, lock, sessions, links, proofs, passwords, desk, aide>>

StopAide ==
  /\ aide.at # "idle" /\ aide' = Off
  /\ UNCHANGED <<account, lock, sessions, links, proofs, passwords, lapsed, desk, admin>>

AccountsNext ==
  \/ Fail \/ LockEnds \/ Verify \/ SecondFactor \/ OpenSession \/ Switch \/ Leave
  \/ BeginChange \/ WriteChange \/ EndOthers \/ Forgot \/ Send
  \/ WriteReset \/ EndReset \/ SwitchFactor \/ AskProof
  \/ \E i \in All(links) : LinkExpires(i) \/ ClaimLink(i)
  \/ \E i \in All(proofs) : Prove(i)
  \/ BeginSet \/ CloseLinks \/ BeginMove \/ BeginSuspend \/ EndAdmin \/ ActivateUser
  \/ BeginAccess \/ SendAccess \/ EndAccess
  \/ StopDesk \/ StopAdmin \/ StopAide

AccountsSpec == AccountsInit /\ [][AccountsNext]_accountVars

-----------------------------------------------------------------------------
(* Properties *)

\* Between requests, whoever changed the password, by whichever way, the
\* sessions opened with an earlier one are gone: if one is left, each handler
\* that wrote a password since was stopped, or failed, before it revoked them.
\* A session opened with a temporary password is restricted as long as it is
\* the account's password, but for one opened by switching organizations.
SessionsStandOnPassword ==
  desk.at = "idle" /\ admin.at = "idle" =>
    \A i \in Live :
      /\ sessions[i].password + 1 .. account.password \subseteq lapsed
      /\ account.must /\ sessions[i].password = account.password =>
           sessions[i].must \/ sessions[i].switched
=============================================================================
