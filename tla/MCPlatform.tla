---------------------------- MODULE MCPlatform ----------------------------
(* Small instances of the components that share no state.  A behaviour is  *)
(* of one of them, its part; the others stay where they start.             *)
EXTENDS RateLimits, Admission, Refunds, Demo, Members, Accounts, UrlSearch, Leads, Applications,
        Limits, Flags, TLC

CONSTANTS h1, h2, k1, k2

\* Where two interchangeable handlers are at work, they are h1 and h2.
Symmetry == Permutations({h1, h2})

\* One post with a comment, and the copy of both under another page.
CopyElsewhere == [p \in Posts |-> IF p = "copy" THEN "other" ELSE "page"]
CopyOfEach == [c \in Comments |-> IF c = "copied" THEN "copy" ELSE "post"]

VARIABLE part

PlatformInit ==
  /\ part \in {"rates", "admission", "refunds", "demo", "members", "accounts", "mail", "search",
               "deletion", "leads", "applications", "limits", "cycle", "flags", "deaths"}
  /\ RatesInit /\ AdmissionInit /\ RefundsInit /\ DemoInit /\ AccountsInit /\ SearchInit
  /\ LeadInit /\ FormsInit /\ LimitsInit /\ FlagsInit
  /\ MembersInit /\ (part # "members" => accounts = {Owner})
  /\ part # "leads" => stage = "new"
  /\ part # "rates" => place = [c \in Calls |-> CHOOSE p \in Processes : TRUE]

\* Four parts are run twice, to be small.  The accounts: with their sessions and
\* passwords, and with their addresses and the second factor, under one password.
\* The search: with deaths, and with its deletion.  The limits: in one cycle of
\* the provider, with refused calls, and while its cycle turns, without any.  The
\* flags: of two signals, without deaths, and of one signal, with them.
PlatformNext ==
  /\ \/ part = "rates"        /\ RatesNext
     \/ part = "admission"    /\ AdmissionNext
     \/ part = "refunds"      /\ RefundsNext
     \/ part = "demo"         /\ DemoNext
     \/ part = "members"      /\ MembersNext
     \/ part = "accounts"     /\ AccountsNext /\ UNCHANGED <<proofs, account.address, account.factor>>
     \/ part = "mail"         /\ UNCHANGED passwords /\ AccountsNext
     \/ part = "search"       /\ UNCHANGED deleting  /\ SearchNext
     \/ part = "deletion"     /\ UNCHANGED crashes   /\ SearchNext
     \/ part = "leads"        /\ LeadNext
     \/ part = "applications" /\ FormsNext
     \/ part = "limits"       /\ UNCHANGED period  /\ LimitsNext
     \/ part = "cycle"        /\ UNCHANGED refused /\ LimitsNext
     \/ part = "flags"        /\ UNCHANGED gone    /\ FlagsNext
     \/ part = "deaths"       /\ FlagsNext         /\ \A h \in Hands : actor'[h].signal # "conflict"
  /\ part # "rates"        => UNCHANGED rateVars
  /\ part # "admission"    => UNCHANGED admissionVars
  /\ part # "refunds"      => UNCHANGED refundVars
  /\ part # "demo"         => UNCHANGED demoVars
  /\ part # "members"      => UNCHANGED memberVars
  /\ part \notin {"accounts", "mail"}   => UNCHANGED accountVars
  /\ part \notin {"search", "deletion"} => UNCHANGED searchVars
  /\ part # "leads"        => UNCHANGED leadVars
  /\ part # "applications" => UNCHANGED formVars
  /\ part \notin {"limits", "cycle"}    => UNCHANGED limitVars
  /\ part \notin {"flags", "deaths"}    => UNCHANGED flagVars
  /\ UNCHANGED part
=============================================================================
