---------------------------- MODULE Applications ----------------------------
(***************************************************************************)
(* How one person becomes a partner: app/partners/service.py.  The person  *)
(* applies, perhaps twice at once, edits an application that was sent      *)
(* back, and Super Admins approve, reject or send it back, and suspend or  *)
(* reactivate the partner.  Handlers run in threads and other processes;   *)
(* each reads the application, checks it, and writes one document at a     *)
(* time.                                                                   *)
(*                                                                         *)
(* Left out: the account, the fields of the forms, tiers, rules, the       *)
(* wallet (inserted if absent), and the notices.                           *)
(***************************************************************************)
EXTENDS Naturals, FiniteSets

CONSTANTS Forms,       \* applications of the person
          Officers,    \* handler executions
          MaxOfficers, \* bound on those in flight
          EditAlone,   \* an edit overlaps no decision
          MaxDropped   \* bound on the handlers that die half way

VARIABLES
  form,     \* status of each application
  linked,   \* the applications that carry the partner's id
  partner,  \* status of the partner, unique per user: none, active, suspended
  source,   \* the application the partner was made from
  keys,     \* the partner has active API keys
  officer,  \* control point and local variables of each handler
  dropped

formVars == <<form, linked, partner, source, keys, officer, dropped>>
partnerVars == <<partner, source, keys>>

OffDuty == [kind |-> "none", at |-> "free", form |-> "none", seen |-> "none"]

FormsInit ==
  /\ form = [f \in Forms |-> "absent"] /\ linked = {}
  /\ partner = "none" /\ source = "none" /\ keys = FALSE
  /\ officer = [o \in Officers |-> OffDuty] /\ dropped = 0

OnDuty == {o \in Officers : officer[o].at # "free"}
Frees(o) == officer' = [officer EXCEPT ![o] = OffDuty]
Starts(o, kind, f) ==
  /\ officer[o].at = "free" /\ Cardinality(OnDuty) < MaxOfficers
  /\ EditAlone => IF kind = "edit" THEN OnDuty = {} ELSE \A d \in OnDuty : officer[d].kind # "edit"
  /\ officer' = [officer EXCEPT ![o] =
       [kind |-> kind, at |-> "write", form |-> f,
        seen |-> IF f \in Forms THEN form[f] ELSE partner]]

-----------------------------------------------------------------------------
(* The applicant *)

\* submit_application finds neither a partner nor an application under review.
CheckNew(o, f) ==
  /\ form[f] = "absent" /\ partner = "none"
  /\ \A g \in Forms : form[g] \notin {"pending", "changes_requested"}
  /\ \A d \in Officers : officer[d].form # f
  /\ Starts(o, "submit", f)
  /\ UNCHANGED <<form, linked, partnerVars, dropped>>

InsertForm(o) ==
  /\ officer[o].kind = "submit"
  /\ form' = [form EXCEPT ![officer[o].form] = "pending"]
  /\ Frees(o)
  /\ UNCHANGED <<linked, partnerVars, dropped>>

\* update_own_application reads an application that was sent back, and writes
\* it by its id.
CheckEdit(o, f) ==
  /\ form[f] = "changes_requested"
  /\ Starts(o, "edit", f)
  /\ UNCHANGED <<form, linked, partnerVars, dropped>>

WriteEdit(o) ==
  /\ officer[o].kind = "edit"
  /\ form' = [form EXCEPT ![officer[o].form] = "pending"]
  /\ Frees(o)
  /\ UNCHANGED <<linked, partnerVars, dropped>>

-----------------------------------------------------------------------------
(* Decisions on an application *)

CheckDecision(o, kind, f) ==
  /\ form[f] \in (IF kind = "return" THEN {"pending"} ELSE {"pending", "changes_requested"})
  /\ kind = "approve" => partner = "none"
  /\ Starts(o, kind, f)
  /\ UNCHANGED <<form, linked, partnerVars, dropped>>

\* Slip: the application is written whatever it has become.
UnseenForm(o) == TRUE

\* _app_transition is conditional on the status that was read.
SameForm(o) == form[officer[o].form] = officer[o].seen

Decided(kind) ==
  CASE kind = "approve" -> "approved"
    [] kind = "reject"  -> "rejected"
    [] kind = "return"  -> "changes_requested"

Transition(o) ==
  /\ officer[o].at = "write" /\ officer[o].kind \in {"approve", "reject", "return"}
  /\ IF SameForm(o)
     THEN /\ form' = [form EXCEPT ![officer[o].form] = Decided(officer[o].kind)]
          /\ officer' = [officer EXCEPT ![o] = IF @.kind = "approve" THEN [@ EXCEPT !.at = "insert"]
                                               ELSE OffDuty]
     ELSE Frees(o) /\ UNCHANGED form
  /\ UNCHANGED <<linked, partnerVars, dropped>>

\* A second partner of the person is refused by the index on user_id, and the
\* application gets the status back that it had.
InsertPartner(o) ==
  /\ officer[o].at = "insert"
  /\ \/ /\ partner = "none"
        /\ partner' = "active" /\ source' = officer[o].form
        /\ officer' = [officer EXCEPT ![o].at = "link"]
        /\ UNCHANGED form
     \/ /\ partner # "none"
        /\ form' = [form EXCEPT ![officer[o].form] = officer[o].seen]
        /\ Frees(o)
        /\ UNCHANGED <<partner, source>>
  /\ UNCHANGED <<linked, keys, dropped>>

LinkPartner(o) ==
  /\ officer[o].at = "link"
  /\ linked' = linked \cup {officer[o].form}
  /\ Frees(o)
  /\ UNCHANGED <<form, partnerVars, dropped>>

-----------------------------------------------------------------------------
(* The partner *)

CreateKey == partner = "active" /\ keys' = TRUE
             /\ UNCHANGED <<form, linked, partner, source, officer, dropped>>

CheckPartner(o, kind) ==
  /\ partner = IF kind = "suspend" THEN "active" ELSE "suspended"
  /\ Starts(o, kind, "none")
  /\ UNCHANGED <<form, linked, partnerVars, dropped>>

\* set_partner_status: the update is conditional, and what follows is not.
SetPartner(o) ==
  /\ officer[o].at = "write" /\ officer[o].kind \in {"suspend", "reactivate"}
  /\ LET to == IF officer[o].kind = "suspend" THEN "suspended" ELSE "active" IN
     /\ partner' = IF partner = officer[o].seen THEN to ELSE partner
     /\ keys' = (keys /\ to = "active")
  /\ Frees(o)
  /\ UNCHANGED <<form, linked, source, dropped>>

OfficerDies(o) ==
  /\ officer[o].at \in {"insert", "link"} /\ dropped < MaxDropped
  /\ dropped' = dropped + 1
  /\ Frees(o)
  /\ UNCHANGED <<form, linked, partnerVars>>

FormsNext ==
  \/ \E o \in Officers :
       \/ InsertForm(o) \/ WriteEdit(o) \/ Transition(o) \/ InsertPartner(o) \/ LinkPartner(o)
       \/ SetPartner(o) \/ OfficerDies(o)
       \/ \E f \in Forms : \/ CheckNew(o, f) \/ CheckEdit(o, f)
                           \/ \E kind \in {"approve", "reject", "return"} : CheckDecision(o, kind, f)
       \/ \E kind \in {"suspend", "reactivate"} : CheckPartner(o, kind)
  \/ CreateKey

FormsSpec == FormsInit /\ [][FormsNext]_formVars

-----------------------------------------------------------------------------
\* Once every handler is done, the partner comes from an application that is
\* approved, it is the only one approved, and no application is approved
\* without a partner unless a handler died: two applications of one person,
\* two decisions on one application, and the roll back of a refused insert
\* keep them in step (approve_application, app/partners/service.py).
PartnerIsApproved ==
  OnDuty = {} =>
    /\ partner # "none" => form[source] = "approved"
    /\ dropped = 0 => \A f \in Forms : form[f] = "approved" <=> (f = source /\ f \in linked)
=============================================================================
