-------------------------------- MODULE Leads --------------------------------
(***************************************************************************)
(* One lead: its status and history, its assignee and its follow-ups.      *)
(* app/pipeline/lead_lifecycle.py has the status machine, which the routes *)
(* of the organization (search.py, org_admin.py) and of the administrators *)
(* (admin.py) apply to a lead they read before; auto_assign_lead           *)
(* (app/pipeline/lead_assignment.py) runs in the analysis of comments, and *)
(* check_sla_and_reminders (app/services/lead_assignment.py) in the sweep. *)
(*                                                                         *)
(* Left out: priorities, notes, e-mail addresses, who may see a lead, the  *)
(* choice of an assignee (any member), and the notices other than the      *)
(* sweep's.                                                                *)
(***************************************************************************)
EXTENDS Naturals, Sequences, FiniteSets

CONSTANTS Targets,      \* the statuses that people ask for
          Assignees,    \* whom a lead can be assigned to
          Clerks,       \* handlers and workers that touch the lead
          MaxBusy,      \* bound on those at work at once
          MaxChanges,   \* bound on the changes that are started
          MaxFollowUps, \* bound on the follow-ups
          MaxLost       \* bound on the handlers that die half way

VARIABLES
  stage,     \* lead_status
  trail,     \* status_history: the entries pushed
  assignee,  \* assigned_user_id, "none" if empty
  auto,      \* auto_assignment exists
  sla,       \* sla_status: none, on_track or breached
  late,      \* sla_due_at has passed
  tasks,     \* follow_ups: the status of each, and whether it was reported
  due,       \* the follow-ups whose due_at has passed
  added,     \* history: follow-ups added
  by,        \* history: the number of the person's change that wrote the status;
             \* 0 for the default, and for the administrators' bulk action
  clerk,     \* control point and local variables of each handler
  review,    \* what the sweep read
  changes, lost

leadVars == <<stage, trail, assignee, auto, sla, late, tasks, due, added, by,
              clerk, review, changes, lost>>
recorded == <<stage, trail, by>>
assignment == <<assignee, auto, sla>>
followUps == <<tasks, due, added>>

NoWork == [kind |-> "none", at |-> "off", no |-> 0, to |-> "none", seen |-> "none"]
NoReview == [kind |-> "none", tasks |-> <<>>]

\* A lead is inserted with the default status of the settings, and no history.
LeadInit ==
  /\ stage \in {"new"} \cup Targets /\ trail = {} /\ by = 0
  /\ assignee = "none" /\ auto = FALSE /\ sla = "none" /\ late = FALSE
  /\ tasks = <<>> /\ due = {} /\ added = 0
  /\ clerk = [c \in Clerks |-> NoWork] /\ review = NoReview
  /\ changes = 0 /\ lost = 0

\* VALID_TRANSITIONS; reopening a lost or disqualified lead takes a reason.
Allowed(from) ==
  CASE from = "new"          -> {"contacted", "qualified", "follow_up", "disqualified", "lost", "archived"}
    [] from = "contacted"    -> {"qualified", "follow_up", "disqualified", "lost", "archived"}
    [] from = "qualified"    -> {"follow_up", "converted", "disqualified", "lost", "archived"}
    [] from = "follow_up"    -> {"contacted", "qualified", "converted", "lost", "archived"}
    [] from = "converted"    -> {"archived"}
    [] from \in {"lost", "disqualified"} -> {"new", "contacted", "qualified", "follow_up", "archived"}
    [] from = "archived"     -> {}

\* The administrators' own table.
AllowedAdmin(from) ==
  IF from \in {"lost", "disqualified"} THEN {"archived"}
  ELSE IF from \in {"contacted", "qualified"} THEN Allowed(from) \ {"disqualified"} ELSE Allowed(from)

-----------------------------------------------------------------------------
(* People: a handler reads the lead, checks, and writes *)

StartsChange(c) ==
  /\ clerk[c].at = "off" /\ changes < MaxChanges
  /\ Cardinality({d \in Clerks : clerk[d].at # "off"}) < MaxBusy
  /\ changes' = changes + 1

\* The lead is read and the change validated: one at a time ("one", update_lead),
\* in bulk ("bulk", bulk_leads) or by an administrator ("admin").
LoadStatus(c, kind, to) ==
  /\ StartsChange(c) /\ to # stage
  /\ to \in IF kind = "admin" THEN AllowedAdmin(stage) ELSE Allowed(stage)
  /\ clerk' = [clerk EXCEPT ![c] =
       [kind |-> kind, at |-> IF kind = "one" THEN "push" ELSE "write", no |-> changes + 1,
        to |-> to, seen |-> stage]]
  /\ UNCHANGED <<recorded, assignment, late, followUps, review, lost>>

LoadAssignee(c, kind, to) ==
  /\ StartsChange(c) /\ kind \in {"one", "bulk"} /\ to # assignee
  /\ clerk' = [clerk EXCEPT ![c] =
       [kind |-> kind, at |-> "assign", no |-> 0, to |-> to, seen |-> assignee]]
  /\ UNCHANGED <<recorded, assignment, late, followUps, review, lost>>

Entry(c) == [no |-> clerk[c].no, from |-> clerk[c].seen, to |-> clerk[c].to]
Rests(c) == clerk' = [clerk EXCEPT ![c] = NoWork]

\* update_lead records the change before it makes it.
PushHistory(c) ==
  /\ clerk[c].at = "push"
  /\ trail' = trail \cup {Entry(c)}
  /\ clerk' = [clerk EXCEPT ![c].at = "write"]
  /\ UNCHANGED <<stage, by, assignment, late, followUps, review, changes, lost>>

\* Slip: the change in bulk is not recorded.
Unrecorded(c) == IF clerk[c].kind = "admin" THEN trail \cup {Entry(c)} ELSE trail

\* The entries after the write: that of a bulk or an administrator's change is
\* in the same update.
Recorded(c) == IF clerk[c].kind = "one" THEN trail ELSE trail \cup {Entry(c)}

\* Only the bulk update is conditional on the status that was read.
WriteStatus(c) ==
  /\ clerk[c].at = "write"
  /\ IF clerk[c].kind = "bulk" /\ stage # clerk[c].seen
     THEN UNCHANGED recorded
     ELSE stage' = clerk[c].to /\ trail' = Recorded(c) /\ by' = clerk[c].no
  /\ Rests(c)
  /\ UNCHANGED <<assignment, late, followUps, review, changes, lost>>

\* A person's assignment, conditional in bulk only.
WriteAssignee(c) ==
  /\ clerk[c].at = "assign"
  /\ assignee' = IF clerk[c].kind = "bulk" /\ assignee # clerk[c].seen THEN assignee ELSE clerk[c].to
  /\ Rests(c)
  /\ UNCHANGED <<recorded, auto, sla, late, followUps, review, changes, lost>>

\* The administrators' bulk action sets any status and records nothing.
ForceStatus(to) ==
  /\ changes < MaxChanges /\ changes' = changes + 1
  /\ stage' = to /\ by' = 0
  /\ UNCHANGED <<trail, assignment, late, followUps, clerk, review, lost>>

ClerkDies(c) ==
  /\ clerk[c].at # "off" /\ lost < MaxLost
  /\ lost' = lost + 1
  /\ Rests(c)
  /\ UNCHANGED <<recorded, assignment, late, followUps, review, changes>>

-----------------------------------------------------------------------------
(* Automatic assignment *)

\* auto_assign_lead reads the lead and picks an assignee.
LoadUnassigned(c, to) ==
  /\ StartsChange(c) /\ to # "none" /\ assignee = "none" /\ ~auto
  /\ clerk' = [clerk EXCEPT ![c] =
       [kind |-> "auto", at |-> "give", no |-> 0, to |-> to, seen |-> "none"]]
  /\ UNCHANGED <<recorded, assignment, late, followUps, review, lost>>

\* Its update is conditional on what it read.
Unassigned == assignee = "none" /\ ~auto

\* An assignment by a rule also starts the SLA.
GiveLead(c) ==
  /\ clerk[c].at = "give"
  /\ IF Unassigned
     THEN /\ assignee' = clerk[c].to /\ auto' = TRUE
          /\ sla' \in {sla, "on_track"}
     ELSE UNCHANGED assignment
  /\ Rests(c)
  /\ UNCHANGED <<recorded, late, followUps, review, changes, lost>>

-----------------------------------------------------------------------------
(* Follow-ups and the sweep *)

AddFollowUp ==
  /\ added < MaxFollowUps
  /\ added' = added + 1
  /\ tasks' = Append(tasks, [status |-> "pending", told |-> FALSE])
  /\ UNCHANGED <<recorded, assignment, late, due, clerk, review, changes, lost>>

UpdateFollowUp(i, to) ==
  /\ i \in DOMAIN tasks
  /\ tasks' = [tasks EXCEPT ![i].status = to]
  /\ UNCHANGED <<recorded, assignment, late, due, added, clerk, review, changes, lost>>

TimeGoesBy ==
  /\ \/ sla # "none" /\ ~late /\ late' = TRUE /\ UNCHANGED due
     \/ \E i \in DOMAIN tasks \ due : due' = due \cup {i} /\ UNCHANGED late
  /\ UNCHANGED <<recorded, assignment, tasks, added, clerk, review, changes, lost>>

Reported(i) == tasks[i].status = "pending" /\ i \in due /\ ~tasks[i].told

\* The sweep finds a lead that was not contacted in time, or one with overdue
\* follow-ups, of which it marks its copies.
SweepLoads ==
  /\ review.kind = "none"
  /\ \/ /\ sla = "on_track" /\ late /\ stage = "new"
        /\ review' = [kind |-> "sla", tasks |-> <<>>]
     \/ /\ \E i \in DOMAIN tasks : Reported(i)
        /\ review' = [kind |-> "overdue",
                     tasks |-> [i \in DOMAIN tasks |-> [tasks[i] EXCEPT !.told = @ \/ Reported(i)]]]
  /\ UNCHANGED <<recorded, assignment, late, followUps, clerk, changes, lost>>

\* The breach is written if the SLA is still on track; the follow-ups are all
\* written back.
SweepWrites ==
  /\ \/ /\ review.kind = "sla"
        /\ sla' = IF sla = "on_track" THEN "breached" ELSE sla
        /\ UNCHANGED tasks
     \/ /\ review.kind = "overdue"
        /\ tasks' = review.tasks
        /\ UNCHANGED sla
  /\ review' = NoReview
  /\ UNCHANGED <<recorded, assignee, auto, late, due, added, clerk, changes, lost>>

LeadNext ==
  \/ \E c \in Clerks :
       \/ PushHistory(c) \/ WriteStatus(c) \/ WriteAssignee(c) \/ GiveLead(c) \/ ClerkDies(c)
       \/ \E to \in Targets, kind \in {"one", "bulk", "admin"} : LoadStatus(c, kind, to)
       \/ \E to \in Assignees \cup {"none"} : \/ LoadUnassigned(c, to)
                                           \/ \E kind \in {"one", "bulk"} : LoadAssignee(c, kind, to)
  \/ \E to \in Targets : ForceStatus(to)
  \/ \E i \in 1..MaxFollowUps, to \in {"completed", "cancelled", "pending"} : UpdateFollowUp(i, to)
  \/ AddFollowUp \/ TimeGoesBy \/ SweepLoads \/ SweepWrites

LeadSpec == LeadInit /\ [][LeadNext]_leadVars

-----------------------------------------------------------------------------
\* Whatever changes overlap and wherever one dies, a status that a person's
\* change wrote stands in the history, as an entry of that very change:
\* "Every status change is recorded in status_history"
\* (app/pipeline/lead_lifecycle.py).  Two kinds of status are not recorded:
\* the default one and that of the administrators' bulk action.
ChangesAreRecorded ==
  by # 0 => \E e \in trail : e.no = by /\ e.to = stage

\* No follow-up is lost ("Notes and follow-ups are append-only",
\* app/pipeline/lead_lifecycle.py).  It does not hold: the sweep writes the
\* whole follow_ups array back, over one that was added since it read the lead.
FollowUpsKept == Len(tasks) = added
=============================================================================
