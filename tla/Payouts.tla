------------------------------ MODULE Payouts ------------------------------
(***************************************************************************)
(* The commission ledger and the payouts of one partner in one currency    *)
(* (app/partners/commissions.py).                                          *)
(*                                                                         *)
(* Every entry of the ledger is one document of partner_commissions: a     *)
(* commission earned on a payment, or an extra entry - a clawback or a     *)
(* manual adjustment.  A payout collects payable entries and settles them  *)
(* whole.  Handlers run in server threads and share nothing but the        *)
(* database, so a handler is a sequence of steps, each one database call,  *)
(* and the local variables it carries from one call to the next: a         *)
(* document it has read may be stale when it writes.  A multi-document     *)
(* update_many is one step.                                                *)
(*                                                                         *)
(* Left out: notifications, the audit log, the wallet cache and the        *)
(* append-only transaction log (all derived from the entries), the         *)
(* minimum payout (a stronger guard on Collect), the qualification clock   *)
(* and the settings, which make a step possible or not, at any time.       *)
(* Amounts are whole units.                                                *)
(***************************************************************************)
EXTENDS Integers, FiniteSets, Functions

CONSTANTS Commissions,  \* commissions the partner may earn
          Extras,       \* ids of clawback and adjustment entries
          PayoutIds,
          Requests,     \* handler executions that may be in flight together
          Original,     \* what each commission is worth when earned
          Adjustments,  \* amounts of manual adjustments
          Alone,        \* kinds of handlers that never overlap another
          MaxCrashes,   \* bound on the kinds of handlers that crash
          None

Kinds == {"approve", "move", "request", "reverse", "settle"}

ASSUME OriginalAssumption == Original \in Nat \ {0}
ASSUME IdAssumption == Commissions \cap Extras = {} /\ None \notin PayoutIds
ASSUME AloneAssumption == Alone \subseteq Kinds
ASSUME AdjustmentsAssumption == Adjustments \subseteq Int

Entries == Commissions \cup Extras

\* Mutant: a reversal treats a paid commission like an unpaid one.
UnpaidOrPaid == {"pending", "qualified", "approved", "payable", "paid"}
Unpaid == {"pending", "qualified", "approved", "payable"}
OpenPayout == {"requested", "under_review", "approved", "processing"}
Reviewing == {"requested", "under_review"}
Undone == {"failed", "rejected", "cancelled"}

VARIABLES entry,    \* the ledger: a record per entry, status "none" if absent
          payout,   \* status of each payout, "none" if absent
          worth,    \* amount of each payout
          req,      \* control point and local variables of each handler
          total,    \* the sum a handler has computed
          settled,  \* history: the paid payouts whose transfer covered an entry
          crashed   \* history: kinds of the handlers that died half way

vars == <<entry, payout, worth, req, total, settled, crashed>>

NoEntry == [status |-> "none", amount |-> 0, reversed |-> 0, clawed |-> 0, payout |-> None]
Idle == [kind |-> "none", op |-> "idle", entry |-> None, seen |-> NoEntry, payout |-> None,
         from |-> "none", to |-> "none", items |-> {}, amount |-> 0, left |-> 0]

TypeOK ==
  /\ entry \in [Entries ->
       [status : Unpaid \cup {"none", "processing", "paid", "reversed"},
        amount : Int, reversed : Int, clawed : Int, payout : PayoutIds \cup {None}]]
  /\ payout \in [PayoutIds -> OpenPayout \cup Undone \cup {"none", "paid"}]
  /\ worth \in [PayoutIds -> Int]
  /\ \A r \in Requests : req[r].kind \in Kinds \cup {"none"}
  /\ total \in [Requests -> Int]
  /\ settled \in [Entries -> SUBSET PayoutIds]
  /\ crashed \subseteq Kinds

Init ==
  /\ entry = [e \in Entries |-> NoEntry]
  /\ payout = [p \in PayoutIds |-> "none"]
  /\ worth = [p \in PayoutIds |-> 0]
  /\ req = [r \in Requests |-> Idle]
  /\ total = [r \in Requests |-> 0]
  /\ settled = [e \in Entries |-> {}]
  /\ crashed = {}

-----------------------------------------------------------------------------
(* Handlers *)

\* A handler starts while others are in flight, except those that run alone.
Begin(r, started) ==
  /\ req[r] = Idle
  /\ \A s \in Requests :
       req[s] # Idle => started.kind \notin Alone /\ req[s].kind \notin Alone
  /\ req' = [req EXCEPT ![r] = started]

At(r, op) == req[r].op = op
Goto(r, op) == req' = [req EXCEPT ![r].op = op]
Return(r) == req' = [req EXCEPT ![r] = Idle]
Spent(r) == total' = [total EXCEPT ![r] = 0]

Summed(amounts) == FoldFunction(+, 0, amounts)
Total(E) == Summed([e \in E |-> entry[e].amount])
HeldBy(p) == {e \in Entries : entry[e].payout = p}

\* Slip: an entry let go of keeps its payout.
FreedInPlace(e) == [entry[e] EXCEPT !.status = "payable"]
Freed(e) == [entry[e] EXCEPT !.status = "payable", !.payout = None]

-----------------------------------------------------------------------------
(* The ledger outside payouts *)

\* Billing hook: the commission on a confirmed payment, once per period.
Earn(c) ==
  /\ entry[c].status = "none"
  /\ entry' = [entry EXCEPT ![c].status = "pending", ![c].amount = Original]
  /\ UNCHANGED <<payout, worth, req, total, settled, crashed>>

\* A Super Admin's manual credit or debit, payable at once.
Adjust(x, amount) ==
  /\ entry[x].status = "none"
  /\ entry' = [entry EXCEPT ![x].status = "payable", ![x].amount = amount]
  /\ UNCHANGED <<payout, worth, req, total, settled, crashed>>

Moving(c, to) == [Idle EXCEPT !.kind = "move", !.op = "move", !.entry = c, !.seen = entry[c], !.to = to]

\* The sweep read c as matured, auto-approvable or due; or a Super Admin
\* releases an approved commission ahead of the schedule.
StartMove(r, c) ==
  /\ \E step \in {<<"pending", "qualified">>, <<"qualified", "approved">>, <<"approved", "payable">>} :
       /\ entry[c].status = step[1]
       /\ Begin(r, Moving(c, step[2]))
  /\ UNCHANGED <<entry, payout, worth, total, settled, crashed>>

\* The compare-and-set write finds the document as the handler read it.
AsSeen(r) ==
  LET now == entry[req[r].entry] IN
  now.status = req[r].seen.status /\ now.payout = req[r].seen.payout

SetStatus(c, to) == entry' = [entry EXCEPT ![c].status = to]

Move(r) ==
  /\ At(r, "move")
  /\ IF AsSeen(r) THEN SetStatus(req[r].entry, req[r].to) ELSE UNCHANGED entry
  /\ Return(r)
  /\ UNCHANGED <<payout, worth, total, settled, crashed>>

StartApprove(r, c) ==
  /\ entry[c].status \in {"pending", "qualified"}
  /\ Begin(r, [Moving(c, "approved") EXCEPT !.kind = "approve", !.op = "approve"])
  /\ UNCHANGED <<entry, payout, worth, total, settled, crashed>>

Approve(r) ==
  /\ At(r, "approve")
  /\ IF AsSeen(r)
     THEN SetStatus(req[r].entry, req[r].to) /\ Goto(r, "reread")
     ELSE UNCHANGED entry /\ Return(r)
  /\ UNCHANGED <<payout, worth, total, settled, crashed>>

\* Approval re-reads the commission and, if the schedule is due, releases it
\* from whatever state it read.
Reread(r) ==
  /\ At(r, "reread")
  /\ \/ req' = [req EXCEPT ![r] = [Moving(req[r].entry, "payable") EXCEPT !.kind = "approve"]]
     \/ Return(r)
  /\ UNCHANGED <<entry, payout, worth, total, settled, crashed>>

-----------------------------------------------------------------------------
(* Requesting a payout *)

StartRequest(r) ==
  /\ \A p \in PayoutIds : payout[p] \notin OpenPayout
  /\ Begin(r, [Idle EXCEPT !.kind = "request", !.op = "collect"])
  /\ UNCHANGED <<entry, payout, worth, total, settled, crashed>>

Claimable(e) == entry[e].status = "payable" /\ entry[e].payout = None

Collect(r) ==
  LET items == {e \in Entries : Claimable(e)} IN
  /\ At(r, "collect")
  /\ IF Total(items) > 0
     THEN /\ req' = [req EXCEPT ![r].op = "insert", ![r].items = items]
          /\ total' = [total EXCEPT ![r] = Total(items)]
     ELSE Return(r) /\ UNCHANGED total
  /\ UNCHANGED <<entry, payout, worth, settled, crashed>>

Insert(r, p) ==
  /\ At(r, "insert")
  /\ payout[p] = "none"
  /\ payout' = [payout EXCEPT ![p] = "requested"]
  /\ worth' = [worth EXCEPT ![p] = total[r]]
  /\ req' = [req EXCEPT ![r].op = "claim", ![r].payout = p]
  /\ Spent(r)
  /\ UNCHANGED <<entry, settled, crashed>>

Claim(r) ==
  LET claimed == {e \in req[r].items : Claimable(e)} IN
  /\ At(r, "claim")
  /\ entry' = [e \in Entries |-> IF e \in claimed
                 THEN [entry[e] EXCEPT !.status = "processing", !.payout = req[r].payout]
                 ELSE entry[e]]
  /\ IF claimed = req[r].items THEN Return(r) ELSE Goto(r, "retotal")
  /\ UNCHANGED <<payout, worth, total, settled, crashed>>

\* A reversal goes on with its commission after the re-total; a request ends.
Resume(r) == IF req[r].kind = "reverse" THEN Goto(r, "again") ELSE Return(r)

\* _retotal_payout reads what the payout holds ...
Retotal(r) ==
  LET held == HeldBy(req[r].payout) IN
  /\ At(r, "retotal")
  /\ Goto(r, IF held = {} \/ Total(held) <= 0 THEN "disband" ELSE "write")
  /\ total' = [total EXCEPT ![r] = Total(held)]
  /\ UNCHANGED <<entry, payout, worth, settled, crashed>>

\* ... frees the entries of a payout left with nothing to pay ...
Disband(r) ==
  /\ At(r, "disband")
  /\ entry' = [e \in Entries |-> IF e \in HeldBy(req[r].payout) THEN Freed(e) ELSE entry[e]]
  /\ Goto(r, "close")
  /\ UNCHANGED <<payout, worth, total, settled, crashed>>

\* ... and writes the payout, whatever has become of it meanwhile.
WriteTotal(r) ==
  /\ req[r].op \in {"close", "write"}
  /\ payout' = IF At(r, "close") THEN [payout EXCEPT ![req[r].payout] = "cancelled"] ELSE payout
  /\ worth' = [worth EXCEPT ![req[r].payout] = total[r]]
  /\ Resume(r)
  /\ Spent(r)
  /\ UNCHANGED <<entry, settled, crashed>>

-----------------------------------------------------------------------------
(* Settling a payout *)

\* action -> the statuses it starts from and the one it ends in; "cancel" is
\* the partner's, the others the Super Admin's.
PayoutActions == {
  <<"requested", "under_review">>,
  <<"requested", "approved">>, <<"under_review", "approved">>,
  <<"approved", "processing">>,
  <<"approved", "paid">>, <<"processing", "paid">>,
  <<"processing", "failed">>, <<"approved", "failed">>,
  <<"requested", "rejected">>, <<"under_review", "rejected">>, <<"approved", "rejected">>,
  <<"requested", "cancelled">>}

StartSettle(r, p) ==
  /\ \E action \in PayoutActions :
       /\ payout[p] = action[1]
       /\ Begin(r, [Idle EXCEPT !.kind = "settle", !.op = "settle", !.payout = p,
                                !.from = action[1], !.to = action[2]])
  /\ UNCHANGED <<entry, payout, worth, total, settled, crashed>>

\* Mutant: the payout is written by its id alone.
AsReadOrNot(r) == TRUE
AsRead(r) == payout[req[r].payout] = req[r].from

\* The payout moves if it is as the handler read it.  "paid" is recorded with
\* the reference of a transfer already made, for the entries it holds.
Settle(r) ==
  LET p == req[r].payout IN
  /\ At(r, "settle")
  /\ IF AsRead(r)
     THEN /\ payout' = [payout EXCEPT ![p] = req[r].to]
          /\ IF req[r].to = "paid"
             THEN /\ settled' = [e \in Entries |-> settled[e] \cup {q \in {p} : e \in HeldBy(q)}]
                  /\ Goto(r, "pay")
             ELSE /\ settled' = settled
                  /\ IF req[r].to \in Undone THEN Goto(r, "release") ELSE Return(r)
     ELSE Return(r) /\ UNCHANGED <<payout, settled>>
  /\ UNCHANGED <<entry, worth, total, crashed>>

InProcess(r) == {e \in HeldBy(req[r].payout) : entry[e].status = "processing"}

Pay(r) ==
  /\ At(r, "pay")
  /\ entry' = [e \in Entries |-> IF e \in InProcess(r)
                 THEN [entry[e] EXCEPT !.status = "paid"] ELSE entry[e]]
  /\ Return(r)
  /\ UNCHANGED <<payout, worth, total, settled, crashed>>

Release(r) ==
  /\ At(r, "release")
  /\ entry' = [e \in Entries |-> IF e \in InProcess(r) THEN Freed(e) ELSE entry[e]]
  /\ Return(r)
  /\ UNCHANGED <<payout, worth, total, settled, crashed>>

-----------------------------------------------------------------------------
(* Reversing a commission: refund, chargeback, cancellation, fraud review,  *)
(* or a Super Admin's decision                                              *)

Remaining(c) == entry[c].amount - (IF entry[c].status = "paid" THEN entry[c].clawed ELSE 0)

StartReverse(r, c, amount) ==
  /\ entry[c].status \notin {"none", "reversed"}
  /\ amount > 0 /\ amount <= Remaining(c)
  /\ Begin(r, [Idle EXCEPT !.kind = "reverse", !.entry = c, !.seen = entry[c],
               !.amount = amount, !.left = entry[c].amount - amount,
               !.op = IF entry[c].status = "processing" /\ entry[c].payout # None
                      THEN "locate" ELSE "reduce"])
  /\ UNCHANGED <<entry, payout, worth, total, settled, crashed>>

\* The payout holding the commission is still under review, or it is not.
Locate(r) ==
  /\ At(r, "locate")
  /\ IF payout[req[r].seen.payout] \in Reviewing
     THEN req' = [req EXCEPT ![r].op = "takeout", ![r].payout = req[r].seen.payout]
     ELSE Goto(r, "reduce")
  /\ UNCHANGED <<entry, payout, worth, total, settled, crashed>>

\* Mutant: the payout is not re-totalled.
TakeOutOnly(r) ==
  /\ At(r, "takeout")
  /\ entry' = [entry EXCEPT ![req[r].entry] = Freed(req[r].entry)]
  /\ Goto(r, "again")
  /\ UNCHANGED <<payout, worth, total, settled, crashed>>

\* Written by id alone: neither the commission nor the payout is looked at again.
TakeOut(r) ==
  /\ At(r, "takeout")
  /\ entry' = [entry EXCEPT ![req[r].entry] = Freed(req[r].entry)]
  /\ Goto(r, "retotal")
  /\ UNCHANGED <<payout, worth, total, settled, crashed>>

Again(r) ==
  /\ At(r, "again")
  /\ req' = [req EXCEPT ![r].op = "reduce", ![r].seen = entry[req[r].entry]]
  /\ UNCHANGED <<entry, payout, worth, total, settled, crashed>>

\* Mutant: an earlier partial reversal is forgotten.
ReducedAfresh(r) ==
  [entry[req[r].entry] EXCEPT !.status = IF req[r].left = 0 THEN "reversed" ELSE req[r].seen.status,
                              !.amount = req[r].left, !.reversed = req[r].amount]

\* What is left, by the first read, is written over the commission as it is now.
Reduced(r) ==
  [entry[req[r].entry] EXCEPT !.status = IF req[r].left = 0 THEN "reversed" ELSE req[r].seen.status,
                              !.amount = req[r].left, !.reversed = req[r].seen.reversed + req[r].amount]

\* Unpaid when last read ...
Reduce(r) ==
  /\ At(r, "reduce")
  /\ req[r].seen.status \in Unpaid
  /\ entry' = [entry EXCEPT ![req[r].entry] = Reduced(r)]
  /\ Return(r)
  /\ UNCHANGED <<payout, worth, total, settled, crashed>>

\* ... otherwise a negative entry takes the amount from the next payout ...
ClawBack(r, x) ==
  /\ At(r, "reduce")
  /\ req[r].seen.status \notin Unpaid
  /\ entry[x].status = "none"
  /\ entry' = [entry EXCEPT ![x].status = "payable", ![x].amount = -req[r].amount]
  /\ Goto(r, "note")
  /\ UNCHANGED <<payout, worth, total, settled, crashed>>

\* ... and the commission notes it.
Note(r) ==
  /\ At(r, "note")
  /\ entry' = [entry EXCEPT ![req[r].entry].clawed = @ + req[r].amount]
  /\ Return(r)
  /\ UNCHANGED <<payout, worth, total, settled, crashed>>

-----------------------------------------------------------------------------
\* The process dies, or the database fails, between two calls of a handler.
Crash(r) ==
  /\ req[r] # Idle
  /\ Cardinality(crashed) < MaxCrashes
  /\ crashed' = crashed \cup {req[r].kind}
  /\ Return(r)
  /\ Spent(r)
  /\ UNCHANGED <<entry, payout, worth, settled>>

Next ==
  \/ \E c \in Commissions : Earn(c)
  \/ \E x \in Extras, amount \in Adjustments : Adjust(x, amount)
  \/ \E r \in Requests :
       \/ \E c \in Commissions : StartMove(r, c) \/ StartApprove(r, c)
       \/ Move(r) \/ Approve(r) \/ Reread(r)
       \/ StartRequest(r) \/ Collect(r) \/ Claim(r)
       \/ \E p \in PayoutIds : Insert(r, p) \/ StartSettle(r, p)
       \/ Retotal(r) \/ Disband(r) \/ WriteTotal(r)
       \/ Settle(r) \/ Pay(r) \/ Release(r)
       \/ \E c \in Commissions, amount \in 1..Original : StartReverse(r, c, amount)
       \/ Locate(r) \/ TakeOut(r) \/ Again(r) \/ Reduce(r) \/ Note(r)
       \/ \E x \in Extras : ClawBack(r, x)
       \/ Crash(r)

Spec == Init /\ [][Next]_vars

-----------------------------------------------------------------------------
(* Properties *)

\* No entry is covered by the transfers of two payouts, whatever overlaps and
\* wherever a handler dies: the partner is paid once for a commission and
\* charged once for a clawback.
SettledOnce == \A e \in Entries : \A p, q \in settled[e] : p = q

\* What a transfer has covered stays as it was: the payout keeps its status
\* and amount, a paid entry its status, payout and amount.
PaidIsFinal == [][
  /\ \A p \in PayoutIds : payout[p] = "paid" => payout'[p] = "paid" /\ worth'[p] = worth[p]
  /\ \A e \in Entries : entry[e].status = "paid" =>
       entry'[e] = [entry[e] EXCEPT !.clawed = entry'[e].clawed]]_vars

\* The check of the reconciliation report: a paid payout is worth what the
\* entries in it are worth, unless a request or a reversal died between
\* writing the one and the other.
PaidInFull == crashed \cap {"request", "reverse"} = {} =>
  \A p \in PayoutIds : payout[p] = "paid" => worth[p] = Total(HeldBy(p))

\* An entry in a payout is in an open one, or settled with it, unless the
\* handler that settles the payout is still at it or died there: no money is
\* stranded in a payout nobody will act on again.
NothingStranded == crashed = {} =>
  \A e \in Entries, p \in PayoutIds : e \in HeldBy(p) =>
    \/ payout[p] \in OpenPayout
    \/ payout[p] = "paid" /\ entry[e].status = "paid"
    \/ \E r \in Requests : req[r].op \in {"pay", "release"} /\ req[r].payout = p

\* Whatever is taken off a commission is recorded as reversed, and it is
\* reversed exactly when nothing is left of it.
Conserved == \A c \in Commissions : entry[c].status # "none" =>
  /\ entry[c].amount + entry[c].reversed = Original
  /\ entry[c].status = "reversed" <=> entry[c].amount = 0
=============================================================================
