--------------------------- MODULE PayoutsProofs ---------------------------
(* Proofs about Payouts: where payout requests and reversals overlap       *)
(* nothing else, entries are settled once, paid documents stay as they     *)
(* are, a paid payout is worth what it holds, no entry is stranded, and    *)
(* reversals are accounted for - whatever else overlaps, and wherever a    *)
(* handler dies.                                                           *)
EXTENDS Payouts, TLAPS

\* The handlers that write several documents without looking again run alone.
Orderly == {"request", "reverse"} \subseteq Alone

-----------------------------------------------------------------------------
(* The inductive invariant                                                 *)

EntryStatuses == Unpaid \cup {"none", "processing", "paid", "reversed"}
PayoutStatuses == OpenPayout \cup Undone \cup {"none", "paid"}

EntryDocs == [status : EntryStatuses, amount : Int, reversed : Int, clawed : Int,
              payout : PayoutIds \cup {None}]

Steps == [none |-> {"idle"},
          move |-> {"move"},
          approve |-> {"approve", "reread", "move"},
          request |-> {"collect", "insert", "claim", "retotal", "disband", "write", "close"},
          reverse |-> {"locate", "takeout", "retotal", "disband", "write", "close", "again",
                       "reduce", "note"},
          settle |-> {"settle", "pay", "release"}]

Ops == {"idle", "move", "approve", "reread", "collect", "insert", "claim", "retotal", "disband",
        "write", "close", "locate", "takeout", "again", "reduce", "note", "settle", "pay", "release"}

Locals == [kind : Kinds \cup {"none"}, op : Ops, entry : Entries \cup {None}, seen : EntryDocs,
           payout : PayoutIds \cup {None}, from : PayoutStatuses,
           to : EntryStatuses \cup PayoutStatuses, items : SUBSET Entries, amount : Int, left : Int]

\* The sums are left out: what a fold returns is beyond the provers.
Types ==
  /\ entry \in [Entries -> EntryDocs]
  /\ payout \in [PayoutIds -> PayoutStatuses]
  /\ worth = [p \in PayoutIds |-> worth[p]]
  /\ req \in [Requests -> Locals]
  /\ settled \in [Entries -> SUBSET PayoutIds]

\* A payout request or a reversal in flight is the only handler in flight.
Solo == \A r, s \in Requests :
  req[r].kind \in {"request", "reverse"} /\ s # r => req[s] = Idle

\* An approval or a move carries an unpaid commission in no payout.
MovesOK(r) ==
  /\ req[r].kind \in {"approve", "move"} => req[r].entry \in Commissions
  /\ req[r].op = "approve" => req[r].seen.status \in {"pending", "qualified"} /\ req[r].to = "approved"
  /\ req[r].op = "move" => <<req[r].seen.status, req[r].to>> \in
       {<<"pending", "qualified">>, <<"qualified", "approved">>, <<"approved", "payable">>,
        <<"payable", "payable">>}
  /\ req[r].op = "reread" => entry[req[r].entry].status \in {"approved", "payable"}

\* The payout a handler is re-totalling is under review.
TotalsOK(r) ==
  req[r].op \in {"claim", "takeout", "retotal", "disband", "write", "close"} =>
    req[r].payout \in PayoutIds /\ payout[req[r].payout] \in Reviewing

\* A reversal knows its commission as it is.
ReversalOK(r) == req[r].kind = "reverse" =>
  /\ req[r].entry \in Commissions
  /\ entry[req[r].entry].status \notin {"none", "reversed"}
  /\ req[r].op # "note" => req[r].amount > 0
  /\ req[r].op # "note" /\ entry[req[r].entry].status # "paid" =>
       req[r].left >= 0 /\ req[r].left = entry[req[r].entry].amount - req[r].amount
  /\ req[r].op \in {"locate", "reduce"} => req[r].seen = entry[req[r].entry]
  /\ req[r].op \in {"locate", "takeout"} => entry[req[r].entry].status = "processing"
  /\ req[r].op = "locate" => req[r].seen.payout \in PayoutIds
  /\ req[r].op = "takeout" => entry[req[r].entry].payout = req[r].payout
  /\ req[r].op \in {"retotal", "disband", "write", "close", "again"} =>
       entry[req[r].entry].status = "payable"

\* A settlement follows a workflow step and acts on what it wrote.
SettlesOK(r) == req[r].kind = "settle" =>
  /\ req[r].payout \in PayoutIds
  /\ req[r].op = "settle" => <<req[r].from, req[r].to>> \in PayoutActions
  /\ req[r].op = "pay" => payout[req[r].payout] = "paid"
  /\ req[r].op = "release" => payout[req[r].payout] \in Undone

Local(r) ==
  /\ req[r].op \in Steps[req[r].kind]
  /\ MovesOK(r)
  /\ TotalsOK(r)
  /\ ReversalOK(r)
  /\ SettlesOK(r)

\* An entry in a payout is in process or paid; a paid one is in a paid payout,
\* and so is an entry a transfer has covered, in that payout.
Ledger ==
  /\ \A e \in Entries : entry[e].payout # None => entry[e].status \in {"processing", "paid"}
  /\ \A e \in Entries : entry[e].status = "none" => entry[e] = NoEntry
  /\ \A e \in Entries : entry[e].status = "paid" =>
       entry[e].payout \in PayoutIds /\ payout[entry[e].payout] = "paid"
  /\ \A e \in Entries : \A p \in settled[e] : payout[p] = "paid" /\ entry[e].payout = p

IInv == Types /\ Solo /\ (\A r \in Requests : Local(r)) /\ Ledger /\ Conserved

-----------------------------------------------------------------------------
(* Handlers                                                                *)

\* The control point of a handler tells its kind.
LEMMA KindOf ==
  ASSUME Types, NEW s \in Requests, Local(s)
  PROVE  /\ req[s].op = "move" => req[s].kind \in {"move", "approve"}
         /\ req[s].op \in {"approve", "reread"} => req[s].kind = "approve"
         /\ req[s].op \in {"collect", "insert", "claim"} => req[s].kind = "request"
         /\ req[s].op \in {"retotal", "disband", "write", "close"} =>
              req[s].kind \in {"request", "reverse"}
         /\ req[s].op \in {"locate", "takeout", "again", "reduce", "note"} => req[s].kind = "reverse"
         /\ req[s].op \in {"settle", "pay", "release"} => req[s].kind = "settle"
<1>1. req[s].kind \in Kinds \cup {"none"} /\ req[s].op \in Steps[req[s].kind]
  BY DEF Types, Local, Locals
<1> QED BY <1>1 DEF Steps, Kinds

LEMMA IdleLocal ==
  ASSUME NEW s \in Requests, req'[s] = Idle
  PROVE  Local(s)'
  BY DEF Local, MovesOK, TotalsOK, ReversalOK, SettlesOK, Idle, Steps

\* A handler that does not run keeps its assertions while the documents it
\* speaks of stay.
LEMMA FrameLocal ==
  ASSUME NEW s \in Requests, Local(s), req'[s] = req[s],
         payout' = payout \/ payout'[req[s].payout] = payout[req[s].payout],
         req[s].kind = "reverse" \/ req[s].op = "reread" =>
           entry'[req[s].entry] = entry[req[s].entry]
  PROVE  Local(s)'
<1>1. MovesOK(s)' /\ ReversalOK(s)'
  BY DEF Local, MovesOK, ReversalOK
<1>2. TotalsOK(s)' /\ SettlesOK(s)'
  BY DEF Local, TotalsOK, SettlesOK
<1> QED BY <1>1, <1>2 DEF Local

LEMMA FrameLedger ==
  ASSUME Ledger, Conserved, entry' = entry, payout' = payout, settled' = settled
  PROVE  Ledger' /\ Conserved'
  BY DEF Ledger, Conserved

LEMMA IdleInLocals == Idle \in Locals
  BY DEF Idle, Locals, EntryDocs, NoEntry, EntryStatuses, PayoutStatuses, Ops

\* Starting a handler of one of the kinds keeps the solo handlers solo.
LEMMA BeginSolo ==
  ASSUME Orderly, Types, Solo, NEW r \in Requests, NEW x \in Locals, Begin(r, x)
  PROVE  Solo' /\ req' \in [Requests -> Locals]
<1>1. req' = [req EXCEPT ![r] = x] /\ req \in [Requests -> Locals]
  BY DEF Begin, Types
<1>2. ASSUME NEW a \in Requests, NEW b \in Requests, b # a,
             req'[a].kind \in {"request", "reverse"}
      PROVE  req'[b] = Idle
  <2>1. CASE a = r
    <3>1. x.kind \in Alone
      BY <1>1, <1>2, <2>1 DEF Orderly
    <3>2. req[b] = Idle
      BY <3>1 DEF Begin
    <3> QED BY <1>1, <1>2, <2>1, <3>2
  <2>2. CASE a # r
    <3>1. req'[a] = req[a]
      BY <1>1, <2>2
    <3>2. req[a] # Idle
      BY <1>2, <3>1 DEF Idle
    <3>3. req[a].kind \in Alone
      BY <1>2, <3>1 DEF Orderly
    <3> QED BY <3>2, <3>3 DEF Begin
  <2> QED BY <2>1, <2>2
<1> QED BY <1>1, <1>2 DEF Solo

\* A handler that goes on or ends does too.
LEMMA GoSolo ==
  ASSUME Types, Solo, NEW r \in Requests, NEW x \in Locals, req' = [req EXCEPT ![r] = x],
         x.kind = req[r].kind \/ x = Idle, req[r] # Idle
  PROVE  Solo' /\ req' \in [Requests -> Locals]
<1>1. req' \in [Requests -> Locals] /\ \A s \in Requests : req'[s] = IF s = r THEN x ELSE req[s]
  BY DEF Types
<1>2. Idle.kind = "none"
  BY DEF Idle
<1>3. ASSUME NEW a \in Requests, NEW b \in Requests, b # a,
             req'[a].kind \in {"request", "reverse"}
      PROVE  req'[b] = Idle
  <2>1. req[a].kind \in {"request", "reverse"}
    BY <1>1, <1>2, <1>3
  <2>2. req[b] = Idle
    BY <1>3, <2>1 DEF Solo
  <2> QED BY <1>1, <2>2
<1> QED BY <1>1, <1>3 DEF Solo

\* The handlers beside a solo one are idle, and stay so.
LEMMA OthersIdle ==
  ASSUME Solo, Types, NEW r \in Requests, req[r].kind \in {"request", "reverse"},
         NEW x, req' = [req EXCEPT ![r] = x], NEW s \in Requests, s # r
  PROVE  Local(s)'
<1>1. req'[s] = Idle
  BY DEF Solo, Types
<1> QED BY <1>1, IdleLocal

\* A step that only starts a handler.
LEMMA StartStep ==
  ASSUME Orderly, IInv, NEW r \in Requests, NEW x \in Locals, Begin(r, x), Local(r)',
         UNCHANGED <<entry, payout, worth, settled>>
  PROVE  IInv'
<1> USE DEF IInv
<1>1. Solo' /\ req' \in [Requests -> Locals]
  BY BeginSolo
<1>2. Types' /\ \A s \in Requests : s # r => req'[s] = req[s]
  BY <1>1 DEF Types, Begin
<1>3. ASSUME NEW s \in Requests PROVE Local(s)'
  <2>1. CASE s # r
    <3>1. Local(s) /\ req'[s] = req[s] /\ payout' = payout /\ entry' = entry
      BY <1>2, <2>1
    <3> QED BY <3>1, FrameLocal
  <2> QED BY <2>1
<1> QED BY <1>1, <1>2, <1>3, FrameLedger

\* A step that only moves a handler on, or ends it.
LEMMA GoStep ==
  ASSUME IInv, NEW r \in Requests, req[r] # Idle, NEW x \in Locals, req' = [req EXCEPT ![r] = x],
         x.kind = req[r].kind \/ x = Idle, Local(r)', UNCHANGED <<entry, payout, worth, settled>>
  PROVE  IInv'
<1> USE DEF IInv
<1>1. Solo' /\ req' \in [Requests -> Locals]
  BY GoSolo
<1>2. Types' /\ \A s \in Requests : s # r => req'[s] = req[s]
  BY <1>1 DEF Types
<1>3. ASSUME NEW s \in Requests PROVE Local(s)'
  <2>1. CASE s # r
    <3>1. Local(s) /\ req'[s] = req[s] /\ payout' = payout /\ entry' = entry
      BY <1>2, <2>1
    <3> QED BY <3>1, FrameLocal
  <2> QED BY <2>1
<1> QED BY <1>1, <1>2, <1>3, FrameLedger

\* A step of a handler that runs alone.
LEMMA SoloStep ==
  ASSUME IInv, NEW r \in Requests, req[r].kind \in {"request", "reverse"}, NEW x \in Locals,
         req' = [req EXCEPT ![r] = x], x.kind = req[r].kind \/ x = Idle,
         Local(r)', entry' \in [Entries -> EntryDocs], payout' \in [PayoutIds -> PayoutStatuses],
         worth' = [p \in PayoutIds |-> worth'[p]], settled' = settled, Ledger', Conserved'
  PROVE  IInv'
<1> USE DEF IInv
<1>1. req[r] # Idle
  BY DEF Idle
<1>2. Solo' /\ req' \in [Requests -> Locals]
  BY <1>1, GoSolo
<1>3. Types'
  BY <1>2 DEF Types
<1>4. ASSUME NEW s \in Requests PROVE Local(s)'
  BY <1>4, OthersIdle
<1> QED BY <1>2, <1>3, <1>4

\* The step of a handler that ends: nothing is left to say of it.
LEMMA ReturnLocal ==
  ASSUME Types, NEW r \in Requests, Return(r)
  PROVE  Local(r)' /\ Idle \in Locals /\ req' = [req EXCEPT ![r] = Idle]
  BY IdleLocal, IdleInLocals DEF Return, Types

\* A handler that moves to another control point keeps its local variables.
LEMMA GotoLocals ==
  ASSUME Types, NEW r \in Requests, NEW op \in Ops, Goto(r, op)
  PROVE  LET x == [req[r] EXCEPT !.op = op] IN
         /\ x \in Locals /\ req' = [req EXCEPT ![r] = x] /\ req'[r] = x
         /\ x.kind = req[r].kind /\ x.op = op /\ x.entry = req[r].entry /\ x.seen = req[r].seen
         /\ x.payout = req[r].payout /\ x.from = req[r].from /\ x.to = req[r].to
         /\ x.items = req[r].items /\ x.amount = req[r].amount /\ x.left = req[r].left
<1>1. req[r] \in Locals
  BY DEF Types
<1>2. [req[r] EXCEPT !.op = op] \in Locals
  BY <1>1 DEF Locals
<1> QED BY <1>1, <1>2 DEF Goto, Types, Locals

-----------------------------------------------------------------------------
(* The ledger outside payouts                                              *)

\* An entry that appears is what no handler and no payout speaks of.
LEMMA NewEntryStep ==
  ASSUME IInv, NEW e \in Entries, entry[e].status = "none",
         NEW st \in {"pending", "payable"}, NEW a \in Int, e \in Commissions => a = Original,
         entry' = [entry EXCEPT ![e].status = st, ![e].amount = a],
         UNCHANGED <<payout, worth, req, settled>>
  PROVE  IInv'
<1> USE DEF IInv
<1> DEFINE new == [entry[e] EXCEPT !.status = st, !.amount = a]
<1>1. entry[e] = NoEntry /\ entry[e] \in EntryDocs
  BY DEF Ledger, Types
<1>2. new.payout = None /\ new.status = st /\ new.amount = a /\ new.reversed = 0
  BY <1>1 DEF NoEntry
<1>3. entry' = [entry EXCEPT ![e] = new]
  BY DEF Types
<1>4. new \in EntryDocs
  <2> HIDE DEF IInv
  <2> QED BY <1>1 DEF EntryDocs, EntryStatuses, Unpaid
<1> HIDE DEF new
<1>5. Types' /\ Solo'
  BY <1>3, <1>4 DEF Types, Solo
<1>6. ASSUME NEW s \in Requests PROVE Local(s)'
  <2>1. req[s].kind = "reverse" \/ req[s].op = "reread" => req[s].entry # e
    BY DEF Local, MovesOK, ReversalOK
  <2>2. req[s].kind = "reverse" \/ req[s].op = "reread" => req[s].entry \in Entries
    BY KindOf DEF Local, MovesOK, ReversalOK, Entries
  <2>3. Local(s) /\ req'[s] = req[s] /\ payout' = payout
    OBVIOUS
  <2>4. req[s].kind = "reverse" \/ req[s].op = "reread" => entry'[req[s].entry] = entry[req[s].entry]
    BY <1>3, <2>1, <2>2 DEF Types
  <2> QED BY <2>3, <2>4, FrameLocal
<1>7. Ledger'
  BY <1>1, <1>2, <1>3 DEF Types, Ledger, NoEntry, EntryDocs
<1>8. Conserved'
  BY <1>2, <1>3, OriginalAssumption DEF Types, Conserved, EntryDocs, Entries
<1> QED BY <1>5, <1>6, <1>7, <1>8

LEMMA EarnStep ==
  ASSUME IInv, NEW c \in Commissions, Earn(c)
  PROVE  IInv'
<1>1. c \in Entries /\ Original \in Int
  BY OriginalAssumption DEF Entries
<1> QED BY <1>1, NewEntryStep DEF Earn

LEMMA AdjustStep ==
  ASSUME IInv, NEW x \in Extras, NEW amount \in Adjustments, Adjust(x, amount)
  PROVE  IInv'
<1>1. x \in Entries /\ x \notin Commissions /\ amount \in Int
  BY IdAssumption, AdjustmentsAssumption DEF Entries
<1> QED BY <1>1, NewEntryStep DEF Adjust

LEMMA StartMoveStep ==
  ASSUME Orderly, IInv, NEW r \in Requests, NEW c \in Commissions, StartMove(r, c)
  PROVE  IInv'
<1> USE DEF IInv
<1>1. PICK step \in {<<"pending", "qualified">>, <<"qualified", "approved">>, <<"approved", "payable">>} :
         entry[c].status = step[1] /\ Begin(r, Moving(c, step[2]))
  BY DEF StartMove
<1> DEFINE x == Moving(c, step[2])
<1>2. /\ x \in Locals
      /\ x.kind = "move" /\ x.op = "move" /\ x.entry = c /\ x.seen = entry[c] /\ x.to = step[2]
  <2>1. entry[c] \in EntryDocs /\ c \in Entries /\ step[2] \in EntryStatuses
    BY DEF Types, Entries, EntryStatuses, Unpaid
  <2>2. x \in Locals
    BY <2>1, IdleInLocals DEF Moving, Locals, Kinds, Ops
  <2> QED BY <2>2 DEF Moving, Idle
<1>3. req' = [req EXCEPT ![r] = x]
  BY <1>1 DEF Begin
<1>4. Local(r)'
  <2>1. req'[r] = x
    BY <1>3 DEF Types
  <2>2. <<entry[c].status, x.to>> = step
    BY <1>1, <1>2
  <2> HIDE DEF x
  <2> QED BY <1>2, <2>1, <2>2 DEF Local, MovesOK, TotalsOK, ReversalOK, SettlesOK, Steps
<1>5. UNCHANGED <<entry, payout, worth, settled>>
  BY DEF StartMove
<1> QED BY <1>1, <1>2, <1>4, <1>5, StartStep

\* What a matching compare-and-set finds, and what it leaves.
LEMMA TransitionStep ==
  ASSUME IInv, NEW r \in Requests, req[r].kind \in {"move", "approve"}, AsSeen(r),
         <<req[r].seen.status, req[r].to>> \in
           {<<"pending", "qualified">>, <<"qualified", "approved">>, <<"approved", "payable">>,
            <<"payable", "payable">>, <<"pending", "approved">>},
         SetStatus(req[r].entry, req[r].to), NEW x \in Locals, req' = [req EXCEPT ![r] = x],
         x.kind = req[r].kind \/ x = Idle, Local(r)', UNCHANGED <<payout, worth, settled>>
  PROVE  IInv'
<1> USE DEF IInv
<1> DEFINE c == req[r].entry  st == req[r].to  new == [entry[c] EXCEPT !.status = st]
<1>1. c \in Commissions /\ c \in Entries /\ req[r] # Idle
  BY DEF Local, MovesOK, Entries, Idle
<1>2. entry[c] \in EntryDocs /\ entry[c].status \in Unpaid /\ st \in Unpaid
  BY <1>1 DEF AsSeen, Types, Unpaid
<1>3. entry[c].payout = None
  BY <1>1, <1>2 DEF Ledger, Unpaid
<1>4. /\ new \in EntryDocs /\ new.status = st /\ new.amount = entry[c].amount
      /\ new.reversed = entry[c].reversed /\ new.payout = None
  <2> HIDE DEF IInv
  <2> QED BY <1>2, <1>3 DEF EntryDocs, EntryStatuses
<1>5. entry' = [entry EXCEPT ![c] = new]
  BY <1>1 DEF SetStatus, Types
<1>6. Solo' /\ req' \in [Requests -> Locals]
  BY <1>1, GoSolo
<1>7. Types' /\ \A s \in Requests : s # r => req'[s] = req[s]
  BY <1>1, <1>4, <1>5, <1>6 DEF Types
<1>8. ASSUME NEW s \in Requests PROVE Local(s)'
  <2>1. CASE s = r
    BY <2>1
  <2>2. CASE s # r /\ ~ (req[s].op = "reread" /\ req[s].entry = c)
    <3>1. req[s].kind # "reverse"
      BY <1>1, <2>2 DEF Solo
    <3>2. req[s].op = "reread" => req[s].entry \in Entries
      BY KindOf DEF Local, MovesOK, Entries
    <3>3. req[s].op = "reread" => entry'[req[s].entry] = entry[req[s].entry]
      BY <1>5, <2>2, <3>2 DEF Types
    <3> QED BY <1>7, <2>2, <3>1, <3>3, FrameLocal
  <2>3. CASE s # r /\ req[s].op = "reread" /\ req[s].entry = c
    <3>1. entry[c].status \in {"approved", "payable"} /\ st = "payable"
      BY <2>3 DEF Local, MovesOK, AsSeen
    <3>2. entry'[c].status = "payable" /\ req'[s] = req[s]
      BY <1>1, <1>4, <1>5, <1>7, <2>3, <3>1 DEF Types
    <3>3. req[s].kind = "approve"
      BY <2>3, KindOf
    <3> QED BY <2>3, <3>2, <3>3 DEF Local, MovesOK, TotalsOK, ReversalOK, SettlesOK
  <2> QED BY <2>1, <2>2, <2>3
<1>9. Ledger'
  <2>1. settled[c] = {} /\ entry[c].status \notin {"none", "paid"}
    BY <1>1, <1>2, <1>3, IdAssumption DEF Ledger, Types, Unpaid
  <2> HIDE DEF new, st, c
  <2> QED BY <1>1, <1>2, <1>4, <1>5, <2>1 DEF Ledger, Types, Unpaid
<1>10. Conserved'
  <2> HIDE DEF new, st, c
  <2> QED BY <1>1, <1>2, <1>4, <1>5 DEF Conserved, Types, Unpaid
<1> QED BY <1>6, <1>7, <1>8, <1>9, <1>10

LEMMA MoveStep ==
  ASSUME IInv, NEW r \in Requests, Move(r)
  PROVE  IInv'
<1> USE DEF IInv
<1>1. req[r].kind \in {"move", "approve"} /\ req[r] # Idle
  BY KindOf DEF Move, At, Idle
<1>2. Local(r)' /\ Idle \in Locals /\ req' = [req EXCEPT ![r] = Idle]
  BY ReturnLocal DEF Move
<1>3. CASE AsSeen(r)
  <2>1. SetStatus(req[r].entry, req[r].to) /\ UNCHANGED <<payout, worth, settled>>
    BY <1>3 DEF Move
  <2>2. Local(r) /\ req[r].op = "move"
    BY DEF Move, At
  <2> QED BY <1>1, <1>2, <1>3, <2>1, <2>2, TransitionStep DEF Local, MovesOK
<1>4. CASE ~ AsSeen(r)
  BY <1>1, <1>2, <1>4, GoStep DEF Move
<1> QED BY <1>3, <1>4

LEMMA StartApproveStep ==
  ASSUME Orderly, IInv, NEW r \in Requests, NEW c \in Commissions, StartApprove(r, c)
  PROVE  IInv'
<1> USE DEF IInv
<1> DEFINE x == [Moving(c, "approved") EXCEPT !.kind = "approve", !.op = "approve"]
<1>1. /\ x \in Locals
      /\ x.kind = "approve" /\ x.op = "approve" /\ x.entry = c /\ x.seen = entry[c] /\ x.to = "approved"
  <2>1. entry[c] \in EntryDocs /\ c \in Entries /\ "approved" \in EntryStatuses
    BY DEF Types, Entries, EntryStatuses, Unpaid
  <2>2. x \in Locals
    BY <2>1, IdleInLocals DEF Moving, Locals, Kinds, Ops
  <2> QED BY <2>2 DEF Moving, Idle
<1>2. req' = [req EXCEPT ![r] = x]
  BY DEF StartApprove, Begin
<1>3. Local(r)'
  <2>1. req'[r] = x
    BY <1>2 DEF Types
  <2>2. entry[c].status \in {"pending", "qualified"}
    BY DEF StartApprove
  <2> HIDE DEF x
  <2> QED BY <1>1, <2>1, <2>2 DEF Local, MovesOK, TotalsOK, ReversalOK, SettlesOK, Steps
<1> QED BY <1>1, <1>3, StartStep DEF StartApprove

LEMMA ApproveStep ==
  ASSUME IInv, NEW r \in Requests, Approve(r)
  PROVE  IInv'
<1> USE DEF IInv
<1>1. req[r].kind = "approve" /\ req[r] # Idle
  BY KindOf DEF Approve, At, Idle
<1>2. CASE AsSeen(r)
  <2> DEFINE x == [req[r] EXCEPT !.op = "reread"]
  <2>1. /\ x \in Locals /\ req' = [req EXCEPT ![r] = x] /\ req'[r] = x
        /\ x.kind = req[r].kind /\ x.op = "reread" /\ x.entry = req[r].entry
    <3>1. Goto(r, "reread") /\ "reread" \in Ops
      BY <1>2 DEF Approve, Ops
    <3> QED BY <3>1, GotoLocals
  <2>2. /\ SetStatus(req[r].entry, "approved") /\ UNCHANGED <<payout, worth, settled>>
        /\ req[r].to = "approved" /\ req[r].seen.status \in {"pending", "qualified"}
        /\ req[r].entry \in Commissions
    BY <1>1, <1>2 DEF Approve, At, Local, MovesOK
  <2>3. entry'[req[r].entry].status = "approved"
    BY <2>2 DEF SetStatus, Types, Entries, EntryDocs
  <2> HIDE DEF x
  <2>4. Local(r)'
    BY <1>1, <2>1, <2>2, <2>3 DEF Local, MovesOK, TotalsOK, ReversalOK, SettlesOK, Steps
  <2> QED BY <1>1, <1>2, <2>1, <2>2, <2>4, TransitionStep
<1>3. CASE ~ AsSeen(r)
  <2>1. Local(r)' /\ Idle \in Locals /\ req' = [req EXCEPT ![r] = Idle]
    BY <1>3, ReturnLocal DEF Approve
  <2> QED BY <1>1, <1>3, <2>1, GoStep DEF Approve
<1> QED BY <1>2, <1>3

LEMMA RereadStep ==
  ASSUME IInv, NEW r \in Requests, Reread(r)
  PROVE  IInv'
<1> USE DEF IInv
<1> DEFINE c == req[r].entry  x == [Moving(c, "payable") EXCEPT !.kind = "approve"]
<1>1. /\ req[r].kind = "approve" /\ req[r] # Idle /\ c \in Commissions
      /\ entry[c].status \in {"approved", "payable"}
  BY KindOf DEF Reread, At, Idle, Local, MovesOK
<1>2. CASE req' = [req EXCEPT ![r] = x]
  <2>1. /\ x \in Locals
        /\ x.kind = "approve" /\ x.op = "move" /\ x.entry = c /\ x.seen = entry[c] /\ x.to = "payable"
    <3>1. entry[c] \in EntryDocs /\ c \in Entries /\ "payable" \in EntryStatuses
      BY <1>1 DEF Types, Entries, EntryStatuses, Unpaid
    <3>2. x \in Locals
      BY <3>1, IdleInLocals DEF Moving, Locals, Kinds, Ops
    <3> QED BY <3>2 DEF Moving, Idle
  <2>2. req'[r] = x
    BY <1>2 DEF Types
  <2> HIDE DEF x
  <2>3. Local(r)'
    BY <1>1, <2>1, <2>2 DEF Local, MovesOK, TotalsOK, ReversalOK, SettlesOK, Steps
  <2> QED BY <1>1, <1>2, <2>1, <2>3, GoStep DEF Reread
<1>3. CASE Return(r)
  BY <1>1, <1>3, ReturnLocal, GoStep DEF Reread
<1> QED BY <1>2, <1>3 DEF Reread

-----------------------------------------------------------------------------
(* Requesting a payout                                                     *)

LEMMA StartRequestStep ==
  ASSUME Orderly, IInv, NEW r \in Requests, StartRequest(r)
  PROVE  IInv'
<1> USE DEF IInv
<1> DEFINE x == [Idle EXCEPT !.kind = "request", !.op = "collect"]
<1>1. x \in Locals /\ x.kind = "request" /\ x.op = "collect"
  <2>1. x \in Locals
    BY IdleInLocals DEF Locals, Kinds, Ops
  <2> QED BY <2>1 DEF Idle
<1>2. Begin(r, x) /\ UNCHANGED <<entry, payout, worth, settled>>
  BY DEF StartRequest
<1>3. req'[r] = x
  BY <1>2 DEF Types, Begin
<1> HIDE DEF x
<1>4. Local(r)'
  BY <1>1, <1>3 DEF Local, MovesOK, TotalsOK, ReversalOK, SettlesOK, Steps
<1> QED BY <1>1, <1>2, <1>4, StartStep

LEMMA CollectStep ==
  ASSUME IInv, NEW r \in Requests, Collect(r)
  PROVE  IInv'
<1> USE DEF IInv
<1> DEFINE items == {e \in Entries : Claimable(e)}
           x == [req[r] EXCEPT !.op = "insert", !.items = items]
<1>1. req[r].kind = "request" /\ req[r] # Idle /\ UNCHANGED <<entry, payout, worth, settled>>
  BY KindOf DEF Collect, At, Idle
<1>2. CASE Return(r)
  BY <1>1, <1>2, ReturnLocal, GoStep
<1>3. CASE req' = [req EXCEPT ![r].op = "insert", ![r].items = items]
  <2>1. req[r] \in Locals /\ items \in SUBSET Entries
    BY DEF Types
  <2> HIDE DEF items
  <2>2. x \in Locals
    BY <2>1 DEF Locals, Ops
  <2>3. x.kind = "request" /\ x.op = "insert"
    BY <1>1, <2>1 DEF Locals
  <2>4. req' = [req EXCEPT ![r] = x] /\ req'[r] = x
    BY <1>3 DEF Types
  <2> HIDE DEF x
  <2>5. Local(r)'
    BY <2>3, <2>4 DEF Local, MovesOK, TotalsOK, ReversalOK, SettlesOK, Steps
  <2> QED BY <1>1, <2>2, <2>3, <2>4, <2>5, GoStep
<1> QED BY <1>2, <1>3 DEF Collect

LEMMA InsertStep ==
  ASSUME IInv, NEW r \in Requests, NEW p \in PayoutIds, Insert(r, p)
  PROVE  IInv'
<1> USE DEF IInv
<1> DEFINE x == [req[r] EXCEPT !.op = "claim", !.payout = p]
<1>1. req[r].kind = "request" /\ req[r] \in Locals
  BY KindOf DEF Insert, At, Types
<1>2. x \in Locals /\ x.kind = "request" /\ x.op = "claim" /\ x.payout = p
  BY <1>1 DEF Locals, Ops
<1>3. req' = [req EXCEPT ![r] = x] /\ req'[r] = x
  BY DEF Insert, Types
<1> HIDE DEF x
<1>4. payout' = [payout EXCEPT ![p] = "requested"] /\ payout[p] = "none"
  BY DEF Insert
<1>5. Local(r)'
  BY <1>2, <1>3, <1>4 DEF Local, MovesOK, TotalsOK, ReversalOK, SettlesOK, Steps, Types, Reviewing
<1>6. /\ payout' \in [PayoutIds -> PayoutStatuses]
      /\ worth' = [q \in PayoutIds |-> worth'[q]] /\ entry' = entry /\ settled' = settled
  BY <1>4 DEF Insert, Types, PayoutStatuses, OpenPayout
<1>7. Ledger' /\ Conserved'
  BY <1>4, <1>6 DEF Ledger, Conserved, Types
<1> QED BY <1>1, <1>2, <1>3, <1>5, <1>6, <1>7, SoloStep DEF Types

LEMMA ClaimStep ==
  ASSUME IInv, NEW r \in Requests, Claim(r)
  PROVE  IInv'
<1> USE DEF IInv
<1> DEFINE p == req[r].payout
           new(e) == [entry[e] EXCEPT !.status = "processing", !.payout = p]
<1>1. /\ req[r].kind = "request" /\ req[r].op = "claim" /\ p \in PayoutIds
      /\ payout[p] \in Reviewing
  BY KindOf DEF Claim, At, Local, TotalsOK
<1>2. PICK claimed \in SUBSET Entries :
        /\ \A e \in claimed : Claimable(e)
        /\ entry' = [e \in Entries |-> IF e \in claimed THEN new(e) ELSE entry[e]]
  BY DEF Claim, Types, Locals
<1>3. ASSUME NEW e \in Entries
      PROVE  /\ new(e) \in EntryDocs /\ new(e).status = "processing" /\ new(e).payout = p
             /\ new(e).amount = entry[e].amount /\ new(e).reversed = entry[e].reversed
  <2>1. entry[e] \in EntryDocs /\ p \in PayoutIds
    BY <1>1 DEF Types
  <2> HIDE DEF IInv, p
  <2> QED BY <2>1 DEF EntryDocs, EntryStatuses
<1> HIDE DEF new
<1>4. UNCHANGED <<payout, worth, settled>> /\ payout' \in [PayoutIds -> PayoutStatuses]
  BY DEF Claim, Types
<1>5. entry' \in [Entries -> EntryDocs]
  BY <1>2, <1>3 DEF Types
<1>6. Ledger'
  <2>1. \A e \in claimed : entry[e].payout = None /\ settled[e] = {}
    BY <1>2, IdAssumption DEF Claimable, Ledger, Types
  <2> QED BY <1>2, <1>3, <1>4, <2>1 DEF Ledger
<1>7. Conserved'
  BY <1>2, <1>3 DEF Conserved, Claimable, Entries
<1>8. CASE Return(r)
  BY <1>1, <1>4, <1>5, <1>6, <1>7, <1>8, ReturnLocal, SoloStep DEF Types
<1>9. CASE Goto(r, "retotal")
  <2>1. "retotal" \in Ops
    BY DEF Ops
  <2> DEFINE x == [req[r] EXCEPT !.op = "retotal"]
  <2>2. /\ x \in Locals /\ req' = [req EXCEPT ![r] = x] /\ req'[r] = x
        /\ x.kind = req[r].kind /\ x.op = "retotal" /\ x.payout = p
    BY <1>9, <2>1, GotoLocals
  <2> HIDE DEF x
  <2>3. Local(r)'
    BY <1>1, <1>4, <2>2 DEF Local, MovesOK, TotalsOK, ReversalOK, SettlesOK, Steps
  <2> QED BY <1>1, <1>4, <1>5, <1>6, <1>7, <2>2, <2>3, SoloStep DEF Types
<1> QED BY <1>8, <1>9 DEF Claim

\* Entries in process in a payout that is not paid may be let go of.
LEMMA FreeStep ==
  ASSUME Types, Ledger, Conserved, NEW F \in SUBSET Entries,
         \A e \in F : entry[e].status = "processing" /\ settled[e] = {},
         entry' = [e \in Entries |-> IF e \in F THEN Freed(e) ELSE entry[e]],
         payout' = payout, settled' = settled
  PROVE  entry' \in [Entries -> EntryDocs] /\ Ledger' /\ Conserved'
<1>1. ASSUME NEW e \in Entries
      PROVE  /\ Freed(e) \in EntryDocs /\ Freed(e).status = "payable" /\ Freed(e).payout = None
             /\ Freed(e).amount = entry[e].amount /\ Freed(e).reversed = entry[e].reversed
  <2>1. entry[e] \in EntryDocs
    BY DEF Types
  <2> QED BY <2>1 DEF Freed, EntryDocs, EntryStatuses, Unpaid
<1>2. entry' \in [Entries -> EntryDocs]
  BY <1>1 DEF Types
<1>3. Ledger'
  BY <1>1 DEF Ledger
<1>4. Conserved'
  BY <1>1 DEF Conserved, Entries
<1> QED BY <1>2, <1>3, <1>4

\* Entries held by a payout that is not paid are in process, and unsettled.
LEMMA HeldUnpaid ==
  ASSUME Types, Ledger, NEW p \in PayoutIds, payout[p] # "paid", NEW e \in HeldBy(p)
  PROVE  e \in Entries /\ entry[e].status = "processing" /\ settled[e] = {}
  BY IdAssumption DEF Types, Ledger, HeldBy

LEMMA RetotalStep ==
  ASSUME IInv, NEW r \in Requests, Retotal(r)
  PROVE  IInv'
<1> USE DEF IInv
<1>1. PICK op \in {"disband", "write"} : Goto(r, op)
  BY DEF Retotal
<1>2. op \in Ops /\ req[r] # Idle /\ Local(r) /\ req[r].op = "retotal"
  BY DEF Retotal, At, Idle, Ops
<1> DEFINE x == [req[r] EXCEPT !.op = op]
<1>3. /\ x \in Locals /\ req' = [req EXCEPT ![r] = x] /\ req'[r] = x
      /\ x.kind = req[r].kind /\ x.op = op /\ x.payout = req[r].payout /\ x.entry = req[r].entry
      /\ x.amount = req[r].amount /\ x.left = req[r].left
  BY <1>1, <1>2, GotoLocals
<1> HIDE DEF x
<1>4. UNCHANGED <<entry, payout, worth, settled>>
  BY DEF Retotal
<1>5. req[r].kind \in {"request", "reverse"}
  BY <1>2, KindOf
<1>6. Local(r)'
  BY <1>2, <1>3, <1>4, <1>5 DEF Local, MovesOK, TotalsOK, ReversalOK, SettlesOK, Steps
<1> QED BY <1>2, <1>3, <1>4, <1>6, GoStep

LEMMA DisbandStep ==
  ASSUME IInv, NEW r \in Requests, Disband(r)
  PROVE  IInv'
<1> USE DEF IInv
<1> DEFINE p == req[r].payout
<1>1. Goto(r, "close") /\ "close" \in Ops /\ Local(r) /\ req[r].op = "disband"
  BY DEF Disband, At, Ops
<1>2. req[r].kind \in {"request", "reverse"} /\ p \in PayoutIds /\ payout[p] \in Reviewing
  BY <1>1, KindOf DEF Local, TotalsOK
<1>3. payout' = payout /\ worth' = worth /\ settled' = settled
  BY DEF Disband
<1>4. entry' \in [Entries -> EntryDocs] /\ Ledger' /\ Conserved'
  <2>1. \A e \in HeldBy(p) : entry[e].status = "processing" /\ settled[e] = {}
    BY <1>2, HeldUnpaid DEF Reviewing
  <2>2. HeldBy(p) \in SUBSET Entries
    BY DEF HeldBy
  <2>3. entry' = [e \in Entries |-> IF e \in HeldBy(p) THEN Freed(e) ELSE entry[e]]
    BY DEF Disband
  <2> QED BY <1>3, <2>1, <2>2, <2>3, FreeStep
<1> DEFINE x == [req[r] EXCEPT !.op = "close"]
<1>5. /\ x \in Locals /\ req' = [req EXCEPT ![r] = x] /\ req'[r] = x
      /\ x.kind = req[r].kind /\ x.op = "close" /\ x.payout = p /\ x.entry = req[r].entry
      /\ x.amount = req[r].amount /\ x.left = req[r].left
  BY <1>1, GotoLocals
<1> HIDE DEF x
<1>6. Local(r)'
  <2>1. req[r].kind = "reverse" => entry'[req[r].entry] = entry[req[r].entry]
    <3>1. req[r].kind = "reverse" =>
            req[r].entry \in Entries /\ entry[req[r].entry].status = "payable"
      BY <1>1 DEF Local, ReversalOK, Entries
    <3>2. req[r].kind = "reverse" => req[r].entry \notin HeldBy(p)
      BY <1>2, <3>1, HeldUnpaid DEF Reviewing
    <3> QED BY <3>1, <3>2 DEF Disband
  <2> QED BY <1>1, <1>2, <1>3, <1>5, <2>1 DEF Local, MovesOK, TotalsOK, ReversalOK, SettlesOK, Steps
<1> QED BY <1>2, <1>3, <1>4, <1>5, <1>6, SoloStep DEF Types

LEMMA WriteTotalStep ==
  ASSUME IInv, NEW r \in Requests, WriteTotal(r)
  PROVE  IInv'
<1> USE DEF IInv
<1> DEFINE p == req[r].payout
<1>1. Local(r) /\ req[r].op \in {"close", "write"} /\ entry' = entry /\ settled' = settled
  BY DEF WriteTotal
<1>2. req[r].kind \in {"request", "reverse"} /\ p \in PayoutIds /\ payout[p] \in Reviewing
  BY <1>1, KindOf DEF Local, TotalsOK
<1>3. PICK st \in {"cancelled", payout[p]} : payout' = [payout EXCEPT ![p] = st]
  BY <1>2 DEF WriteTotal, Types
<1>4. /\ payout' \in [PayoutIds -> PayoutStatuses]
      /\ worth' = [q \in PayoutIds |-> worth'[q]]
  BY <1>2, <1>3 DEF WriteTotal, Types, PayoutStatuses, Undone
<1>5. Ledger' /\ Conserved'
  BY <1>1, <1>2, <1>3 DEF Ledger, Conserved, Types, Reviewing
<1>6. CASE req[r].kind = "reverse"
  <2>1. Goto(r, "again") /\ "again" \in Ops
    BY <1>6 DEF WriteTotal, Resume, Ops
  <2> DEFINE x == [req[r] EXCEPT !.op = "again"]
  <2>2. /\ x \in Locals /\ req' = [req EXCEPT ![r] = x] /\ req'[r] = x
        /\ x.kind = req[r].kind /\ x.op = "again" /\ x.entry = req[r].entry
        /\ x.amount = req[r].amount /\ x.left = req[r].left
    BY <2>1, GotoLocals
  <2> HIDE DEF x
  <2>3. Local(r)'
    BY <1>1, <1>6, <2>2 DEF Local, MovesOK, TotalsOK, ReversalOK, SettlesOK, Steps
  <2> QED BY <1>1, <1>2, <1>4, <1>5, <2>2, <2>3, SoloStep DEF Types
<1>7. CASE req[r].kind # "reverse"
  <2>1. Return(r)
    BY <1>7 DEF WriteTotal, Resume
  <2> QED BY <1>1, <1>2, <1>4, <1>5, <2>1, ReturnLocal, SoloStep DEF Types
<1> QED BY <1>6, <1>7

-----------------------------------------------------------------------------
(* Settling a payout                                                       *)

LEMMA StartSettleStep ==
  ASSUME Orderly, IInv, NEW r \in Requests, NEW p \in PayoutIds, StartSettle(r, p)
  PROVE  IInv'
<1> USE DEF IInv
<1>1. PICK action \in PayoutActions :
        Begin(r, [Idle EXCEPT !.kind = "settle", !.op = "settle", !.payout = p,
                              !.from = action[1], !.to = action[2]])
  BY DEF StartSettle
<1>2. action[1] \in PayoutStatuses /\ action[2] \in PayoutStatuses /\ action = <<action[1], action[2]>>
  BY DEF PayoutActions, PayoutStatuses, OpenPayout, Undone
<1> DEFINE x == [Idle EXCEPT !.kind = "settle", !.op = "settle", !.payout = p,
                             !.from = action[1], !.to = action[2]]
<1>3. /\ x \in Locals /\ x.kind = "settle" /\ x.op = "settle" /\ x.payout = p
      /\ x.from = action[1] /\ x.to = action[2]
  <2>1. x \in Locals
    BY <1>2, IdleInLocals DEF Locals, Kinds, Ops
  <2> QED BY <2>1 DEF Idle
<1>4. Begin(r, x) /\ UNCHANGED <<entry, payout, worth, settled>>
  BY <1>1 DEF StartSettle
<1> HIDE DEF x
<1>5. req'[r] = x
  BY <1>4 DEF Types, Begin
<1>6. Local(r)'
  BY <1>2, <1>3, <1>5 DEF Local, MovesOK, TotalsOK, ReversalOK, SettlesOK, Steps
<1> QED BY <1>3, <1>4, <1>6, StartStep

\* A payout moves along the workflow, and with it what its transfer covers.
LEMMA SettleStep ==
  ASSUME IInv, NEW r \in Requests, Settle(r)
  PROVE  IInv'
<1> USE DEF IInv
<1> DEFINE p == req[r].payout  to == req[r].to
<1>1. /\ req[r].kind = "settle" /\ req[r].op = "settle" /\ req[r] # Idle /\ p \in PayoutIds
      /\ <<req[r].from, to>> \in PayoutActions /\ entry' = entry /\ worth' = worth
  BY KindOf DEF Settle, At, Local, SettlesOK, Idle
<1>2. CASE ~ AsRead(r)
  BY <1>1, <1>2, ReturnLocal, GoStep DEF Settle
<1>3. CASE AsRead(r)
  <2>1. payout[p] = req[r].from /\ payout' = [payout EXCEPT ![p] = to]
    BY <1>3 DEF Settle, AsRead
  <2>2. /\ payout[p] \in OpenPayout /\ to \in PayoutStatuses
        /\ to # "paid" => settled' = settled
        /\ to = "paid" => settled' = [e \in Entries |-> settled[e] \cup {q \in {p} : e \in HeldBy(q)}]
    <3>1. req[r].from \in OpenPayout /\ to \in PayoutStatuses
      BY <1>1 DEF PayoutActions, OpenPayout, PayoutStatuses, Undone
    <3> QED BY <1>3, <2>1, <3>1 DEF Settle
  <2>3. PICK x \in Locals :
          /\ req' = [req EXCEPT ![r] = x]
          /\ x.kind = req[r].kind \/ x = Idle
          /\ Local(r)'
    <3>1. CASE to = "paid" \/ to \in Undone
      <4>1. PICK op \in {"pay", "release"} :
              Goto(r, op) /\ (op = "pay" => to = "paid") /\ (op = "release" => to \in Undone)
        BY <1>3, <3>1 DEF Settle
      <4>2. op \in Ops
        BY DEF Ops
      <4> DEFINE x == [req[r] EXCEPT !.op = op]
      <4>3. /\ x \in Locals /\ req' = [req EXCEPT ![r] = x] /\ req'[r] = x
            /\ x.kind = req[r].kind /\ x.op = op /\ x.payout = p
        BY <4>1, <4>2, GotoLocals
      <4> HIDE DEF x
      <4>4. payout'[p] = to
        BY <1>1, <2>1 DEF Types
      <4>5. Local(r)'
        BY <1>1, <4>1, <4>3, <4>4 DEF Local, MovesOK, TotalsOK, ReversalOK, SettlesOK, Steps
      <4> QED BY <4>3, <4>5
    <3>2. CASE to # "paid" /\ to \notin Undone
      <4>1. Return(r)
        BY <1>3, <3>2 DEF Settle
      <4> QED BY <4>1, ReturnLocal
    <3> QED BY <3>1, <3>2
  <2>4. Solo' /\ req' \in [Requests -> Locals]
    BY <1>1, <2>3, GoSolo
  <2>5. /\ payout' \in [PayoutIds -> PayoutStatuses]
        /\ settled' \in [Entries -> SUBSET PayoutIds]
    BY <1>1, <2>1, <2>2 DEF Types
  <2>6. Types' /\ \A s \in Requests : s # r => req'[s] = req[s]
    BY <1>1, <2>3, <2>4, <2>5 DEF Types
  <2>7. ASSUME NEW s \in Requests PROVE Local(s)'
    <3>1. CASE s = r
      BY <2>3, <3>1
    <3>2. CASE s # r
      <4>1. Local(s) /\ req'[s] = req[s] /\ req[s].kind \notin {"request", "reverse"}
        BY <1>1, <2>6, <3>2 DEF Solo
      <4>2. CASE req[s].payout = p /\ req[s].op = "settle"
        BY <1>1, <4>1, <4>2, KindOf DEF Local, MovesOK, TotalsOK, ReversalOK, SettlesOK
      <4>3. CASE req[s].payout # p
        <5>1. req[s].kind = "settle" => payout'[req[s].payout] = payout[req[s].payout]
          BY <2>1, <4>1, <4>3 DEF Types, Local, SettlesOK
        <5> QED BY <1>1, <4>1, <5>1, KindOf DEF Local, MovesOK, TotalsOK, ReversalOK, SettlesOK
      <4>4. CASE req[s].payout = p /\ req[s].op # "settle"
        <5>1. req[s].op \notin {"pay", "release"}
          BY <2>2, <4>1, <4>4, KindOf DEF Local, SettlesOK, OpenPayout, Undone
        <5> QED BY <1>1, <4>1, <4>4, <5>1, KindOf DEF Local, MovesOK, TotalsOK, ReversalOK, SettlesOK
      <4> QED BY <4>2, <4>3, <4>4
    <3> QED BY <3>1, <3>2
  <2>8. Ledger'
    <3>1. payout[p] # "paid"
      BY <2>2 DEF OpenPayout
    <3>2. \A q \in PayoutIds : payout[q] = "paid" => payout'[q] = "paid"
      BY <2>1, <3>1 DEF Types
    <3>3. ASSUME NEW e \in Entries, NEW q \in settled'[e]
          PROVE  payout'[q] = "paid" /\ entry[e].payout = q
      <4>1. CASE q \in settled[e]
        BY <3>2, <4>1 DEF Ledger, Types
      <4>2. CASE q \notin settled[e]
        <5>1. to = "paid" /\ q = p /\ e \in HeldBy(p)
          BY <2>2, <3>3, <4>2
        <5> QED BY <1>1, <2>1, <5>1 DEF HeldBy, Types
      <4> QED BY <4>1, <4>2
    <3> QED BY <1>1, <3>2, <3>3 DEF Ledger
  <2>9. Conserved'
    BY <1>1 DEF Conserved
  <2> QED BY <2>4, <2>6, <2>7, <2>8, <2>9
<1> QED BY <1>2, <1>3

\* Settling the entries of a payout touches none that another handler is at.
LEMMA SettledLocal ==
  ASSUME IInv, NEW r \in Requests, req[r].kind = "settle", req' = [req EXCEPT ![r] = Idle],
         payout' = payout,
         \A e \in Entries : entry[e].payout = None => entry'[e] = entry[e],
         NEW s \in Requests
  PROVE  Local(s)'
<1> USE DEF IInv
<1>1. CASE s = r
  BY <1>1, IdleLocal DEF Types
<1>2. CASE s # r
  <2>1. Local(s) /\ req'[s] = req[s] /\ req[s].kind \notin {"request", "reverse"}
    BY <1>2 DEF Solo, Types, Idle
  <2>2. req[s].op = "reread" =>
          req[s].entry \in Entries /\ entry[req[s].entry].status \in {"approved", "payable"}
    BY <2>1, KindOf DEF Local, MovesOK, Entries
  <2>3. req[s].op = "reread" => entry'[req[s].entry] = entry[req[s].entry]
    BY <2>2 DEF Ledger
  <2> QED BY <2>1, <2>3, FrameLocal
<1> QED BY <1>1, <1>2

LEMMA PayStep ==
  ASSUME IInv, NEW r \in Requests, Pay(r)
  PROVE  IInv'
<1> USE DEF IInv
<1> DEFINE p == req[r].payout  new(e) == [entry[e] EXCEPT !.status = "paid"]
<1>1. /\ req[r].kind = "settle" /\ req[r] # Idle /\ p \in PayoutIds /\ payout[p] = "paid"
      /\ UNCHANGED <<payout, worth, settled>>
  <2>1. Local(r) /\ req[r].op = "pay" /\ UNCHANGED <<payout, worth, settled>>
    BY DEF Pay, At
  <2>2. req[r].kind = "settle"
    BY <2>1, KindOf
  <2> QED BY <2>1, <2>2 DEF Local, SettlesOK, Idle
<1>2. \A e \in Entries : entry'[e] = IF e \in InProcess(r) THEN new(e) ELSE entry[e]
  BY DEF Pay
<1>3. ASSUME NEW e \in Entries
      PROVE  /\ new(e) \in EntryDocs /\ new(e).status = "paid" /\ new(e).payout = entry[e].payout
             /\ new(e).amount = entry[e].amount /\ new(e).reversed = entry[e].reversed
  <2>1. entry[e] \in EntryDocs
    BY DEF Types
  <2> HIDE DEF IInv
  <2> QED BY <2>1 DEF EntryDocs, EntryStatuses
<1> HIDE DEF new
<1>4. req' = [req EXCEPT ![r] = Idle] /\ Idle \in Locals
  BY IdleInLocals DEF Pay, Return
<1>5. Solo' /\ req' \in [Requests -> Locals]
  BY <1>1, <1>4, GoSolo
<1>6. Types'
  BY <1>1, <1>3, <1>5 DEF Types, Pay, new
<1>7. ASSUME NEW s \in Requests PROVE Local(s)'
  <2>1. \A e \in Entries : entry[e].payout = None => entry'[e] = entry[e]
    BY <1>1, <1>2, IdAssumption DEF InProcess, HeldBy
  <2> QED BY <1>1, <1>4, <2>1, SettledLocal
<1>8. Ledger'
  BY <1>1, <1>2, <1>3 DEF Ledger, InProcess, HeldBy
<1>9. Conserved'
  BY <1>2, <1>3 DEF Conserved, InProcess, Entries
<1> QED BY <1>5, <1>6, <1>7, <1>8, <1>9

LEMMA ReleaseStep ==
  ASSUME IInv, NEW r \in Requests, Release(r)
  PROVE  IInv'
<1> USE DEF IInv
<1> DEFINE p == req[r].payout
<1>1. /\ req[r].kind = "settle" /\ req[r] # Idle /\ p \in PayoutIds /\ payout[p] \in Undone
      /\ UNCHANGED <<payout, worth, settled>>
  <2>1. Local(r) /\ req[r].op = "release" /\ UNCHANGED <<payout, worth, settled>>
    BY DEF Release, At
  <2>2. req[r].kind = "settle"
    BY <2>1, KindOf
  <2> QED BY <2>1, <2>2 DEF Local, SettlesOK, Idle
<1>2. req' = [req EXCEPT ![r] = Idle] /\ Idle \in Locals
  BY IdleInLocals DEF Release, Return
<1>3. Solo' /\ req' \in [Requests -> Locals]
  BY <1>1, <1>2, GoSolo
<1>4. entry' \in [Entries -> EntryDocs] /\ Ledger' /\ Conserved'
  <2>1. InProcess(r) \in SUBSET Entries /\ InProcess(r) \subseteq HeldBy(p)
    BY DEF InProcess, HeldBy
  <2>2. \A e \in InProcess(r) : entry[e].status = "processing" /\ settled[e] = {}
    BY <1>1, <2>1, HeldUnpaid DEF Undone
  <2> QED BY <1>1, <2>1, <2>2, FreeStep DEF Release
<1>5. Types'
  BY <1>1, <1>3, <1>4 DEF Types
<1>6. ASSUME NEW s \in Requests PROVE Local(s)'
  <2>1. \A e \in Entries : entry[e].payout = None => entry'[e] = entry[e]
    BY <1>1, IdAssumption DEF Release, InProcess, HeldBy
  <2> QED BY <1>1, <1>2, <2>1, SettledLocal
<1> QED BY <1>3, <1>4, <1>5, <1>6

-----------------------------------------------------------------------------
(* Reversing a commission                                                  *)

LEMMA StartReverseStep ==
  ASSUME Orderly, IInv, NEW r \in Requests, NEW c \in Commissions, NEW amount \in 1..Original,
         StartReverse(r, c, amount)
  PROVE  IInv'
<1> USE DEF IInv
<1> DEFINE op == IF entry[c].status = "processing" /\ entry[c].payout # None THEN "locate" ELSE "reduce"
           x == [Idle EXCEPT !.kind = "reverse", !.entry = c, !.seen = entry[c],
                             !.amount = amount, !.left = entry[c].amount - amount, !.op = op]
<1>1. entry[c] \in EntryDocs /\ c \in Entries /\ amount \in Int /\ amount > 0
  BY OriginalAssumption DEF Types, Entries
<1>2. entry[c].amount - amount \in Int /\ op \in {"locate", "reduce"}
  BY <1>1 DEF EntryDocs
<1>3. Begin(r, x) /\ UNCHANGED <<entry, payout, worth, settled>>
  BY DEF StartReverse
<1>4. /\ op = "locate" => entry[c].status = "processing" /\ entry[c].payout \in PayoutIds
      /\ entry[c].status \notin {"none", "reversed"}
      /\ entry[c].status # "paid" => entry[c].amount - amount >= 0
  BY <1>1 DEF StartReverse, Remaining, EntryDocs
<1>5. /\ x \in Locals /\ x.kind = "reverse" /\ x.op = op /\ x.entry = c /\ x.seen = entry[c]
      /\ x.amount = amount /\ x.left = entry[c].amount - amount
  <2> HIDE DEF op
  <2>1. x \in Locals
    BY <1>1, <1>2, IdleInLocals DEF Locals, Kinds, Ops
  <2> QED BY <2>1 DEF Idle
<1> HIDE DEF x, op
<1>6. req'[r] = x
  BY <1>3 DEF Types, Begin
<1>7. Local(r)'
  <2>1. MovesOK(r)' /\ TotalsOK(r)' /\ SettlesOK(r)' /\ req'[r].op \in Steps[req'[r].kind]
    BY <1>2, <1>5, <1>6 DEF MovesOK, TotalsOK, SettlesOK, Steps
  <2>2. ReversalOK(r)'
    BY <1>1, <1>2, <1>3, <1>4, <1>5, <1>6 DEF ReversalOK
  <2> QED BY <2>1, <2>2 DEF Local
<1> QED BY <1>3, <1>5, <1>7, StartStep

LEMMA LocateStep ==
  ASSUME IInv, NEW r \in Requests, Locate(r)
  PROVE  IInv'
<1> USE DEF IInv
<1> DEFINE p == req[r].seen.payout
<1>1. Local(r) /\ req[r].op = "locate" /\ UNCHANGED <<entry, payout, worth, settled>>
  BY DEF Locate, At
<1>2. req[r].kind = "reverse" /\ req[r] # Idle /\ req[r] \in Locals /\ p \in PayoutIds
  BY <1>1, KindOf DEF Idle, Types, Local, ReversalOK
<1>3. CASE payout[p] \in Reviewing
  <2> DEFINE x == [req[r] EXCEPT !.op = "takeout", !.payout = p]
  <2>1. /\ x \in Locals /\ x.kind = "reverse" /\ x.op = "takeout" /\ x.payout = p
        /\ x.entry = req[r].entry /\ x.amount = req[r].amount /\ x.left = req[r].left
    BY <1>2 DEF Locals, Ops
  <2>2. req' = [req EXCEPT ![r] = x] /\ req'[r] = x
    BY <1>3 DEF Locate, Types
  <2> HIDE DEF x
  <2>3. Local(r)'
    BY <1>1, <1>2, <1>3, <2>1, <2>2 DEF Local, MovesOK, TotalsOK, ReversalOK, SettlesOK, Steps
  <2> QED BY <1>1, <1>2, <2>1, <2>2, <2>3, GoStep
<1>4. CASE payout[p] \notin Reviewing
  <2> DEFINE x == [req[r] EXCEPT !.op = "reduce"]
  <2>1. Goto(r, "reduce") /\ "reduce" \in Ops
    BY <1>4 DEF Locate, Ops
  <2>2. /\ x \in Locals /\ req' = [req EXCEPT ![r] = x] /\ req'[r] = x /\ x.kind = req[r].kind
        /\ x.op = "reduce" /\ x.entry = req[r].entry /\ x.seen = req[r].seen
        /\ x.amount = req[r].amount /\ x.left = req[r].left
    BY <2>1, GotoLocals
  <2> HIDE DEF x
  <2>3. Local(r)'
    BY <1>1, <1>2, <2>2 DEF Local, MovesOK, TotalsOK, ReversalOK, SettlesOK, Steps
  <2> QED BY <1>1, <1>2, <2>2, <2>3, GoStep
<1> QED BY <1>3, <1>4

LEMMA TakeOutStep ==
  ASSUME IInv, NEW r \in Requests, TakeOut(r)
  PROVE  IInv'
<1> USE DEF IInv
<1> DEFINE c == req[r].entry  p == req[r].payout
<1>1. Local(r) /\ req[r].op = "takeout" /\ UNCHANGED <<payout, worth, settled>>
  BY DEF TakeOut, At
<1>2. /\ req[r].kind = "reverse" /\ c \in Entries /\ entry[c].status = "processing"
      /\ entry[c].payout = p /\ p \in PayoutIds /\ payout[p] \in Reviewing
  BY <1>1, KindOf DEF Local, ReversalOK, TotalsOK, Entries
<1>3. settled[c] = {}
  BY <1>2, HeldUnpaid DEF HeldBy, Reviewing
<1>4. entry' = [e \in Entries |-> IF e \in {c} THEN Freed(e) ELSE entry[e]]
  BY <1>2 DEF TakeOut, Types
<1>5. entry' \in [Entries -> EntryDocs] /\ Ledger' /\ Conserved'
  BY <1>1, <1>2, <1>3, <1>4, FreeStep
<1>6. entry'[c].status = "payable" /\ entry'[c].amount = entry[c].amount
  <2>1. entry[c] \in EntryDocs /\ entry'[c] = Freed(c)
    BY <1>2, <1>4 DEF Types
  <2> QED BY <2>1 DEF Freed, EntryDocs
<1>7. Goto(r, "retotal") /\ "retotal" \in Ops
  BY DEF TakeOut, Ops
<1> DEFINE x == [req[r] EXCEPT !.op = "retotal"]
<1>8. /\ x \in Locals /\ req' = [req EXCEPT ![r] = x] /\ req'[r] = x /\ x.kind = req[r].kind
      /\ x.op = "retotal" /\ x.entry = c /\ x.payout = p
      /\ x.amount = req[r].amount /\ x.left = req[r].left
  BY <1>7, GotoLocals
<1> HIDE DEF x
<1>9. Local(r)'
  <2>1. MovesOK(r)' /\ TotalsOK(r)' /\ SettlesOK(r)' /\ req'[r].op \in Steps[req'[r].kind]
    BY <1>1, <1>2, <1>8 DEF MovesOK, TotalsOK, SettlesOK, Steps
  <2>2. ReversalOK(r)'
    BY <1>1, <1>2, <1>6, <1>8 DEF ReversalOK, Local
  <2> QED BY <2>1, <2>2 DEF Local
<1> QED BY <1>1, <1>2, <1>5, <1>8, <1>9, SoloStep DEF Types

LEMMA AgainStep ==
  ASSUME IInv, NEW r \in Requests, Again(r)
  PROVE  IInv'
<1> USE DEF IInv
<1> DEFINE c == req[r].entry  x == [req[r] EXCEPT !.op = "reduce", !.seen = entry[c]]
<1>1. Local(r) /\ req[r].op = "again" /\ UNCHANGED <<entry, payout, worth, settled>>
  BY DEF Again, At
<1>2. /\ req[r].kind = "reverse" /\ req[r] # Idle /\ req[r] \in Locals
      /\ c \in Entries /\ entry[c] \in EntryDocs
  BY <1>1, KindOf DEF Idle, Types, Local, ReversalOK, Entries
<1>3. /\ x \in Locals /\ x.kind = "reverse" /\ x.op = "reduce" /\ x.entry = c /\ x.seen = entry[c]
      /\ x.amount = req[r].amount /\ x.left = req[r].left
  BY <1>2 DEF Locals, Ops
<1>4. req' = [req EXCEPT ![r] = x] /\ req'[r] = x
  BY DEF Again, Types
<1> HIDE DEF x
<1>5. Local(r)'
  BY <1>1, <1>2, <1>3, <1>4 DEF Local, MovesOK, TotalsOK, ReversalOK, SettlesOK, Steps
<1> QED BY <1>1, <1>2, <1>3, <1>4, <1>5, GoStep

LEMMA ReduceStep ==
  ASSUME IInv, NEW r \in Requests, Reduce(r)
  PROVE  IInv'
<1> USE DEF IInv
<1> DEFINE c == req[r].entry  new == Reduced(r)  left == req[r].left
<1>1. /\ Local(r) /\ req[r].op = "reduce" /\ req[r].seen.status \in Unpaid
      /\ UNCHANGED <<payout, worth, settled>> /\ Return(r)
  BY DEF Reduce, At
<1>2. /\ req[r].kind = "reverse" /\ c \in Commissions /\ c \in Entries
      /\ entry[c] = req[r].seen /\ entry[c].status \in Unpaid
  BY <1>1, KindOf DEF Local, ReversalOK, Entries
<1>3. /\ left \in Int /\ left >= 0 /\ req[r].amount \in Int /\ left = entry[c].amount - req[r].amount
      /\ entry[c] \in EntryDocs
  BY <1>1, <1>2 DEF Local, ReversalOK, Types, Locals, Unpaid
<1>4. entry[c].payout = None /\ settled[c] = {}
  BY <1>2, IdAssumption DEF Ledger, Types, Unpaid
<1>5. /\ new \in EntryDocs /\ new.status = IF left = 0 THEN "reversed" ELSE entry[c].status
      /\ new.amount = left /\ new.reversed = entry[c].reversed + req[r].amount
      /\ new.payout = entry[c].payout
  <2>1. entry[c].reversed + req[r].amount \in Int
    BY <1>3 DEF EntryDocs
  <2>2. (IF left = 0 THEN "reversed" ELSE entry[c].status) \in EntryStatuses
    BY <1>3 DEF EntryDocs, EntryStatuses
  <2>3. new = [entry[c] EXCEPT !.status = IF left = 0 THEN "reversed" ELSE entry[c].status,
                               !.amount = left, !.reversed = entry[c].reversed + req[r].amount]
    BY <1>2 DEF Reduced
  <2> HIDE DEF IInv, new, left, c
  <2> QED BY <1>3, <2>1, <2>2, <2>3 DEF EntryDocs
<1>6. entry' = [entry EXCEPT ![c] = new]
  BY DEF Reduce
<1> HIDE DEF new
<1>7. entry' \in [Entries -> EntryDocs]
  BY <1>2, <1>5, <1>6 DEF Types
<1>8. Ledger'
  <2>1. new.status \notin {"none", "paid"} /\ new.payout = None
    BY <1>2, <1>4, <1>5 DEF Unpaid
  <2> QED BY <1>1, <1>2, <1>4, <1>6, <2>1 DEF Ledger, Types
<1>9. Conserved'
  <2>1. entry[c].amount + entry[c].reversed = Original
    BY <1>2 DEF Conserved, Unpaid
  <2>2. new.amount + new.reversed = Original
    BY <1>3, <1>5, <2>1, OriginalAssumption DEF EntryDocs
  <2>3. new.status = "reversed" <=> new.amount = 0
    BY <1>2, <1>5 DEF Unpaid
  <2> QED BY <1>2, <1>6, <2>2, <2>3 DEF Conserved, Types
<1> QED BY <1>1, <1>2, <1>7, <1>8, <1>9, ReturnLocal, SoloStep DEF Types

LEMMA ClawBackStep ==
  ASSUME IInv, NEW r \in Requests, NEW k \in Extras, ClawBack(r, k)
  PROVE  IInv'
<1> USE DEF IInv
<1> DEFINE c == req[r].entry  new == [entry[k] EXCEPT !.status = "payable", !.amount = -req[r].amount]
<1>1. Local(r) /\ req[r].op = "reduce" /\ UNCHANGED <<payout, worth, settled>>
  BY DEF ClawBack, At
<1>2. /\ req[r].kind = "reverse" /\ c \in Commissions /\ c \in Entries /\ k \in Entries
      /\ k \notin Commissions /\ entry[k] = NoEntry /\ entry[k] \in EntryDocs
      /\ -req[r].amount \in Int
  <2>1. req[r].kind = "reverse"
    BY <1>1, KindOf
  <2>2. k \in Entries /\ k \notin Commissions /\ entry[k].status = "none"
    BY IdAssumption DEF ClawBack, Entries
  <2> QED BY <1>1, <2>1, <2>2 DEF Local, ReversalOK, Ledger, Types, Locals, Entries
<1>3. new \in EntryDocs /\ new.status = "payable" /\ new.payout = None
  <2>1. new \in EntryDocs
    <3> HIDE DEF IInv
    <3> QED BY <1>2 DEF EntryDocs, EntryStatuses, Unpaid
  <2> QED BY <1>2, <2>1 DEF NoEntry
<1>4. entry' = [entry EXCEPT ![k] = new]
  BY DEF ClawBack, Types
<1> HIDE DEF new
<1>5. entry' \in [Entries -> EntryDocs] /\ entry'[c] = entry[c]
  BY <1>2, <1>3, <1>4 DEF Types
<1>6. Ledger'
  BY <1>1, <1>2, <1>3, <1>4 DEF Ledger, Types, NoEntry
<1>7. Conserved'
  BY <1>2, <1>4 DEF Conserved, Types, Entries
<1>8. Goto(r, "note") /\ "note" \in Ops
  BY DEF ClawBack, Ops
<1> DEFINE x == [req[r] EXCEPT !.op = "note"]
<1>9. /\ x \in Locals /\ req' = [req EXCEPT ![r] = x] /\ req'[r] = x /\ x.kind = req[r].kind
      /\ x.op = "note" /\ x.entry = c
  BY <1>8, GotoLocals
<1> HIDE DEF x
<1>10. Local(r)'
  BY <1>1, <1>2, <1>5, <1>9 DEF Local, MovesOK, TotalsOK, ReversalOK, SettlesOK, Steps
<1> QED BY <1>1, <1>2, <1>5, <1>6, <1>7, <1>9, <1>10, SoloStep DEF Types

LEMMA NoteStep ==
  ASSUME IInv, NEW r \in Requests, Note(r)
  PROVE  IInv'
<1> USE DEF IInv
<1> DEFINE c == req[r].entry  sum == entry[c].clawed + req[r].amount
           new == [entry[c] EXCEPT !.clawed = sum]
<1>1. Local(r) /\ req[r].op = "note" /\ UNCHANGED <<payout, worth, settled>> /\ Return(r)
  BY DEF Note, At
<1>2. req[r].kind = "reverse" /\ c \in Entries /\ entry[c].status # "none" /\ entry[c] \in EntryDocs
  BY <1>1, KindOf DEF Local, ReversalOK, Types, Entries
<1>3. sum \in Int
  BY <1>2 DEF Types, Locals, EntryDocs
<1>4. /\ new \in EntryDocs /\ new.status = entry[c].status /\ new.amount = entry[c].amount
      /\ new.reversed = entry[c].reversed /\ new.payout = entry[c].payout
  <2> HIDE DEF IInv, sum
  <2> QED BY <1>2, <1>3 DEF EntryDocs
<1>5. entry' = [entry EXCEPT ![c] = new]
  BY <1>2 DEF Note, Types
<1> HIDE DEF new
<1>6. entry' \in [Entries -> EntryDocs]
  BY <1>2, <1>4, <1>5 DEF Types
<1>7. Ledger' /\ Conserved'
  BY <1>1, <1>2, <1>4, <1>5 DEF Ledger, Conserved, Types
<1> QED BY <1>1, <1>2, <1>6, <1>7, ReturnLocal, SoloStep DEF Types

-----------------------------------------------------------------------------
(* Every step                                                              *)

LEMMA CrashStep ==
  ASSUME IInv, NEW r \in Requests, Crash(r)
  PROVE  IInv'
  BY ReturnLocal, GoStep DEF Crash, IInv

LEMMA Inductive == ASSUME Orderly, IInv, [Next]_vars PROVE IInv'
<1>1. CASE UNCHANGED vars
  <2>1. Types' /\ Solo' /\ Ledger' /\ Conserved'
    BY <1>1, FrameLedger DEF vars, IInv, Types, Solo
  <2>2. \A s \in Requests : Local(s)'
    BY <1>1, FrameLocal DEF vars, IInv
  <2> QED BY <2>1, <2>2 DEF IInv
<1>2. ASSUME NEW c \in Commissions, Earn(c) PROVE IInv'
  BY <1>2, EarnStep
<1>3. ASSUME NEW x \in Extras, NEW amount \in Adjustments, Adjust(x, amount) PROVE IInv'
  BY <1>3, AdjustStep
<1>4. ASSUME NEW r \in Requests, NEW c \in Commissions, StartMove(r, c) \/ StartApprove(r, c)
      PROVE  IInv'
  BY <1>4, StartMoveStep, StartApproveStep
<1>5. ASSUME NEW r \in Requests, Move(r) \/ Approve(r) \/ Reread(r) PROVE IInv'
  BY <1>5, MoveStep, ApproveStep, RereadStep
<1>6. ASSUME NEW r \in Requests, StartRequest(r) \/ Collect(r) \/ Claim(r) PROVE IInv'
  BY <1>6, StartRequestStep, CollectStep, ClaimStep
<1>7. ASSUME NEW r \in Requests, NEW p \in PayoutIds, Insert(r, p) \/ StartSettle(r, p) PROVE IInv'
  BY <1>7, InsertStep, StartSettleStep
<1>8. ASSUME NEW r \in Requests, Retotal(r) \/ Disband(r) \/ WriteTotal(r) PROVE IInv'
  BY <1>8, RetotalStep, DisbandStep, WriteTotalStep
<1>9. ASSUME NEW r \in Requests, Settle(r) \/ Pay(r) \/ Release(r) PROVE IInv'
  BY <1>9, SettleStep, PayStep, ReleaseStep
<1>10. ASSUME NEW r \in Requests, NEW c \in Commissions, NEW amount \in 1..Original,
              StartReverse(r, c, amount)
       PROVE  IInv'
  BY <1>10, StartReverseStep
<1>11. ASSUME NEW r \in Requests, Locate(r) \/ TakeOut(r) \/ Again(r) PROVE IInv'
  BY <1>11, LocateStep, TakeOutStep, AgainStep
<1>12. ASSUME NEW r \in Requests, Reduce(r) \/ Note(r) \/ Crash(r) PROVE IInv'
  BY <1>12, ReduceStep, NoteStep, CrashStep
<1>13. ASSUME NEW r \in Requests, NEW x \in Extras, ClawBack(r, x) PROVE IInv'
  BY <1>13, ClawBackStep
<1> QED BY <1>1, <1>2, <1>3, <1>4, <1>5, <1>6, <1>7, <1>8, <1>9, <1>10, <1>11, <1>12, <1>13 DEF Next

LEMMA Initially == ASSUME Init PROVE IInv
<1>1. NoEntry \in EntryDocs
  BY DEF NoEntry, EntryDocs, EntryStatuses
<1>2. Types
  BY <1>1, IdleInLocals DEF Init, Types, PayoutStatuses
<1>3. Solo
  BY DEF Init, Solo
<1>4. ASSUME NEW r \in Requests PROVE Local(r)
  BY DEF Init, Local, MovesOK, TotalsOK, ReversalOK, SettlesOK, Idle, Steps
<1>5. Ledger /\ Conserved
  BY DEF Init, Ledger, Conserved, NoEntry, Entries
<1> QED BY <1>2, <1>3, <1>4, <1>5 DEF IInv

LEMMA Invariance == ASSUME Orderly PROVE Spec => []IInv
<1>1. IInv /\ [Next]_vars => IInv'
  BY Inductive
<1> QED BY <1>1, Initially, PTL DEF Spec

-----------------------------------------------------------------------------
(* What is paid stays                                                      *)

PaidKept ==
  /\ \A p \in PayoutIds : payout[p] = "paid" => payout'[p] = "paid" /\ worth'[p] = worth[p]
  /\ \A e \in Entries : entry[e].status = "paid" =>
       entry'[e] = [entry[e] EXCEPT !.clawed = entry'[e].clawed]

\* An untouched document has its own field.
LEMMA SameDoc ==
  ASSUME NEW d \in EntryDocs
  PROVE  d = [d EXCEPT !.clawed = d.clawed]
  BY DEF EntryDocs

LEMMA EntriesKept ==
  ASSUME IInv, payout' = payout, worth' = worth,
         \A e \in Entries : entry[e].status = "paid" => entry'[e] = entry[e]
  PROVE  PaidKept
  BY SameDoc DEF IInv, Types, PaidKept

LEMMA PayoutsKept ==
  ASSUME IInv, entry' = entry, NEW q \in PayoutIds, payout[q] # "paid",
         \A p \in PayoutIds \ {q} : payout'[p] = payout[p] /\ worth'[p] = worth[p]
  PROVE  PaidKept
  BY SameDoc DEF IInv, Types, PaidKept

LEMMA NothingTouched ==
  ASSUME IInv, UNCHANGED <<entry, payout, worth>>
  PROVE  PaidKept
  BY EntriesKept

LEMMA PaidStep == ASSUME IInv, [Next]_vars PROVE PaidKept
<1> USE DEF IInv
<1>1. CASE UNCHANGED vars
  BY <1>1, NothingTouched DEF vars
<1>2. ASSUME NEW c \in Commissions, Earn(c) PROVE PaidKept
  BY <1>2, EntriesKept DEF Earn, Types
<1>3. ASSUME NEW x \in Extras, NEW amount \in Adjustments, Adjust(x, amount) PROVE PaidKept
  BY <1>3, EntriesKept DEF Adjust, Types
<1>4. ASSUME NEW r \in Requests, NEW c \in Commissions, StartMove(r, c) \/ StartApprove(r, c)
      PROVE  PaidKept
  BY <1>4, NothingTouched DEF StartMove, StartApprove
<1>5. ASSUME NEW r \in Requests, Move(r) \/ Approve(r) \/ Reread(r) PROVE PaidKept
  <2>1. payout' = payout /\ worth' = worth
    BY <1>5 DEF Move, Approve, Reread
  <2>2. CASE entry' = entry
    BY <2>1, <2>2, EntriesKept
  <2>3. CASE entry' # entry
    <3>1. AsSeen(r) /\ SetStatus(req[r].entry, req[r].to) /\ req[r].op \in {"move", "approve"}
      BY <1>5, <2>3 DEF Move, Approve, Reread, At
    <3>2. req[r].seen.status # "paid"
      BY <3>1 DEF Local, MovesOK
    <3>3. entry[req[r].entry].status # "paid"
      BY <3>1, <3>2 DEF AsSeen
    <3> QED BY <2>1, <3>1, <3>3, EntriesKept DEF SetStatus, Types
  <2> QED BY <2>2, <2>3
<1>6. ASSUME NEW r \in Requests, StartRequest(r) \/ Collect(r) \/ Claim(r) PROVE PaidKept
  <2>1. CASE StartRequest(r) \/ Collect(r)
    BY <2>1, NothingTouched DEF StartRequest, Collect
  <2>2. CASE Claim(r)
    BY <2>2, EntriesKept DEF Claim, Claimable
  <2> QED BY <1>6, <2>1, <2>2
<1>7. ASSUME NEW r \in Requests, NEW p \in PayoutIds, Insert(r, p) \/ StartSettle(r, p) PROVE PaidKept
  <2>1. CASE StartSettle(r, p)
    BY <2>1, NothingTouched DEF StartSettle
  <2>2. CASE Insert(r, p)
    <3>1. payout[p] # "paid" /\ entry' = entry
      BY <2>2 DEF Insert
    <3>2. \A q \in PayoutIds \ {p} : payout'[q] = payout[q] /\ worth'[q] = worth[q]
      BY <2>2 DEF Insert, Types
    <3> QED BY <3>1, <3>2, PayoutsKept
  <2> QED BY <1>7, <2>1, <2>2
<1>8. ASSUME NEW r \in Requests, Retotal(r) \/ Disband(r) \/ WriteTotal(r) PROVE PaidKept
  <2>1. CASE Retotal(r)
    BY <2>1, NothingTouched DEF Retotal
  <2> DEFINE p == req[r].payout
  <2>2. ASSUME req[r].op \in {"disband", "write", "close"} PROVE p \in PayoutIds /\ payout[p] # "paid"
    BY <2>2 DEF Local, TotalsOK, Reviewing
  <2>3. CASE Disband(r)
    <3>1. \A e \in HeldBy(p) : entry[e].status = "processing"
      BY <2>2, <2>3, HeldUnpaid DEF Disband, At
    <3> QED BY <2>3, <3>1, EntriesKept DEF Disband
  <2>4. CASE WriteTotal(r)
    <3>1. p \in PayoutIds /\ payout[p] # "paid" /\ entry' = entry
      BY <2>2, <2>4 DEF WriteTotal
    <3>2. \A q \in PayoutIds \ {p} : payout'[q] = payout[q] /\ worth'[q] = worth[q]
      BY <2>4 DEF WriteTotal, Types
    <3> QED BY <3>1, <3>2, PayoutsKept
  <2> QED BY <1>8, <2>1, <2>3, <2>4
<1>9. ASSUME NEW r \in Requests, Settle(r) \/ Pay(r) \/ Release(r) PROVE PaidKept
  <2>1. CASE Pay(r) \/ Release(r)
    BY <2>1, EntriesKept DEF Pay, Release, InProcess
  <2>2. CASE Settle(r)
    <3>1. /\ req[r].payout \in PayoutIds /\ <<req[r].from, req[r].to>> \in PayoutActions
          /\ entry' = entry /\ worth' = worth
      <4>1. Local(r) /\ req[r].op = "settle"
        BY <2>2 DEF Settle, At
      <4>2. req[r].kind = "settle"
        BY <4>1, KindOf
      <4> QED BY <2>2, <4>1, <4>2 DEF Local, SettlesOK, Settle
    <3>2. CASE payout' = payout
      BY <3>1, <3>2, NothingTouched
    <3>3. CASE payout' # payout
      <4>1. payout[req[r].payout] = req[r].from /\ payout' = [payout EXCEPT ![req[r].payout] = req[r].to]
        BY <2>2, <3>3 DEF Settle, AsRead
      <4>2. req[r].from # "paid"
        BY <3>1 DEF PayoutActions
      <4>3. \A q \in PayoutIds \ {req[r].payout} : payout'[q] = payout[q] /\ worth'[q] = worth[q]
        BY <3>1, <4>1 DEF Types
      <4> QED BY <3>1, <4>1, <4>2, <4>3, PayoutsKept
    <3> QED BY <3>2, <3>3
  <2> QED BY <1>9, <2>1, <2>2
<1>10. ASSUME NEW r \in Requests, NEW c \in Commissions, NEW amount \in 1..Original,
              StartReverse(r, c, amount)
       PROVE  PaidKept
  BY <1>10, NothingTouched DEF StartReverse
<1>11. ASSUME NEW r \in Requests, Locate(r) \/ TakeOut(r) \/ Again(r) PROVE PaidKept
  <2>1. CASE Locate(r) \/ Again(r)
    BY <2>1, NothingTouched DEF Locate, Again
  <2>2. CASE TakeOut(r)
    <3>1. Local(r) /\ req[r].op = "takeout"
      BY <2>2 DEF TakeOut, At
    <3>2. entry[req[r].entry].status = "processing"
      BY <3>1, KindOf DEF Local, ReversalOK
    <3> QED BY <2>2, <3>2, EntriesKept DEF TakeOut, Types
  <2> QED BY <1>11, <2>1, <2>2
<1>12. ASSUME NEW r \in Requests, Reduce(r) \/ Note(r) \/ Crash(r) PROVE PaidKept
  <2>1. CASE Crash(r)
    BY <2>1, NothingTouched DEF Crash
  <2>2. CASE Reduce(r)
    <3>1. Local(r) /\ req[r].op = "reduce" /\ req[r].seen.status \in Unpaid
      BY <2>2 DEF Reduce, At
    <3>2. entry[req[r].entry] = req[r].seen
      BY <3>1, KindOf DEF Local, ReversalOK
    <3>3. entry[req[r].entry].status # "paid"
      BY <3>1, <3>2 DEF Unpaid
    <3> QED BY <2>2, <3>3, EntriesKept DEF Reduce, Types
  <2>3. CASE Note(r)
    <3> DEFINE c == req[r].entry  sum == entry[c].clawed + req[r].amount
    <3>1. Local(r) /\ req[r].op = "note" /\ payout' = payout /\ worth' = worth
      BY <2>3 DEF Note, At
    <3>2. c \in Entries
      BY <3>1, KindOf DEF Local, ReversalOK, Entries
    <3>3. entry[c] \in EntryDocs /\ entry'[c] = [entry[c] EXCEPT !.clawed = sum]
      BY <2>3, <3>2 DEF Note, Types
    <3>4. entry'[c].clawed = sum
      BY <3>3 DEF EntryDocs
    <3>5. \A e \in Entries \ {c} : entry'[e] = entry[e]
      BY <2>3 DEF Note, Types
    <3> HIDE DEF c, sum
    <3>6. ASSUME NEW e \in Entries PROVE entry'[e] = [entry[e] EXCEPT !.clawed = entry'[e].clawed]
      <4>1. CASE e = c
        BY <3>3, <3>4, <4>1
      <4>2. CASE e # c
        <5>1. entry[e] \in EntryDocs /\ entry'[e] = entry[e]
          BY <3>5, <4>2 DEF Types
        <5> QED BY <5>1, SameDoc
      <4> QED BY <4>1, <4>2
    <3> QED BY <3>1, <3>6 DEF PaidKept
  <2> QED BY <1>12, <2>1, <2>2, <2>3
<1>13. ASSUME NEW r \in Requests, NEW x \in Extras, ClawBack(r, x) PROVE PaidKept
  BY <1>13, EntriesKept DEF ClawBack, Types
<1> QED BY <1>1, <1>2, <1>3, <1>4, <1>5, <1>6, <1>7, <1>8, <1>9, <1>10, <1>11, <1>12, <1>13 DEF Next

-----------------------------------------------------------------------------
(* No money is stranded                                                    *)

\* A payout about to be cancelled for want of entries has none.
Emptied == \A r \in Requests : req[r].op = "close" =>
  \A e \in Entries : entry[e].payout # req[r].payout

\* Entries go into no other payout, and paid ones stay paid.
StaysPut == \A e \in Entries : entry'[e].payout # None =>
  entry'[e].payout = entry[e].payout /\ (entry[e].status = "paid" => entry'[e].status = "paid")

\* While a payout is being emptied and cancelled, nobody else moves an entry.
LEMMA EmptiedStep ==
  ASSUME IInv, Emptied, NEW r \in Requests,
         \A s \in Requests \ {r} : req'[s] = req[s],
         req'[r].op # "close" \/ \A e \in Entries : entry'[e].payout # req'[r].payout,
         req[r] # Idle \/ entry' = entry
  PROVE  Emptied'
<1> SUFFICES ASSUME NEW s \in Requests, req'[s].op = "close", NEW e \in Entries
             PROVE  entry'[e].payout # req'[s].payout
  BY DEF Emptied
<1>1. CASE s = r  BY <1>1
<1>2. CASE s # r
  <2>1. req'[s] = req[s] /\ req[s].op = "close"  BY <1>2
  <2>2. req[s].kind \in {"request", "reverse"}  BY <2>1, KindOf DEF IInv
  <2>3. req[r] = Idle  BY <1>2, <2>2 DEF IInv, Solo
  <2> QED  BY <2>1, <2>3 DEF Emptied
<1> QED  BY <1>1, <1>2

\* A step that leaves the payouts alone and ends no settlement strands nothing.
LEMMA Unstranded ==
  ASSUME NothingStranded, crashed' = crashed, payout' = payout, StaysPut,
         \A s \in Requests : req[s].op \in {"pay", "release"} => req'[s] = req[s]
  PROVE  NothingStranded'
<1>1. ASSUME crashed' = {}, NEW e \in Entries, NEW p \in PayoutIds, entry'[e].payout = p
      PROVE  \/ payout'[p] \in OpenPayout
             \/ payout'[p] = "paid" /\ entry'[e].status = "paid"
             \/ \E s \in Requests : req'[s].op \in {"pay", "release"} /\ req'[s].payout = p
  <2>1. p # None  BY IdAssumption
  <2>2. entry[e].payout = p /\ (entry[e].status = "paid" => entry'[e].status = "paid")
    BY <1>1, <2>1 DEF StaysPut
  <2>3. \/ payout[p] \in OpenPayout
        \/ payout[p] = "paid" /\ entry[e].status = "paid"
        \/ \E s \in Requests : req[s].op \in {"pay", "release"} /\ req[s].payout = p
    BY <1>1, <2>2 DEF NothingStranded, HeldBy
  <2>4. ASSUME NEW s \in Requests, req[s].op \in {"pay", "release"}, req[s].payout = p
        PROVE  req'[s].op \in {"pay", "release"} /\ req'[s].payout = p
    BY <2>4
  <2> QED  BY <2>2, <2>3, <2>4
<1> QED  BY <1>1 DEF NothingStranded, HeldBy

LEMMA Unmoved ==
  ASSUME IInv, NothingStranded, Emptied, crashed' = crashed, payout' = payout, StaysPut,
         NEW r \in Requests, \A s \in Requests \ {r} : req'[s] = req[s],
         req[r].op \notin {"pay", "release"}, req'[r].op # "close", req[r] # Idle \/ entry' = entry
  PROVE  NothingStranded' /\ Emptied'
<1>1. Emptied'  BY EmptiedStep
<1>2. \A s \in Requests : req[s].op \in {"pay", "release"} => req'[s] = req[s]  OBVIOUS
<1> QED  BY <1>1, <1>2, Unstranded

\* Where a handler is after it began, went on or ended; the others stay where they are.
LEMMA HandlerBegan ==
  ASSUME Types, NEW r \in Requests, NEW x, Begin(r, x)
  PROVE  /\ req[r].op = "idle" /\ req'[r] = x
         /\ \A s \in Requests \ {r} : req'[s] = req[s]
BY DEF Begin, Types, Idle

LEMMA HandlerWent ==
  ASSUME Types, NEW r \in Requests, NEW op, Goto(r, op)
  PROVE  /\ req'[r].op = op /\ req'[r].payout = req[r].payout
         /\ \A s \in Requests \ {r} : req'[s] = req[s]
BY DEF Goto, Types, Locals

LEMMA HandlerEnded ==
  ASSUME Types, NEW r \in Requests, Return(r)
  PROVE  req'[r].op = "idle" /\ \A s \in Requests \ {r} : req'[s] = req[s]
BY DEF Return, Types, Idle

\* Whoever is not at rest is busy.
LEMMA Busy == ASSUME NEW r \in Requests, req[r].op # "idle" PROVE req[r] # Idle
BY DEF Idle

LEMMA MovingIs ==
  ASSUME Types, NEW c \in Commissions, NEW to \in {"qualified", "approved", "payable"}
  PROVE  /\ Moving(c, to).op = "move"
         /\ [Moving(c, to) EXCEPT !.kind = "approve", !.op = "approve"].op = "approve"
         /\ [Moving(c, to) EXCEPT !.kind = "approve"].op = "move"
<1> DEFINE m == Moving(c, to)
<1>1. entry[c] \in EntryDocs /\ c \in Entries /\ to \in EntryStatuses
  BY DEF Types, Entries, EntryStatuses, Unpaid
<1>2. m \in Locals /\ m.op = "move"
  <2>1. m \in Locals  BY <1>1, IdleInLocals DEF Moving, Locals, Kinds, Ops
  <2> QED  BY <2>1 DEF Moving, Idle
<1>3. [m EXCEPT !.kind = "approve"] \in Locals /\ [m EXCEPT !.kind = "approve"].op = "move"
  <2> HIDE DEF m
  <2> QED  BY <1>2 DEF Locals, Kinds
<1>4. [m EXCEPT !.kind = "approve", !.op = "approve"].op = "approve"
  <2> HIDE DEF m
  <2> QED  BY <1>2 DEF Locals
<1> QED  BY <1>2, <1>3, <1>4

\* An entry that changes its status alone stays in its payout.
LEMMA StatusSet ==
  ASSUME Types, NEW c, NEW to, SetStatus(c, to)
  PROVE  \A e \in Entries : entry'[e].payout = entry[e].payout
<1> SUFFICES ASSUME NEW e \in Entries PROVE entry'[e].payout = entry[e].payout  OBVIOUS
<1>1. entry[e] \in EntryDocs /\ entry'[e] = IF e = c THEN [entry[e] EXCEPT !.status = to] ELSE entry[e]
  BY DEF SetStatus, Types
<1> QED  BY <1>1 DEF EntryDocs

\* A payout that is emptied is closed, and one that is settled is at once paid or released.
LEMMA StrandedStep ==
  ASSUME IInv, IInv', NothingStranded, Emptied, [Next]_vars
  PROVE  NothingStranded' /\ Emptied'
<1> DEFINE Good == NothingStranded' /\ Emptied'
<1>t. Types /\ Types' /\ Solo /\ Ledger /\ Ledger' /\ \A s \in Requests : Local(s) /\ Local(s)'
  BY DEF IInv
<1>k. PaidKept  BY PaidStep
<1>p. ASSUME \A e \in Entries : entry'[e].payout \in {entry[e].payout, None} PROVE StaysPut
  <2>1. ASSUME NEW e \in Entries, entry[e].status = "paid" PROVE entry'[e].status = "paid"
    <3>1. entry'[e] = [entry[e] EXCEPT !.clawed = entry'[e].clawed]  BY <1>k, <2>1 DEF PaidKept
    <3> QED  BY <1>t, <2>1, <3>1 DEF Types, EntryDocs
  <2> QED  BY <1>p, <2>1 DEF StaysPut
<1>0. CASE UNCHANGED vars
  BY <1>0 DEF vars, NothingStranded, Emptied, HeldBy
<1>1. ASSUME NEW c \in Commissions, Earn(c) PROVE Good
  <2>1. \A e \in Entries : entry'[e].payout = entry[e].payout  BY <1>1, <1>t DEF Earn, Types
  <2>2. NothingStranded'  BY <1>1, <1>p, <2>1, Unstranded DEF Earn
  <2> QED  BY <1>1, <2>1, <2>2 DEF Earn, Emptied
<1>2. ASSUME NEW x \in Extras, NEW amount \in Adjustments, Adjust(x, amount) PROVE Good
  <2>1. \A e \in Entries : entry'[e].payout = entry[e].payout  BY <1>2, <1>t DEF Adjust, Types
  <2>2. NothingStranded'  BY <1>2, <1>p, <2>1, Unstranded DEF Adjust
  <2> QED  BY <1>2, <2>1, <2>2 DEF Adjust, Emptied
<1>3. ASSUME NEW r \in Requests, NEW c \in Commissions, StartMove(r, c) \/ StartApprove(r, c)
      PROVE  Good
  <2>1. CASE StartMove(r, c)
    <3>1. PICK step \in {<<"pending", "qualified">>, <<"qualified", "approved">>,
                         <<"approved", "payable">>} : Begin(r, Moving(c, step[2]))
      BY <2>1 DEF StartMove
    <3> DEFINE x == Moving(c, step[2])
    <3>2. x.op # "close"  BY <1>t, MovingIs
    <3>3. Begin(r, x)  BY <3>1
    <3> HIDE DEF x
    <3> QED  BY <1>t, <1>p, <2>1, <3>2, <3>3, HandlerBegan, Unmoved DEF StartMove
  <2>2. CASE StartApprove(r, c)
    <3> DEFINE x == [Moving(c, "approved") EXCEPT !.kind = "approve", !.op = "approve"]
    <3>1. Begin(r, x)  BY <2>2 DEF StartApprove
    <3>2. x.op # "close"  BY <1>t, MovingIs
    <3> HIDE DEF x
    <3> QED  BY <1>t, <1>p, <2>2, <3>1, <3>2, HandlerBegan, Unmoved DEF StartApprove
  <2> QED  BY <1>3, <2>1, <2>2
<1>4. ASSUME NEW r \in Requests, Move(r) \/ Approve(r) \/ Reread(r) PROVE Good
  <2>1. \A e \in Entries : entry'[e].payout = entry[e].payout
    BY <1>4, <1>t, StatusSet DEF Move, Approve, Reread
  <2>2. req[r].op \in {"move", "approve", "reread"}  BY <1>4 DEF Move, Approve, Reread, At
  <2>4. req[r].kind \in {"move", "approve"}  BY <1>t, <2>2, KindOf
  <2>3. req'[r].op # "close" /\ \A s \in Requests \ {r} : req'[s] = req[s]
    <3>1. CASE Return(r) \/ Goto(r, "reread")  BY <1>t, <3>1, HandlerWent, HandlerEnded
    <3>2. CASE req' = [req EXCEPT ![r] = [Moving(req[r].entry, "payable") EXCEPT !.kind = "approve"]]
      <4> DEFINE x == [Moving(req[r].entry, "payable") EXCEPT !.kind = "approve"]
      <4>1. req[r].entry \in Commissions  BY <1>t, <2>2, <2>4, KindOf DEF Local, MovesOK
      <4>3. x.op = "move"  BY <1>t, <4>1, MovingIs
      <4>2. req' = [req EXCEPT ![r] = x]  BY <3>2
      <4> HIDE DEF x
      <4> QED  BY <1>t, <4>3, <4>2 DEF Types
    <3> QED  BY <1>4, <3>1, <3>2 DEF Move, Approve, Reread
  <2> QED  BY <1>4, <1>p, <2>1, <2>2, <2>3, Busy, Unmoved DEF Move, Approve, Reread
<1>5. ASSUME NEW r \in Requests, StartRequest(r) \/ Collect(r) PROVE Good
  <2>1. CASE StartRequest(r)
    <3> DEFINE x == [Idle EXCEPT !.kind = "request", !.op = "collect"]
    <3>1. Begin(r, x) /\ x.op # "close"  BY <2>1 DEF StartRequest, Idle
    <3> HIDE DEF x
    <3> QED  BY <1>t, <1>p, <2>1, <3>1, HandlerBegan, Unmoved DEF StartRequest
  <2>2. CASE Collect(r)
    <3>1. req[r].op = "collect"  BY <2>2 DEF Collect, At
    <3>2. req'[r].op # "close" /\ \A s \in Requests \ {r} : req'[s] = req[s]
      <4>1. CASE Return(r)  BY <1>t, <4>1, HandlerEnded
      <4>2. CASE ~Return(r)
        <5> DEFINE items == {e \in Entries : Claimable(e)}
        <5>1. req' = [req EXCEPT ![r].op = "insert", ![r].items = items]
          BY <2>2, <4>2 DEF Collect
        <5> HIDE DEF items
        <5> QED  BY <1>t, <5>1 DEF Types, Locals
      <4> QED  BY <4>1, <4>2
    <3> QED  BY <1>p, <2>2, <3>1, <3>2, Busy, Unmoved DEF Collect
  <2> QED  BY <1>5, <2>1, <2>2
<1>6. ASSUME NEW r \in Requests, Claim(r) PROVE Good
  <2> DEFINE q == req[r].payout
  <2>1. /\ req[r].op = "claim" /\ req[r] # Idle /\ q \in PayoutIds /\ payout[q] \in OpenPayout
    <3>1. req[r].op = "claim"  BY <1>6 DEF Claim, At
    <3>2. TotalsOK(r)  BY <1>t DEF Local
    <3> QED  BY <3>1, <3>2, Busy DEF TotalsOK, Reviewing, OpenPayout
  <2>2. /\ \A s \in Requests \ {r} : req'[s] = req[s]
        /\ req'[r].op \in {"idle", "retotal"} /\ payout' = payout /\ crashed' = crashed
    <3>1. /\ Return(r) \/ Goto(r, "retotal")
          /\ payout' = payout /\ crashed' = crashed
      BY <1>6 DEF Claim
    <3> QED  BY <1>t, <3>1, HandlerWent, HandlerEnded
  <2>3. Emptied'  BY <2>1, <2>2, EmptiedStep
  <2>4. ASSUME NEW e \in Entries
        PROVE  \/ entry'[e] = entry[e]
               \/ entry'[e].payout = q
    <3> DEFINE d == [entry[e] EXCEPT !.status = "processing", !.payout = q]
    <3>1. entry'[e] = d \/ entry'[e] = entry[e]  BY <1>6 DEF Claim
    <3>2. d.payout = q  BY <1>t DEF Types, EntryDocs
    <3> QED  BY <3>1, <3>2
  <2>5. NothingStranded'  BY <2>1, <2>2, <2>4 DEF NothingStranded, HeldBy
  <2> QED  BY <2>3, <2>5
<1>7. ASSUME NEW r \in Requests, NEW p \in PayoutIds, Insert(r, p) PROVE Good
  <2>1. /\ req[r].op = "insert" /\ req[r] # Idle /\ entry' = entry /\ crashed' = crashed
        /\ \A s \in Requests \ {r} : req'[s] = req[s]
        /\ req'[r].op = "claim" /\ payout' = [payout EXCEPT ![p] = "requested"]
    BY <1>7, <1>t DEF Insert, At, Idle, Types, Locals
  <2>2. Emptied'  BY <2>1, EmptiedStep
  <2>3. payout'[p] \in OpenPayout /\ \A q \in PayoutIds \ {p} : payout'[q] = payout[q]
    BY <2>1, <1>t DEF Types, OpenPayout
  <2>4. NothingStranded'  BY <2>1, <2>3 DEF NothingStranded, HeldBy
  <2> QED  BY <2>2, <2>4
<1>8. ASSUME NEW r \in Requests, NEW p \in PayoutIds, StartSettle(r, p) PROVE Good
  <2>1. \A s \in Requests \ {r} : req'[s] = req[s]
    BY <1>8, <1>t DEF StartSettle, Begin, Types
  <2>2. req[r].op = "idle" /\ req'[r].op = "settle"
    BY <1>8, <1>t DEF StartSettle, Begin, Types, Idle
  <2> QED  BY <1>8, <1>p, <2>1, <2>2, Unmoved DEF StartSettle
<1>9. ASSUME NEW r \in Requests, Retotal(r) PROVE Good
  <2>1. /\ req[r].op = "retotal" /\ req[r] # Idle
        /\ \A s \in Requests \ {r} : req'[s] = req[s]
        /\ req'[r].op \in {"disband", "write"}
    BY <1>9, <1>t DEF Retotal, Goto, At, Idle, Types, Locals
  <2> QED  BY <1>9, <1>p, <2>1, Unmoved DEF Retotal
<1>10. ASSUME NEW r \in Requests, Disband(r) PROVE Good
  <2> DEFINE q == req[r].payout
  <2>1. /\ req[r].op = "disband" /\ req[r] # Idle /\ q \in PayoutIds
        /\ \A s \in Requests \ {r} : req'[s] = req[s]
        /\ req'[r].op = "close" /\ req'[r].payout = q
        /\ payout' = payout /\ crashed' = crashed
    BY <1>10, <1>t DEF Disband, Goto, At, Idle, Types, Locals, Local, TotalsOK
  <2>2. ASSUME NEW e \in Entries
        PROVE  entry'[e].payout \in {entry[e].payout, None} /\ entry'[e].payout # q
    <3>1. q # None  BY <2>1, IdAssumption
    <3>2. entry[e] \in EntryDocs  BY <1>t DEF Types
    <3>3. CASE e \in HeldBy(q)
      <4>1. entry'[e] = [entry[e] EXCEPT !.status = "payable", !.payout = None]
        <5>1. entry'[e] = Freed(e)  BY <1>10, <3>3 DEF Disband
        <5> QED  BY <5>1 DEF Freed
      <4>2. entry'[e].payout = None  BY <3>2, <4>1 DEF EntryDocs
      <4> QED  BY <3>1, <4>2
    <3>4. CASE e \notin HeldBy(q)  BY <1>10, <3>1, <3>4 DEF Disband, HeldBy
    <3> QED  BY <3>3, <3>4
  <2>3. Emptied'  BY <2>1, <2>2, EmptiedStep
  <2>4. \A s \in Requests : req[s].op \in {"pay", "release"} => req'[s] = req[s]  BY <2>1
  <2> QED  BY <2>1, <2>2, <2>3, <2>4, <1>p, Unstranded
<1>11. ASSUME NEW r \in Requests, WriteTotal(r) PROVE Good
  <2> DEFINE q == req[r].payout
  <2>1. /\ req[r].op \in {"close", "write"} /\ q \in PayoutIds /\ entry' = entry
        /\ Goto(r, "again") \/ Return(r)
    <3>1. TotalsOK(r)  BY <1>t DEF Local
    <3>2. req[r].op \in {"close", "write"} /\ entry' = entry /\ Resume(r)
      BY <1>11 DEF WriteTotal
    <3> QED  BY <3>1, <3>2 DEF TotalsOK, Resume
  <2>2. req'[r].op \in {"again", "idle"} /\ \A s \in Requests \ {r} : req'[s] = req[s]
    BY <1>t, <2>1, HandlerWent, HandlerEnded
  <2>3. CASE payout' = payout
    BY <1>11, <1>p, <2>1, <2>2, <2>3, Busy, Unmoved DEF WriteTotal
  <2>4. CASE req[r].op = "close"
    <3>1. \A e \in Entries : entry[e].payout # q  BY <2>4 DEF Emptied
    <3>2. \A p \in PayoutIds \ {q} : payout'[p] = payout[p]
      BY <1>11, <1>t DEF WriteTotal, Types
    <3>3. \A s \in Requests : req[s].op \in {"pay", "release"} => req'[s] = req[s]
      BY <2>2, <2>4
    <3>4. Emptied'  BY <2>1, <2>2, EmptiedStep
    <3>5. NothingStranded'
      BY <1>11, <2>1, <3>1, <3>2, <3>3 DEF NothingStranded, HeldBy, WriteTotal
    <3> QED  BY <3>4, <3>5
  <2>5. req[r].op = "write" => payout' = payout  BY <1>11 DEF WriteTotal, At
  <2> QED  BY <2>1, <2>3, <2>4, <2>5
<1>12. ASSUME NEW r \in Requests, Settle(r) PROVE Good
  <2> DEFINE q == req[r].payout
  <2>1. /\ req[r].op = "settle" /\ req[r].kind = "settle" /\ q \in PayoutIds
        /\ req[r].to \in OpenPayout \cup Undone \cup {"paid"}
        /\ entry' = entry /\ crashed' = crashed
    <3>1. req[r].op = "settle" /\ entry' = entry /\ crashed' = crashed
      BY <1>12 DEF Settle, At
    <3>2. req[r].kind = "settle"  BY <1>t, <3>1, KindOf
    <3>3. q \in PayoutIds /\ <<req[r].from, req[r].to>> \in PayoutActions
      BY <1>t, <3>1, <3>2 DEF Local, SettlesOK
    <3> QED  BY <3>1, <3>2, <3>3 DEF PayoutActions, OpenPayout, Undone
  <2>2. CASE ~AsRead(r)
    <3>1. payout' = payout /\ Return(r)  BY <1>12, <2>2 DEF Settle
    <3>2. req'[r].op = "idle" /\ \A s \in Requests \ {r} : req'[s] = req[s]
      BY <1>t, <3>1, HandlerEnded
    <3> QED  BY <1>p, <2>1, <3>1, <3>2, Busy, Unmoved
  <2>3. CASE AsRead(r)
    <3>1. /\ payout' = [payout EXCEPT ![q] = req[r].to]
          /\ IF req[r].to = "paid" THEN Goto(r, "pay")
             ELSE IF req[r].to \in Undone THEN Goto(r, "release") ELSE Return(r)
      BY <1>12, <2>3 DEF Settle
    <3>2. /\ payout'[q] = req[r].to /\ \A p \in PayoutIds \ {q} : payout'[p] = payout[p]
      BY <1>t, <2>1, <3>1 DEF Types
    <3>3. /\ req'[r].op \in {"pay", "release", "idle"}
          /\ \A s \in Requests \ {r} : req'[s] = req[s]
          /\ req[r].to \notin OpenPayout =>
               req'[r].op \in {"pay", "release"} /\ req'[r].payout = q
      BY <1>t, <2>1, <3>1, HandlerWent, HandlerEnded
    <3>4. Emptied'  BY <2>1, <3>3, EmptiedStep
    <3>5. ASSUME crashed' = {}, NEW e \in Entries, NEW p \in PayoutIds, entry'[e].payout = p
          PROVE  \/ payout'[p] \in OpenPayout
                 \/ payout'[p] = "paid" /\ entry'[e].status = "paid"
                 \/ \E s \in Requests : req'[s].op \in {"pay", "release"} /\ req'[s].payout = p
      <4>1. CASE p = q  BY <3>2, <3>3, <4>1
      <4>2. CASE p # q
        <5>1. \/ payout[p] \in OpenPayout
              \/ payout[p] = "paid" /\ entry[e].status = "paid"
              \/ \E s \in Requests : req[s].op \in {"pay", "release"} /\ req[s].payout = p
          BY <2>1, <3>5 DEF NothingStranded, HeldBy
        <5>2. \A s \in Requests : req[s].op \in {"pay", "release"} => req'[s] = req[s]
          BY <2>1, <3>3
        <5> QED  BY <2>1, <3>2, <4>2, <5>1, <5>2
      <4> QED  BY <4>1, <4>2
    <3> QED  BY <3>4, <3>5 DEF NothingStranded, HeldBy
  <2> QED  BY <2>2, <2>3
<1>13. ASSUME NEW r \in Requests, Pay(r) \/ Release(r) PROVE Good
  <2> DEFINE q == req[r].payout
  <2>1. /\ req[r].op \in {"pay", "release"} /\ q \in PayoutIds
        /\ req[r].op = "pay" => payout[q] = "paid"
        /\ req[r].op = "release" => payout[q] \in Undone
    <3>1. req[r].op \in {"pay", "release"}  BY <1>13 DEF Pay, Release, At
    <3>2. req[r].kind = "settle"  BY <1>t, <3>1, KindOf
    <3> QED  BY <1>t, <3>1, <3>2 DEF Local, SettlesOK
  <2>2. /\ req'[r].op = "idle" /\ \A s \in Requests \ {r} : req'[s] = req[s]
        /\ payout' = payout /\ crashed' = crashed
    BY <1>13, <1>t, HandlerEnded DEF Pay, Release
  <2>3. ASSUME NEW e \in Entries
        PROVE  /\ e \notin InProcess(r) => entry'[e] = entry[e]
               /\ e \in InProcess(r) =>
                    \/ entry'[e].payout = None
                    \/ req[r].op = "pay" /\ entry'[e].payout = q /\ entry'[e].status = "paid"
    <3>1. entry[e] \in EntryDocs  BY <1>t DEF Types
    <3>2. CASE Pay(r)
      BY <3>1, <3>2 DEF Pay, At, InProcess, HeldBy, EntryDocs
    <3>3. CASE Release(r)
      BY <3>1, <3>3 DEF Release, Freed, EntryDocs
    <3> QED  BY <1>13, <3>2, <3>3
  <2>4. Emptied'
    <3>1. \A e \in Entries : e \in InProcess(r) => entry[e].payout = q  BY DEF InProcess, HeldBy
    <3> QED  BY <2>1, <2>2, Busy, EmptiedStep
  <2>5. ASSUME crashed' = {}, NEW e \in Entries, NEW p \in PayoutIds, entry'[e].payout = p
        PROVE  \/ payout'[p] \in OpenPayout
               \/ payout'[p] = "paid" /\ entry'[e].status = "paid"
               \/ \E s \in Requests : req'[s].op \in {"pay", "release"} /\ req'[s].payout = p
    <3>1. p # None  BY IdAssumption
    <3>2. CASE e \in InProcess(r)  BY <2>1, <2>2, <2>3, <2>5, <3>1, <3>2
    <3>3. CASE e \notin InProcess(r) /\ p = q
      <4>1. entry'[e] = entry[e] /\ entry[e].payout = q  BY <2>3, <2>5, <3>3
      <4>2. entry[e].status = "paid"
        BY <1>t, <3>1, <3>3, <4>1 DEF Ledger, InProcess, HeldBy
      <4>3. payout[q] = "paid"  BY <1>t, <4>1, <4>2 DEF Ledger
      <4> QED  BY <2>2, <3>3, <4>1, <4>2, <4>3
    <3>4. CASE e \notin InProcess(r) /\ p # q
      <4>1. \/ payout[p] \in OpenPayout
            \/ payout[p] = "paid" /\ entry[e].status = "paid"
            \/ \E s \in Requests : req[s].op \in {"pay", "release"} /\ req[s].payout = p
        BY <2>2, <2>3, <2>5, <3>4 DEF NothingStranded, HeldBy
      <4>2. \A s \in Requests : req[s].payout = p => req'[s] = req[s]  BY <2>2, <3>4
      <4> QED  BY <2>2, <2>3, <3>4, <4>1, <4>2
    <3> QED  BY <3>2, <3>3, <3>4
  <2> QED  BY <2>4, <2>5 DEF NothingStranded, HeldBy
<1>14. ASSUME NEW r \in Requests, NEW c \in Commissions, NEW amount \in 1..Original,
              StartReverse(r, c, amount)
       PROVE  Good
  <2> DEFINE op == IF entry[c].status = "processing" /\ entry[c].payout # None
                   THEN "locate" ELSE "reduce"
             x == [Idle EXCEPT !.kind = "reverse", !.entry = c, !.seen = entry[c],
                               !.amount = amount, !.left = entry[c].amount - amount, !.op = op]
  <2>1. Begin(r, x) /\ UNCHANGED <<entry, payout, crashed>>  BY <1>14 DEF StartReverse
  <2>2. x.op = op
    <3> HIDE DEF op
    <3> QED  BY DEF Idle
  <2>3. op # "close"  OBVIOUS
  <2> HIDE DEF x, op
  <2> QED  BY <1>t, <1>p, <2>1, <2>2, <2>3, HandlerBegan, Unmoved
<1>15. ASSUME NEW r \in Requests, Locate(r) \/ Again(r) PROVE Good
  <2>1. /\ req[r].op \in {"locate", "again"} /\ UNCHANGED <<entry, payout, crashed>>
    BY <1>15 DEF Locate, Again, At
  <2>2. /\ req'[r].op \in {"takeout", "reduce"} /\ \A s \in Requests \ {r} : req'[s] = req[s]
    BY <1>15, <1>t DEF Locate, Again, Goto, Types, Locals
  <2> QED  BY <1>p, <2>1, <2>2, Busy, Unmoved
<1>16. ASSUME NEW r \in Requests, TakeOut(r) PROVE Good
  <2>1. /\ req[r].op = "takeout" /\ Goto(r, "retotal") /\ UNCHANGED <<payout, crashed>>
        /\ entry' = [entry EXCEPT ![req[r].entry] = Freed(req[r].entry)]
    BY <1>16 DEF TakeOut, At
  <2>2. \A e \in Entries : entry'[e].payout \in {entry[e].payout, None}
    BY <2>1, <1>t DEF Freed, Types, EntryDocs
  <2> QED  BY <1>t, <1>p, <2>1, <2>2, HandlerWent, Busy, Unmoved
<1>17. ASSUME NEW r \in Requests, Reduce(r) \/ Note(r) PROVE Good
  <2>1. /\ req[r].op \in {"reduce", "note"} /\ Return(r) /\ UNCHANGED <<payout, crashed>>
    BY <1>17 DEF Reduce, Note, At
  <2>2. \A e \in Entries : entry'[e].payout = entry[e].payout
    <3>1. CASE Reduce(r)
      <4>1. ASSUME NEW e \in Entries, e = req[r].entry PROVE Reduced(r).payout = entry[e].payout
        BY <4>1, <1>t DEF Reduced, Types, EntryDocs
      <4>2. entry' = [entry EXCEPT ![req[r].entry] = Reduced(r)]  BY <3>1 DEF Reduce
      <4> QED  BY <4>1, <4>2, <1>t DEF Types
    <3>2. CASE Note(r)
      <4>1. entry' = [entry EXCEPT ![req[r].entry].clawed = @ + req[r].amount]
        BY <3>2 DEF Note
      <4> QED  BY <4>1, <1>t DEF Types, EntryDocs
    <3> QED  BY <1>17, <3>1, <3>2
  <2> QED  BY <1>t, <1>p, <2>1, <2>2, HandlerEnded, Busy, Unmoved
<1>18. ASSUME NEW r \in Requests, NEW x \in Extras, ClawBack(r, x) PROVE Good
  <2>1. /\ req[r].op = "reduce" /\ Goto(r, "note") /\ UNCHANGED <<payout, crashed>>
        /\ entry' = [entry EXCEPT ![x].status = "payable", ![x].amount = -req[r].amount]
    BY <1>18 DEF ClawBack, At
  <2>2. \A e \in Entries : entry'[e].payout = entry[e].payout
    BY <2>1, <1>t DEF Types, EntryDocs
  <2>3. req'[r].op # "close" /\ \A s \in Requests \ {r} : req'[s] = req[s]
    BY <1>t, <2>1, HandlerWent
  <2>4. StaysPut  BY <1>p, <2>2
  <2> QED  BY <2>1, <2>3, <2>4, Busy, Unmoved
<1>19. ASSUME NEW r \in Requests, Crash(r) PROVE Good
  <2>1. /\ req[r] # Idle /\ entry' = entry /\ Return(r) /\ crashed' # {}
    BY <1>19 DEF Crash
  <2>2. Emptied'  BY <1>t, <2>1, HandlerEnded, EmptiedStep
  <2> QED  BY <2>1, <2>2 DEF NothingStranded
<1> QED
  BY <1>0, <1>1, <1>2, <1>3, <1>4, <1>5, <1>6, <1>7, <1>8, <1>9, <1>10, <1>11, <1>12, <1>13,
     <1>14, <1>15, <1>16, <1>17, <1>18, <1>19 DEF Next

-----------------------------------------------------------------------------
(* A paid payout is worth what it holds                                    *)

\* Between taking entries in or out and writing the total, a payout has another worth.
Midway == {"claim", "retotal", "disband", "write", "close"}
Adjusting(p) == \E r \in Requests : req[r].op \in Midway /\ req[r].payout = p
Matched(p) ==
  payout[p] \in OpenPayout \cup {"paid"} => worth[p] = Total(HeldBy(p)) \/ Adjusting(p)

\* What a handler has summed up is still there to be claimed, or held.
Booked(r) ==
  /\ req[r].op \in {"insert", "claim"} => \A e \in req[r].items : Claimable(e)
  /\ req[r].op = "insert" => total[r] = Total(req[r].items)
  /\ req[r].op = "claim" =>
       worth[req[r].payout] = Total(req[r].items) /\ HeldBy(req[r].payout) = {}
  /\ req[r].op = "write" => total[r] = Total(HeldBy(req[r].payout))

Complete == crashed \cap {"request", "reverse"} = {}

BooksInv ==
  /\ total = [r \in Requests |-> total[r]]
  /\ \A p \in PayoutIds : payout[p] = "none" => HeldBy(p) = {}
  /\ \A r \in Requests : Booked(r)
  /\ Complete => \A p \in PayoutIds : Matched(p)

\* What a payout holds is worth what its entries are, whatever else becomes of them.
LEMMA HeldSame ==
  ASSUME NEW p \in PayoutIds, \A e \in Entries : entry'[e].payout = p <=> entry[e].payout = p,
         \A e \in Entries : entry[e].payout = p => entry'[e].amount = entry[e].amount
  PROVE  HeldBy(p)' = HeldBy(p) /\ Total(HeldBy(p))' = Total(HeldBy(p))
<1>1. HeldBy(p)' = HeldBy(p)  BY DEF HeldBy
<1>2. [e \in HeldBy(p)' |-> entry'[e].amount] = [e \in HeldBy(p) |-> entry[e].amount]
  BY <1>1 DEF HeldBy
<1>3. Summed([e \in HeldBy(p)' |-> entry'[e].amount]) = Summed([e \in HeldBy(p) |-> entry[e].amount])
  BY <1>2
<1> QED  BY <1>1, <1>3 DEF Total

LEMMA ClaimedSame ==
  ASSUME NEW E \in SUBSET Entries, \A e \in E : entry'[e].amount = entry[e].amount
  PROVE  Summed([e \in E |-> entry'[e].amount]) = Total(E)
<1>1. [e \in E |-> entry'[e].amount] = [e \in E |-> entry[e].amount]  OBVIOUS
<1> QED  BY <1>1 DEF Total

\* Steps that take no entry into or out of a payout, and start at most a handler.
LEMMA BooksFrame ==
  ASSUME IInv, BooksInv, UNCHANGED <<payout, worth, total, crashed>>,
         \A e \in Entries : entry[e].status # "none" => entry'[e] = entry[e],
         \A e \in Entries : entry[e].status = "none" => entry'[e].payout = None,
         \A s \in Requests : \/ req'[s] = req[s]
                             \/ req[s].op = "idle" /\ req'[s].op \notin {"insert", "write"} \cup Midway
  PROVE  BooksInv'
<1>t. Types /\ Ledger /\ \A s \in Requests : Local(s)  BY DEF IInv
<1>1. ASSUME NEW p \in PayoutIds
      PROVE  HeldBy(p)' = HeldBy(p) /\ Total(HeldBy(p))' = Total(HeldBy(p))
  <2>1. p # None  BY IdAssumption
  <2>2. \A e \in Entries : entry[e].status = "none" => entry[e].payout = None
    BY <1>t DEF Ledger, NoEntry
  <2> QED  BY <2>1, <2>2, HeldSame
<1>2. \A p \in PayoutIds : payout'[p] = "none" => HeldBy(p)' = {}  BY <1>1 DEF BooksInv
<1>3. ASSUME NEW s \in Requests PROVE Booked(s)'
  <2>1. CASE req'[s] = req[s]
    <3>1. req[s].op \in {"claim", "write"} => req[s].payout \in PayoutIds
      BY <1>t DEF Local, TotalsOK
    <3>2. req[s].items \in SUBSET Entries  BY <1>t DEF Types, Locals
    <3>3. ASSUME req[s].op \in {"insert", "claim"}
          PROVE  /\ \A e \in req[s].items : entry'[e] = entry[e] /\ Claimable(e)
                 /\ Total(req[s].items)' = Total(req[s].items)
      <4>1. \A e \in req[s].items : entry'[e] = entry[e] /\ Claimable(e)
        BY <3>2, <3>3 DEF BooksInv, Booked, Claimable
      <4>2. Summed([e \in req[s].items |-> entry'[e].amount]) = Total(req[s].items)
        BY <3>2, <4>1, ClaimedSame
      <4>3. [e \in req'[s].items |-> entry'[e].amount] = [e \in req[s].items |-> entry'[e].amount]
        BY <2>1
      <4>4. Summed([e \in req'[s].items |-> entry'[e].amount]) = Total(req[s].items)
        BY <4>2, <4>3
      <4> QED  BY <4>1, <4>4 DEF Total
    <3>4. Booked(s)  BY DEF BooksInv
    <3>5. req[s].op \in {"claim", "write"} =>
            /\ HeldBy(req[s].payout)' = HeldBy(req[s].payout)
            /\ Total(HeldBy(req[s].payout))' = Total(HeldBy(req[s].payout))
      <4> SUFFICES ASSUME req[s].op \in {"claim", "write"}
                   PROVE  /\ HeldBy(req[s].payout)' = HeldBy(req[s].payout)
                          /\ Total(HeldBy(req[s].payout))' = Total(HeldBy(req[s].payout))
        OBVIOUS
      <4> DEFINE q == req[s].payout
      <4>1. PICK p \in PayoutIds : p = q  BY <3>1
      <4>2. HeldBy(p)' = HeldBy(p) /\ Total(HeldBy(p))' = Total(HeldBy(p))  BY <1>1
      <4>3. p = q /\ p = q'  BY <2>1, <4>1
      <4>4. HeldBy(q)' = HeldBy(q)  BY <4>2, <4>3 DEF HeldBy
      <4>5. Total(HeldBy(q))' = Total(HeldBy(q))  BY <4>2, <4>3 DEF HeldBy, Total
      <4> QED  BY <4>4, <4>5
    <3> QED  BY <2>1, <3>3, <3>4, <3>5 DEF Booked, Claimable
  <2>2. CASE req'[s].op \notin {"insert", "write"} \cup Midway  BY <2>2 DEF Booked, Midway
  <2> QED  BY <2>1, <2>2
<1>4. ASSUME Complete', NEW p \in PayoutIds PROVE Matched(p)'
  <2>1. Matched(p)  BY <1>4 DEF BooksInv, Complete
  <2>2. Adjusting(p) => Adjusting(p)'
    <3> SUFFICES ASSUME NEW s \in Requests, req[s].op \in Midway, req[s].payout = p
                 PROVE  Adjusting(p)'
      BY DEF Adjusting
    <3>1. req'[s] = req[s]  BY DEF Midway
    <3> QED  BY <3>1 DEF Adjusting
  <2> QED  BY <1>1, <2>1, <2>2 DEF Matched
<1> QED  BY <1>2, <1>3, <1>4 DEF BooksInv

\* While a handler is under way that is no request and no reversal, nobody adjusts a payout;
\* while it is one, it alone does.
LEMMA AloneAdjusts ==
  ASSUME IInv, NEW r \in Requests, req[r] # Idle
  PROVE  /\ \A s \in Requests \ {r} : req[s].op \notin Midway \cup {"insert"}
         /\ \A p : Adjusting(p) <=> req[r].op \in Midway /\ req[r].payout = p
<1>1. \A s \in Requests \ {r} : req[s].op \notin Midway \cup {"insert"}
  <2> SUFFICES ASSUME NEW s \in Requests \ {r}, req[s].op \in Midway \cup {"insert"} PROVE FALSE
    OBVIOUS
  <2>1. req[s].kind \in {"request", "reverse"}  BY KindOf DEF IInv, Midway
  <2> QED  BY <2>1 DEF IInv, Solo
<1> QED  BY <1>1 DEF Adjusting

\* The step of a handler: what is left to show is about it and the payouts it touches.
LEMMA BooksStep ==
  ASSUME IInv, BooksInv, NEW r \in Requests, req[r] # Idle, Complete' => Complete,
         \A s \in Requests \ {r} : req'[s] = req[s],
         total' = [s \in Requests |-> total'[s]],
         \A p \in PayoutIds : payout'[p] = "none" => HeldBy(p)' = {},
         Booked(r)', \A p \in PayoutIds : Complete' /\ Matched(p) => Matched(p)'
  PROVE  BooksInv'
<1>1. ASSUME NEW s \in Requests PROVE Booked(s)'
  <2>1. CASE s # r
    <3>1. req'[s].op \notin Midway \cup {"insert"}  BY <2>1, AloneAdjusts
    <3> QED  BY <3>1 DEF Booked, Midway
  <2> QED  BY <2>1
<1>2. Complete' => \A p \in PayoutIds : Matched(p)'  BY DEF BooksInv
<1> QED  BY <1>1, <1>2 DEF BooksInv

\* The step of a handler that takes no entry into or out of a payout, and adjusts none.
LEMMA BooksGo ==
  ASSUME IInv, BooksInv, NEW r \in Requests, req[r] # Idle, Complete' => Complete,
         \A s \in Requests \ {r} : req'[s] = req[s],
         total' = [s \in Requests |-> total'[s]], UNCHANGED <<payout, worth>>,
         \A e \in Entries : entry'[e].payout = entry[e].payout,
         \A e \in Entries : entry[e].payout # None => entry'[e].amount = entry[e].amount,
         req[r].op \in Midway =>
           ~Complete' \/ (req'[r].op \in Midway /\ req'[r].payout = req[r].payout),
         Booked(r)'
  PROVE  BooksInv'
<1>1. ASSUME NEW p \in PayoutIds
      PROVE  HeldBy(p)' = HeldBy(p) /\ Total(HeldBy(p))' = Total(HeldBy(p))
  BY IdAssumption, HeldSame
<1>2. ASSUME NEW p \in PayoutIds, Complete', Matched(p) PROVE Matched(p)'
  <2>1. Adjusting(p) => Adjusting(p)'  BY <1>2, AloneAdjusts DEF Adjusting
  <2> QED  BY <1>1, <1>2, <2>1 DEF Matched
<1>3. \A p \in PayoutIds : payout'[p] = "none" => HeldBy(p)' = {}  BY <1>1 DEF BooksInv
<1> QED  BY <1>2, <1>3, BooksStep

LEMMA BooksInvStep ==
  ASSUME IInv, IInv', BooksInv, [Next]_vars
  PROVE  BooksInv'
<1>t. /\ Types /\ Types' /\ Ledger /\ \A s \in Requests : Local(s) /\ Local(s)'
      /\ total = [s \in Requests |-> total[s]]
  BY DEF IInv, BooksInv
<1>c. crashed' = crashed => (Complete' => Complete)  BY DEF Complete
<1>n. \A e \in Entries : entry[e].status = "none" => entry[e].payout = None
  BY <1>t DEF Ledger, NoEntry
<1>0. CASE UNCHANGED vars
  BY <1>0, <1>n, BooksFrame DEF vars
<1>1. ASSUME NEW c \in Entries, NEW st, NEW amount, entry[c].status = "none",
             entry' = [entry EXCEPT ![c].status = st, ![c].amount = amount],
             UNCHANGED <<payout, worth, req, total, crashed>>
      PROVE  BooksInv'
  <2>1. \A e \in Entries \ {c} : entry'[e] = entry[e]  BY <1>1, <1>t DEF Types
  <2>2. entry'[c].payout = None  BY <1>1, <1>t, <1>n DEF Types, EntryDocs
  <2> QED  BY <1>1, <1>n, <2>1, <2>2, BooksFrame
<1>2. ASSUME NEW r \in Requests, NEW x, Begin(r, x), x.op \notin {"insert", "write"} \cup Midway,
             UNCHANGED <<entry, payout, worth, total, crashed>>
      PROVE  BooksInv'
  BY <1>2, <1>t, <1>n, HandlerBegan, BooksFrame
<1>3. ASSUME NEW r \in Requests, NEW c \in Commissions, StartMove(r, c) \/ StartApprove(r, c)
      PROVE  BooksInv'
  <2>1. CASE StartMove(r, c)
    <3>1. PICK step \in {<<"pending", "qualified">>, <<"qualified", "approved">>,
                         <<"approved", "payable">>} : Begin(r, Moving(c, step[2]))
      BY <2>1 DEF StartMove
    <3> DEFINE x == Moving(c, step[2])
    <3>2. x.op \notin {"insert", "write"} \cup Midway  BY <1>t, MovingIs DEF Midway
    <3>3. Begin(r, x)  BY <3>1
    <3> HIDE DEF x
    <3> QED  BY <1>2, <2>1, <3>2, <3>3 DEF StartMove
  <2>2. CASE StartApprove(r, c)
    <3> DEFINE x == [Moving(c, "approved") EXCEPT !.kind = "approve", !.op = "approve"]
    <3>1. Begin(r, x)  BY <2>2 DEF StartApprove
    <3>2. x.op \notin {"insert", "write"} \cup Midway  BY <1>t, MovingIs DEF Midway
    <3> HIDE DEF x
    <3> QED  BY <1>2, <2>2, <3>1, <3>2 DEF StartApprove
  <2> QED  BY <1>3, <2>1, <2>2
<1>4. ASSUME NEW r \in Requests, StartRequest(r) PROVE BooksInv'
  <2> DEFINE x == [Idle EXCEPT !.kind = "request", !.op = "collect"]
  <2>1. Begin(r, x) /\ x.op = "collect"  BY <1>4 DEF StartRequest, Idle
  <2> HIDE DEF x
  <2>2. x.op \notin {"insert", "write"} \cup Midway  BY <2>1 DEF Midway
  <2> QED  BY <1>2, <1>4, <2>1, <2>2 DEF StartRequest
<1>5. ASSUME NEW r \in Requests, NEW p \in PayoutIds, StartSettle(r, p) PROVE BooksInv'
  <2>1. PICK action \in PayoutActions :
          Begin(r, [Idle EXCEPT !.kind = "settle", !.op = "settle", !.payout = p,
                                !.from = action[1], !.to = action[2]])
    BY <1>5 DEF StartSettle
  <2> DEFINE x == [Idle EXCEPT !.kind = "settle", !.op = "settle", !.payout = p,
                               !.from = action[1], !.to = action[2]]
  <2>2. Begin(r, x) /\ x.op = "settle"  BY <2>1 DEF Idle
  <2> HIDE DEF x
  <2>3. x.op \notin {"insert", "write"} \cup Midway  BY <2>2 DEF Midway
  <2> QED  BY <1>2, <1>5, <2>2, <2>3 DEF StartSettle
<1>6. ASSUME NEW r \in Requests, NEW c \in Commissions, NEW amount \in 1..Original,
             StartReverse(r, c, amount)
      PROVE  BooksInv'
  <2> DEFINE op == IF entry[c].status = "processing" /\ entry[c].payout # None
                   THEN "locate" ELSE "reduce"
             x == [Idle EXCEPT !.kind = "reverse", !.entry = c, !.seen = entry[c],
                               !.amount = amount, !.left = entry[c].amount - amount, !.op = op]
  <2>1. Begin(r, x)  BY <1>6 DEF StartReverse
  <2>2. x.op = op
    <3> HIDE DEF op
    <3> QED  BY DEF Idle
  <2>3. op \in {"locate", "reduce"}  OBVIOUS
  <2> HIDE DEF x, op
  <2>4. x.op \notin {"insert", "write"} \cup Midway  BY <2>2, <2>3 DEF Midway
  <2> QED  BY <1>2, <1>6, <2>1, <2>4 DEF StartReverse
<1>7. ASSUME NEW r \in Requests, Move(r) \/ Approve(r) \/ Reread(r) PROVE BooksInv'
  <2>1. /\ req[r].op \in {"move", "approve", "reread"}
        /\ UNCHANGED <<payout, worth, total, crashed>>
        /\ entry' = entry \/ SetStatus(req[r].entry, req[r].to)
    BY <1>7 DEF Move, Approve, Reread, At
  <2>2. \A e \in Entries : entry'[e].payout = entry[e].payout  BY <1>t, <2>1, StatusSet
  <2>3. \A e \in Entries : entry'[e].amount = entry[e].amount
    BY <1>t, <2>1 DEF SetStatus, Types, EntryDocs
  <2>4. req[r].kind \in {"move", "approve"}  BY <1>t, <2>1, KindOf
  <2>5. /\ req'[r].op \in {"idle", "reread", "move"}
        /\ \A s \in Requests \ {r} : req'[s] = req[s]
    <3>1. CASE Return(r) \/ Goto(r, "reread")  BY <1>t, <3>1, HandlerWent, HandlerEnded
    <3>2. CASE req' = [req EXCEPT ![r] = [Moving(req[r].entry, "payable") EXCEPT !.kind = "approve"]]
      <4> DEFINE x == [Moving(req[r].entry, "payable") EXCEPT !.kind = "approve"]
      <4>1. req[r].entry \in Commissions  BY <1>t, <2>4 DEF Local, MovesOK
      <4>2. x.op = "move"  BY <1>t, <4>1, MovingIs
      <4>3. req' = [req EXCEPT ![r] = x]  BY <3>2
      <4> HIDE DEF x
      <4> QED  BY <1>t, <4>2, <4>3 DEF Types
    <3> QED  BY <1>7, <3>1, <3>2 DEF Move, Approve, Reread
  <2>6. Booked(r)' /\ req[r].op \notin Midway  BY <2>1, <2>5 DEF Booked, Midway
  <2>7. total' = [s \in Requests |-> total'[s]]  BY <1>t, <2>1
  <2>8. req[r] # Idle  BY <2>1, Busy
  <2> QED  BY <1>c, <2>1, <2>2, <2>3, <2>5, <2>6, <2>7, <2>8, BooksGo
<1>8. ASSUME NEW r \in Requests, Collect(r) PROVE BooksInv'
  <2> DEFINE items == {e \in Entries : Claimable(e)}
  <2>1. req[r].op = "collect" /\ UNCHANGED <<entry, payout, worth, crashed>>
    BY <1>8 DEF Collect, At
  <2>2. CASE Total(items) > 0
    <3>1. /\ req' = [req EXCEPT ![r].op = "insert", ![r].items = items]
          /\ total' = [total EXCEPT ![r] = Total(items)]
      BY <1>8, <2>2 DEF Collect
    <3>2. \A e \in items : Claimable(e)'  BY <2>1 DEF Claimable
    <3> HIDE DEF items
    <3>4. /\ req'[r].op = "insert" /\ req'[r].items = items
          /\ \A s \in Requests \ {r} : req'[s] = req[s]
          /\ total'[r] = Total(items) /\ total' = [s \in Requests |-> total'[s]]
      BY <1>t, <3>1 DEF Types, Locals
    <3>5. Booked(r)'
      <4>1. [e \in req'[r].items |-> entry'[e].amount] = [e \in items |-> entry[e].amount]
        BY <2>1, <3>4
      <4>2. total'[r] = Summed([e \in req'[r].items |-> entry'[e].amount])
        BY <3>4, <4>1 DEF Total
      <4>3. total'[r] = Total(req[r].items)'  BY <4>2 DEF Total
      <4> QED  BY <3>2, <3>4, <4>3 DEF Booked
    <3> QED  BY <1>c, <2>1, <3>4, <3>5, Busy, BooksGo DEF Midway
  <2>3. CASE ~(Total(items) > 0)
    <3>1. Return(r) /\ total' = total  BY <1>8, <2>3 DEF Collect
    <3>2. req'[r].op = "idle" /\ \A s \in Requests \ {r} : req'[s] = req[s]
      BY <1>t, <3>1, HandlerEnded
    <3>3. Booked(r)'  BY <3>2 DEF Booked
    <3> QED  BY <1>c, <1>t, <2>1, <3>1, <3>2, <3>3, Busy, BooksGo DEF Midway
  <2> QED  BY <2>2, <2>3
<1>9. ASSUME NEW r \in Requests, NEW p \in PayoutIds, Insert(r, p) PROVE BooksInv'
  <2>1. /\ req[r].op = "insert" /\ payout[p] = "none" /\ entry' = entry /\ crashed' = crashed
        /\ req' = [req EXCEPT ![r].op = "claim", ![r].payout = p]
        /\ payout' = [payout EXCEPT ![p] = "requested"]
        /\ worth' = [worth EXCEPT ![p] = total[r]] /\ Spent(r)
    BY <1>9 DEF Insert, At
  <2>2. /\ req'[r].op = "claim" /\ req'[r].payout = p /\ req'[r].items = req[r].items
        /\ \A s \in Requests \ {r} : req'[s] = req[s]
    BY <1>t, <2>1 DEF Types, Locals
  <2>3. /\ payout'[p] = "requested" /\ \A q \in PayoutIds \ {p} : payout'[q] = payout[q]
        /\ worth'[p] = total[r] /\ \A q \in PayoutIds \ {p} : worth'[q] = worth[q]
    BY <1>t, <2>1 DEF Types
  <2>4. total' = [s \in Requests |-> total'[s]]  BY <1>t, <2>1 DEF Spent
  <2>5. \A q \in PayoutIds : HeldBy(q)' = HeldBy(q) /\ Total(HeldBy(q))' = Total(HeldBy(q))
    BY <2>1, HeldSame
  <2>6. Booked(r)'
    <3>1. Booked(r) /\ HeldBy(p) = {}  BY <2>1 DEF BooksInv
    <3>2. worth'[p] = Total(req[r].items)  BY <2>1, <2>3, <3>1 DEF Booked
    <3>3. Total(req[r].items)' = Total(req[r].items)  BY <2>1, <2>2 DEF Total
    <3>4. HeldBy(req[r].payout)' = {}  BY <2>1, <2>2, <3>1 DEF HeldBy
    <3> QED  BY <2>1, <2>2, <3>1, <3>2, <3>3, <3>4 DEF Booked, Claimable
  <2>7. ASSUME NEW q \in PayoutIds, Matched(q) PROVE Matched(q)'
    <3>1. CASE q = p  BY <2>2, <3>1 DEF Matched, Adjusting, Midway
    <3>2. CASE q # p
      <4>1. ~Adjusting(q)  BY <2>1, Busy, AloneAdjusts DEF Midway
      <4> QED  BY <2>3, <2>5, <2>7, <3>2, <4>1 DEF Matched
    <3> QED  BY <3>1, <3>2
  <2>8. \A q \in PayoutIds : payout'[q] = "none" => HeldBy(q)' = {}
    BY <2>3, <2>5 DEF BooksInv
  <2> QED  BY <1>c, <2>1, <2>2, <2>4, <2>6, <2>7, <2>8, Busy, BooksStep
<1>10. ASSUME NEW r \in Requests, Claim(r) PROVE BooksInv'
  <2>0. req[r].op = "claim" /\ req[r].payout \in PayoutIds /\ req[r].items \in SUBSET Entries
    BY <1>10, <1>t DEF Claim, At, Local, TotalsOK, Types, Locals
  <2>1. PICK q \in PayoutIds, I \in SUBSET Entries : q = req[r].payout /\ I = req[r].items
    BY <2>0
  <2>2. /\ UNCHANGED <<payout, worth, total, crashed>>
        /\ entry' = [e \in Entries |-> IF e \in {i \in I : Claimable(i)}
                       THEN [entry[e] EXCEPT !.status = "processing", !.payout = q] ELSE entry[e]]
        /\ {i \in I : Claimable(i)} = I => Return(r)
    BY <1>10, <2>1 DEF Claim
  <2>3. /\ \A e \in I : Claimable(e)
        /\ worth[q] = Total(I) /\ HeldBy(q) = {} /\ payout[q] \in Reviewing
    BY <1>t, <2>0, <2>1 DEF BooksInv, Booked, Local, TotalsOK
  <2>4. req'[r].op = "idle" /\ \A s \in Requests \ {r} : req'[s] = req[s]
    BY <1>t, <2>2, <2>3, HandlerEnded
  <2>5. ASSUME NEW e \in Entries
        PROVE  /\ entry'[e].amount = entry[e].amount
               /\ entry'[e].payout = IF e \in I THEN q ELSE entry[e].payout
    <3>1. entry[e] \in EntryDocs  BY <1>t DEF Types
    <3>2. entry'[e] = IF e \in I THEN [entry[e] EXCEPT !.status = "processing", !.payout = q]
                      ELSE entry[e]
      BY <2>2, <2>3
    <3> QED  BY <3>1, <3>2 DEF EntryDocs
  <2>6. HeldBy(q)' = I /\ Total(HeldBy(q))' = Total(I)
    <3>1. HeldBy(q)' = I  BY <2>3, <2>5 DEF HeldBy
    <3>2. [e \in HeldBy(q)' |-> entry'[e].amount] = [e \in I |-> entry[e].amount]
      BY <2>5, <3>1
    <3> QED  BY <3>1, <3>2 DEF Total
  <2>7. ASSUME NEW p \in PayoutIds \ {q}
        PROVE  HeldBy(p)' = HeldBy(p) /\ Total(HeldBy(p))' = Total(HeldBy(p))
    <3>1. \A e \in I : entry[e].payout # p  BY <2>3, IdAssumption DEF Claimable
    <3> QED  BY <2>5, <3>1, HeldSame
  <2>8. ASSUME NEW p \in PayoutIds, Matched(p) PROVE Matched(p)'
    <3>1. CASE p = q  BY <2>2, <2>3, <2>6, <3>1 DEF Matched
    <3>2. CASE p # q
      <4>1. ~Adjusting(p)  BY <2>0, <2>1, <3>2, Busy, AloneAdjusts
      <4> QED  BY <2>2, <2>7, <2>8, <3>2, <4>1 DEF Matched
    <3> QED  BY <3>1, <3>2
  <2>9. \A p \in PayoutIds : payout'[p] = "none" => HeldBy(p)' = {}
    BY <2>2, <2>3, <2>7 DEF BooksInv, Reviewing
  <2>10. Booked(r)'  BY <2>4 DEF Booked
  <2>11. total' = [s \in Requests |-> total'[s]]  BY <1>t, <2>2
  <2> QED  BY <1>c, <2>0, <2>2, <2>4, <2>8, <2>9, <2>10, <2>11, Busy, BooksStep
<1>11. ASSUME NEW r \in Requests, Retotal(r) PROVE BooksInv'
  <2> DEFINE q == req[r].payout
  <2>1. /\ req[r].op = "retotal" /\ UNCHANGED <<entry, payout, worth, crashed>>
        /\ \E op \in {"disband", "write"} : Goto(r, op)
        /\ total' = [total EXCEPT ![r] = Total(HeldBy(q))]
    BY <1>11 DEF Retotal, At
  <2>2. /\ req'[r].op \in {"disband", "write"} /\ req'[r].payout = q
        /\ \A s \in Requests \ {r} : req'[s] = req[s]
        /\ total'[r] = Total(HeldBy(q)) /\ total' = [s \in Requests |-> total'[s]]
    BY <1>t, <2>1, HandlerWent
  <2>3. Booked(r)'
    <3>1. Total(HeldBy(req[r].payout))' = Total(HeldBy(q))  BY <2>1, <2>2 DEF Total, HeldBy
    <3> QED  BY <2>2, <3>1 DEF Booked
  <2> QED  BY <1>c, <2>1, <2>2, <2>3, Busy, BooksGo DEF Midway
<1>12. ASSUME NEW r \in Requests, Disband(r) PROVE BooksInv'
  <2>0. req[r].op = "disband" /\ req[r].payout \in PayoutIds
    BY <1>12, <1>t DEF Disband, At, Local, TotalsOK
  <2>1. PICK q \in PayoutIds : q = req[r].payout  BY <2>0
  <2>2. /\ UNCHANGED <<payout, worth, total, crashed>> /\ Goto(r, "close")
        /\ entry' = [e \in Entries |-> IF e \in HeldBy(q) THEN Freed(e) ELSE entry[e]]
    BY <1>12, <2>1 DEF Disband
  <2>3. /\ req'[r].op = "close" /\ req'[r].payout = q
        /\ \A s \in Requests \ {r} : req'[s] = req[s]
    BY <1>t, <2>1, <2>2, HandlerWent
  <2>4. ASSUME NEW e \in Entries
        PROVE  entry'[e].payout = IF entry[e].payout = q THEN None ELSE entry[e].payout
    <3>1. entry[e] \in EntryDocs  BY <1>t DEF Types
    <3>2. entry'[e] = IF entry[e].payout = q
                      THEN [entry[e] EXCEPT !.status = "payable", !.payout = None] ELSE entry[e]
      BY <2>2 DEF HeldBy, Freed
    <3> QED  BY <3>1, <3>2 DEF EntryDocs
  <2>5. \A e \in Entries : entry[e].payout # q => entry'[e] = entry[e]  BY <2>2 DEF HeldBy
  <2>6. ASSUME NEW p \in PayoutIds \ {q}
        PROVE  HeldBy(p)' = HeldBy(p) /\ Total(HeldBy(p))' = Total(HeldBy(p))
    BY <2>4, <2>5, IdAssumption, HeldSame
  <2>7. ASSUME NEW p \in PayoutIds, Matched(p) PROVE Matched(p)'
    <3>1. CASE p = q  BY <2>3, <3>1 DEF Matched, Adjusting, Midway
    <3>2. CASE p # q
      <4>1. ~Adjusting(p)  BY <2>0, <2>1, <3>2, Busy, AloneAdjusts
      <4> QED  BY <2>2, <2>6, <2>7, <3>2, <4>1 DEF Matched
    <3> QED  BY <3>1, <3>2
  <2>8. HeldBy(q)' = {}  BY <2>4, IdAssumption DEF HeldBy
  <2>9. \A p \in PayoutIds : payout'[p] = "none" => HeldBy(p)' = {}
    BY <2>2, <2>6, <2>8 DEF BooksInv
  <2>10. Booked(r)'  BY <2>3 DEF Booked
  <2>11. total' = [s \in Requests |-> total'[s]]  BY <1>t, <2>2
  <2> QED  BY <1>c, <2>0, <2>2, <2>3, <2>7, <2>9, <2>10, <2>11, Busy, BooksStep
<1>13. ASSUME NEW r \in Requests, WriteTotal(r) PROVE BooksInv'
  <2>0. /\ req[r].op \in {"close", "write"} /\ req[r].payout \in PayoutIds
        /\ payout[req[r].payout] \in Reviewing
    BY <1>13, <1>t DEF WriteTotal, Local, TotalsOK
  <2>1. PICK q \in PayoutIds : q = req[r].payout  BY <2>0
  <2>2. /\ entry' = entry /\ crashed' = crashed /\ Spent(r)
        /\ Goto(r, "again") \/ Return(r)
        /\ payout' = IF req[r].op = "close" THEN [payout EXCEPT ![q] = "cancelled"] ELSE payout
        /\ worth' = [worth EXCEPT ![q] = total[r]]
    BY <1>13, <2>1 DEF WriteTotal, Resume, At
  <2>3. /\ req'[r].op \in {"again", "idle"} /\ \A s \in Requests \ {r} : req'[s] = req[s]
    BY <1>t, <2>2, HandlerWent, HandlerEnded
  <2>4. \A p \in PayoutIds : HeldBy(p)' = HeldBy(p) /\ Total(HeldBy(p))' = Total(HeldBy(p))
    BY <2>2, HeldSame
  <2>5. /\ worth'[q] = total[r]
        /\ \A p \in PayoutIds \ {q} : payout'[p] = payout[p] /\ worth'[p] = worth[p]
        /\ payout'[q] = IF req[r].op = "close" THEN "cancelled" ELSE payout[q]
    BY <1>t, <2>2 DEF Types
  <2>6. ASSUME NEW p \in PayoutIds, Matched(p) PROVE Matched(p)'
    <3>1. CASE p = q /\ req[r].op = "write"
      <4>1. total[r] = Total(HeldBy(q))  BY <2>1, <3>1 DEF BooksInv, Booked
      <4> QED  BY <2>4, <2>5, <3>1, <4>1 DEF Matched
    <3>2. CASE p = q /\ req[r].op = "close"
      BY <2>5, <3>2 DEF Matched, OpenPayout
    <3>3. CASE p # q
      <4>1. ~Adjusting(p)  BY <2>0, <2>1, <3>3, Busy, AloneAdjusts
      <4> QED  BY <2>4, <2>5, <2>6, <3>3, <4>1 DEF Matched
    <3> QED  BY <2>0, <3>1, <3>2, <3>3
  <2>7. \A p \in PayoutIds : payout'[p] = "none" => HeldBy(p)' = {}
    BY <2>0, <2>1, <2>4, <2>5 DEF BooksInv, Reviewing
  <2>8. Booked(r)'  BY <2>3 DEF Booked
  <2>9. total' = [s \in Requests |-> total'[s]]  BY <1>t, <2>2 DEF Spent
  <2> QED  BY <1>c, <2>0, <2>2, <2>3, <2>6, <2>7, <2>8, <2>9, Busy, BooksStep
<1>14. ASSUME NEW r \in Requests, Settle(r) PROVE BooksInv'
  <2>0. /\ req[r].op = "settle" /\ req[r].payout \in PayoutIds
        /\ <<req[r].from, req[r].to>> \in PayoutActions
        /\ UNCHANGED <<entry, worth, total, crashed>>
    <3>1. req[r].op = "settle" /\ UNCHANGED <<entry, worth, total, crashed>>
      BY <1>14 DEF Settle, At
    <3>2. req[r].kind = "settle"  BY <1>t, <3>1, KindOf
    <3> QED  BY <1>t, <3>1, <3>2 DEF Local, SettlesOK
  <2>1. PICK q \in PayoutIds : q = req[r].payout  BY <2>0
  <2>2. /\ Return(r) \/ Goto(r, "pay") \/ Goto(r, "release")
        /\ payout' = payout \/ (payout[q] = req[r].from /\ payout' = [payout EXCEPT ![q] = req[r].to])
    BY <1>14, <2>1 DEF Settle, AsRead
  <2>3. /\ req'[r].op \in {"idle", "pay", "release"}
        /\ \A s \in Requests \ {r} : req'[s] = req[s]
    BY <1>t, <2>2, HandlerWent, HandlerEnded
  <2>4. /\ req[r].from \in OpenPayout /\ req[r].to # "none"
    BY <2>0 DEF PayoutActions, OpenPayout
  <2>5. ASSUME NEW p \in PayoutIds
        PROVE  payout'[p] = payout[p] \/ (payout[p] \in OpenPayout /\ payout'[p] # "none")
    BY <1>t, <2>2, <2>4 DEF Types
  <2>6. \A p \in PayoutIds : HeldBy(p)' = HeldBy(p) /\ Total(HeldBy(p))' = Total(HeldBy(p))
    BY <2>0, HeldSame
  <2>7. ASSUME NEW p \in PayoutIds, Matched(p) PROVE Matched(p)'
    <3>1. ~Adjusting(p)  BY <2>0, Busy, AloneAdjusts DEF Midway
    <3> QED  BY <2>0, <2>5, <2>6, <2>7, <3>1 DEF Matched
  <2>8. \A p \in PayoutIds : payout'[p] = "none" => HeldBy(p)' = {}
    BY <2>5, <2>6 DEF BooksInv, OpenPayout
  <2>9. Booked(r)'  BY <2>3 DEF Booked
  <2>10. total' = [s \in Requests |-> total'[s]]  BY <1>t, <2>0
  <2> QED  BY <1>c, <2>0, <2>3, <2>7, <2>8, <2>9, <2>10, Busy, BooksStep
<1>15. ASSUME NEW r \in Requests, Pay(r) PROVE BooksInv'
  <2>1. /\ req[r].op = "pay" /\ Return(r) /\ UNCHANGED <<payout, worth, total, crashed>>
    BY <1>15 DEF Pay, At
  <2>2. req'[r].op = "idle" /\ \A s \in Requests \ {r} : req'[s] = req[s]
    BY <1>t, <2>1, HandlerEnded
  <2>3. ASSUME NEW e \in Entries
        PROVE  entry'[e].payout = entry[e].payout /\ entry'[e].amount = entry[e].amount
    <3>1. entry[e] \in EntryDocs  BY <1>t DEF Types
    <3>2. entry'[e] = IF e \in InProcess(r) THEN [entry[e] EXCEPT !.status = "paid"] ELSE entry[e]
      BY <1>15 DEF Pay
    <3> QED  BY <3>1, <3>2 DEF EntryDocs
  <2>4. Booked(r)'  BY <2>2 DEF Booked
  <2>5. total' = [s \in Requests |-> total'[s]]  BY <1>t, <2>1
  <2> QED  BY <1>c, <2>1, <2>2, <2>3, <2>4, <2>5, Busy, BooksGo DEF Midway
<1>16. ASSUME NEW r \in Requests, NEW q \in PayoutIds, req[r].op \in {"release", "takeout"},
              \A e \in Entries : \/ entry'[e] = entry[e]
                                 \/ entry[e].payout = q /\ entry'[e].payout = None,
              UNCHANGED <<payout, worth, total, crashed>>,
              \A s \in Requests \ {r} : req'[s] = req[s],
              req'[r].op \in {"idle", "retotal"},
              payout[q] \in Undone \/ (req'[r].op = "retotal" /\ req'[r].payout = q)
       PROVE  BooksInv'
  <2>1. ASSUME NEW p \in PayoutIds \ {q}
        PROVE  HeldBy(p)' = HeldBy(p) /\ Total(HeldBy(p))' = Total(HeldBy(p))
    BY <1>16, IdAssumption, HeldSame
  <2>2. ASSUME NEW p \in PayoutIds, Matched(p) PROVE Matched(p)'
    <3>1. CASE p = q  BY <1>16, <3>1 DEF Matched, Adjusting, Midway, Undone, OpenPayout
    <3>2. CASE p # q
      <4>1. ~Adjusting(p)  BY <1>16, Busy, AloneAdjusts DEF Midway
      <4> QED  BY <1>16, <2>1, <2>2, <3>2, <4>1 DEF Matched
    <3> QED  BY <3>1, <3>2
  <2>3. HeldBy(q)' \subseteq HeldBy(q)  BY <1>16, IdAssumption DEF HeldBy
  <2>4. \A p \in PayoutIds : payout'[p] = "none" => HeldBy(p)' = {}
    BY <1>16, <2>1, <2>3 DEF BooksInv
  <2>5. Booked(r)'  BY <1>16 DEF Booked
  <2>6. total' = [s \in Requests |-> total'[s]]  BY <1>t, <1>16
  <2> QED  BY <1>c, <1>16, <2>2, <2>4, <2>5, <2>6, Busy, BooksStep
<1>17. ASSUME NEW r \in Requests, Release(r) PROVE BooksInv'
  <2>0. /\ req[r].op = "release" /\ req[r].payout \in PayoutIds /\ payout[req[r].payout] \in Undone
        /\ Return(r) /\ UNCHANGED <<payout, worth, total, crashed>>
    <3>1. req[r].op = "release" /\ Return(r) /\ UNCHANGED <<payout, worth, total, crashed>>
      BY <1>17 DEF Release, At
    <3>2. req[r].kind = "settle"  BY <1>t, <3>1, KindOf
    <3> QED  BY <1>t, <3>1, <3>2 DEF Local, SettlesOK
  <2>1. PICK q \in PayoutIds : q = req[r].payout  BY <2>0
  <2>2. req'[r].op = "idle" /\ \A s \in Requests \ {r} : req'[s] = req[s]
    BY <1>t, <2>0, HandlerEnded
  <2>3. ASSUME NEW e \in Entries
        PROVE  entry'[e] = entry[e] \/ (entry[e].payout = q /\ entry'[e].payout = None)
    <3>1. entry[e] \in EntryDocs  BY <1>t DEF Types
    <3>2. \/ entry'[e] = entry[e]
          \/ e \in InProcess(r) /\ entry'[e] = Freed(e)
      BY <1>17 DEF Release
    <3> QED  BY <2>1, <3>1, <3>2 DEF EntryDocs, Freed, InProcess, HeldBy
  <2> QED  BY <1>16, <2>0, <2>1, <2>2, <2>3
<1>18. ASSUME NEW r \in Requests, TakeOut(r) PROVE BooksInv'
  <2>0. /\ req[r].op = "takeout" /\ req[r].payout \in PayoutIds
        /\ Goto(r, "retotal") /\ UNCHANGED <<payout, worth, total, crashed>>
        /\ entry' = [entry EXCEPT ![req[r].entry] = Freed(req[r].entry)]
    BY <1>18, <1>t DEF TakeOut, At, Local, TotalsOK
  <2>1. PICK q \in PayoutIds : q = req[r].payout  BY <2>0
  <2>2. /\ req'[r].op = "retotal" /\ req'[r].payout = q
        /\ \A s \in Requests \ {r} : req'[s] = req[s]
    BY <1>t, <2>0, <2>1, HandlerWent
  <2>3. ASSUME NEW e \in Entries
        PROVE  entry'[e] = entry[e] \/ (entry[e].payout = q /\ entry'[e].payout = None)
    <3>1. entry[e] \in EntryDocs  BY <1>t DEF Types
    <3>2. req[r].kind = "reverse"  BY <1>t, <2>0, KindOf
    <3>3. entry[req[r].entry].payout = q  BY <1>t, <2>0, <2>1, <3>2 DEF Local, ReversalOK
    <3>4. entry'[e] = IF e = req[r].entry THEN Freed(e) ELSE entry[e]  BY <1>t, <2>0 DEF Types
    <3> QED  BY <3>1, <3>3, <3>4 DEF EntryDocs, Freed
  <2> QED  BY <1>16, <2>0, <2>2, <2>3
<1>19. ASSUME NEW r \in Requests, Locate(r) \/ Again(r) PROVE BooksInv'
  <2>1. /\ req[r].op \in {"locate", "again"} /\ UNCHANGED <<entry, payout, worth, total, crashed>>
    BY <1>19 DEF Locate, Again, At
  <2>2. /\ req'[r].op \in {"takeout", "reduce"} /\ \A s \in Requests \ {r} : req'[s] = req[s]
    BY <1>19, <1>t DEF Locate, Again, Goto, Types, Locals
  <2>3. Booked(r)'  BY <2>2 DEF Booked
  <2>4. total' = [s \in Requests |-> total'[s]]  BY <1>t, <2>1
  <2> QED  BY <1>c, <2>1, <2>2, <2>3, <2>4, Busy, BooksGo DEF Midway
<1>20. ASSUME NEW r \in Requests, Reduce(r) \/ Note(r) PROVE BooksInv'
  <2>1. /\ req[r].op \in {"reduce", "note"} /\ Return(r)
        /\ UNCHANGED <<payout, worth, total, crashed>>
    BY <1>20 DEF Reduce, Note, At
  <2>2. req'[r].op = "idle" /\ \A s \in Requests \ {r} : req'[s] = req[s]
    BY <1>t, <2>1, HandlerEnded
  <2>3. ASSUME NEW e \in Entries
        PROVE  /\ entry'[e].payout = entry[e].payout
               /\ entry[e].payout # None => entry'[e].amount = entry[e].amount
    <3>0. entry[e] \in EntryDocs  BY <1>t DEF Types
    <3>1. CASE Reduce(r)
      <4>1. req[r].op = "reduce" /\ req[r].seen.status \in Unpaid
        BY <3>1 DEF Reduce, At
      <4>2. entry[req[r].entry] = req[r].seen  BY <1>t, <4>1, KindOf DEF Local, ReversalOK
      <4>3. e = req[r].entry => entry[e].payout = None
        BY <1>t, <4>1, <4>2 DEF Ledger, Unpaid
      <4>4. e = req[r].entry => Reduced(r).payout = entry[e].payout
        BY <3>0 DEF Reduced, EntryDocs
      <4>5. entry'[e] = IF e = req[r].entry THEN Reduced(r) ELSE entry[e]
        BY <3>1, <1>t DEF Reduce, Types
      <4> QED  BY <4>3, <4>4, <4>5
    <3>2. CASE Note(r)
      <4>1. entry' = [entry EXCEPT ![req[r].entry].clawed = @ + req[r].amount]
        BY <3>2 DEF Note
      <4> QED  BY <3>0, <4>1, <1>t DEF Types, EntryDocs
    <3> QED  BY <1>20, <3>1, <3>2
  <2>4. Booked(r)'  BY <2>2 DEF Booked
  <2>5. total' = [s \in Requests |-> total'[s]]  BY <1>t, <2>1
  <2> QED  BY <1>c, <2>1, <2>2, <2>3, <2>4, <2>5, Busy, BooksGo DEF Midway
<1>21. ASSUME NEW r \in Requests, NEW x \in Extras, ClawBack(r, x) PROVE BooksInv'
  <2>1. /\ req[r].op = "reduce" /\ Goto(r, "note") /\ UNCHANGED <<payout, worth, total, crashed>>
        /\ entry[x].status = "none"
        /\ entry' = [entry EXCEPT ![x].status = "payable", ![x].amount = -req[r].amount]
    BY <1>21 DEF ClawBack, At
  <2>2. req'[r].op = "note" /\ \A s \in Requests \ {r} : req'[s] = req[s]
    BY <1>t, <2>1, HandlerWent
  <2>3. ASSUME NEW e \in Entries
        PROVE  /\ entry'[e].payout = entry[e].payout
               /\ entry[e].payout # None => entry'[e].amount = entry[e].amount
    <3>1. entry[e] \in EntryDocs /\ (e = x => entry[e].payout = None)
      BY <1>t, <1>n, <2>1 DEF Types
    <3> QED  BY <1>t, <2>1, <3>1 DEF Types, EntryDocs
  <2>4. Booked(r)'  BY <2>2 DEF Booked
  <2>5. total' = [s \in Requests |-> total'[s]]  BY <1>t, <2>1
  <2> QED  BY <1>c, <2>1, <2>2, <2>3, <2>4, <2>5, Busy, BooksGo DEF Midway
<1>22. ASSUME NEW r \in Requests, Crash(r) PROVE BooksInv'
  <2>1. /\ req[r] # Idle /\ crashed' = crashed \cup {req[r].kind} /\ Return(r) /\ Spent(r)
        /\ UNCHANGED <<entry, payout, worth>>
    BY <1>22 DEF Crash
  <2>2. req'[r].op = "idle" /\ \A s \in Requests \ {r} : req'[s] = req[s]
    BY <1>t, <2>1, HandlerEnded
  <2>3. Complete' => Complete  BY <2>1 DEF Complete
  <2>4. req[r].op \in Midway => ~Complete'
    <3>1. req[r].op \in Midway => req[r].kind \in {"request", "reverse"}
      BY <1>t, KindOf DEF Midway
    <3> QED  BY <2>1, <3>1 DEF Complete
  <2>5. Booked(r)'  BY <2>2 DEF Booked
  <2>6. total' = [s \in Requests |-> total'[s]]  BY <1>t, <2>1 DEF Spent
  <2> QED  BY <2>1, <2>2, <2>3, <2>4, <2>5, <2>6, BooksGo
<1>23. ASSUME NEW c \in Commissions, Earn(c) PROVE BooksInv'
  BY <1>1, <1>23 DEF Earn, Entries
<1>24. ASSUME NEW x \in Extras, NEW amount \in Adjustments, Adjust(x, amount) PROVE BooksInv'
  BY <1>1, <1>24 DEF Adjust, Entries
<1> QED
  BY <1>0, <1>3, <1>4, <1>5, <1>6, <1>7, <1>8, <1>9, <1>10, <1>11, <1>12, <1>13, <1>14, <1>15,
     <1>17, <1>18, <1>19, <1>20, <1>21, <1>22, <1>23, <1>24 DEF Next

-----------------------------------------------------------------------------
(* Theorems                                                                *)

\* Where payout requests and reversals run alone, no entry is covered by two
\* transfers, however approvals, releases, the sweep and the settlement of
\* payouts overlap and wherever a handler dies.
THEOREM SettledOnceCorrect == Orderly /\ Spec => []SettledOnce
<1>1. IInv => SettledOnce
  BY DEF IInv, Ledger, SettledOnce
<1>2. Orderly => (Spec => []IInv)
  BY Invariance
<1> QED BY <1>1, <1>2, PTL

\* Under the same condition every reversal is accounted for.
THEOREM ConservedCorrect == Orderly /\ Spec => []Conserved
<1>1. IInv => Conserved
  BY DEF IInv
<1>2. Orderly => (Spec => []IInv)
  BY Invariance
<1> QED BY <1>1, <1>2, PTL

\* Under the same condition what a transfer has covered stays as it was.
THEOREM PaidIsFinalCorrect == Orderly /\ Spec => PaidIsFinal
<1>1. IInv /\ [Next]_vars => PaidKept
  BY PaidStep
<1>2. Orderly => (Spec => []IInv)
  BY Invariance
<1>3. PaidKept => [PaidKept]_vars
  OBVIOUS
<1>4. PaidIsFinal <=> [][PaidKept]_vars
  BY DEF PaidIsFinal, PaidKept
<1> QED BY <1>1, <1>2, <1>4, PTL DEF Spec

\* Under the same condition an entry in a payout is in an open one, or settled with it, unless
\* the handler that settles it is still at it or a handler died.
THEOREM NothingStrandedCorrect == Orderly /\ Spec => []NothingStranded
<1>1. Init => NothingStranded /\ Emptied
  BY IdAssumption DEF Init, NothingStranded, Emptied, HeldBy, NoEntry, Idle
<1>2. IInv /\ IInv' /\ NothingStranded /\ Emptied /\ [Next]_vars => NothingStranded' /\ Emptied'
  BY StrandedStep
<1>3. Orderly => (Spec => []IInv)
  BY Invariance
<1> QED BY <1>1, <1>2, <1>3, PTL DEF Spec

\* Under the same condition a paid payout is worth what the entries in it are worth, unless a
\* request or a reversal died between writing the one and the other.
THEOREM PaidInFullCorrect == Orderly /\ Spec => []PaidInFull
<1>1. Init => BooksInv
  <2> SUFFICES ASSUME Init PROVE BooksInv  OBVIOUS
  <2>1. \A p \in PayoutIds : HeldBy(p) = {}  BY IdAssumption DEF Init, HeldBy, NoEntry
  <2>2. \A r \in Requests : Booked(r)  BY DEF Init, Booked, Idle
  <2>3. \A p \in PayoutIds : Matched(p)  BY DEF Init, Matched, OpenPayout
  <2>4. total = [r \in Requests |-> total[r]]  BY DEF Init
  <2> QED  BY <2>1, <2>2, <2>3, <2>4 DEF BooksInv
<1>2. IInv /\ IInv' /\ BooksInv /\ [Next]_vars => BooksInv'
  BY BooksInvStep
<1>3. IInv /\ BooksInv => PaidInFull
  <2> SUFFICES ASSUME IInv, BooksInv, Complete, NEW p \in PayoutIds, payout[p] = "paid"
               PROVE  worth[p] = Total(HeldBy(p))
    BY DEF PaidInFull, Complete
  <2>1. Matched(p)  BY DEF BooksInv
  <2>2. ~Adjusting(p)
    <3> SUFFICES ASSUME NEW r \in Requests, req[r].op \in Midway, req[r].payout = p PROVE FALSE
      BY DEF Adjusting
    <3>1. TotalsOK(r)  BY DEF IInv, Local
    <3> QED  BY <3>1 DEF TotalsOK, Midway, Reviewing
  <2> QED  BY <2>1, <2>2 DEF Matched
<1>4. Orderly => (Spec => []IInv)
  BY Invariance
<1> QED BY <1>1, <1>2, <1>3, <1>4, PTL DEF Spec
=============================================================================
