# Verification of LeadAI

LeadAI is a multi-tenant FastAPI application over MongoDB. Organizations search social networks
for leads, pay with subscriptions and tokens, and partners earn commissions on the customers
they bring. This directory holds TLA+ models of its concurrent and stateful core, the TLC
configurations that check them on small instances, and TLAPS proofs of their main properties.
`PROJECT.json` lists components, runs, findings and hazards, and maps every definition to the
lines of code it models.

| Module | What it is |
| --- | --- |
| `JobQueue`, `MCJobQueue`, `JobQueueProofs` | the durable job queue and everything that touches a live search |
| `Lifecycle` | what the subscription lifecycle promises, per subscription |
| `Subscriptions`, `MCSubscriptions`, `SubscriptionsProofs` | the billing handlers, call by call, checked and proved against `Lifecycle` |
| `Payouts`, `MCPayouts`, `PayoutsProofs` | the commission ledger of a partner and the payouts that settle it |
| `Tokens` | the token balance of an organization |
| `Purchases` | what a keyword search promises about each unit of work it charges for |
| `KeywordRun`, `MCKeywordRun`, `KeywordRunProofs` | the keyword search with its charges, crashes and continuations; extends `Tokens`, implements `Purchases` |
| `UrlSearch`, `MCUrlSearch` | what a URL search collects and pays for |
| `Admission` | monthly quotas, and what starting a search or an export costs |
| `RateLimits` | the limit on requests, counted by several processes |
| `Refunds` | refunds and chargebacks on invoices, from requests and from redelivered events |
| `Demo` | the demo of an organization: request, access, tokens, notices |
| `Members` | invitations and members |
| `Accounts` | one account: sign-in, lockout, sessions, passwords, links |
| `Leads` | one lead: status, history, assignee, follow-ups |
| `Applications` | how a person becomes a partner |
| `Flags` | fraud flags on a referral and the commissions they hold |
| `Limits` | the provider account's limits, watched, and the alerts about them |
| `MCPlatform` | the instances of the components that share no state, one per behaviour |
| `GuardProofs` | proofs about `RateLimits`, `Admission` and `Limits` |
| `PeopleProofs` | proofs about `Members`, `Demo` and `Accounts` |
| `SearchProofs` | proofs about `Leads`, `UrlSearch` and `Refunds` |
| `PartnerProofs` | proofs about `Flags` and `Applications` |

## 1. The system and its parts

One process runs the web application (synchronous routes in a thread pool, asynchronous ones on
one event loop), a queue worker task, inline search threads and periodic sweeps. Several
processes may run (`docker-compose.yml` starts one with one worker; the queue, the rate limits
and the provider limits are written for more). Processes share only MongoDB, where a
single-document update is atomic and nothing else is: there are no multi-document transactions
in the code. So all the interesting behaviour is in what happens between two database calls of
one handler, and every model has the database call as its step.

| Component | State | Operations | What is hard about it | Correct when |
| --- | --- | --- | --- | --- |
| Durable job queue (`app/queue/service.py`), inline threads, boot and shutdown (`app/main.py`) | `job_queue`, `search_history`, leases, the runner of each job | enqueue, inline claim, claim, heartbeat, complete, fail, cancel, recover, stop, boot clean-up | crashes and restarts, leases that lapse, read-then-write endings, cancellation races | one runner per job, bounded attempts, finished stays finished, a cancelled search is not resumed, every search ends |
| Subscription lifecycle (`billing/subscriptions.py`, `billing/provider.py`, `lifecycle/maintenance.py`) | `subscriptions`, `payments`, `payment_events`, the organization's status | checkout, payment reports, decline, confirm, reject, suspend, renew, plan change, trial, cancel, reactivate, sweep | duplicated and reordered webhooks, Super Admin and tenant acting at once, crashes between calls | only paid subscriptions are active, documented transitions only, captured money is accounted for, tokens granted once per period |
| Commissions and payouts (`partners/commissions.py`) | `partner_commissions`, `partner_payouts` | earn, sweep, approve, release, adjust, reverse or claw back, request, review, pay, fail, reject, cancel | writes to one commission and one payout that are two calls; stale documents; refunds racing with payments | nothing is paid twice, paid history is not rewritten, a payout is worth what it holds, reversals add up |
| Token ledger (`billing/tokens.py`) | `token_balances` | allocate, adjust, consume, refund, expire | expiry checked apart from the conditional spend | never overdrawn |
| Keyword search (`app/discovery/`) | run, stages, candidates, marks, tokens charged | start, discover, enrich, sample, comments, cancel, re-apply filters, continue, resume | a charge is marked, taken and counted in three calls; the worker dies anywhere | each unit is paid for once before it is delivered; the three accounts agree; one worker; the run ends |
| URL search (`social/url_search.py`, `pipeline/comment_ai.py`, `agent/search.py`) | run, page task, posts, comments, verdicts | collect, analyse, collect again, cancel, delete, resume | a resumed run repeats everything; a person collects meanwhile | no comment is paid for twice |
| Quotas and admission (`billing/usage.py`, `billing/entitlements.py`, `discovery/service.py`, `routes/search.py`) | usage counters per period, tokens | check, consume, start, undo | checked and consumed in two calls, perhaps in two periods | limits are passed by no more than the requests in between; a refused search is free |
| Rate limits (`auth/rate_limit.py`) | counters in the database and per process | consume | a database that fails half way | no more than the limit, nor unlimited in an outage |
| Refunds and chargebacks (`billing/refunds.py`, `billing/provider.py`) | refund totals of invoices and payments, processed events | refund, provider events | duplicated and reordered events, deaths before the event is marked | the total is the sum of the refunds |
| Demo (`lifecycle/demo.py`, `lifecycle/maintenance.py`) | `demo_requests`, organization and owner status, tokens, notices | sign up, approve, reject, extend, cancel, convert, expire, warn | checks on a document read earlier, several documents per decision | who was refused or ended has no access, who paid keeps it |
| Members (`billing/invitations.py`, `routes/organizations.py`, `routes/org_admin.py`) | memberships, invitations, accounts | invite, resend, revoke, accept, change, remove, bulk | roles and invitations read at the start of a request | the owner stays; an invitation admits once |
| Accounts (`auth/service.py`, `auth/credentials.py`, `routes/auth.py`) | password, lockout, sessions, factor, links | sign in, change, reset, verify, administrators' changes | sessions opened with a password that is being replaced | live sessions stand on the present password |
| Leads (`app/pipeline/`, `services/lead_assignment.py`) | status, history, assignee, follow-ups | change, assign, follow up, review by the sweep | whole documents written back from an earlier read | every status is in the history |
| Partner programme (`partners/service.py`, `partners/fraud.py`, `partners/referrals.py`) | applications, partners, referrals, flags, held commissions | apply, decide, suspend, flag, hold, review | decisions by id on a document read earlier; holds in three calls | one approved application per partner; open flags hold |
| Provider limits (`app/limits/`) | status document, alert per period | check, refusal, raise, recover | checks overlap with refusals over a change of the period | each level is announced once between recoveries |
| Invoices, CMS, compliance, settings, messaging, storage, adapters, views, user interface | records and files | create, read, update, render, send | little: data, input and output | – |

How they interact: a search route takes quota and tokens, inserts the run and starts an inline
thread, which claims its own job; the queue worker only picks up what a dead thread left behind.
A payment report moves a subscription to the confirmation queue; the confirmation activates it,
moves the organization, ends the demo, grants tokens and earns a commission; a renewal does the
last two. A refund reverses the commission, a chargeback raises a flag, a flag holds the
referral's commissions. The sweep expires demos and ends subscriptions. Components call each
other in the same handler, so a crash in between leaves the earlier ones done and the later ones
not. `KeywordRun` composes the search with the token balance; where two other components meet,
each models the other's calls as steps that may happen at any time.

`PROJECT.json` ("hazards") lists what each part is exposed to, at its line.

## 2. How the models are built

- Documents are records of the fields some guard reads; logging, mail, notices, audit entries,
  history arrays and views are left out unless a property is about them. They are written after
  the state changes and their failure is caught.
- A handler has a control point and the locals it read. A conditional update is modelled with its
  condition, an update by id without one. A handler dies at any control point, up to a bound.
- A constant such as `Alone`, `SweepAlone`, `AdminAlone`, `EditAlone` or `Overlapping` names
  handlers that the code does not order but that a property needs in order. A run that sets it
  says so, and what fails without it is in section 10. `Kept` is of the same kind: it tells
  whether a rate limiter lives as long as its process or as one request, and the code has both.
- A setting that decides whether a step happens lets it happen or not at any time.
- An `update_many` is one step; MongoDB does not promise that, and the finer interleaving is not
  modelled, except in `Payouts` where a handler updates documents one by one.
- Definitions marked "Slip" are what a plausible mistake would turn the definition after them into;
  `PROJECT.json` ("mutants") pairs each with the property that catches it.

## 3. `JobQueue`

State: the fields of a `job_queue` record (`status`, `retries`, `owner` = `locked_by`, `lease`
= `locked_until`, `result`, `older` = the order of `created_at`), the `search_history` record
of the same run (`hist`, `cancelReq`), the processes (`up`, `clean`), and the program counters of
workers and threads (`pc`, `job`, `seen`). What the code does in two calls (`fail_job` reads and
then writes; a cancel route checks, flags, updates the run and updates the job) is two or more
actions. Clock values are abstracted to what the guards compare: a lease is live, lapsed, or
stale by the margin `recover_crashed_jobs` uses. `Faults` adds holders that stall past their
lease, calls that raise with or without their effect, and an id both enqueued and started inline.

| Run | Question | Instance |
| --- | --- | --- |
| `queue` | one runner per job, attempts within `max_retries`, finished stays finished, no resumption of a cancelled search, every job settles or is on its last attempt | 1 job, 2 processes with a worker each, 1 inline thread, 2 attempts, crashes and reboots at any time, an id that is enqueued and started inline, with fairness |
| `queue_faults` | attempts pass `max_retries` by no more than the number of workers; every search stops being "running" unless the write left to end it raised | the same with stalls and raising calls instead of the reused id |
| `queue_restart` | **expected violation**: "Jobs survive application restarts" (`docs/ARCHITECTURE.md`) | the same |

One job is enough for what concerns one record, because no guard but the order of `claim_job`
looks at two; two processes give every pair of a runner with another runner, with recovery and
with the clean-up of another boot; two attempts give a first, a last and a refused one. Deadlock
is checked: processes can always boot. That `LockIffRunning` holds with every fault is proved,
not run.

Fairness: threads and tasks of a live process go on, handlers end (they have their own
time-outs), time passes, and a supervisor boots a dead process (`restart: unless-stopped` in
`docker-compose.yml`). From some moment on processes stay up; a process that crashes for ever
finishes nothing. `JobsSettle` is stated without database errors:
an error while the workers start at boot ends `start_queue_worker` in that process, and when that happens
in every process a queued job is polled by nobody. `RunsEnd` excuses a run that is `lost`: the report of
a crashed thread (`url_search.py:643`) and the clean-up at boot (`main.py`; also skipped when an earlier
start-up step raises) are each tried once, and when the one that was left raises, the run stays "running"
until another boot. `RunsEnd` is stated without reused ids: when a search
has the id of a job that was also enqueued, its thread leaves the work to the job; a worker that finds the
cancel flag set completes the job without running it, and a cancel request that dies before it writes the
run leaves that run "running".

The finding: `_clean_stale` at boot marks every running search as cancelled; the queue then sees
a cancelled run, and completes the job without running it. So the resumption after a crash that
the queue is built for is reached only when the clean-up does not come first.

## 4. `Lifecycle` and `Subscriptions`

`Lifecycle` is the promise: each subscription moves by itself, along an edge of
`ALLOWED_TRANSITIONS` or one of the two edges outside it that the docstrings name: a checkout
creates `pending_payment`, and an active subscription becomes `past_due`. There is no other edge
to "active", since `confirm_subscription` is called the only path there; renewals, plan changes
and trial extensions do take one, so they are outside the promise (section 10). `Subscriptions` has the handlers. An actor (tenant, webhook delivery, Super Admin, sweep)
serves one request at a time: it reads a subscription (`doc`, `was`, `end` are what it read), and
every later call of the handler is a step of its own. Conditional updates have their condition
(`MayMove` is the compare-and-set of `_transition`, `Renewable` that of `renew_subscription`).
`ends[s]` numbers the values of `current_period_end`, `due[s]` tells where the clock stands in
the period, `older` is the order of `created_at`. `captured`, `activated`, `noted` and `grants`
are the history the properties need. `Documented == L!Spec` says that `Subscriptions` implements
`Lifecycle`; the abstract state is a part of the concrete one.

| Run | Question | Instance |
| --- | --- | --- |
| `subs_overlap` | duplicated reports, declines, confirmations, rejections, cancellations and the sweep overlapping: `Documented`, only the paid is active, nothing goes back in the queue, payments stay recorded, the sweep spares the active, what is rejected out of the queue is marked for a refund | 2 subscriptions, 2 deliveries, 2 handlers at once |
| `subs_all` | every operation, any two overlapping, a crash between any two calls: a period grants its tokens once | 1 subscription, 1 actor of each kind, 2 handlers at once, 2 periods |
| `subs_renew` | renewals by provider and by hand, plan changes, suspensions, sweep overlapping: captured money is recorded and reaches the queue | 1 subscription, 2 deliveries, 2 handlers at once, 2 periods, with fairness |

Every hazard listed is a race of two handlers, so two at once are enough; two subscriptions of
one organization are needed for superseded checkouts and for the sweep of an old subscription;
two periods for tokens. The symmetry of `subs_overlap` is of interchangeable ids, with no
liveness. `CHECK_DEADLOCK` is off: after the last period and with no id left, nothing can happen.

Fairness: a handler that began goes on, crashes stop at some time, and the provider repeats a
delivery until it succeeds, so deliveries are strongly fair. Tenants and Super Admins need not
act. `subs_renew` has no crashes: with one between the two transitions of a payment,
`PaymentReachesQueue` fails, because the repeated report is taken for a duplicate.

## 5. `Payouts`

State: `entry` (one record per document of `partner_commissions`: earned commissions, clawbacks,
adjustments), `payout` and `worth` (status and amount of a payout), `req` (control point and
locals of each handler), `total` (the sum it computed), and the history variables `settled`
(which paid payouts covered an entry) and `crashed`. A handler that has read a document keeps the
copy (`seen`, `from`) and writes by the condition of the code: the whole document as seen
(`AsSeen`), the status as read (`AsRead`), or the id alone (`TakeOut`, `WriteTotal`, `Reduce`).
`Alone` names the kinds of handlers that overlap no other: a partner's requests and the refunds of
one partner's customers are seconds, not milliseconds, away from other work on that partner.

| Run | Question | Instance |
| --- | --- | --- |
| `payouts` | settled once, paid is final, worth what it holds, nothing stranded, reversals conserved | 1 commission of 2 units, 2 clawbacks or adjustments, 2 payouts, 2 handlers, `Alone = {"request", "reverse"}`, one crash |
| `payouts_race` | **expected violation** of `PaidIsFinal`: reversals may overlap the settlement of payouts | 1 commission, 1 extra entry, `Alone = {"request"}`, no crash |

Two units allow a partial and a full reversal; two payouts allow an entry to be released by one
and paid by the other, which `SettledOnce` forbids; two handlers give every pair of approval,
release sweep and settlement. Ids run out, so deadlock is not checked. `PaidInFull` and
`NothingStranded` name the crashes they do not survive: a request that dies between insert and
claim leaves a payout that holds nothing and can be paid; a settlement that dies between its two
writes leaves commissions in process in a payout nobody will act on.

## 6. `Tokens`, `Purchases` and `KeywordRun`

`Tokens` is one document: what was allocated, used and remains, and when it expires. Spending and
adjusting read it and then write it conditionally. `KeywordRun` extends it: the run (status, stop
request, budget, tokens counted), its stages, one candidate per profile, the charge recorded on
each unit (`mark`), the worker of each job of the run, and `paid` and `delivered` as history. The
code records a charge on its item, takes the tokens, and counts them on the run, in this order;
each is a step and a worker may die between them. A job whose worker died is resumed; a person
cancels, applies other filters to what was found, and continues a run under a new job.

`SellsOnce == P!Spec` is the refinement: `Purchases` gives each unit a sale that is open, paid, sold,
waived or free, and the model's accounts map to it. It says in one property that a unit is paid
before it is delivered, never charged afterwards, and that what is given back was paid.

| Run | Question | Instance |
| --- | --- | --- |
| `keyword` | `SellsOnce`; `BooksAgree`: marks, payments and the run's counter agree when no worker is within an item; never two workers; the run ends | 1 keyword, 1 profile, 2 jobs, 3 tokens, budget 3, one crash, one cancellation, one re-application, fairness |

A keyword and a profile are four units one after the other, as each stage charges for its own; two
jobs are needed for a continuation, three tokens for a search that runs out half way. With two
profiles, one re-application and no cancellation the safety properties hold as well (2.5 million
states); the run keeps the instance on which liveness is within reach. `CrashAt` is `CallsAndSteps`: the worker dies during a call or
between items, but not between recording a charge and taking it, nor within a refund. With
`Anywhere` the documented "a resumed run never pays the same item twice" and `BooksAgree` fail
(section 10). `BooksAgree` says that a charge is recorded as the whole price or as nothing, which is
what lets tokens_charged be the price of the items that are paid. Fairness: a live worker goes on, the queue resumes a dead one, and a request that
began ends; nobody has to begin one. One platform, one chunk of profiles, one price for all
actions; a launch that fails is not modelled.

## 7. The run `platform`

`MCPlatform` puts the components that share no state into one run: `part` says which of them a
behaviour is of; it extends the components, and the variables of the other parts stay as they were.
The states of the run are the sum of the parts' (4.4 million, after exchanging the two handlers `h1`
and `h2` where a part has them). Within a part all its handlers interleave. Four parts are run twice,
each time with something held still, because the product is too large: the limits in one cycle of the
provider and over a change of it, the flags without deaths and with, the search with deaths and with
its deletion, the accounts with passwords and with addresses. Ids run out in most parts, so deadlock
is not checked.

| Part | Property | Instance and what it excludes |
| --- | --- | --- |
| `rates` (`RateLimits`) | `NeverUnlimited`: the database admits no more than the limit; in an outage a process whose limiter lives on admits no more than that and one for each further thread | 3 calls, 2 processes of 2 threads, limit 1, one window, the limiter of a process (`Kept`) |
| `admission` (`Admission`) | `QuotaNearlyBounded`: a counter passes its limit by at most the requests between their check and their consumption | 3 requests, limit 1, wallet 2, 2 periods, 1 fault: a start that fails, or the undoing of one |
| `refunds` (`Refunds`) | `RefundsConverge`: an invoice says what its refunds add up to, neither partners nor payment see more, and once events are handled nothing is missing | 2 invoices of 2, three kinds of events, 2 events, one handler at a time, 1 death |
| `demo` (`Demo`) | `AccessIsDecided`: who was refused or cancelled and has not paid has no access; unless a decision died, who was approved or has paid has it, and no decision about the demo ends a paid organization; notices are about the end that holds | decisions and the sweep one at a time, payments confirmed at any time and whatever the request says, 1 death |
| `members` (`Members`) | `OwnerStays`, `AdmitsOnce` | owner and a person of another organization, 2 seats, 2 requests at once, 1 invitation, 1 death; a validation reads and then writes |
| `accounts`, `mail` (`Accounts`) | `SessionsStandOnPassword`: a live session stands on an earlier password only if every handler that wrote one since stopped before it revoked, and one on a temporary password is restricted unless an organization switch opened it | 3 passwords, 2 addresses, 2 sessions, 1 link, lockout at 2, deaths between password and revocation; administrators act while no request is half done |
| `search`, `deletion` (`UrlSearch`) | `OncePerComment`: a comment document is paid for once, and once more for each answer to that comment that was lost before it was recorded | run and a person's collection, on one post one after the other; 2 pages, one of them the fallback of a resumed run, with a post and a comment each; 1 death or failed write |
| `leads` (`Leads`) | `ChangesAreRecorded`: a status that a person's change wrote stands in the history as an entry of that change | 3 statuses and the default any of them, 2 clerks at once, 2 changes, 1 follow-up, 1 death |
| `applications` (`Applications`) | `PartnerIsApproved`: the partner comes from the only approved application | 2 applications, 2 officers at once, edits overlap no decision, 1 death |
| `limits`, `cycle` (`Limits`) | `AnnouncedOnce`: between recoveries no notice is sent twice, and the level of an open alert was announced, is about to be, or was lost with the thread that had to | 2 threads, either may die or fail; ok and critical are read, refusals mean error or warning; 1 period and 1 refusal, or 2 periods and none; 2 turns of an alert, clock of 2 half hours |
| `flags`, `deaths` (`Flags`) | `HeldUntilReviewed`: an open flag whose hold was carried out keeps the referral marked and its commissions held, but for those of `beyond` (section 10) | 1 payment, 2 hands of which 1 a Super Admin's, 2 flags; 2 signals without deaths, or 1 signal and 1 death |

Two handlers at once are the size of every race listed in the hazards; two invoices, two pages,
two flags, two applications are the least at which one can be confused with the other.

Two components have a run of their own besides, for a disagreement between code and text:
- `refund_misfiled`: **expected violation** of `RefundOnItsInvoice`. `refund_from_provider_event` says
  it finds "the payment, then its invoice", and takes the latest paid invoice of the subscription.
- `search_resume`: **expected violation** of `CompletedIsAnalysed`. Comments are analysed only if this
  execution inserted one of the post's; a run that died in between is resumed, finds them stored,
  and completes without their analysis.

## 8. What is proved

TLAPS proves every safety property that a passing run checks, and a few more, for every value of the
constants that satisfies the assumptions of the modules. TLC evaluates those assumptions on every run;
they say that bounds are numbers, that the sets a count or a sum ranges over are finite (`WorkersFinite`,
`ActorsFinite`, `ItemsFinite`, `RatesFinite`, ...) and which names differ. A theorem that needs more
has it as a hypothesis, named below; each of them is true of the instance of its run, and what fails
without it is in section 10. No proof uses a fact that is not in these files or the standard library.
TLC checked each inductive invariant on an instance before it was proved.

| Hypothesis | Means | Needed by |
| --- | --- | --- |
| `Reliable` | no holder stalls past its lease and no database call is lost | `SingleRunner`, `AttemptsBounded`, `FinishedStaysFinished` |
| `NoBypass` | trials are not extended, payment statuses are not set by hand | `ActiveIsPaid` |
| `RequestsOnly` | no renewals, plan changes and trial extensions, whose writes do not consult the table | `SweepSparesActive`, `Documented` |
| `ByReports` | the Super Admin sets no payment status by hand | `RejectedIsRefunded` |
| `Orderly` | payout requests and reversals overlap nothing | all of `Payouts` |
| `Tame` | no worker dies, or nobody cancels, or there is one continuation | `OneWorker` and the next two rows |
| `EndsClean`, `PaysClean`, `CountsClean` | no worker dies between its last write and its end; between two writes of a charge or refund; between taking tokens and counting them | `OneWorker` the first; `SellsOnce` two; `BooksAgree` all three |
| `AdminAlone`, `EditAlone`, `~Overlapping`, `MaxRefunders = 1` | see section 2 and the table of section 7 | the property of `Accounts`, `Applications`, `UrlSearch`, `Refunds` |
| `Serial` of `PeopleProofs` | one decision about a demo at a time, and no sweep meanwhile | `AccessIsDecided` |

`NeverUnlimited` has its condition, `Kept`, in the formula: it is about the half of the limit that
counts in memory.

`JobQueueProofs`
- `TypeCorrect`; `LockCorrect`: `LockIffRunning`, with all faults.
- `SingleRunnerCorrect`. "At most one executes" is not inductive: the invariant `Exclusive` adds who
  holds a job at which control point (`HolderKnown`), that at most one does (`HolderUnique`) and that
  no thread runs without a job record (`NoBareRunner`).
- `AttemptsCorrect`: from `Exclusive` and `AttemptsInv`, which says what a worker that has read
  the attempts knows about them. `FinishedCorrect`: an action property, from the same invariant.
- `AttemptsNearlyCorrect`, with all faults: at most `MaxRetries` plus the number of workers. Once the limit is
  reached only workers that read the attempts before can queue the job again (`Deciders`). Nobody joins
  them, and `AttemptsLeft` lets the attempts, a waiting claim and the deciders together never pass the
  limit plus the number of workers.
- `CancelCorrect`, with all faults: the flag of a cancelled search is never taken back
  (`AskedIsFlagged`), and a worker looks at it between claim and work.

`SubscriptionsProofs`
- `TypeCorrect`. The other theorems start from one lemma, `StepSummary`: what any step may do to a
  subscription (`Moved`) and to a handler (`Stepped`). `NeverBackCorrect` then needs only `OutOfQueue`.
- `PaidCorrect`: `PaidInv` adds that a handler on its way to a paid status has a paid subscription.
- `SucceededCorrect`: `FreshPayments`, a payment record is created once and before it is reported.
- `DocumentedCorrect`, the refinement of `Lifecycle`, step by step: the request path and the sweep,
  with any overlap and crashes, from `RequestsInv`.
- `GrantedCorrect`: allotments granted and handlers about to grant one (`Owing`) together never outnumber
  the periods, because each period is opened by one conditional update and by the handler that then grants.
- `SweepSparesCorrect`: a handler of the sweep that moves the organization has ended the subscription
  itself, and nothing brings that back (`EndedIsCancelled`).
- `RefundedCorrect`, from `QueueInv`: what is in the queue has its payment recorded, and so has what a
  handler is about to reject out of it, so the mark it writes before the status finds the payment.
  That needs `FreshPayments` as well: nobody creates a second record.

`PayoutsProofs`
- The invariant `IInv`: types; `Solo`, an exclusive handler is alone; `Local`, what a handler at each
  control point knows about the documents it is about to write; `Ledger`, entries and payouts
  agree; and `Conserved`. There is one lemma per action.
- `SettledOnceCorrect`, `ConservedCorrect`, `PaidIsFinalCorrect`, with crashes at any point and any
  number of entries, payouts and handlers.
- `NothingStrandedCorrect` adds `Emptied`: a payout that is about to be cancelled for want of entries
  has none, because nobody else moves an entry while it is emptied.
- `PaidInFullCorrect` adds `BooksInv`: what a handler has summed up is still there when it claims it,
  and an open payout is worth what it holds unless a handler is between the entries and the total. The sum
  is a fold over the function from entries to amounts, so the proof needs only that equal functions have
  equal sums, never what a sum is.

`KeywordRunProofs`, in layers; each is an invariant that uses the ones before it
- `NeverOverdrawnCorrect`, of `Tokens`: what is used and what remains add up to what was allocated and neither
  is negative, because the one update that takes is conditional on what it takes. `ImplementsTokens`: on
  the balance a keyword search takes only the steps of `Tokens`, so it never overdraws it either.
- `Base`: types, and what each step of a worker does to its record (one lemma per step, `...Moves`).
- `Alone`, for `OneWorkerCorrect`: who may still be at work when a run has been acknowledged, when it is over,
  and when a continuation has been asked for.
- `Tasking`: what a worker has taken up has not been delivered, and what is stored of a candidate shows
  which of its units were.
- `Booking`, for `SellsOnceCorrect`: the charge recorded on every unit is what was paid for it, except for
  the units a worker is in the middle of charging or giving back; for these, `Debt` says what is left by how
  much of the clean-up is still to be done. Every step then moves each sale along an edge of `Purchases`.
  `PaidOnceCorrect` is read off the same invariant.
- `Tally`, for `BooksAgreeCorrect`: tokens_charged is the price of the paid units, less what the one worker
  between taking and counting has still to add.

`GuardProofs`
- `NeverUnlimitedCorrect`. `CountedFirst`: whoever was admitted was counted before and is never taken
  back, so those admitted are among the hits that are compared with the limit; whoever a process let
  through on its own is in its memory or about to be. `Manned`: a process works on at most `Pool`
  calls, so when one more passes, those that the memory does not show yet are fewer than that.
- `QuotaNearlyBoundedCorrect`: `Room`, the requests that were checked and have not consumed yet fit,
  with what was consumed, under the limit and the most that ever were between the two at once; a
  later period has counted nothing.
- `RefusedIsFreeCorrect`: a refused search keeps no tokens, and no quota either but for a keyword search
  whose start failed and whose undoing failed too. `RefusedIsFree` is not run.
- `AnnouncedOnceCorrect`, for a first period and a `Nothing` that is no alert. `Announced` adds that a
  notice that was sent, missed or is about to be sent since the alert was opened is of a level the
  alert records, and ranks no higher than it; so the condition of the update in `_raise` is false for
  a level that somebody told or has to tell.

`PeopleProofs`
- `OwnerStaysCorrect` and `AdmitsOnceCorrect`, for any people, requests and invitations at once: `MembersInv`.
  Only a request that has yet to look at the memberships may be about the owner (`Spared`); an invitation
  that can still be claimed has admitted nobody and nobody is about to join with it (`Entries`).
- `AccessIsDecidedCorrect`: `DemoInv` says how far a decision has come, in the order of its writes
  (`Underway`), what the status of the request says of organization and owner meanwhile, and what is
  left of that when the decision dies or a payment is confirmed.
- `SessionsStandOnPasswordCorrect`: `AccountsInv`. A login holds the password it compared, a switch that
  of the session it replaces; a session is there `Rightly` when every password written after its own
  was written by a handler that stopped before revoking, or is about to revoke (`AboutToRevoke`).

`SearchProofs`
- `ChangesAreRecordedCorrect`: `LeadInv`, a change that is about to be written is in the history
  already, under its own number; entries are only added.
- `OncePerCommentCorrect`: `SearchInv`, each comment document was paid for at most once per answer to it
  that was lost, and once more if its charge is in its analysis or in the hand of who is about to
  record it (`Accounted`).
- `RefundsConvergeCorrect`: `RefundsInv`. What a handler has read still holds (`HandlerFits`), each step
  brings a cumulative event nearer to its total (`EventAdvances`), and a processed one is covered (`Totals`).

`PartnerProofs`
- `HeldUntilReviewedCorrect`: `FlagsInv`. `Held` adds what a hold in force has to keep (`Kept`): the mark,
  what was held (`Stays`), and that whoever is about to make or approve a commission that is not held
  (`Slips`) is counted in `beyond`; and the half of it that a hold half way has done. `Numbered` says
  that a hold is of the flag that was inserted. Every payment and sweep may overlap.
- `PartnerIsApprovedCorrect`: `FormsInv`, whose part `Sourced` says which application a decision
  half way, and the partner, come from.

Only model-checked: liveness (`JobsSettle`, `RunsEnd`, `RunEnds`, `MoneyIsAccounted`,
`PaymentReachesQueue`), because the provers handle neither fairness nor `ENABLED`. Not proved either: that the
folds compute sums, which takes induction over data. No module uses a RECURSIVE operator.

## 9. Not modelled

- Adapters, scrapers, the Apify connector, extraction, classification and scoring of texts: input,
  output and data; their outcome is nondeterministic in `JobQueue`, `KeywordRun` and `UrlSearch`.
- The routes as such. They are most of the repository's lines: validation, views, exports,
  statistics and forms over one document. What they change of a modelled component's state is
  an action of that component; the rest has no interleaving to check. The same is true of
  pages, the CMS, messaging, compliance and settings. This is why the lines the map covers are
  a small share of the repository.
- Within the modelled parts: amounts of commissions, coupons and caps, partner totals and the
  wallet cache; prices; immediate cancellation and trial provisioning (no caller); the Stripe
  variant of a closed checkout; the statistics of the queue; the Redis cancel flag, which only makes a
  cancellation visible earlier; AI call budgets; permission overrides; cookies and signatures.
- Failures of the database while a worker of a keyword search lives on. A consumption that fails has its
  mark struck out and fails its item; whether it took the tokens is not known then.
- Scheduled scans: nothing calls `trigger_due_scheduled_scans`.
- Referral attribution, deals and tiers. Read for this project, with what was seen in section 10.

## 10. Seen while exploring, not kept as runs

Queue: with `"db_error"` alone attempts stay within the limit. A job whose last attempt dies stays
"running" with a lapsed lease (the second disjunct of `JobsSettle`). The final write of a search
overwrites a cancellation that came after the last checkpoint. The boot clean-up also cancels runs
that another process is executing. A recovery that raises at boot ends the start task.

Subscriptions: the sweep updates by the status alone (`maintenance.py:131`, `160`), so it ends a
subscription that was reactivated or renewed since it looked, although "every function is idempotent
and safe to run concurrently with requests" (`:27`). Renewals, plan changes and trial extensions write
"active" outside the table, although `confirm_subscription` is "the ONLY path to ACTIVE"
(`subscriptions.py:274`, and `:14`): `Documented` leaves them out. An expired checkout whose trial is
extended becomes active by a plan change; a renewal that read the subscription before its
cancellation revives it (`CancelledIsFinal`); the status route can set payment statuses by hand; a
rejection that comes between the two transitions of a payment report, when the payment is received but
not recorded yet, can miss the refund mark; two overlapping reports for a closed checkout leave two notes; a
suspended subscription resumed after its successor was confirmed gives two active ones.

Payouts: with `Alone = {"reverse"}` a payout can be paid between its insertion and its claim, and
two open payouts exist; with `Alone = {"request"}` a commission is paid by two payouts. Serially:
repeated refunds of a commission in an approved payout claw back more than its amount.

Tokens and keyword search: expiry is not part of the conditional update; a refund that arrives after a
reset goes to the new period. A crash between the mark and the charge, followed by a failing call,
refunds tokens that were never paid; a crash within a refund pays an item twice (`PaidOnce`);
a crash before the charge is counted lets the run pass its budget. A worker that dies between its
final write and completing the job lets two work at once when the run is continued (`OneWorker`). So does, with
a death, a cancellation and two continuations, a worker that acknowledged the cancellation and has not finished: its
`_finish` writes the end of the run over the continuation's, so a second one is let in (hence `Tame`; found by
the proof, confirmed with three workers, and out of reach of the run, which has one continuation).
Two overlapping requests to continue compute the same job id.

Rate limits: "never everyone unlimited" in an outage (`rate_limit.py:14`) holds of a limiter that lives
on. Those of `public_v1.py:44`, `keyword_search.py:67`, `partners/auth.py:157` and `referrals.py:114` are
built for one request and remember nothing of the last (`Kept = FALSE`). Threads of one process that
look at its memory before the others have written to it pass the limit by one each.

URL search: a cancellation during the analysis of the last post is overwritten by "completed";
deleting a running run leaves what it stores afterwards; comments have no unique index, and the
collection by a person charges before it starts, so two clicks both charge. A resumed run that does not
get the details of the page makes another page, under which it stores the posts and comments again and
pays for them again, although collecting again "must not pay for" what was analysed
(`comment_ai.py:1466`, of one comment document; `OncePerComment` counts documents). The deletion of a
run misses the posts of a page that could not be stored.

Admission: `_undo_start` catches the failure to give the quota back (`discovery/service.py:483-488`), and the
caller is told "Nothing was charged" (`:471`) all the same: that search keeps its quota. A URL search whose
insert fails, or whose consumption of the quota fails otherwise than by a refusal, keeps what it took; an export refused for its tokens has used a monthly export; a start that is undone in a new
period gives back there.

Refunds: two overlapping refunds of an invoice lose one; a dispute before a running total is ignored
by it; an event with a single amount that is redelivered after a death counts twice; an amount larger
than the invoice is refused each time it is delivered.

Demo: confirming a subscription asks neither the status of the request nor the owner's. After a demo was
cancelled the organization is then active while the request stays cancelled; after it was rejected, the
owner who paid stays locked out. A confirmation that dies before it marks the request as converted leaves an
open request, and cancelling that ends the paid organization. An approval that dies leaves access without tokens, a sign-up that dies an account without a
request; overlapping decisions each win a document; a sweep that overlaps an extension marks the new
end as told.

Members: a validation that comes late writes "expired" by id over an acceptance or a cancellation made since
it read (`AdmitsOnce` holds all the same); seats are exceeded serially (inactive, suspended, active again); resending cancels the old
invitation before the limit refuses the new one; a role read at the start of a request outlives
its change; a change of role leaves sessions alone.

Accounts: `switch_organization` (`routes/auth.py:389-434`) opens its session without
must_change_password, so an account with a temporary password that belongs to two organizations gets a
session that is not restricted; `tests/test_admin_credentials.py:9-10` says the person "must choose their own
before anything else works". A change that stops between the password and the revocation
(`routes/auth.py:613`, `618`) leaves the old sessions; a login that overlaps `set_password`'s thread keeps a session on the old password; login
attempts are counted after they are allowed.

Leads: "Every status change is recorded in status_history" (`lead_lifecycle.py:18`) is not so for the bulk
action of an administrator, nor for the status a lead starts with when the settings name another one than
"new" (`comment_ai.py:1595-1602`, `settings/effective.py:52-68`); two changes that overlap can have their
entries in another order than their writes, and can leave a status the transition table forbids; the sweep writes back all follow-ups as read (`FollowUpsKept`), a note is
deleted by an index read earlier, and two processes' sweeps report twice.

Partner programme: an approval that dies leaves an approved application without a partner;
suspending a partner ignores a lost update and revokes the keys; an edit by id overwrites a
decision; a tier is saved by clearing the default first; `advance_stage` reads before it writes;
a flag confirmed and another one dismissed lifts the hold; the hold of a coupon's abuse is keyed by the
coupon, so a second referral is not held; a death between flag and hold leaves a flag that later signals only
refresh. "Nothing is approved or paid until a Super Admin resolves the flag" (`fraud.py:4-6`) has the
exceptions that `beyond` names in `HeldUntilReviewed`: a commission approved before the flag is not held
and becomes payable (`commissions.py:596`); auto-approval writes on the status alone, so it approves one that
was held since the sweep found it (`:588-590`); a commission created from a referral read before the
hold is not held; and a Super Admin may approve one by hand. Nothing is held at all where the setting
`hold_suspicious_commissions` is off.

Provider limits: a refusal stored between a check's read and its write of the whole document is
lost; a later brief refusal replaces a lasting one. A death, or an exception (caught at `alerts.py:165`),
between the alert's write and its notice loses the notice, and no later check sends it. The levels of an
alert outlive its recovery (`:184`): a level that it had before, reached after a recovery from another one of
the same rank, is silent, although a notice is to be sent "when it changes within the same rank
(critical ↔ error) or after a recovery" (`:10-12`).

## 11. What could follow

- Referrals and deals as a module composed with `Flags` and `Applications`.
- `Payouts` stated as implementing an abstract ledger in which a commission is open, settled or reversed.
