# Specifications of invoice-saas

TLA+ models of the stateful core of this backend (FastAPI and SQLAlchemy on
PostgreSQL, with background workers), the TLC runs that check small instances
of them, and TLAPS proofs about the job queue, the assistant's actions and their
WhatsApp channel, billing and the team. `PROJECT.json` lists the runs, the theorems,
the hazards and, definition by definition, the source lines each module stands for.

## 1. The system

Every request and every worker iteration is a database session under READ
COMMITTED. Three habits of the code decide what can go wrong:

- rows are read, checked in Python, and written back by the ORM with
  `UPDATE ... WHERE id = ?`: the check is not part of the write;
- a few places lock explicitly (`SELECT ... FOR UPDATE` on the organization,
  the source invoice, an assistant action; `SKIP LOCKED` in the queue) and the
  lock lasts until the next commit, whoever makes it;
- nothing is rolled back by hand: `get_db` closes the session, which rolls
  back whatever was not committed (`app/database.py:76-81`).

| Component | State | Operations | Talks to |
|---|---|---|---|
| Durable job queue (`services/background_jobs.py`, `jobs/worker.py`) | `background_jobs` rows: status, attempts, claimed_by, lease, available_at; each worker's batch and session | enqueue, sweep, claim, start, run handler, complete, shut down | every producer of jobs; handlers; the administrator |
| Job administration (`routers/platform_admin.py`) | none of its own | retry a dead job, cancel a waiting one | job queue |
| Credit and debit notes (`services/adjustment_notes.py`) | notes with a status and lines; derived sums per invoice | create, create and issue, issue, void, delete a draft | invoices, webhooks |
| Quotes (`services/quotes.py`, public link in `routers/quote_public.py`) | quotes: status, contents, expiry date, `converted_invoice_id` | create, edit, delete, send, accept, reject, convert; expiry is derived | invoices, email, webhooks |
| Invoices, numbering, plan limits (`services/invoices.py`, `services/plan_limits.py`) | invoices, `Organization.next_invoice_number`, the organization's row lock | create under a limit, mark paid, remind | quotes, plans |
| Reminders (`jobs/send_*_reminders.py`) | one row per document and day | claim, re-check, send, settle; stale claims marked failed | email |
| Outbound webhooks (`services/webhook_*.py`, `jobs/handlers/webhook.py`) | events, an append-only chain of delivery rows per endpoint | emit, deliver, retry, resend, switch the endpoint | job queue, HTTP |
| Billing (`billing/service.py`, `routers/billing_webhooks.py`) | one versioned subscription per organization, webhook receipts | checkout, change plan, cancel, reactivate, provider events | Stripe, plans |
| Team (`services/team.py`, invitations) | memberships, invitations | change role, remove, transfer, invite, accept, cancel | authentication |
| Assistant actions (`services/assistant_actions.py`) | actions: proposed, executed, cancelled, expired, failed | propose, confirm, cancel, expire | quotes, invoices, WhatsApp |
| WhatsApp (`whatsapp/`, `whatsapp-bridge/`) | processed-message records, pending proposal in memory | handle a message, pair, reply | assistant |
| Notifications, imports, analytics, authentication, rate limits, frontend | see the notes in `PROJECT.json` | | |

What makes each of them hard, and what makes it correct:

- **Job queue.** Workers race for rows; a lease can lapse while its worker is
  alive; a worker dies between any two commits; an administrator writes the same
  rows. Correct: a job is in one worker's hands at a time and the table says so,
  a job nobody holds is recoverable, handlers run at most `max_attempts` times,
  terminal rows stay as they are, and every job settles.
- **Notes.** Two requests on one invoice, and statuses checked before the lock.
  Correct: what is credited never exceeds the invoice, in total (and, the docs
  say, per line), and both derivations of the adjusted total agree.
- **Quotes and invoice creation.** The customer, the user and the assistant act
  on one quote at once; an email is sent between a check and a write; a
  conversion spans two aggregates. Correct: invoice and converted quote land
  together, numbers have no gaps, the plan's limit holds, a decision is final
  and is invoiced as it was made, and nobody answers a quote they never got.
- **Webhooks.** A request is sent before its record is committed; a resend races
  a retry for the same attempt number and so for the same idempotency key. Correct:
  no delivery is forgotten, none is repeated but for a lost execution, recorded
  outcomes stay, chains end.
- **Billing.** Provider events arrive late, twice and in any order and race
  administrators; a checkout is four commits, and the row is read again after each, in
  a transaction of its own. Correct: an event is applied once or redelivered, no update
  of the row is lost, and the local plan is the provider's.
- **Team.** A role is read before the lock that guards the last owner; acceptances
  race for the last seat. Correct: an organization always has an owner, the plan's
  seats hold, an address has one pending invitation.
- **Assistant actions, WhatsApp.** Tools commit inside the confirmation's lock;
  messages arrive again, and their record is the last thing written. Correct: a
  proposal is executed once, a message acts once.
- **Reminders.** A committed claim precedes the email. Correct: one reminder per
  slot (document, kind and local day) at most.

## 2. Modules

| Module | What it is |
|---|---|
| `JobQueue` | the queue, its workers, the administrator's endpoints, outages and time |
| `JobLedger` | what the queue promises: a job is open, held by one worker, done or failed |
| `JobQueueProofs` | its safety properties, and that it implements `JobLedger`, proved |
| `AdjustmentNotes` | notes against one invoice under concurrent requests |
| `NotesProofs` | finite sums; type correctness and the three safety properties, proved |
| `QuoteLifecycle` | quotes, and numbered, limited invoice creation, under concurrent requests |
| `QuoteProofs` | type correctness, the five safety invariants and the action property, proved |
| `AssistantActions` | the assistant's proposals under concurrent confirmations and cancellations |
| `AssistantProofs` | type correctness and the safety properties of `AssistantActions`, proved |
| `WhatsApp` | extends `AssistantActions`: inbound messages and a browser of one user |
| `WhatsAppProofs` | the channel's properties, and that it implements `AssistantActions`, proved |
| `WebhookDeliveries` | one event's deliveries, composed with `JobLedger` as their scheduler |
| `WebhookProofs` | type correctness, the two safety invariants and the action property, proved |
| `Billing` | the subscription row between provider events and administrators |
| `BillingProofs` | type correctness and the three safety properties, proved |
| `Team` | members, ownership, invitations and seats under concurrent requests |
| `TeamProofs` | type correctness and the three safety properties, proved |
| `MC_*` | the instances TLC checks: values of constants and symmetry |

Operators introduced by a comment "Mutant:" are deliberately wrong variants of
the definition after them. No specification uses them; substituted one at a
time, each makes one property fail, which shows the property depends on that
piece of code.

### JobQueue

| Code | Model |
|---|---|
| `BackgroundJob.status/attempts/claimed_by` | `status`, `attempts`, `claimedBy` |
| `lease_expires_at` | `lease`: none, live, lapsed |
| `available_at <= now` | `due` |
| `enqueue_job` and its caller's commit | `Enqueue` |
| `recover_abandoned_jobs` | `Recover` |
| `claim_jobs`: SELECT; per candidate the conditional UPDATE and commit; return | `Scan`; `Claim`, `LoseRace`; `EndClaim` |
| `mark_started`, `run_claimed_job`, the handler, `complete_job` | `MarkStarted`, `CallHandler`, `HandlerReturns`, `Complete` |
| `retry_platform_background_job`, `cancel_platform_background_job` | `AdminRetry`; `CancelCheck`, `CancelCommit` |
| crash, SIGTERM between iterations, `restart: unless-stopped` | `Crash`, `Shutdown`, `Restart` |
| time | `BecomeDue`, `LeaseLapses` |

Each action is one transaction, or the part of one others can tell apart. The
candidate SELECT locks its rows until the first commit of the loop (`Locked`);
writers of a locked row wait. `snap` is what a worker's session holds of its row:
`mark_started` commits, which expires the object; `run_claimed_job` reads
`job_type` and so loads the whole row; a handler that commits expires it again.
`complete_job` assigns over that, and the ORM leaves out of the UPDATE any column
whose new value equals the loaded one. So what a late completion does to a row
that has changed hands depends on what its session had seen. This is `Flushed`,
and both kinds of handler are instantiated (`CommittingJobs`).

Abstracted: priorities, the `batch_size * 3` candidate limit and the order of
candidates (any order is allowed, which includes the code's); payloads. Idempotency
keys and a handler's own rows are in `WebhookDeliveries`.

### AdjustmentNotes

A request runs in two steps, as the lock splits it: `CreateBegin`/`CreateCommit`,
`Load`/`IssueLock`/`IssueCommit`, `Load`/`VoidCommit`, `Load`/`DeleteCommit`.
`Load` checks the status the session read; `invLock` is the source invoice's row
lock, and locking it does not reload the note (`_get_source_invoice_locked` selects
the invoice). The sums (`Credited`, `LineUsed`, ...) are queries and see what is
committed. A note credits lines and may carry a free-form amount; debit notes may
not reference lines (`DebitLineCannotReferenceSourceError`). Amounts are untaxed
naturals: taxes would change both ceilings' scale, not the order of checks.

### QuoteLifecycle

`status`, `rev` (the contents), `past` (expiry date before today), `pointer`
(`converted_invoice_id`) are the quote; `invoices`, `nextNumber`, `orgLock` the
organization. `Load` is `get_quote_in_org` and the operation's check
(`Allows`); `Update`, `Delete`, `Respond`, `Send`, `Convert` are the commits.
`send_quote_record` mails first (`SendMail`) and writes `sent` only over a quote
it loaded as a draft. `create_invoice_record` takes the organization's lock in
`check_limit`, reads the number (`Allocate`), and commits itself
(`CreateInvoice`) unless convert passed `commit=False`; then `Convert` commits
invoice, status and pointer together. A failure anywhere is `Abort`. An update of a
row deleted meanwhile matches nothing, the ORM raises, and the request rolls back.

`mailed`, `acceptedRev` and `overlapped` are history. `overlapped` holds the quotes
on which two requests were ever under way at once: for those, the code gives no
guarantee on the order of decisions (nothing locks a quote), so
`InvoicedAsAccepted` and `DecisionIsFinal` speak of the others, while expiry, edits,
aborted sends and conversions, deletions and other quotes' traffic may still happen
to them. `ConvertedOnce` shows what overlap does.

Abstracted: one organization and one calendar month (the limit is monthly); the
unique index on invoice numbers, which under the lock never fires; archiving;
line items as a revision number; suspension and maintenance of the public link.

### AssistantActions

`status`, `late` (`expires_at` has passed while it was open; once settled, nothing looks
at it again) and `tool` are a proposal's row;
`rowLock` is the lock `SELECT ... FOR UPDATE` takes on it. A lock belongs to a
session and ends with that session's next commit or rollback, so what matters of a
tool is what it does to the session of `confirm_action` (`Tools`):

| Tool of the code | Model |
|---|---|
| `create_invoice_draft`, `create_quote_draft`, `update_invoice_status` | `create`: the effect and a commit (`Create`) |
| `convert_quote_to_invoice` | `convert`: the same, unless the quote is converted |
| `send_invoice_email`, `send_quote` of a draft | `email`: a mail (`SendMail`), then a commit (`CommitSent`) |
| `send_quote` of a sent quote | `resend`: a mail and no commit |
| `send_payment_reminder` | `reminder`: a committed claim or a rollback (`Claim`), then a mail (`Remind`) |

`Confirm` is `_load_locked_action` with the checks it makes under the lock. A
confirmation ends in `Settle` (executed or failed, written over whatever the row says
by then), in `TurnAway` (the shared rate limit of invoice emails: the proposal stays
open) or in `Crash` (also any exception the code does not catch). `Refuse` is every
way a tool is not run or raises before it writes. `spent` says that the target itself
rules out another execution: the quote points to an invoice, for good; or the reminder's
unique slot is taken, for the day. The user can cause both without the assistant
(`DoneByHand`). `performed` counts effects and is history.

A reminder's slot is that of the organization's local day when the tool runs
(`invoices.py:674-681`), and a proposal lives 600 seconds (`ai/limits.py:45`), which may
straddle a midnight. `Midnight` frees the reminders' slots, when an open reminder's is
taken, and counts in `day`:
a proposal confirmed on both sides of it claims two slots and sends two reminders, also
when yesterday's claim is still being sent. `SpentOnce` therefore says: a conversion
once, a reminder once and once more for each midnight.

Abstracted: two racing conversions that both pass the check of the pointer (that is
`QuoteLifecycle`'s subject), two proposals about one target, permissions, payloads,
the organization's lock taken inside some tools.

### WhatsApp

`WhatsApp` EXTENDS `AssistantActions` and adds the channel's variables; every action
is an action of `AssistantActions` together with a step of the handler, or leaves the
proposals alone, and `ChannelIsAllowed` proves it.

| Code | Model |
|---|---|
| `is_message_already_processed` at the top of `handle_inbound_message` | `Receive` |
| the branches that only reply | `Answer` |
| the assistant's turn, `set_pending_proposal` | `Ask` |
| CONFIRM and CANCEL: `pending_proposal_id` is read and cleared | `Take` |
| `confirm_action`, `cancel_action` | `ConfirmTaken`, `ConfirmRefused`, `CancelTaken`; `ToolStep`, `ConfirmEnds` |
| `record(...)` and the last `db.commit()` | `Record`; the `text` is forgotten with it, unless another process still handles the message |
| an uncaught exception, a killed process, a deadlock's victim | `Lose` |
| the context's time to live, FORGET, a restart | `ContextLost` |
| the same user's browser | `BrowserConfirm`, `BrowserStep`, `Elsewhere` |
| the organization's local date changes | `NextDay` |

A process handles one inbound message at a time because its endpoint is `async def`
and awaits nothing after the body is read; `Processes` is therefore also the set of
the handlers' sessions. `pending` is per process, as `context_store` keeps it.
`acted` counts, for each message, the proposals made, confirmed or cancelled for it,
`failed` its handlings that ended without a record, `shared` the messages two
processes had at once, `browsed` the proposals confirmed in a browser: history.

The handler holds the organization's row from `check_limit` on; a browser's
confirmation holds the proposal's row when it asks for the organization's. The
deadlock itself is not represented, only its outcome: PostgreSQL aborts one of the
two, which is a `Lose` or a `Crash`, and the handler's memory of the proposal is gone.

### WebhookDeliveries

Jobs run on `JobLedger`, which `QueueImplementsLedger` shows the queue implements:
`Submit`, `Take`, `Finish`, `Fail`, `Vanish` and `Reclaim` are conjuncts of this
module's actions. A job is named by its idempotency key, so that the unique index is
the ledger's `stage[j] = "absent"`: `<<"deliver", row>>`, or `<<"retry", attempt>>`,
whose key is the event, the endpoint and the attempt's number.

A handler is split where a crash or another session could tell: `BeginDelivery` or
`BeginRetry`, `Post` (the request), `Record` (the commit), `LookUpKey` and `InsertRetry`
(the two halves of `enqueue_job`), `Return` (`complete_job`). When another session
inserted the key in between, the flush raises, the session is unusable, `complete_job`
raises too and the worker exits (`InsertCollides`). `Raise` is an exception before the
answer is recorded: the retry's own flushed row then becomes durable as `pending`.

Abstracted: the endpoint's address and secret, response bodies, the delay before a
retry (a job may be taken as soon as it is open), administrators retrying dead jobs.

### Billing

`sub` is the row; `version_id_col` makes each UPDATE conditional on the version a
session loaded, of which only matters whether it is still the row's: `current` is the
set of sessions for which it is. `Save` writes the columns that changed, if the version
is current or nothing changed at all (then there is no UPDATE and so no check: `Writes`).
The provider is the environment: `Checkout`, `Notify`; its events stay deliverable for
ever, in any order (`Receive` picks any event without a receipt, also one another
process is at work on).

| Code | Model |
|---|---|
| `receive_stripe_webhook`: receipt looked for | `Receive` |
| resolution of the row, or `LookupError` | `LoadForEvent`, `Unresolved` |
| the first commit, with the receipt; the unique index | `ApplyEvent`; `DuplicateReceipt` |
| a checkout's `change_plan`, `change_billing_period`, `activate_subscription` | `ContinueCheckout`, `KeepPeriod` |
| `db.refresh` after each commit but the last | `Reread` |
| `mark_past_due` with nothing to do | `Ignore` |
| `update_organization_plan`, `cancel_platform_subscription`, `reactivate_...` | `AdminLoad`; `Push` and its variants; `AdminCommit` |
| `SubscriptionConflictError`, a crash | `Conflict`, `Crash` |

`_commit` is two transactions: the commit (`service.py:148`), after which the session
holds what it wrote (`Proceed`, at `attached`, `planned` or `timed`), and the refresh
(`service.py:157`), which takes whatever the row is by then, with its version (`Reread`, on
to `plan`, `period` or `activate`). An administrator who loads, pushes and commits in
between is not noticed: the checkout's `change_plan` overwrites that plan without a
conflict. The last refresh of an operation is left out, as nothing is written after it.

`applied` counts the events whose last commit was made; `halved` is the set of the
checkouts whose handler stopped (a crash, a conflict) between its first commit, which
holds the receipt, and its last. A push carries an idempotency key of operation and
price; the provider answers a key it has seen without acting (`PushReplayed`). `strayed`
records what may leave provider and row with different plans: a checkout or an
administrator's request cut short after half of its work, a replayed change of plan, and
a commit adopted by a checkout's first refresh. That there is no fourth cause is
what `PlanInSync` says. `Init` covers a fresh
registration and a returning customer.

### Team

`members` is one row per user, `invitations` the rows in order of creation; a request
keeps the target's row as it read it and writes the columns that differ from that
(`Update`), which is why a stale read matters. `lock` is the organization's row lock.
`Authorize`, `LoadTarget`, `LockAndCountOwners`, `CommitTarget` are the member
operations (`change_member_role_record`, `grant_ownership_record`,
`remove_member_record`), `CheckInvitation` and `SendInvitation` `create_invitation`,
`OpenInvitation`, `TakeSeat` and `CommitAccept` the acceptance, `Cancel` the deletion,
`GiveUp` every refusal or failure. `overwritten` records that a write took away an
ownership which the request had not seen.

Abstracted: viewers (a rank no rule of these distinguishes from members), tokens and
expiry (ways to be refused), changes of the plan's seats.

## 3. Runs

| Run | Instance | Shows |
|---|---|---|
| `queue_safe` | 2 workers, 2 jobs, batches of 2, 2 attempts, 2 outages; leases cover batches, no cancellations | exclusive and recorded ownership, bounded runs, no success without a handler's, terminal rows final, implements `JobLedger` |
| `queue_live` | the same with batches of 1, cancellations and 1 outage, under fairness | nothing is stranded, every job settles |
| `queue_stranded` | leases may lapse under a live worker | **violated**: a row is left `running` without a lease |
| `notes` | 3 notes, 2 requests, lines worth 1 and 2, four contents | ceilings under races, the derivations agree |
| `notes_lines` | the same | **violated**: two drafts credit one line twice |
| `quotes` | 2 quotes, 2 requests, limit 2, 1 edit per quote | atomic conversion, gapless numbers, the limit, decisions final and invoiced as made |
| `quotes_converted_twice` | the same | **violated**: two conversions, two invoices |
| `assistant` | `WhatsApp`: 2 proposals with any tools, 2 messages that may arrive again, one process, one browser, 1 failure, 1 midnight, cancellation and expiry at any moment | what says executed was; what a lock, the target or the process's memory guards happens once; a message acts once more only per failure; nothing starts once settled (3.0 million states, about two minutes) |
| `assistant_twice` | `AssistantActions` alone, 2 proposals, 3 racing confirmations, no crashes | **violated**: a second confirmation runs the tool again |
| `webhooks` | 2 workers, ceilings of 3 attempts and 2 executions, 3 rows, 1 resend, 1 outage, under fairness | no delivery forgotten, none repeated without a loss, outcomes final, the chain ends |
| `billing` | 2 processes, 2 administrators, 2 plans, 1 provider subscription, 2 events, 2 requests of administrators | cancellations dated; a receipt says applied, being applied or cut short; the plan in sync but for three causes |
| `team` | 3 users, 2 requests, 2 seats, 2 invitations | an owner remains, seats hold, one pending invitation |

*Why the bounds are enough to meet the cases.* Two workers and two jobs are the
smallest instance with a race for a row, a batch in which one job waits behind
another, and a row that passes from a dead worker to a live one; two attempts
tell a retry from an exhaustion and two outages let a recovered job be lost again.
`MaxRuns` is one more than `MaxAttempts`, so it never disables a step of a correct
queue (`RunsWithinAttempts` would fail first). One handler of each kind of
session behaviour is present. Three notes let two credits meet a third that is
voided or issued in between; the contents are chosen so that the document ceiling,
each line ceiling and a free-form amount all bind. Two quotes and a limit of two
let direct invoices and conversions compete for the last unit, and a number be
given back by a rollback. In `assistant` the two messages and the browser make three
confirmations possible, two of which can overlap; two proposals let a later one replace
an earlier one in the memory; one midnight (`MaxDays`) lets a proposal be confirmed on
both sides of it. The proofs cover any number of processes, messages and
browsers; `ChannelInv` was also explored with two processes. Three deliveries and a
resend let a manual and an automatic retry ask for the same attempt; three attempts
tell the last from the one before. Two events and two processes let one event be
handled twice at once and two events cross; one provider subscription suffices for
the races of the row, and a second (a checkout over an attached row) was explored for
`BillingProofs`' invariant, in part. Three users and two seats let two invitees compete for one
seat, and two owners demote one another.

*Deadlock* is checked for the queue. The other instances really stop:
ids, edits, proposals, events and the month's limit get used up with all requests idle,
and an organization that lost its last manager has nobody left to act, hence
`CHECK_DEADLOCK FALSE`.

*Fairness* (`queue_live`). `WF(WorkerStep)`: the loop sleeps and polls for ever and
waits only for row locks, which their holder drops with its next commit;
`WF(Restart)`: the compose file restarts the worker unless it is stopped;
`WF(BecomeDue)`, `WF(LeaseLapses)`: the clock advances. Nothing is assumed of
producers, administrators or the handlers' outcome. Handlers are assumed to return
(outbound calls have timeouts). Outages are finite (`MaxOutages`); with endlessly
many a job still fails for good once its attempts are used up, but the run does not
show that. *In `webhooks`*: `WF(Handle(w))`, the worker polls and its handler's request
has a timeout; `WF(Recover)`, every poll begins with recovery. Faults, resends and the
endpoint's switch are not fair, and are bounded; `ChainEnds` does not assume that the
receiver ever answers well.

*The two switches.* `LeaseCoversBatch`: leases are not renewed, so they exclude other
workers only while every job of a batch finishes within the lease of the batch;
`worker.py:19-23` takes this for granted ("their lease is real; another worker can't
safely claim them mid-flight"). TRUE is a deployment whose batch size, handlers and
lease respect it (by default 5 jobs and 300 s: a minute per job); nothing in the code
enforces it, and `queue_stranded` shows what
happens otherwise. `AdminCancels`: the cancel endpoint's check and write are apart,
so it can hit a job that has just been claimed; then the table no longer names the
owner. `queue_live` shows what survives that of recovery and progress; `queue_safe` and
the proofs are about a queue where nobody cancels.

### Where code and documentation disagree

1. `queue_stranded`. `mark_started` writes `running` whatever the row says. A worker
   claims two jobs; while it runs the first, the second's lease lapses and another
   worker's sweep returns it to `pending` and clears `lease_expires_at`; the first
   worker then marks it `running` and dies. `recover_abandoned_jobs`, "the only
   recovery mechanism", looks for an expired lease and never finds the row.
2. `notes_lines`. The documentation says both ceilings are enforced.
   `issue_adjustment_note` repeats the document-level check only.
3. `quotes_converted_twice`. `convert_quote_to_invoice` checks the pointer on the
   quote it loaded before it waits for the organization's lock. The exception's
   docstring says a quote can never be converted twice.
4. `assistant_twice`. The docstring of `_load_locked_action` says that two racing
   requests for one proposal can never both succeed, being inside one lock. The tool's
   own commit ends that lock while the row still says `proposed`.

Further disagreements met while modelling. The models contain them, as the histories
or exceptions named here, but no run is about them:

- *Webhooks.* `webhook.py:113-116` expects a successful manual resend to stop the
  scheduled retry, but a resend makes a new row and never touches the failed one, so the
  retry goes out. `enqueue_job`'s docstring says no unique-constraint violation is ever
  raised; between lookup and flush one can be, and ends the worker (`InsertCollides`).
  `webhook_deliveries.py:22-25` says the row is committed before the request; a retry's
  is only flushed, so a crash loses the record of a request that was made.
- *Billing.* `billing_webhooks.py:84-93` says mutation and receipt land together or
  not at all, and `:127-128` that after a conflict the receipt is discarded. The receipt
  lands with the first of a checkout's four commits: a crash or a conflict after it
  leaves the rest undone, and the redelivery is answered `already_processed`. No property
  forbids it; such events are `halved`, and `ReceiptsAreTrue` says that nothing else comes
  to that. `models.py:403-404` promises a conflict and "never a silent lost update"; a
  commit adopted by the refresh between a checkout's commits is overwritten silently
  (`Reread`, `strayed`). `service.py:470-474` says local and provider state never
  diverge on failure; a conflict after the push leaves the provider changed. A late
  `payment_failed` overwrites `canceled`.
- *Team.* `team.py:21-31` says the headcount is guarded by the lock. The target's role
  is read before it: a demotion that read a member's row as an administrator's, before
  another request made them owner, takes the ownership away without counting
  (`overwritten`). `team.py:428-432` calls `accepted_at` the single-use guarantee; two
  acceptances of one invitation that both read it pending, with a removal between their
  commits, both seat the user. `invitations.py:135-140` says the lock need not outlive
  the seat check; `OnePending` rests on it.
- *Reminders.* `invoices.py:541-547` gives a manual reminder one slot per local day; one
  proposal, confirmed twice around midnight, takes the slots of two (`Midnight`).
  `send_due_invoice_reminders.py:68-72` fears that sweeping a stale claim causes a
  duplicate reminder; the sweep leaves the row, so the slot stays taken.
- *WhatsApp.* `models.py:1617-1621` says a message posted twice is processed at most
  once. Its record is the last commit, so a handling that failed, or two processes at
  once, act again: that is what `MessageActsOnce` allows and no more.
  `context_store.py:4-9` says the application is a single process;
  `docker-compose.prod.yml` starts two workers, and CONFIRM may reach one that knows no
  proposal, or an older one. A cancellation that failed is still answered "cancelled".

## 4. Proofs

**Job queue** (`JobQueueProofs`). For every set of jobs and workers, every batch size,
attempt limit and outage bound, from `QueueConstants` (well-formed parameters). `Jobs`
need not be finite. What else is assumed grows down the list.

Assuming nothing else:

- `TypeCorrect`: `Spec => []TypeOK`.
- `SuccessHandled`: `SuccessWasHandled`, with lapsing leases, cancels and rows that change
  hands. It adds that a worker about to report success has had the handler of its current
  job succeed (`Reported`): only `Complete` writes `succeeded`, and what it does not write,
  because the session had loaded the same value (`Flushed`), stays as it was.

Assuming `LeaseCoversBatch`, administrators' cancels included:

- `ExclusiveOwner` and `AbandonedRecoverable`. A cancel writes the status of a row that
  may meanwhile be held, so the status says little; `claimed_by` and the lease still tell
  the truth. `HeldInv` says that (`Held`), that a busy worker's job is in its batch, and
  that what its session loaded is a row with an owner and no status equal to a result
  (`Sessions`), so that completing the row both clears its lease and takes it out of
  `claimed` and `running`. Without `LeaseCoversBatch` the second fails: run `queue_stranded`.

Assuming also `~AdminCancels`, which a cancel of a started job breaks:

- `OwnershipRecorded`, `TerminalFinal`. `OwnershipIsRecorded` is
  not inductive alone: a completion could touch a row outside the worker's batch.
  `OwnerInv` adds `Placement`: when a batch is empty, that a busy worker's job is in
  its batch and `running`, and that the rest of the batch is still `claimed`.
  A terminal row is in no batch, and every write of a status is to a row in a batch or
  one the UPDATE's own condition matched.
- `RunsBounded`: `BudgetInv` adds that each invocation is paid for by an attempt
  already counted, except the one in progress or the one that succeeded, and that
  what a session holds of the row it is about to complete is still what the table
  says (`Accurate`). Without the latter a completion could count an attempt over
  another's, and give one invocation away.
- `QueueImplementsLedger`: `Spec => Ledger!Spec` with `stage <- Stage(status)`,
  `holder <- ` the worker whose batch the job is in, `failures <- attempts`. Each
  action is a ledger step or a stutter (`Scan`, `MarkStarted`, time); a crash is
  `Vanish`, the sweep `Reclaim`, of a set of jobs at once.

**Quotes** (`QuoteProofs`). For any quotes and requests, plan limit and number of edits,
from `QuotesConstants`. `IInv` puts next to the properties:

- `Working`: where each operation can be, and that its quote exists; a request that has
  loaded a quote may outlive it, so "exists" includes deleted;
- `Locking`: a request with a number holds the organization's lock, its number is the next
  one and there is room under the plan. Only the holder inserts, hence `NumbersGapless`
  and `WithinInvoiceLimit`, whatever the requests do to the quotes;
- `Mailing`: who answers a quote, or converts it, found it mailed;
- `Converted`: a quote's pointer names an invoice of its own, and a quote with an
  invoice points to one. This holds of shared quotes as well, and is all that does;
- for a quote that was never shared: one request at a time (`Alone`), which knows the
  quote as it is and has passed its checks (`Fresh`), and an invoice that says what was
  accepted (`Faithful`).

`TypeCorrect`, `NumbersWithoutGaps`, `LimitHolds`, `AnsweredMailed`, `ConversionAtomic` and
`InvoicedFaithfully` follow, and the action property `DecisionFinal`: a step that would
change a decided quote comes from a request that had loaded it otherwise, so the quote is
shared.

**Notes** (`NotesProofs`). For any notes, requests, lines and contents, from
`NotesConstants`: finitely many notes and lines, amounts that are naturals, debit notes
that credit no line. Nothing bounds them. `IInv` says who is at which point of which
operation (`Working`, `Written`), that exactly the requests at their commit hold the
invoice's lock (`Locking`), that the holder has room for what it is about to credit
(`Room`), and that a note issued at creation was never a draft, so that nobody issues it
again past the line ceilings (`Settled`); `Ceilings` is what that preserves. `Room` is the
check the code makes after it locks; that it still holds at the commit is because only the
holder credits, and a void only frees. `TypeCorrect`, `CreditBounded`, `ImmediateBounded`
follow; `DerivationsEqual` is that one sum over all issued notes, credits counted
negatively (the analytics), comes to what the invoice view makes of its two sums.

The sums are `SumFunction` of the community modules, which adds in an arbitrary order.
That any element can be taken apart (`TotalApart`), that only the values summed count, that
more naturals come to no less and that a sum splits by sign are proved first, by induction
over the proper subsets of a finite set: the library's well-foundedness of that relation and
its minimal elements are first-order facts, so no operator parameter is needed.

**Assistant actions** (`AssistantProofs`). For every set of proposals and
confirmations and any number of crashes, from `AssistantConstants` alone (`None` is
not an id). All four properties follow from one invariant, `Inv`:

- `Present`: a confirmation at work is on a proposal that exists, with the kind of tool
  its phase belongs to;
- `Holding`: from the load until its tool does something, a confirmation holds the row's
  lock and the row still says `proposed`, which is why a settled proposal starts nothing;
  with a tool that does not commit it holds the lock to the end;
- `Effective`: who reports an execution performed one, and so did the row that says so;
- `Spending`: a conversion has spent its target; who sends a reminder has claimed a slot;
- `Claims`: the reminders sent and those claimed and not yet sent are together at most
  the slots taken: one for each midnight gone by, and today's if it is spent. Counting the
  claimants, of any number of confirmations, is what makes `SpentOnce` inductive when a
  claim of yesterday is still being sent today;
- `Counting`: a proposal that is still open has been performed by a tool without a
  commit only by confirmations that died.

`TypeCorrect`, `ExecutedPerformed`, `SpentAtMostOnce`, `LockedAtMostOnce` and
`SettledStarts` are its consequences, the last as an action property of every step.

**WhatsApp** (`WhatsAppProofs`). For every set of proposals, processes, messages and
browsers, from `AssistantConstants` and `ChannelConstants`. `ChannelIsAllowed`: each
step of the channel is a step of `AssistantActions` or leaves its variables alone, so
`Inv` and what follows from it carry over. `ChannelInv` adds:

- `Handlers`: a handler that is confirming has the confirmation it thinks it has, and
  one that is not has none;
- `Browsers`: who is confirming elsewhere is on a proposal in `browsed`;
- `Effects`: a proposal no browser touched is brought about by one process and in one
  way at a time: it remembers it, has taken it out of its memory, or runs it; and only
  if nobody did before. This is what makes `OnceByWhatsApp` inductive although the
  row's lock does not hold;
- `Ledger`: each action for a message no two processes shared is paid for by a failure
  or is the current handling's own.

**Billing** (`BillingProofs`). For every set of sessions and plans and any bounds, from
`BillingConstants`. `IInv` adds to the three properties: `Fresh` (a session whose
version is current holds the row as it is), `Place` and `Known` (what a session at each
step has loaded, and that the subscriptions it refers to exist), `Chronicle` (events
refer to subscriptions that exist; an event's plan is its checkout's), and, unless
`strayed`, `PlanOwed`: the row's plan is the provider's but for what a session under way
still owes it. `Fresh` is the heart of it: the version check turns "the row has not
changed since I loaded it" into a fact of the commit. A checkout owes its plan from the
attach until `change_plan`, across the refresh in between; unless that adopts another's
commit, what it read is still the subscription it attached, which is the last conjunct of
`PlanOwed`. Of the receipts each step is shown to concern one event only (`OneRecorded`):
it begins a checkout (`CheckoutBegun`), ends the work on an event (`AppliedWhole`), cuts it
short (`QuitKeeps`), or records nothing (`ReceiptsKept`).

**Team** (`TeamProofs`). For any users, requests, seats and invitations, from
`TeamConstants`. `IInv` adds to the properties what each request knows while it holds
the lock: that there is another owner, that there is a seat, that no invitation of the
address is pending. It needs that only the holder of the lock can take an owner, a seat
or an address from the others; a grant of ownership or a removal of a member, which do
not take it, can only help.

**Webhooks** (`WebhookProofs`). For any workers, resends, outages and ceilings, from
`WebhookConstants`. `IInv` adds to the types:

- `Held` and `Handling`: a job's holder works on that job alone, and what it remembers of
  the attempt is what the rows it stands for say;
- `Present`: every announced or resent row has its job, and a job its row;
- `Paid`: a job's requests are at most its failures, and one more only once an execution
  has got past its request and is not lost yet;
- `Closed(j) => Resolved(j)`: a job that is done, or whose handler has returned, has
  attempted what it stands for and seen it followed up.

`NothingForgotten` is not inductive: it holds after a crash between recording and
enqueueing only because the job is not done and its next execution looks again. Each step
is shown to be `Progress`: rows only grow, for a job that is not closed yet, and whatever
it closes it resolves; so what was resolved stays so.

Model-checked only: liveness (`EveryJobSettles`, `ChainEnds`), whose proof needs fairness
and ENABLED, which TLAPS 1.4.5 does not support. Every other property of a passing run is
stated by a theorem. The two assumptions on the queue are switches of the runs as well;
without them `TerminalIsFinal` and the rest of their theorems are not claimed.

## 5. Not modelled, and the plan

`PROJECT.json` gives a reason for each component. Most of the source by size is schemas,
migrations, localization, and read-only computation (analytics, insights, forecasts), which
keeps no state that another request could find changed; what is left of the stateful core is
mostly one commit per request over one row. Of what remains, in order:

1. The sweep that marks stale reminder claims failed (`send_due_invoice_reminders.py:105`),
   against a sender that is only slow: which of the two has the last word on the row.
2. Two WhatsApp processes as a run of their own: which proposal CONFIRM acts on.
3. Proofs: what of the queue survives a lease that lapses under a live worker, beyond
   `SuccessWasHandled` (a bound on the runs that counts the lapses); that the webhook
   deliveries, composed with the ledger, keep it.
4. Further disagreements to settle by runs: cancellation of a started job against its
   endpoint's docstring (`routers/platform_admin.py:2271`), a void note reissued by a
   request already past its check, those listed above.
