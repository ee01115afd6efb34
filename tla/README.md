# Verification of the Panorama backend

Panorama is a Django / DRF backend for students of a university: a mobile API and a dashboard API
over one PostgreSQL database, with Redis for caches and channel layers, Celery workers for slow
work, LibreOffice behind a conversion queue, a WebSocket chat, and a print shop whose printers are
driven by small agents in the shop. This directory holds TLA+ models of its core, the TLC runs that
check them on small instances, and TLAPS proofs of what matters most for every instance.

1. [The system](#1-the-system): inventory, interactions, hard behaviours
2. [The modules](#2-the-modules): what models what
3. [The runs](#3-the-runs): bounds, fairness, and what they show
4. [The proofs](#4-the-proofs)
5. [Where the code differs from what is said of it](#5-where-the-code-differs-from-what-is-said-of-it)
6. [What is not modelled](#6-what-is-not-modelled)
7. [Plan](#7-plan)

Paths are relative to `src/app/apps/` unless they start with `src/`.

## 1. The system

### How the program runs, and what a step is

Requests are served by several processes and threads. PostgreSQL runs at READ COMMITTED and
`ATOMIC_REQUESTS` is off, so a view is atomic only where it opens `transaction.atomic()`, and within
a transaction a row is stable only once `select_for_update()` has locked it. This decides the grain
of the models:

* a service that locks the row before it reads what it acts on is **one action**: no other writer
  of that row comes between its read and its commit;
* a service that reads first and locks later, or never, is **split** at that point, and everything
  else may happen in between. These are the interesting places: the account-deletion sweep over open
  orders, the inventory item form, the profile form, the change of password, a resent invitation,
  the first end of term, the recording of a payment against a void, the academic form and the
  submission of a verification, each command of the lockout's cache, each step of the
  `Idempotency-Key` protocol, each report of a print agent;
* a request may die between two of its transactions (a worker is killed, a container is replaced).
  Where the code commits more than once this is an action of the model (`Die`, `LoseCode`,
  `AbandonPayment`, `AbandonEndTerm`, `Crash`, `Lose`, `CutUpload`, `CutPurge`);
* a statement that locks a row it has to search for (the newest unused code) waits for the holder
  and then looks at the rows it saw before: what was inserted meanwhile it does not find.

Celery acknowledges late and rejects on a lost worker: a task may run twice.

### Inventory

| Part | State | Operations | What makes it correct |
|---|---|---|---|
| Print orders (`printing/services.py`) | `PrintOrder`, `PrintOrderStatusHistory` | submit with key, counter order, change of status | history is a walk through the status machine; one order per key; an answer is the order that was asked for |
| Print jobs (`printing/jobs.py`) | `PrintJob` | queue, report, retry, cancel | stamps agree with status; final jobs stay final; a start shows on the order |
| Print agent (`src/integrations/print-agent`) | its list and current job; paper | poll, claim, print, report | what is shown as done was printed; no more paper than asked for; work ends |
| Payments (`finance/services.py`, `finance/views.py`) | `OrderPayment` | record, void, counter sale | paid never exceeds the price; closed orders take no money |
| Inventory (`finance/services.py`) | `InventoryItem`, `StockMovement`, `stock_deducted_at` | add, remove, deduct for an order, edit form | the ledger explains the shelf; nothing used is forgotten; one alert per emptying |
| Idempotent writes (`common/idempotency.py`, `product/services.py`) | `IdempotencyRecord` | begin, takeover, recycle, replay, complete, release, purge | writes are bounded by permits; a replay is faithful; a refusal frees the key |
| Subject registration (`enrollment`) | `EnrollmentRequest`, items | submit, cancel, decide | in a group means admitted to it |
| Groups (`groups`) | `GroupMembership` | review, block, leave, role | a block survives everything but a review |
| Terms (`universities/terms.py`) | `CurrentTerm`, `TermRollover`, `needs_term_confirmation` | set, end, undo, confirm | last term's members are out; an undo restores exactly them |
| Verification (`verification`, `accounts/student_views.py`) | request, `StudentProfile` | submit, review, academic form, answer to the end of a term | one open request; the profile says what was decided last |
| Accounts (`accounts`) | `User`, `UserInvitation`, tokens, codes | login, profile, passwords, links, deactivation | sessions end with the password; links are final; nobody is shut out |
| Account deletion (`product/services.py`, `product/anonymization.py`) | `AccountDeletionRequest` | request, cancel, execute | a deleted account stays shut; its orders are closed |
| Codes and lockout (`accounts/services.py`, `accounts/lockout.py`) | `OTPCode`, cache counters | send, verify; check, count, lock, clear | a code answers a few guesses and is accepted once; an account takes a few wrong passwords |
| Library files (`files`) | row with its document, `FilePage`, queue, viewer sessions | upload, replace, process, sweep, reprocess, command | ready means the pages of this document; a queued file has a message; none is in processing for ever |
| Lectures (`lectures`) | row, viewer document, `LecturePage`, queue | upload, process, sweep, retry, form, remove | ready means document and all pages |
| Print conversion (`printing/views.py`, `printing/tasks.py`) | row, input and PDF in the storage | upload, convert, purge | what is ready has its PDF; the files go with the row |
| Push (`notifications`) | `Notification`, `PushDelivery`, device tokens | create, send, retry, receipts | one copy each; dead devices are switched off; retries end |
| Chat (`chat`) | tickets, sockets, messages, notifications, read cursors | handshake, frames, notify, read, moderate | a ticket opens one socket; who has lost the right is out in time; no news is lost; a burst rings once |
| Support, feedback (`support`, `feedback`) | tickets, reports | open, reply, resolve | status machine; one rating per target |
| Annotations (`annotations`) | document revision, marks with versions | sync, read changes | no device misses a change; no overwrite of an unseen change |
| Flags, shop, announcements, reference data, audit | rows edited one by one, caches | edit, publish, append | no protocol to speak of |

### How they interact

* The status of an order is changed by staff, by counter sales, by the start of a job and by the
  deletion of the account. A delivery calls `deduct_for_order` inside the same transaction: one step
  of `PrintOrders` with its stock marker; what it does to one item of the shelf is `StockLedger`.
* Payments lock the order row, and so exclude a change of its status while they are recorded.
* Agents act on jobs through the same endpoints as the staff; nothing is reserved for an agent.
* An approved verification admits the student to the faculty's communities; an approved registration
  to the subjects' groups; the end of a term removes from the latter only.
* The deletion of an account closes the person's orders and invalidates the password; what is in
  flight on the account at the time is not stopped.
* The submission of a verification, its review, the academic form and the end of a term write the
  same row of the student's profile, some under its lock and some not.
* A chat message queues a notice; a notice may ask for a push; a push goes to the Expo API and to
  browsers, whose answers switch devices off.
* Most writing endpoints run inside `run_idempotent`.

### Hard behaviours

`PROJECT.json` lists each hazard at its line, with the properties that would catch it, or the reason why
none does. The recurring ones are: a whole row saved that was read without its lock; a check made before
a lock is taken; files and rows written one after the other; tasks that run twice, or beside another
task of the same row; reports lost on the way to the server or back; a slow handler overtaken by a retry
and finishing later; row locks that cannot be taken because there is no row yet; and long sequences of
legal calls (fail, retry, cancel; end, readmit, block, undo) that must leave consistent rows.

## 2. The modules

| Module | Models | Built on |
|---|---|---|
| `PrintOrders` | orders, counter orders, jobs, deletion sweep | |
| `OrderPayments` | payments and cashiers | `EXTENDS PrintOrders` |
| `PrintAgents` | agents, network, dashboard | `EXTENDS PrintOrders` |
| `StockLedger` | one inventory item, its ledger and its form | `EXTENDS StockParameters`, its constants |
| `MCPrintShop` | orders with their payments, and the storeroom beside them | `EXTENDS OrderPayments, StockParameters`, `INSTANCE StockLedger` |
| `AtMostOnceWrite` | the promise of the Idempotency-Key protocol | |
| `IdempotentWrites` | the protocol | `INSTANCE AtMostOnceWrite WITH ...` |
| `TermMemberships` | registration, memberships, terms, communities | |
| `UserAccount` | one account, its sessions, links and requests in flight | |
| `StudentVerification` | the profile of one student, its requests, forms and submissions under way | |
| `FileProcessing` | one library file, the runs of its task, its messages, the staff | |
| `LectureConversion` | one lecture, the runs of its task, its messages, the dashboard | |
| `PrintConversion` | one file to be printed: request, task, purge, storage | |
| `PushDelivery` | pushes of one member to telephones and browsers, and the check of receipts | |
| `OneTimeCodes` | the codes of one address and purpose | |
| `LoginLockout` | the counter and the lock of one account in the cache | |
| `ChatSocket` | tickets and sockets of one member in one chat | |
| `ChatNotice` | the notification of one chat for one member | |
| `AnnotationSync` | one document, its marks, the devices that share it | |
| `MCServices` | seven of these side by side | `INSTANCE ... WITH` of six, `EXTENDS AnnotationSync` |
| `MCRetries` | writes and pushes side by side | `EXTENDS IdempotentWrites`, `INSTANCE PushDelivery` |
| `MC...` | the same on small instances, with symmetry and constraints | |
| `PrintShop_proofs` | theorems about `PrintOrders`, `PrintAgents` and `OrderPayments` | `EXTENDS` the three |
| `Accounts_proofs` | theorems about `UserAccount` and `StudentVerification` | `EXTENDS MCUserAccount` |
| `StockLedger_proofs` | theorems about `StockLedger` | `EXTENDS MCPrintShop` |
| `Services_proofs` | theorems about the seven services | `EXTENDS MCServices` |
| `Retries_proofs` | theorems about `IdempotentWrites` and `PushDelivery` | `EXTENDS MCRetries` |
| other `..._proofs` | theorems | the module they are named after |
| `RecursionTheorems` | lemmas: induction over the natural numbers, sums over sets and chains | |

Operators named `Mutant...` are the code with a plausible mistake (a guard forgotten, a column not
reset). They are used by no specification; each property of a passing run is known to fail when one
of them takes the place of the definition it varies.

**PrintOrders.** `order`, `job` and `history` are the tables. `CreateOrder`/`ReplayOrder` are the
two ends of `PrintOrderService.create_order`, which holds the row of the user: `SameKey` is its
lookup, `Fingerprint` its digest. `ChangeStatus` is `PrintStatusService.change_status` with all it
does (history, stock). `SetOrderStatus` is its use by the staff, `SetJobStatus` uses it for the first
job that starts. `CreateCounterOrder` is born in a later status, and may be born delivered.
`ScanOpenOrders`, `SweepByTransition` and `SweepByUpdate` are `anonymize_user_data`: a query without
lock, then one order after the other, by the status machine or past it. `taken` counts how often
stock was deducted and is no column; `order.deducted` is `stock_deducted_at`. The sweep is one
database transaction, whose writes others see at its commit only; the model lets each be seen at
once, and so has more behaviours than the code, except that locks of the orders already swept are
held to the end. No property depends on seeing an order half swept.

**OrderPayments.** `desk` is the payment a cashier is recording: `BeginRecord` locks the order and
reads what is due, `InsertPayment` commits, `AbandonPayment` is a request that died. While a desk
holds an order, `Locked` bars the steps that need its row. `VoidPayment` locks the payment only.

**PrintAgents.** `step` and `current` are the program counter and the job of an agent, `list` what is
left of its last poll. Agents and dashboard reach the server by the actions of `PrintOrders` only. A
report succeeds, is refused by the server, is lost, or has its reply lost (`ReportFails`); `Crash`
restarts the agent and forgets list and job. `printed` counts paper, which the stamps of the row are
held against: a job without a start stamp has taken none since it was queued last.
`faults` and `retries` count what the bounds `MaxFaults` and `MaxRetries` limit.

**StockLedger.** Quantities are integers: hundredths on the shelf, `Grains` to the hundredth for what is
owed. `Deliveries` are the orders that get delivered. `Deduct` is `deduct_for_order` for this item.
`OpenForm` and `SaveForm` are the retrieve and the save of the item's `PUT`/`PATCH`. `torn` records that
a form older than a movement was saved.

**IdempotentWrites.** A request is a process through `begin` (`Insert`, or `Collide` and one of
`Replay`, `Recycle`, `TakeOver`, `Reuse`, `Refuse`, `FindNothing`), its handler (`Write`, `Reject`,
`Fail`) and the end (`Complete`, `Release`). Time is a record that becomes "old" and "expired". A
handler is assumed to end within the 24 hours of a record, counted from its own beginning. That does
not keep a record from expiring under it: a takeover renews `updated_at` and leaves `expires_at`, so
who took the record over late (`takers`, which is no column) may see it expire, and be recycled for
another body, while at work. `outlived` records whose record went that way. `reclaims` counts
takeovers, recyclings and purges. `AtMostOnceWrite` promises that these, and nothing else, let
another attempt write.

**TermMemberships.** `membership`, `enrollment`, `term` and `rollovers` are the tables; `asked` is
`needs_term_confirmation`. `before`, `staff` and `touched` are kept by the model to say what an end
of term found and who was decided since. `ReadNoTerm` and `FirstEndTerm` are the end of a term
before there is a row to lock.

**UserAccount.** `user` is the row. `form` is a profile edit that has read it, `changing` a change of
password that has compared the old one, `resend` a resent invitation, which reads the account
(`ReadForResend`), revokes the links it sees and holds their rows (`RevokeForResend`) and commits
with a link of its own (`CommitResend`). Passwords are numbered, so that no two are the same. `torn`
and `replaced` record the two known ways in which the row goes wrong (section 5), to state what
holds otherwise.

**FileProcessing.** `run` is what each worker does and the document it holds since `Start`, the only
step under the row lock. `Report`, `DeletePages`, `Draw`, `SaveCount` and `Finish` are the statements
of `build_file_pages` and of the task, each committed by itself. `dispatches` are rows committed whose
message is not sent yet (`Send`, `BrokerDown`, `LoseDispatch`), `queue` the messages. A form is read
(`OpenForm`) and saved as a whole (`SaveForm`, `Upload`, `Remove`); the command selects (`ListFile`)
and updates later (`QueueListed`). `mixed` is the model's record of what has interfered since a run
last started alone: a second run, an upload, an old form, the command. Time is one bit: `GrowOld` needs
that nothing is running, because the time limit of a run is sixteen minutes, a run writes the row when
it starts, and a row is old after thirty; so the sweep never meets a run that is alive, and no model
of it that lets it do so would be of this code. A picture or PDF tells its length at the upload, an
office document only later (`Detected`). What the antivirus says of a document does not change.

**StudentVerification.** `profile` is the row, of which the details are one value: nothing tells
university, faculty and year apart. `Submit` is the serializer's validation, `Create` what
it does under the lock of the row: the status is checked again as it is now (`MayCreate`), and then
the object of before is saved. `Review` holds request and profile and is one action. `OpenForm` and
`SaveForm` are the two ends of the academic form. `reverted` records that a saved copy was not
the current row, `moved` that an approved student has answered to be in another year, `due` what
the question of the end of a term should be.

**LectureConversion.** As `FileProcessing`, with what differs: the document is never replaced, the
task keeps the row it read first (`run[w]` holds the copy) and writes its time of publication back,
managers retry, and the dashboard form saves the whole lecture. Two runs may meet, delete each
other's pages and collide on a number; `mixed` says whether a run broke off in such a meeting.

**PrintConversion.** Each step is one call of the storage or of the database: `CreateRow`,
`StoreInput`, `SaveInput`, `Send` are the request, `Work` the task, `ReadExpired`, `PurgeInput`,
`PurgePdf`, `PurgeRow` the purge. Every process has its copy of the row; saving a copy whole inserts
the row again when it is gone, saving single columns of a row that is gone fails.

**PushDelivery.** A run of the task goes through `PostExpo`, `StoreRows`, `SwitchOff`, `PostWeb`,
`RecordWeb`, `Settle` and `Acknowledge`; each is a call or a statement of its own. A message holds
the addresses a retry is for. `Lose` gives the message of a lost worker back; a provider may accept a
message and its answer be lost. What becomes of a retry is `RetryAnswers`: Celery queues it, or rejects
it because an argument is given twice, which is what it does to the retries of every caller in the
repository. The properties hold with either answer. The check of receipts (`ReadDue`, `Fetch`, `WriteVerdicts`,
`SwitchOffDead`) is a second process. `got` counts what a recipient was handed, `mishaps` the lost
workers and answers, `known` who was found dead, `dropped` who was given up and after how many retries.

**OneTimeCodes.** `Held` and `Gets` are the row locks: a statement that looks for the newest unused
code and waits gets the newest of those it saw that is still unused. `Look`/`Prepare`/`Deliver` are a
request for a code, `Enter`/`Accept`/`Reject`/`Refuse` an attempt, `SendMail` the task, which may come
after a newer code was made, `Age` the clock.

**LoginLockout.** `request` is the place of each login between two commands of the cache: the lock is
asked for once (`Begin`), the password is checked (`Guess`), then `add`, `incr`, `set`, `add` of the
lock and `delete` of the counter follow one by one, among those of other logins and of the staff that
unlocks (`Unlock`). Window and lock end between any two of these commands (`WindowEnds`, `LockEnds`):
their times are fixed by the first failure and by the lock. A wrong password that is not counted when
the window ends is counted in the next one (`ToCount`). `erased` counts the guesses that a late `set` or
`delete` has taken off the counter.

**ChatSocket.** A ticket is its payload and its mark of use, two keys of the cache. `Present`,
`Reserve`, `DeleteKey` and `Authenticate` are the handshake. A frame asks for the right of its member
(`Ask`, `Answer`) unless the last answer is younger than `TTL`; a message asks again when it is stored
(`StoreMessage`). Time advances (`Tick`) in units the model counts in `lapse`.

**ChatNotice.** A task looks for the unread notification (`Look`), writes it or makes one (`Write`,
`Create`), and asks the window whether to ring (`Ring`, `SetRecent`). A task of a message may meet
that of another, which `spoilt` records.

**AnnotationSync.** `Apply` is `AnnotationService.sync`, one transaction under the lock of the
document; `ReadRevision` and `ReadItems` are `changes_since`, two statements with no lock. Devices
are not in the repository; they are modelled as the API asks (`Send`, `Receive`), with answers lost,
late and requests sent again. `unseen` records how content was replaced that the device had not seen.

`PROJECT.json` maps each definition to its lines.

## 3. The runs

| Run | Shows | Instance |
|---|---|---|
| `shop` | stock is taken once, one order for a key, no more paid than the price; and of the storeroom ledger, remainders and alerts | 2 orders, jobs, payments, cashiers, 1 account, 1 key, 2 contents, at most 3 rows at a time; 2 deliveries, 1 form, 4 movements, shelf up to 2 |
| `order_delivered` | a delivered order is cancelled by a deletion (violated) | 1 order |
| `agents` | done means printed, no extra paper, the stamps tell of it, the queue is served, printing ends | 2 agents, 1 job, 2 faults, 1 retry |
| `idempotency` | replays, releases and the promise | 4 requests, 2 bodies, slow handlers, crashes, expiry |
| `idempotency_late` | a request is answered with the response to another body (violated) | the same |
| `memberships` | admission, removal lists, blocks, undo | 1 student, subject and community, 2 requests, 2 terms, 2 ends |
| `accounts` | sessions end with the password and come back by a torn row only, links are final, a way in; the profile and its verification | 1 session, 3 links, 2 resends, 3 passwords, at most 2 requests in flight; 2 submissions, 1 form, 2 verification requests, 2 details |
| `account_profile` | a profile edit revives an ended session (violated) | 1 session |
| `files` | truth of ready and quarantined, messages of queued files, end of processing | 3 documents, 2 workers, 1 form, 3 messages, 2 requests |
| `push` | one copy for each recipient, dead devices are off in both stores, retries end | 1 push, 1 device in 2 stores, 1 browser, 1 worker and the check of receipts, 1 retry, 1 mishap, 2 changes of addresses |
| `push_rejected` | recipients are given up after one attempt (violated) | the same, where retries are rejected |
| `services` | annotations, codes, lockout, chat, lectures, print conversions | below |

**Services side by side.** The services of `services` share no variable, so their composition says no
more than each alone. They are checked in one run in which a behaviour is one of one service (`service`)
and the others rest in their initial state; what is explored is the sum, not the product. `accounts`
does the same with `UserAccount` and `StudentVerification`, and `shop` with the orders and the storeroom
(`part`), and `MCRetries` with `IdempotentWrites` and `PushDelivery`, where each has a run of its own
(`Parts`): `idempotency` uses the symmetry of requests and bodies, and `push` has a liveness property,
with which symmetry is not sound. The bounds of `services` and `accounts`: 2 devices with a mark each, a
limit of 1 mark, 3 edits and 4 requests, so that a device is late with an answer, has a conflict and is
refused; 2 codes, 2 senders, 2 checks and 2 attempts; 2 identifiers, 2 logins at a time, a threshold of
2 and 5 wrong passwords, enough to pass the bound by one; 1 ticket for 2 sockets and an answer that is
good for 2 ticks; 3 messages of which two meet and one comes later; a lecture of 2 pages, 2 workers and
a form; a conversion with 2 workers and 3 files, so that two runs store a PDF each. Types are not an
invariant of these runs; they are proved for every module.

**Bounds, and why they are enough.** Two orders give a replay, a clash of keys and a sweep with orders
in different statuses; `FewRows` lets every pair of kinds of row meet, and three of one kind with
another, but not all tables full at once, which no property relates. Two agents and one job are the race
for it; two faults lose a claim and a report, or a report and the report of its failure. A use of one
and a half hundredths leaves a remainder after every odd delivery, and four ledger lines empty the shelf
twice. Four requests are the fewest in which the first is overtaken by the second, interferes with the
record, and lets a third and a fourth in. Two requests and two ends of term admit a student, remove,
readmit, remove and undo; `QuietCommunities` explores the roles only while the student is in no
community, since no rule couples them. One session is enough in `accounts` because sessions interact
through the row only, and what is in flight from another session is covered by codes, links and the
staff; three links let two resends both miss the other's. `FewInFlight` allows any two requests to
overlap. In `files` a document of two pages, a picture and a rejected document leave pages of different
lengths and kinds to each other; three messages are a duplicate and a redelivery, two requests an upload
and a reprocess, or a form over either. Counters (`MaxPasswords`, `MaxVersion`, `MaxMovements`,
`MaxQuantity`, `MaxRollovers`, `MaxRows`, `MaxInFlight`, `MaxFaults`, `MaxRetries`, `MaxSent`,
`MaxEdits`, `MaxChanges`, `MaxMishaps`, `MaxSyncs`, `MaxForms`, `MaxRequests`, `MaxCodes`, `MaxGuesses`,
`MaxDeliveries`) are bounds of the instance and limits of nothing in the code, `MaxQuantity` and
`MaxMovements` included. `MaxItems`, `MaxAttempts`, `Threshold`, `TTL`, `FailureLimit` are limits of the
code, with small values; the two submissions of `accounts` are the fewest that race for a request, and
the second request the fewest that comes after a decision. `FewInFlight` also stops at a profile that a
stale copy has overwritten (`reverted` stays set and the invariant says nothing of it).

Runs other than `agents` say `CHECK_DEADLOCK FALSE` because a shop whose orders are all final, a term
nobody ends, or a request that was answered really do stop; so does `agents`, where the agents poll
but bounds and final jobs end everything else.

**Fairness.** Three runs have liveness properties. In `agents`, `AgentsSpec` asks for weak fairness of the steps
of each agent: `run_forever` loops without a way out and catches every exception, so a running agent
keeps polling and working. Nothing is asked of the staff. Losses are finite (`MaxFaults`), and
`PrintingEnds` promises nothing once a request was lost: the code does not resend a report.
`QueueIsServed` holds with losses, since a queued job stays on every later poll.

In `files`, `FairSpec` asks that a run ends, by itself or at its time limit, that a request ends, that
a commit is followed by its message or the loss of it, that time passes, and that the scheduler goes
on starting the sweep (every ten minutes in `CELERY_BEAT_SCHEDULE`). Nothing is asked of the broker, of
the start of a task, or of the staff. Requests and messages are finite in the instance; a manager who
saves the form every half hour for ever does keep a dead file in processing, since every save
refreshes `updated_at`.

In `push`, `RetriesFairSpec` asks, by the `Fairness` of `PushDelivery`, that a worker takes a queued
message and goes on with the one it has; Celery does both while a worker runs. Lost workers and lost
answers are finite in the instance, the retries of a message are so in the code (`max_retries`). Nothing
is asked of the member, of the providers, or of the check of receipts.

## 4. The proofs

The theorems hold for every value of the constants: any number of orders, students, workers,
devices or requests. The assumptions are those stated with the constants: bounds are numbers, `Null`,
`None`, `NoCode` and the like are no row, what stands for two kinds of thing is disjoint (subjects and
communities, images and office documents), and the sets that are counted (`Marks`, the `Requests` of
the lockout) are finite. Nothing else is assumed, and no step is taken on trust.

Most of the properties speak of the end of a story, when nobody is at work any more or somebody has
caught up, and are not inductive. The invariants below say what each actor knows or holds in the
middle of it. Each was checked by TLC on the instances of section 3 before it was proved. The proofs
have one shape: what a kind of step does to the state, stated once; that each conjunct survives these
kinds of step; and the theorem.

**RecursionTheorems.** The library's induction rules take an operator, which the provers cannot
instantiate. Here induction is stated about a *set* of numbers, and a recursive function about the
function as a value (`SumExists`, `SumUnique`, and `TakeOut` and `SameSum` for sums over a finite set).
This is what lets the sums below be proved about.

**PrintShop_proofs, orders.** `IInv` is the conjunction of `TypeOK`, `RowsExist`, `HistoryIsPath`,
`StockTakenOnce`, `JobTimesMatchStatus`, `OneOrderPerKey` and `AnswerHasContent`. None is inductive
without others: `StockTakenOnce` needs that `delivered` can only be the last entry of a history
(`DeliveredIsLast`, from `HistoryIsPath` and the terminal statuses), `HistoryIsPath` needs that a
sweep holds orders of its own account (`RowsExist`), `AnswerHasContent` that an answer names an order
that is there. The lemmas say, first, what each kind of step does to the orders (a step inserts one,
moves one along the machine, forces one to cancelled, or leaves them) and to the jobs, and then each
conjunct is preserved along these few cases and not along every action. `Invariance` is
`Spec => []IInv`; `JobIsFinal` and `JobStartShows` are proved from it as step properties.

**PrintShop_proofs, agents.** Since agents and dashboard act by the steps of `PrintOrders`, all the
invariants above hold with agents at work (lemma `AgentsRunOrders`). `NoExtraPaper` and `DoneWasPrinted`
are not inductive: an agent between claiming and printing is about to add paper. `PaperInv` says what an
agent may yet do: one that has claimed a job has a print left, and two if the job was queued again
meanwhile (`ClaimIsFresh`), its list holds jobs that exist (`ListIsOfJobs`), and while a job is queued,
or has no start stamp, or is on the agent's list, the agent has a print of it left
(`PaperMatchesStatus`). `AgentsInvariance` proves it invariant, and `UnstartedTookNoPaper` follows
(`StampsCorrect`).

**PrintShop_proofs, payments.** Payments leave the orders to `PrintOrders` (`PaymentsImplementOrders`).
`PaymentsInv` adds that an order whose lock a cashier holds is still open, which the lock ensures,
and gives `ClosedCorrect`. `PaidCorrect` is about a sum over the table of payments. A recording reads
what is due and inserts its row later, so `PaidInv` says that what is being recorded still fits
(`RecordingFits`): one cashier at a time records on an order (`OneDeskPerOrder`, its lock), a void,
which does not take that lock, only makes room, and an order that is sold at the counter is new
and so has no payment yet (`PaymentsOfKnownOrders`).

**StockLedger_proofs.** `LedgerInv` strengthens the three properties it proves by what they lean on:
what a form holds is not negative (`FormsNeverNegative`), since it may be written back; a form that is
not older than a movement holds what is on the shelf (`FreshForms`), so that saving it tears nothing;
the line last written says what is on the shelf (`ShelfIsLast`); and an order with a line is marked as
deducted (`LinesOfDeducted`), so that `Deduct` passes it by. The arithmetic is in `DeductionBounds`: a
deduction takes no more than is on the shelf nor more whole hundredths than are due. `OwedInv` is
about what was used and what was taken, added up over the whole ledger (`TakenOf` extends with each
line): a form that is not stale has the remainder, too (`FreshPending`), and a line with an alert is
one that took the last (`AlertsEmpty`). It gives `NothingForgotten` and `OneAlertPerEmptying`.

**Retries_proofs, writes.** `IInv` accounts for the keys: requests that hold it, or have held it to
the end, are no more than the record and the reclaims are worth (`ClaimsAccounted`), who writes has
claimed (`WritersClaimed`), whoever still works under a record works on its body or had it recycled
under its hands (`LiveMatchRecord`, since ids are never given twice, `KeysAreFresh`), and what the
record keeps as an answer is what was written, for this body or by one of those (`ResponseIsOfWrite`).
So replays are faithful but for these, and the protocol implements
its promise: `PromiseKept` is `Spec => ImplementsPromise`, the refinement the run checks, each step
being one of `AtMostOnceWrite` or none. `WritesBounded` says outright what the promise amounts to.

**Retries_proofs, pushes.** `NoSecondCopy` counts what was handed over, and a second copy is decided
long before: by a message in the queue, or a run that will ask for a retry. `CopiesBounded` adds these
up for each push and recipient: the copies it got, the copies of messages in the queue that are for it
(`WaitingIn`, a set of pairs of message and number, since the queue is a bag), and the runs that may
still send to it, now or by a retry (`Sending`), are no more than the push itself and its mishaps
(`Allowed`). Taking a message moves one from the queue to the runs, a retry moves it back, a post turns
it into a copy; a lost worker puts its message back although the recipient may have its copy, and a
lost answer leaves a recipient among those to be tried again who has one: each is a mishap. `Balance`
says so of a step of one worker, and each action is shown to keep the balance of each recipient. This
needs `RunsInOrder`: before a run comes to the browsers, those it has to try again are telephones it
was asked to send to. Without it a browser could be served and on the list for a retry.

`DeadIsKnown` says of each of the two stores what `DeadIsSwitchedOff` says of both: a device that was
found dead is off in this store, or its finder has still to get to this store (`ToSwitchOff`; a run
that is past the first store but not the second answers for the second only), or the finder was lost.
A worker that reads the tokens again in between sends to what is still on, and finds it dead again,
which only adds a finder. A registration takes the device off the list of the dead.

**TermMemberships_proofs.** `IInv` adds to the three invariants of the run that a request that waits has
approved nothing (`PendingIsUndecided`), that whoever was decided since the end of a term is not
removed by it (`TouchedIsDecided`), and, while an end of term may be undone, that those it found are
those it removed and who were not decided since (`BeforeIsKnown`). A decision about one membership is
one kind of step (`DecisionStep`), whoever takes it; ending and undoing are the others. `BlockSurvives`
and `UndoRestores` are proved of every step; the latter is the reason for `BeforeIsKnown`.

**Accounts_proofs, the account.** `SessionsEndWithPassword` compares the password of a session with
that of the account, and a session that is not accepted now may be accepted after a reactivation. So
`AccountInv` says it of every session of the account's version (`VersionTellsPassword`), active or not,
and that no session is ahead of the account (`SessionsAreOfThePast`), so that a new version is the
version of nobody. The steps are few kinds of change of the row (`RowStep`): sessions end, an
invitation is accepted, made again, the account is deleted, or a profile edit tears it. `WayIn` and
`LinkIsFinal` are proved along the same kinds, and with them `OnlyTearsRevive`: the profile edit of the
run that is violated is the only way in which an ended session comes back. This needs that an account
that was deleted is not active (`DeletedIsShut`), so that the passwords of its sessions do not matter.

**Accounts_proofs, the profile.** `IdentityInv` adds to the property that a form read while the details
are not to be changed does not change them (`FormsKeepDetails`). While nothing stale was saved, the
status of the profile tells whether a request is open (`NothingOpen`), and this is what the second
check of `Create`, under the lock, relies on.

**FileProcessing_proofs.** That a file that is ready shows its document is not inductive: it rests on
what a run knows of itself (`RunsInOrder`: it draws page after page, and past the antivirus its
document was not rejected) and, while nothing has interfered, on the run being the only one and
finding the row and the pages as it left them (`RunIsAlone`). Every other actor either is noted as an
interference or makes nothing ready and leaves document and pages alone (`QuietStep`), so the work is
in the steps of the run itself. `QuarantineStands` follows from the same invariant: a run that could
write over a quarantine was interfered with.

**Services_proofs.** The services share no variable; each has an invariant of its own, and each theorem
is one of the service's own specification, `Codes!Spec` and so on.

* *Annotations.* `NothingMissed` speaks of a device that has caught up; what makes it so
  is the answer on its way. The invariant says that nobody is ahead of the document (`NoneAhead`), that
  a device waits for one thing at a time and its question is from what it knows (`OneAtATime`), that
  whatever somebody was told of a mark is how it is or an older version (`TellsTruth`), and that an
  answer holds every mark that changed between the device's revision and its own, unless it has
  changed again (`AnswerIsComplete`). The step that matters is `Apply`; what it does to the marks is
  proved first (`Changed`, `Numbering`), then conjunct by conjunct. `changes_since` reads document and
  marks without a lock, in this order: the proof shows why the order is enough.
* *Codes.* A check counts on the row it has locked, which may be replaced the moment it lets go. What
  is sent uses up rows that are there (`SendersHoldRows`), and a row knows the wrong guesses it was
  given and whether it was accepted (`CodeKnowsAnswers`).
* *Lockout.* `GuessesBounded` counts requests that were under way when the lock came. Every wrong
  password is in the counter, on its way there, or was erased by a success (`OpenCounts`); a
  counter over the threshold means that somebody is about to lock (`OverMeansLocking`), and who still
  works when it is locked is counted by where he is (`LockedLeaves`), over a finite set of requests.
  The window may end under all of them: what is still to be counted then starts the next one.
* *Sockets.* A ticket has one winner, and one that opened a socket is taken (`TicketsAreIssued`,
  `OneWins`, `OpenedIsTaken`). How long a socket may outlive the right of its member is a sum: the time
  since the right was lost and what is left of the answer the socket trusts are within `TTL`
  and one (`TrustRunsOut`).
* *Notices.* Runs that meet spoil each other's messages (`MeetingSpoils`); a run that is alone still
  finds what it has read (`AloneSees`, `FoundIsThere`), there is one row with the key (`OneKey`), a run that
  has written remembers what it counted (`WritersRemember`, `CountedIsKnown`), and nothing rings twice in
  a window without an excuse (`RungOnce`).
* *Lectures.* After a run has deleted the pages, those that are missing are pages that some run
  will draw before it meets one that is taken (`MissingPagesCome`), whichever of the two runs it is;
  with nobody drawing any more none is missing. That a published lecture has its time of publication
  rests on what the runs have read of it (`RunsKnow`, `ReadyIsStamped`).
* *Print conversions.* A file in the storage is accounted for by the row, by the memory of the one run
  that is under way, or by the purge (`RunAccounts`, `PurgeAccounts`, `RestAccounts`); the row names files
  that are there (`RowIsHonest`), and upload and purge do not meet (`UploadIsFirst`, `PurgeIsLate`).

The translation to the SMT solver that TLAPS 1.4.5 makes says of `Len` that `Len(s) = n` whenever `DOMAIN s` is
`1..n`, whatever `s` is. Of a function that is not known to be a sequence this is more than TLA+ says, so every
proof was also carried through with this axiom confined to sequences.

**Proved, and checked by no run of their own.** `RowsExist`, `JobIsFinal`, `HistoryIsPath`,
`JobTimesMatchStatus`, `AnswerHasContent` and `JobStartShows` of `PrintOrders`, `NeverNegative` and
`OneLinePerOrder` of `StockLedger`, `ClosedOrdersTakeNoMoney` of `OrderPayments`, `WritesAccounted`
about `IdempotentWrites` (stated with its proof), and the types of every module: the runs have other
properties of the same modules.

**Only model-checked.** Liveness (`QueueIsServed`, `PrintingEnds`, `ProcessingEnds`, `PushEnds`), which is
out of the provers' reach. Every invariant and every action property of a run that passes is proved.

## 5. Where the code differs from what is said of it

Four are runs that TLC finds violated; `PROJECT.json` quotes the text.

* `DeliveredStays`: the deletion of an account sets an order to cancelled that was delivered after
  its scan. Its history then ends at "delivered", its stock is gone.
* `EndedForGood`: a profile edit writes back the version of the session, among all other columns.
* `SameBodyReplayed`: a request that took a record over shortly before it expires completes it after it
  was recycled for another body, and the next request with that body is given the response of the first.
* `RetriedInFull`: every caller passes the arguments of the push task by position, and its retry repeats
  them by name; the argument check of Celery rejects the first retry, so a recipient that could not be
  reached is given up after one attempt. The trace that `notifications/tasks.py:27` asks for is never
  written, either: neither a rejected retry nor the last one raises the exception the task waits for.

Five are stated as properties in the modules, which no run checks and which do not hold:

* `LedgerMatchesShelf` (`StockLedger`): "``quantity`` only ever changes through ``StockMovement`` rows"
  (`finance/models.py:83`), and the item form saves it with the rest (`audit/mixins.py:81`).
* `ConfirmedOnce` (`TermMemberships`): "A concurrent or repeated confirm raises ``TermConflict``"
  (`universities/terms.py:283`), and the first two find no row to lock (`universities/terms.py:201`).
* `ReplacedDocumentShown` (`FileProcessing`): a run that has begun ends with ready on the row of a
  document that was uploaded meanwhile (`files/tasks.py:77`), and the message of that document then
  finds nothing to do.
* `AnswerHasCurrency` (`PrintOrders`): the digest of a submit leaves the currency out
  (`printing/services.py:140`), so a reused key in another currency is answered with the first order.
* `OwnPasswordKept` (`UserAccount`): a reset by code does not mark the account as set up, so that a
  resend is an invitation and not a reset, and takes away a password the person has chosen.

Others were met while the models were written; the properties say what holds beside them:

* An academic form read while a request waits, and saved after it was decided, makes the profile
  pending again with no request that waits (`reverted` in `StudentVerification`): the student can send
  none, although "``pending`` already has one in review" (`verification/services.py:29`). `Create`
  saves the profile it read before the lock, which takes back an end of term in between.
* "A locked account rejects every attempt, even with the right password" (`accounts/lockout.py:12`):
  the lock is asked for once, before the password is checked, so what was under way is not rejected,
  and a success then clears the lock (`GuessesBounded` counts them).
* Two first requests for a code find no row to lock and send one each, so two live codes stand, where
  the mail task means to drop one "replaced by a newer request" (`accounts/tasks.py:29`).
* "Quarantined and ready ones never" are retried (`lectures/services.py:149`), but a dashboard form
  read earlier puts an old status back, after which they are. A lecture published during its
  conversion keeps no time of publication: the task saves the one it read (`lectures/tasks.py:70`).
* "short-lived by design" (`printing/tasks.py:69`): an input or PDF stays for ever when a process
  is cut off between file and row, when a run saves a file for a row that was purged, or when two runs
  each store a PDF (`mixed` in `PrintConversion`).
* "The socket rechecks ... before every client action" (`src/docs/API_SECURITY_AND_AUTH.md:68`): an
  answer is good for twenty seconds (`chat/consumers.py:28`), and the typing of others is delivered
  without a check. `StaleBounded` is what the code promises.
* "At most one push per member per chat in this window" (`chat/notify.py:25`): a notification that is
  made anew, because the last was read, rings without asking the window (`excused`). "The in-app
  notification keeps counting", but two tasks that meet may lose a count, or one of them its
  notification (`spoilt`).
* A deleted mark that is brought back is not refused when the limit of marks is reached
  (`annotations/services.py:185`, against `:163` for a new one).

The other properties of these modules exclude exactly these causes (`torn`, `replaced`, `reverted`,
`outlived`, `mixed`, `spoilt`, `excused`, the sweep in `EndsAtStatus`), so they show that nothing else
breaks them.

## 6. What is not modelled

Prices, quotes and rounding of money; the content of documents and their rendering; the wording of
notifications; audit rows; permissions and roles (who may call an operation: guards here are those on
state); throttles, caches of flags and reference data; the delivery of e-mail. Chat messages themselves, their
moderation and the read cursors (which only advance, under the lock of the member's row), support
tickets and feedback (a status machine each, under a row lock): they have few ways to go wrong that a
unit test does not reach. Saved templates, price rules, printers, the viewer sessions of the library,
card images and their tickets. The parts of section 1 without a
module are listed in `PROJECT.json` with the reason, those worth modelling in the plan. Deadlocks of
the database are outside: a transaction is an action, so the order in which it takes its locks is
not seen; PostgreSQL aborts one of two that wait for each other, and the abort is a step that did
not happen.

## 7. Plan

The order was that of importance. Done: orders, payments and agents; stock; idempotent writes; terms
and memberships; the account; verification and profile; library files, lectures and print conversions;
push delivery; codes and lockout; annotations; sockets and notices of the chat.

Left to model: viewer sessions and tickets of protected documents; support tickets and feedback; the
read cursors of the chat; price rules with the rounding of money.

Left to prove: nothing but liveness, which the provers cannot reach. A new action
is first held against the invariant of its module: the proofs have a lemma for each kind of step.

The project is kept small enough to be run and read in one go: a new module gets one passing run, and
a new property takes the place of a shallower one, of those that are proved first. What loses its
run stays stated in its module and documented here, as `AnswerHasCurrency` and `OwnPasswordKept` do.
