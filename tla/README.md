# Formal specification of the FSI/GECX banking bundle

The repository is a retail-banking demo: a FastAPI banking service over
PostgreSQL/AlloyDB, voice and chat agents that call it through MCP tools, a
data generator with an event scheduler, and the infrastructure around them.
This directory specifies the parts whose correctness depends on the order in
which concurrent requests, resets, relays and card-network messages take
effect: what an agent may do for a customer (action proposals), what becomes
of the audit events, what moves the money of a card account, what fraud alerts do
to it, and what becomes of the events that a scheduler replays.

Paths are those of the repository; `bs/` stands for `src/banking-service/`,
PL, AP, PC and PR for `bs/services/proposal_lifecycle.py`, `action_proposals.py`,
`proposal_capabilities.py` and `playbook_repository.py`.

## 1. Inventory

| Component | State | Operations | What is hard | What makes it correct |
| --- | --- | --- | --- | --- |
| Action proposals (PL, AP, `proposal_protocol.py`, `proposal_audit.py`) | `ActionProposal` rows, audit outbox, row locks | prepare, commit (attest, claim, validate, execute), decline/revise/cancel, expiry, replay, rejection | concurrent tool calls of one session, retries, a clock that moves during lock waits, claims that fail and commit their disposition, reset and publication in flight | one open offer per session, one execution per offer, audit trail in step with the row, decided on a later turn, pinned content |
| Credit-limit capability (PC, `decisioning.py`) | pinned facts and signals in the payload | prepare, validate in two stages, apply | unlocked signals check, then a locked fact check | the limit moves only from the value the offer was pinned to |
| Playbook administration (`playbook_repository.py`, `playbook_administration.py`) | heads, revisions, change requests | create, draft, edit, publish, close, restore, recreate, retitle | pages out of date, closing without the head lock, publication racing preparation | one line of publications, no lost edit, what was reviewed is what is published, a fresh offer pins the published revision |
| Reset and generations (`voice_session_epochs.py`, `simulation.py`, `seeding_service.py`) | epoch per customer, all demo rows | bump, delete and reseed | two orders of the two steps, calls in flight | authority of an older generation does not execute |
| Audit outbox and relay (`utils/audit.py`, `scripts/audit_outbox_relay.py`) | outbox rows, relay checkpoint | record, relay a batch, prune | timestamps at insert and visibility at COMMIT, partial batches, overlapping jobs | every event is published, pruned only afterwards |
| Card network and account (`card_network.py`, `credit_card.py`, `accounts.py`, `financial_journal.py`) | credit account, holds, journal, statement lines | authorize, settle, reverse, pay, reverse a charge, raise the limit | check without lock then act under it, ORM objects older than the lock, duplicated messages | balance moves with the journal, each key posts once, freed credit becomes available |
| Ledger transfers (`ledger.py`) | deposit accounts | transfer (called by tests only) | sorted NOWAIT locks | money is conserved |
| Fraud alerts (`fraud_alerts.py`, `repositories/fraud.py`) | alerts, case actions, provisional credits | raise, extend, report, triage (recognize or dispute), resolve, expire | a commit inside an authorization, a report of two transactions, stale account and alert objects, triages with other options | one open alert per account, one release per hold, one credit per charge |
| Agent runtimes (`src/adk-agent`, the CES callbacks in `src/gecx`) | session state, turns, presentation markers | open or resume, guard, capture turns | barge-in, expired sessions | evidence belongs to the turn |
| Scenario scheduler (`src/data-generator/scheduler`) | scheduled events, Cloud Tasks, calls under way | enqueue, dispatch, cancel | redelivery, operators, timeouts, crash between post and mark | success is true, a charge is made once, every task ends |
| Underwriting callback, document AI | applications | callback, status | duplicated callbacks | one decision per application |
| Maintenance mode, web interfaces, Terraform, Dataflow/BigQuery | a flag, or none | | | not specified: no protocol state of their own |

Interactions: the runtime attests a customer turn, a presentation and a reset
generation in trusted headers; an MCP tool opens one database session and
calls the proposal service; the service's handler changes the card account and
records audit events in the same transaction; the relay publishes what was
committed; card-network calls, payments and resets change the same rows in
sessions of their own.

## 2. Modules

| Module | Models | Checked by |
| --- | --- | --- |
| `ProposalContract` | abstract promise: at most one open offer per session, executed at most once and only while open, fates final until erased | refinement in the runs below |
| `ActionProposal` | the proposal service as transactions | `MCActionProposal` |
| `ActionProposalProofs` | theorems about `ActionProposal` | TLAPS |
| `OfferProofs`, `DecisionProofs`, `ContractProofs` | theorems about `ActionProposal`: its offers, its decisions, and that it implements `ProposalContract` | TLAPS |
| `AuditRelay` | outbox, cursor, relay jobs, pruning | `MCAuditRelay` |
| `AuditRelayProofs` | theorems about `AuditRelay` | TLAPS |
| `CardAccount` | one card account with holds, journal and the paying deposit account | `MCCardAccount`, and through `FraudAlerts` |
| `FraudAlerts` | the fraud alerts of the account, composed with `CardAccount` | `MCFraudAlerts` |
| `FraudAlertsProofs` | theorems about `FraudAlerts` with `CardAccount` | TLAPS |
| `EventScheduler` | events, tasks and dispatches, composed with the bank's answers | `MCEventScheduler` |
| `EventSchedulerProofs` | theorems about `EventScheduler` | TLAPS |
| `PlaybookCatalog` | head, revisions and change requests of one playbook, under administrators with stale pages | `MCPlaybookCatalog` |
| `PlaybookCatalogProofs` | theorems about `PlaybookCatalog` | TLAPS |

The `MC` modules only add symmetry or model values to what they extend.
Operators whose name has a suffix (`Lock_none`, `KeyFree_unchecked`, ...) are
*mutations*: plausible bugs of the definition that follows them, used by
nothing. Putting one in its place makes a property of the run fail, which is
how we know that the property depends on that code.

### ActionProposal

State and code: `proposals` is `operations.action_proposals` (status, scope,
pinned facts, evidence); `audit` the set of transition events (a set because
`record_transition` derives the event id from proposal and stage and skips an
event it already wrote); `effects` counts runs of the banking action, which no
table stores; `accounts` is what an offer looks at in `cards.credit_accounts`,
one account per reset; `rowLock`, `headLock`, `customerLock`, `accountLock`
are the `FOR UPDATE` locks; `tx[r]` is one HTTP request: where it stands, its
trusted input, and the ORM's uncommitted copy of the row. `head`, `turn`,
`token`, `epoch` and `now` belong to the playbook administrator, the runtime,
the session, the reset service and the clock.

A request is split exactly where another transaction can get in, that is, at
each lock wait and each unlocked read:

* prepare: `BeginPrepare` (reset guard, headers), `PrepareLookup`/`PrepareReplay`
  (idempotency key, unlocked), `PrepareFacts` (lock the published head, look
  again, run the handler), `PrepareCustomer` (lock `users`), `PrepareScan` (lock
  and judge the active rows), `PrepareInsert` (insert, dispose of lapsed rows,
  COMMIT). The offer's clock is read before the wait for the customer row, as
  in `create` (PL:419), so `PrepareScan` and `expires` use that reading.
* commit: `CommitAttest` (present and confirm under the row lock), `CommitClaim`
  (expiry, generation, COMMITTING), `CommitSignals` (unlocked comparison),
  `CommitLock` (account lock, fact comparison), `CommitExecute` (banking
  action, COMMITTED, audit, one COMMIT). `Dispose` is the odd path of
  `execute_registered_commit`: the claim fails, and yet its EXPIRED or
  INVALIDATED is committed, with the PRESENTED and CONFIRMED events before it.
* decline, revise, cancel: `DecidePresent`, `DecideApply`.
* `RejectExpired`: the second transaction of `audited_request`, after the rollback.
* `Abort` at any point: an exception, a deadlock victim, a crash; nothing of
  the transaction remains.

`PRESENTED`, `CONFIRMED` and `COMMITTING` only ever exist inside a transaction
(a theorem, below). This is why the reconcile branch for a durable `COMMITTING`
row (PL:562-570) and the `IntegrityError` backstops of `create` are not actions:
no state reaches them.

Abstractions: one customer; all requests are alike (symmetry); playbooks
differ only in whether they revalidate the account (`Revalidated`, the
credit-limit capability); `last_limit_increase_at` is represented by the limit,
which changes with it; the evidence check is reduced to "presented on another
turn than the deciding one"; the two head checks of a prepare call
(AP:196, AP:696) hold the same lock and are one. Left out: bank-decision expiry,
bureau inquiry and counteroffers, the product row, adverse-action notices,
the audit record of a rejected request, and maintenance mode.

### AuditRelay

An event is stamped when it is inserted (`Record`) and becomes visible when
its transaction commits (`Commit`). A job takes the advisory lock and the
checkpoint, selects the first rows ahead of the cursor (`FirstOf`, `StartBatch`), publishes row by
row (`Publish`) and moves the cursor (`FinishBatch`), or fails somewhere and
rolls back (`FailBatch`), in which case the last message may or may not have
been delivered. `Prune` deletes what is older than both the retention and the
cursor, except evidence snapshots. `late` is a history variable: the events
that became visible behind the cursor. The properties about publication are
stated for the others; `PrunedEventsWerePublished` shows what happens to these.

### CardAccount

Every call reads without a lock (`Begin...`: the lookup of the RRN, of the hold,
of the account object, of the key) and does the rest in one action under the
account row lock, up to COMMIT. The sessions do not flush by themselves
(`autoflush=False`), so what a call changed before its lock is written after
it. `FeeReversal` works on `seen`, the balances the route had loaded:
`get_account_by_id(lock=True)` issues `FOR UPDATE` without `populate_existing`,
and SQLAlchemy then returns the object of the identity map as it was. All other
writers either read the account first under the lock or refresh it, but for the
fraud triage below. `StaleEnd` names the steps that work on such an object. An
authorization may be FLAGGED by the score; without an alert (alerts off, or below
the alert threshold) that makes no difference to the money (`Held`). The
journal's accounts, the mirror account, scoring, card status and currencies are
left out.

### FraudAlerts

`alerts` is `operations.fraud_alerts` with the case actions that succeeded:
`items` what an alert is about, `answers` what it was triaged for (`Nothing` for
recognized activity). `FraudNext` lets every call of `CardAccount` run beside:

* `AuthorizeOnAlert` and `RaiseAlert` are an authorization whose score calls for an
  alert. The first is one transaction. The second is cut where
  `create_message` commits: `RaiseAlert` commits hold and alert and with them gives
  up the account lock, `Reload` reads the account that the commit expired,
  `RewriteAvailable` writes the available credit computed from it, if it differs.
* `BeginTriage` reads alert and account; `Recognize` or `Dispute` is the rest up to
  COMMIT. A dispute voids a hold or credits a charge under the account lock, on the
  object read before (`Repaid`; only columns that differ from what was read are
  written, `Written`). What this alert remedied before is answered from its case
  actions.
* `BeginReport`, `Report`, `TriageReport`, then `Dispute`: a customer's report
  commits its alert before the triage. `ResumeReport` is the repetition of a
  report whose triage did not take place.
* `BeginResolve`, `BeginSweep`, `Close`: the agent's resolution and the expiry job
  read which alerts are open and close them whatever they have become.

Abstractions: a triage disputes one item, standing for several that are handled
one after the other in one transaction, all or nothing. A workflow key stands for
its selection; a triage of the same item under another key (other options) is a
triage of its own, one under the same key changes nothing and is no action. Left
out: alerts made by simulations, outcome records, replacement cards, messages.

### EventScheduler

`status`, `result`, `completed` and `task` are a schedule's rows and its Cloud
Tasks; `run[d]` is a dispatch with the request it sent to the bank, which goes on
when its sender is gone; `holds` and `charges` are the bank's side, `carried` and
`disturbed` history. The generator is one asyncio process, so a dispatch is cut
at its awaited HTTP calls: `Dispatch` (read the row and the context, mark
DISPATCHING, send), `Finish` (mark the outcome, whatever the row has become),
`TimeOut`, and `Die` (between them; the task is delivered again). `Refuse` and
`Answer` end without a call. The bank's part is `LookUp` (unlocked), then
`Authorize`, `Settle`, `ReverseHold`, `Act` or `Reject` as in `CardAccount`;
`FailAfterAlert` is an authorization that fails after the commit described above.
Which authorization a settlement is for is the code's choice (`Latest`):
the persona's last to complete, not the event's parent.

Left out: planning of the events, events with a context in their payload (alert
follow-ups), outcome records, a process that dies while it enqueues. A dispatch
dies by itself, not with all others of its process.

### PlaybookCatalog

`head` is the row of `admin.playbooks`, `revisions` and `requests` the rows of
`admin.playbook_revisions` and `admin.playbook_change_requests`, by revision
number (a unique key ties each change request to its revision). `page[c]` is
what an administrator's browser, or a preparing agent's registry, has read: the
head and the draft in separate statements, so it can be out of date and of two
times at once. A call compares the expected generation and draft version of
its page. `tx[c]` is its open transaction: what it read and will write.

The head row is locked by every call but closing (`Serial`, `HeadFree`). Under
it nothing but the status of a change request can change, so a call is split
between its check of that status (`Begin...`) and its compare-and-set
(`Commit...`); `CreateDraft` and `Restore`, which depend on no change request,
and `Create` are one step. `BeginEdit` includes the conditional UPDATE of the
draft: it looks at the request without locking it, so a closing may still commit
before `CommitEdit`. `StillOpen` is the status condition of `_finish`, which the
table's trigger repeats.

A catalog starts without the playbook (`Absent`), with the versions the bundle brings
(`Bootstrapped`), or as `Migrated` leaves it. `bootstrap_catalog`, and the migration
that created the tables, publish *every* bundled version at once, without a base or
a change request (`card-reissue`, `fraud-triage` and the wallet have two), and the
latest is the head. The migration to change requests found a catalog in which
publications compared no base, so any published revision may be the head; it wraps
each draft on the head of that day, and a wrapped draft may have a lower number than
its base. So neither the numbers nor the bases of unreviewed revisions order the history,
and `LinearHistory` speaks of `Reviewed` revisions and of the links between them.

Abstractions: one playbook (playbooks share nothing but the uniqueness of ids);
a document is a member of a small set, of which `Valid` passes
`validate_definition`; a digest is the document it was taken of; a refused call
is a call not enabled; a page is used for one call, since a second submission
equals that of another caller with the same page. Left out: retitling, the
publish policy (a deployment setting), the audit events, the read-only views, and
the in-memory repository of the tests. `ActionProposal.Publish` is
`CommitPublish` as the preparation of offers sees it: `PreparedOnPublished` is
what justifies taking a preparation's look at the head as one step.

## 3. Runs and bounds

| Run | Bounds | Shows |
| --- | --- | --- |
| `one_session` | 2 requests, 1 session, 2 playbooks (one revalidated), 2 offers, times 0..2 with TTL 1, 2 turns | all safety properties and the contract, with expiry during lock waits, retries and aborts |
| `shared_account` | 2 requests, 2 sessions, 2 target limits, 2 offers | two sessions raise one limit: pinned or refused |
| `reset` | 2 requests, 1 session, 2 offers, 2 revisions, 1 reset | reset in both orders and publication: what an offer is pinned to, where it executes, the contract |
| `progress` | 2 requests, 2 offers, time 0..1, 1 settlement | with fair locks every call ends |
| `relay` | 3 events (one of them evidence), 2 jobs, batches of 2, times 0..3, 1 failure | delivery, order and liveness of the relay |
| `prune` | 2 events | violation, section 6 |
| `fraud_alerts` | 2 calls at a time, 6 in all, 2 RRNs and holds of 1, cleared at 1 or 2, limit 1 raised to 2, 1 payment key, 2 alerts | postings, credit and alerts under every interleaving of the account's calls |
| `limit_overrun` | the same, 5 calls | violation, section 6 |
| `fee_reversal`, `duplicate_auth` | `CardAccount` alone: 2 calls at a time, 5 in all, amounts 1..2 | violations, section 6 |
| `event_scheduler` | an authorization followed by its reversal, its settlement or an answer to its alert; 2 dispatches at a time, 2 attempts per task, 1 death, 2 operator requests | success, charges and cancellation under retries, and the end of every task |
| `playbook_catalog` | 2 callers, 3 revisions, at most 2 of them bootstrapped or migrated, a valid and an invalid document, 2 edits | history, reviews and races of one playbook |

Two requests are enough for the races modelled, each of which is between
a reader and a writer of one row; two offers for one to lapse or be
decided while the next is prepared; a time step more than the TTL for an offer
to lapse while a call waits; two revisions for one publication; three for two drafts
on one head and the recreation of the one left behind; six calls of an account for
an authorization, its settlement and a report or a second authorization between
the steps of others; a clearing amount above the limit for an over-limit account;
two deliveries of a task and one death for a retry after a crash; two inherited
revisions for two published ones, either of them the head, and for a draft above
or below its base, with a third to draft from them. `MaxProposals`,
`MaxTime`, `MaxTurn`, `MaxRevision`, `MaxInherited`, `MaxResets`, `MaxCharges`, `MaxHolds`,
`MaxCalls`, `MaxAlerts`, `MaxDeaths`, `MaxRequests`,
`MaxFailures` and `MaxEdits` bound counters that the code does not bound. Deadlock checking
is off since a bounded system stops once its counters are used up; that
no call waits for ever is `RequestsFinish`.

## 4. Fairness

`ActionProposal`: strong fairness of every request's steps (`Fairness`).
PostgreSQL queues the waiters of a row lock in order, so a step enabled again and
again is granted; customers, administrators and the clock need not act, and
aborts need not happen. `AuditRelay`: a job is started again and again (Cloud
Scheduler runs one each minute, `src/deployment/terraform/cloud_run_v2.tf:1264`)
and finishes its steps; failures are bounded by `MaxFailures`, without which
nobody could promise delivery; business transactions end. `EventScheduler`: time
passes (weak fairness of `FallDue`), Cloud Tasks delivers a due task again and again
until it is acknowledged (strong fairness, since another dispatch may occupy the
only slot for a while), a bank answers and a dispatch finishes or times out (weak).
Deaths are fewer than the attempts of a task (`scheduler.tf` allows five); operators
and cancellations need not happen.

## 5. Proofs

`ActionProposalProofs` proves, for any number of requests, sessions, playbooks,
offers and resets, and whatever the bounds:

* `TypeCorrect`: `Spec => []TypeOK`;
* `ExecutedOnce`: `Spec => []ExecutedOnceIffCommitted`;
* `TentativeStatusesAreNeverDurable`: `Spec => []OnlySettledStatusesAreDurable`;
* `OffersStayAsMade`: `Spec => OffersAreImmutable`.

Assumptions: those named in `ActionProposal` (sets are non-empty, numbers are
natural, `Nobody` is no request), which TLC also evaluates.

None of them is inductive by itself. `effects[p]` could be raised twice if two
transactions carried a claim on one row, so the invariant has to speak of the
transactions: `SafeInv` says of each request that from attestation to COMMIT it
holds the row's lock, that its private copy is the committed row up to the
tentative fields, that the committed row is still `PROPOSED` while a claim is
under way, and that the stages it will record fit its program counter (`TxInv`);
of each offer that its row, its audit stages and its count of effects agree
(`TableInv`); and that decisions name rows that were inserted. `Init` implies it,
one lemma per action shows that the action preserves it, and the theorems
follow with PTL.

Three modules build on it, so that every safety property of `ActionProposal` is
proved, for the same constants:

* `OfferProofs`: `OneOpenOffer` (`OneActiveProposal`), `KeysAreUnique`
  (`OneOfferPerKey`) and `OffersPinTheHead` (`FreshOffersPinThePublishedRevision`).
  `OfferInv` adds to `SafeInv` what a preparation knows between its lookup and its
  insertion (`PrepInv`): it holds the head of its playbook, whose revision is
  still the one it pins and under which no other call can insert an offer with its
  key; past the customer lock nobody inserts into its session either, and what it
  found open there has lapsed and is its to resolve. Dropping either lock breaks the step
  of the other preparations.
* `DecisionProofs`: `ExecutedOnLaterTurnInTime` (`CommittedOnLaterTurnInTime`),
  `ExecutesInScope` (`ExecutedInItsOwnScope`) and `LimitsMoveAsPinned`
  (`LimitMovesByPinnedOffer`). A decision works on a copy of the row, so the
  invariants carry what it checked along with the copy: that it decides on a later turn
  than the offer was prepared and presented on, and claimed it in time (`TimeInv`);
  that the row is of its session and reset generation and, when it executes, that the
  account is locked and as the offer saw it (`ExecInv`).
* `ContractProofs`: `TrailTellsTheFate` (`AuditTrailMatches`), from the stages each
  program counter has already noted (`TrailInv`); and `KeepsTheContract`
  (`RefinesContract`): the mapping takes the fate of an offer from its status and
  the open offer of a session from `Current`, which is one row by
  `OneActiveProposal`; every COMMIT that inserts, executes or closes an offer is
  the step of the contract of that name, a reset is `Erase`, and all others stutter.

`PlaybookCatalogProofs` proves, for any number of callers, documents and
revisions:

* `CatalogTypeCorrect`, `HistoryIsLinear`, `DigestsAlwaysMatch` and
  `PublishedWithItsRequest`: `Spec => []P` for `TypeOK`, `LinearHistory`,
  `DigestsMatch` and `PublishedTogether`;
* `FinishedIsFinal`, `RecreationKeepsWork`, `PreparationsPinTheHead`, `ActsOnThePage`
  and `HeadMovesOncePerPage`: `Spec => P` for the action properties `FinalRequests`,
  `SupersededWorkIsKept`, `PreparedOnPublished`, `ActsOnWhatWasSeen` and
  `HeadMovesAsSeen`.

It assumes `CatalogAssumption` only, and starts from any number of bootstrapped
revisions and any mixture of migrated ones (`InheritedTables`). The line of publications
is not inductive: a publication in its second step must still be based on the head and
hold the document its row holds. `Inv` therefore adds that at most one serial call is
open (`OneSerial`), that what such a call has read still is in the tables
(`Fits`), and that the base of every draft is published and, if it was itself reviewed,
lies below the draft (`BasesPublished`): so no draft is the base of anything, the next
publication replaces the end of the line only, and the line has no circle. Two lemmas carry the bulk: `Begins`
(a call that only opens its transaction) and `Ends` (a call that changes
tables owes no more than the tables' invariant and, to the other serial calls,
`Fits`; by `Alone` there are none if it is serial itself). A closing is the
only call that changes a table while another holds the head: `CloseStep` shows
that it changes nothing `Fits` speaks of.

That callers act on what they saw compares a page with the tables, so `Seen` relates the
two: a page shows the present head or one of an older generation, and of its
revision the present content or an older version (`PageInv`); and what a call has compared
under the locks still agrees (`ComparedInv`). It needs that versions and the
generation only grow and grow with every change of what they stand for (`Forward`): a
version that an edit left as it was would let a page of the old content pass.

`EventSchedulerProofs` proves, for any schedules, any number of dispatches at a
time, attempts, deaths and requests:

* `SchedulerTypeCorrect`, `SuccessIsTrue`, `SettledOnce` and
  `FailedInVainIsExplained`: `Spec => []P` for `TypeOK`, `SucceededMeansDone`,
  `ChargedOnce` and `FailedInVainOnlyWhenDisturbed`;
* `CanceledStaysCanceled`: `Spec => CanceledIsFinal`.

It assumes `SchedulerAssumption` only. That a success is true depends on what the
dispatch was told and on the hold it found: `RecordsTrue` adds that an answered
success was carried out on the hold the dispatch names, that a hold which was not
declined was asked for by the event whose number it bears, and that a dispatch of
an authorization is about itself. Whether an event failed in vain depends on the
order of its dispatches: `Calm(e)` says of an event with no lost answer and no
overlap that at most one dispatch serves it, that this one waits with the row
DISPATCHING, and that what was done for the event has been answered to it or
marked. `Inv` joins both with the types; each step owes `Calm` only of the events
it does not disturb.

`AuditRelayProofs` proves, for any number of events, overlapping jobs and
failures and every batch size and retention:

* `RelayTypeCorrect`, `NothingSkipped` and `OneDeliveryPerFailure`:
  `Spec => []P` for `TypeOK`, `PassedEventsWerePublished` and
  `RedeliveryOnlyAfterFailure`;
* `CursorOnlyAdvances`: `Spec => CursorNeverMovesBack`.

It assumes `RelayAssumption` only. The cursor passes what a job has read much
earlier, so the invariant follows the batch under way: its job alone holds the
advisory lock (`OneRuns`); its rows are still committed, in order and ahead of the
cursor, so pruning cannot take them (`Ordered`); it lacks no row before its end but
those committed late (`Complete`); what it sent was delivered (`Progress`). Redelivery
needs to know where the extra delivery is: an event delivered more often than batches
failed is behind the cursor or in the sent part of the batch (`DeliveriesCounted`).
`RowsMove` handles every step of a business transaction or of pruning at once.

`FraudAlertsProofs` proves, for any number of calls, references, alerts and
amounts, of the account with its alerts:

* `TypeCorrect`, `NothingPostsTwice`, `NothingReleasedTwice` and `OneAlertAtATime`:
  `FraudSpec => []P` for `TypeOK`, `PostedOnce`, `ReleasedOnce` and `OneOpenAlert`;
* `BalanceFollowsJournal` and `CreditStaysTrue`: `FraudSpec => P` for the action
  properties `BalanceMovesWithJournal` and `CreditIsTrue`;
* `OverrunsAreExplained`: while the available credit is not overstated, what is approved
  fits the limit. Together with `CreditStaysTrue` this bounds the violation that
  `limit_overrun` shows: before an overrun a step worked on a stale account object, rewrote
  an older recalculation, committed the hold of a new alert early or added past a clamp.

It assumes `AccountAssumption` (amounts are positive, limits and deposits natural). `Inv`
speaks of the rows: what a call has
read names rows that are there (`Fits`), and a hold that an alert has released is
not held any more (`ReleasedIsGone`), which is why a second alert finds nothing to
release although its triage began before. Every action is shown to be a `Move`:
holds are appended or end, lines are posted under a fresh key, an alert is raised
while none is open, answered or closed, and never reopened, even by a triage that
writes over a status it read long ago.

The money is a sum over rows of any number, `SumOf`. What it computes is
shown without an induction rule: a set of naturals that has 0, and n + 1 with n, is `Nat`
(`CountsUp`, from the least element of its complement, `WFMin`), so the set of
lengths for which two sums agree, or differ by one amount, has them all. Two lemmas are
all the rest needs: one amount more adds itself (`SumOfAppend`), one changed amount
changes the sum by the difference (`SumOfExcept`). `MoneyMoves` then says of each action
that amounts stay in their domain, that the balance and what is owed move alike, and that
available credit which was enough, and no more than is left, remains so. Most actions end
in a recalculation, which is exact by itself (`RecalculatedIsTrue`); a limit increase, a fee
reversal and a declined or flagged authorization do not, and for them the clamps at zero and
at the limit matter: a lower balance or a higher limit frees at most its amount
(`HeadroomOfPayment`, `HeadroomOfLimit`), and all of it short of the clamps
(`HeadroomShortOfClamps`). What a stale account object, the unlocked rewrite, the early commit
and the clamps do is left to the exceptions the property names; TLC finds `CreditIsTrue`
violated when any of the four is dropped.

Model-checked only: liveness under fairness (`RequestsFinish`, `EveryTaskEnds`,
`VisibleEventsArePublished`), which with ENABLED is beyond the prover. Every other
property of a passing run is a theorem.

## 6. Where the code and its documentation part

* `prune`: an event committed behind the cursor is never relayed and is
  then pruned, although "unrelayed rows are never eligible for deletion".
* `fee_reversal`: a charge reversal that waited for the account lock writes back
  the balance it had read before and erases what was posted meanwhile.
* `duplicate_auth`: two simultaneous deliveries of one authorization
  place two holds; the RRN check is unlocked and no constraint backs it.
* `limit_overrun`: the first alert of an account sends its message with a COMMIT in the
  middle of the authorization, which ends the account lock before the hold is
  taken off the available credit; another authorization is then approved over
  the limit.

Known and not stated as properties:

* action proposals: spending between preparation and commit invalidates a limit offer
  (`balance_minor` is among the digested signals, `decisioning.py:849`), although
  `runtime_neutral_action_proposal_protocol.md:122` says it does not; the generation is
  compared with the caller's header only, so a commit admitted before a bump
  executes after it;
* account: a settlement and a reversal that both found a hold pending both succeed,
  the later status winning; a limit increase or a fee reversal on an over-limit account
  adds its whole amount to an available credit clamped at zero (`PastClamp`); a repeated authorization whose hold
  is FLAGGED is answered "51" after a first "00"; the card is checked before the
  account lock, so a card blocked meanwhile can still be authorized;
* fraud alerts: a triage has the same stale account read as the fee reversal; the
  sweep and the resolution overwrite an alert that was answered meanwhile; a triage
  accepts closed alerts; an alert about charges only lets any hold be disputed; a
  charge may be both reversed and provisionally credited; a triage with other
  options issues another replacement card;
* scheduler: an event left DISPATCHING by a crash cannot be canceled; a settlement
  delivered again after a crash is marked FAILED though it was done, and a repeated
  flagged authorization loses its alert id; overlapping dispatches can overwrite
  CANCELED;
* playbooks: an edit that found its change request open can commit after a closing
  did, since the closing does not wait for the head row and the edit does not lock
  the request (PR:653, PR:795; the draft stays unpublishable).

## 7. Plan

1. (done) `ProposalContract`, `ActionProposal`, `AuditRelay`, `PlaybookCatalog` and
   `EventScheduler` with their theorems; `CardAccount` and `FraudAlerts`, theorems
   about their rows and their money.
2. Retitling in `PlaybookCatalog` and its refinement of the single step `Publish`,
   `AgentSession` (turns, presentation evidence, closeout and resume, in the ADK
   runtime and the CES callbacks), the underwriting callback.
3. Proofs: refinement of the single step `Publish` once it is stated (2).
