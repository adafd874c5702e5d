# CivilCheck in TLA+

CivilCheck is a marketplace for property verification: a buyer pays an Expert (or
an Admin) in two 50% legs for a report, has seven days to dispute it, and the
Expert is paid when nobody does. It also sells ready reports of sellers, research on
request, and advertising. The money crosses three systems that share no
transaction: Postgres, Razorpay, and a bank. This directory models the part of the
API that keeps them together, `apps/api`, checks it with TLC and proves the most
important results with TLAPS.

## 1. Inventory

All paths are under `src/apps/api/src`. Every component is an Express handler, a
service function or a scheduled sweep of one Node process; they share nothing but
the Postgres tables, and any two may interleave at every `await`. A `$transaction`
runs at READ COMMITTED; a guarded `updateMany` is atomic with its `WHERE` clause.

| Component | State it keeps | Operations | Interacts with | Hard behaviour | Correct when |
|---|---|---|---|---|---|
| Verification payments (`payment.service`, `verification.controller`, `webhook.controller`) | `PaymentOrder`, `VerificationRequest.status` | create order, finalize advance/final, strand | Razorpay, ledger, cancellation | at-least-once webhooks, verify racing webhook, status written after an await, claim before settlement | every captured payment is booked once or refunded once; the report needs both legs |
| Verification lifecycle (`verification.service`) | request, quotes, report | quote, accept, start, link, report, cancel | payments, ledger, refunds | cancellation racing capture; two duplicate checks that read before they insert | a status only moves forward; a cancelled buyer gets the money back |
| Ledger and earnings (`ledger.service`) | `LedgerEntry`, `ProfessionalEarning` | capture, promote, cancel, reverse, summary | called inside the callers' transactions | unique keys are the last guard against a replay | earnings are the Expert's captured legs |
| Review window (`verificationSettlement.service`, `verificationExpiry.service`) | `buyerAcceptanceStatus`, `Claim`, `claimDeadline` | accept, claim, expire | admin decisions, payouts | three-way race under a row lock; the deadline instant | earnings leave the hold only without a claim |
| Claims and refunds (`admin.controller`, `refund.service`) | `Claim`, `Refund` | resolve, process, reject | Razorpay, ledger reversal | decisions taken on a stale read; claim of the refund row before the call | one refund per claim; a refund is paid once |
| Payouts (`payout.service`, `razorpayPayouts`) | `PayoutRecord` | request, process, webhooks, manual review | bank transfer, earnings | time-out after the transfer left; webhook before the id is stored; retries | an earning is paid at most once |
| Report sales (`payment.service`, `penalty.service`, `admin.controller`) | `Purchase`, `PaymentOrder`, `Refund`, the seller's strikes | order, unlock, refund, strike, suspend | Razorpay, refunds | claim, look-up and insert in separate statements; a penalty refunding while admins do | a paid order unlocks the report; a purchase is refunded once |
| Special requests (`specialRequest.controller`, `specialRequestSla.service`, `payment.service`) | `SpecialRequest`, `SpecialRequestPayout`, `Refund` | pay, assign, accept, decline, submit, approve, reject, two deadlines | Razorpay, refunds, weekly settlement | unconditional writes after a read; sweep against admin | no work without an advance; no refund without a payment; no work waits for ever |
| Weekly settlement (`settlement.service`, `lib/scheduler`) | `settled` of `Purchase` and `SpecialRequestPayout`, the week key in memory | tick, claim, pay, release | bank transfer | two tables claimed in two statements; release after an ambiguous failure; two instances | settled means paid; a row is paid once; what is owed is paid |
| Rewards (`reward.service`) | adjustments, redeem requests | earn, redeem, decide | - | concurrent decisions | the balance stays non-negative |
| Quality control (`penalty.service`, `review.service`) | penalties, accuracy | penalize, review | refunds | escalation counts | one step per offence |
| Advertising (`advertising.service`, `rotation`) | `AdCampaign`, `AdvertisingPayment`, a 15 s list of eligible campaigns | pay, approve, pause, serve, bill, reject, refund | Razorpay | late captures, spend at the budget, a stale list, refund events | a campaign is served only when paid and up to its budget |
| One-time codes (`passwordReset`, `emailVerification`, `twoFactor`) | code rows, attempts | issue, verify | - | concurrent attempts | a code is consumed once |
| Reconciliation (`reconciliation.service`) | issue rows | sweep | Razorpay | reports drift of the above | every drift is reported |
| Scheduler (`lib/scheduler`) | - | runs the sweeps | all sweeps | restarts | sweeps of a process do not overlap |

`PROJECT.json` says of each component whether it is modelled, in part or not at all.
Authentication, most of KYC and of listings, search, feed, notifications, support,
content, PDF, audit and the four client applications are left out: CRUD, external calls
or output only.

## 2. Modules

| Module | Models | Run by | Proved in |
|---|---|---|---|
| `VerificationPayment` | the paid life of one request | `MCVerificationPayment` | `VerificationPaymentProofs` |
| `PaymentPromise` | what is promised about one payment (abstract) | refined by `VerificationPayment` and `ReportSale` | refinements in `VerificationPaymentProofs` and `ReportSaleProofs` |
| `RefundPromise` | what is promised about one refund row and its money (abstract) | refined by `RefundExecution`, `ReportSale` and `SpecialRequest`, no run | refinements in their three proof modules |
| `ClaimSettlement` | the review window and claims of one delivered request | `MCClaimSettlement` | `ClaimSettlementProofs` |
| `ProfessionalPayout` | the payouts of one Expert and the bank | `MCProfessionalPayout` | `ProfessionalPayoutProofs` |
| `RefundExecution` | paying the refunds of one request, and their ledger reversal | `MCRefundExecution` | `RefundExecutionProofs` |
| `ReportSale` | selling one listing's report, its refunds, the three-strike penalty | `MCReportSale` | `ReportSaleProofs` |
| `SpecialRequest` | one special request, its advance, payout, refund and deadlines | `MCSpecialRequest` | `SpecialRequestProofs` |
| `WeeklySettlement` | the weekly payout of sales and special requests, several instances | `MCWeeklySettlement` | `WeeklySettlementProofs` |
| `Advertising` | one campaign: payment, moderation, serving, billing, refund | `MCAdvertising` | `AdvertisingProofs` |

The first four follow the money of a verification: what `VerificationPayment` leaves on hold
(`UnlockedEarningsOnHold`) is the initial state of `ClaimSettlement`, whose
`AVAILABLE_FOR_PAYOUT` is where `ProfessionalPayout` picks an earning up; `RefundExecution` carries out the refunds the
others only create. The next two are the other products, and what they leave - a purchase,
the payout row of an approved request - are the rows `WeeklySettlement` pays. `Advertising`
stands alone: its payments and refunds have tables and code of their own. A database
transaction is one step unless the text below says otherwise; statements outside a
transaction, and reads before one, are steps of their own.

### VerificationPayment

One verification request, a set of `Orders` (Razorpay order ids) and a set of
`Handlers`: slots in which HTTP or webhook handlers run. An action is one committed
statement or transaction. `pc[h]` names the statement a handler runs next,
`handled[h]` its order and `counted[h]` the paid orders a cancellation read. So the
shape of `createVerificationAdvanceOrder` - read the status, call Razorpay, insert the
row, write the status - is `CreateOrder`, `RecordOrder` (or `OrderRefused`),
`RecordPending`, with every other handler free to run in between. `Finalize` is the
guarded claim `CREATED -> PAID`; `SettleAdvance`/`SettleFinal` the transaction after
it, `SettleMissed` its `count === 0` branch, `RefundStrandedPayment` what follows.
`Cancel`, `ReadPaidOrders`, `CommitCancel`/`CancelLost` are the three parts of
`executeCancellation`; `SubmitReport`, `CommitReport` those of
`submitVerificationReport`. `Charge` and `Decline` are Razorpay, as the code uses it.
`Crash` is a restart of the process.

Amounts are abstracted to the orders they stand for. The final settlement writes
`FULLY_PAID` and `REPORT_UNLOCKED` in one transaction, so `FULLY_PAID` is never
observed and not a status of the model. `PlatformSetting`'s fee rate matters only in
being 0, between, or 1 (`FeeRate`).

`Money` maps an order to the state of `PaymentPromise` (`open`, `claimed`, `recorded`,
`flagged`). `KeepsPromise` and `FulfilsPromise` say that the detailed module
implements the abstract one.

### ClaimSettlement

Starts where `VerificationPayment` ends: the report is delivered, the earnings on
hold (`UnlockedEarningsOnHold`), the review window open, and the status stays
`REPORT_UNLOCKED` (a late status write of order creation is the one way it does not: see
section 3). `acceptReport`, `createClaimWithFreeze`
and `expireClaimWindowIfEligible` hold the row lock of the request between their
checks and their commit: `LockFree` is a guard of their first action and the session
is at a `LockedPoints` label until the second. `resolveClaim` takes no lock: `ReadClaim`
reads, `CommitVerdict` writes what it decided, `VerdictRefused` is the roll-back on a
unique index. `ExecuteRefund` is the claim of the `PENDING` refund, followed by
`RefundFailed` or `CommitReversal`. The clock has three values relative to the deadline
(`before`, `at`, `after`), because the code compares with `>` in one place and in
another with `<=`.

### ProfessionalPayout

`RequestPayout` is the transaction that claims what is available. `Process` is the read
of the record, `BankAccepts`/`BankTimesOut`/`BankRefuses` the three ways `createPayout`
ends (a time-out or an unreadable answer leaves a transfer the code knows nothing of),
`CommitProcessing` or `ProcessingLost` the transaction, `Fail` the catch block. A webhook
is found by the stored payout id (`PayoutProcessed`, `PayoutFailed`, `PayoutReversed`),
then runs its statements one at a time; an event without a record has no step, because
it changes nothing. `ResolveReview` is a stale read followed by `CommitRetry` or
`CommitWriteOff`. `ReverseForRefund`/`CommitReversal` are the read and the unconditional
write with which the refund pipeline reverses an earning. `Settle` is the bank.

The amount of a record is the set of earnings it adds up. `retries` counts up to
`MaxRetries` only: the code compares it with that bound and nothing else, and resets it
to 0, so the saturated counter behaves the same.

### RefundExecution

The orders of one request in the order of `createdAt`, the refund rows the code creates
for it - `StrandPayment`, `CancelRequest`, `ApproveClaim` - and concurrent calls of
`executeRefund`. `ExecuteRefund` is the guarded claim of the row; `RefundPayment` and
`RefundRefused` are the answers of Razorpay, a paid refund whose answer timed out
included; `ReleaseClaim` is the catch block, `ReadLedger` and `BookRefund` the first read
and the writes of the ledger transaction, `RejectRefund` an admin. `Interrupt` ends a call
at any statement: a restart, or an exception outside the `try`.

Amounts matter here, so they are numbers: every leg is `Half` of the fee and a
cancellation keeps `Kept` of each order. `Remaining`, `Share`, `Leftover` and `Marked` are
the loop of `recordReversalForRefund` in closed form: what is left of the refund when the
loop reaches a capture, what it takes from it, what is left at the end, and whether the
capture is closed. An earning is only `LIVE` or `REVERSED`; the statuses between are those
of the two modules before. Sources of refunds are single steps: their races are
`VerificationPayment`'s subject.

`RefundPromise` is what the three callers of `executeRefund` share, whatever the refund is
for: `row` is `none`, `pending`, `held` (one caller has claimed it and waits for Razorpay),
`left` (PROCESSED, and nobody works on the payment any more) or `rejected`, and money leaves
only from `held`. `Row` in each of the three proof modules is the refinement mapping: a
PROCESSED row is `held` while some handler is between the claim and the answer.

### ReportSale

One listing, its seller, the `PaymentOrder` rows of its buyers, their purchases and
refunds. A purchase is named by the order whose handler created it, which is what lets
`PaidIsUnlocked` say whose purchase an order is linked to. `ClaimOrder` is the guarded
claim of `finalizeReportUnlock`; `FindNone`/`LinkEarlier`, `CreatePurchase` and
`LinkCreated` are its three later statements, so that two orders of one buyer interleave.
Two places are coarser than the code: `LinkEarlier` has the lookup of an earlier purchase and the
link to it in one step, which changes nothing because purchases are never deleted, and
`CreateOrder` has the checks, the call of Razorpay and the insert in one: whatever happens between
check and insert, no other step is affected by an order that nobody has paid yet, so the
insert may as well come first. A buyer may still have several orders.
`InsertRefund` carries the partial unique index on active refunds of a purchase.
`ProcessRefund` and `ClaimRefund` are the two ways into `executeRefund`, by an admin and by
the penalty; `RefundPaid`, `RefundTimesOut` and `RefundRefused` its answers.
`FailSpotCheck`, `Strike`, `PenaltySuspend`, `ListBuyers` and `RefundNext`/`PenaltyThrows`
are `spotCheckListing` and `applyStrikeEscalation`, whose list of purchases (`todo`) is read
once and worked through. The fine and the accuracy score are left out: nothing here reads
them.

### SpecialRequest

One row, and each handler a read followed by a later write. Only approval and the sweep
repeat their condition in the write; `WriteRow` is the unconditional write of assign,
accept, decline and submit, and `RejectPaid`/`RejectUnpaid` that of a rejection. `Approve`,
`ClaimApproval`, `PublishListing` and `CreatePayout` are the four steps of an approval.
`updatedAt`, against which both deadlines are measured, is the flag `overdue`: time raises it,
every write of the row clears it. `Sweep` is a worker of its own, because `startInterval`
never overlaps a run with itself. `executeRefund` for a special request ends with
`SettleRefund`, which writes `REFUNDED`. An approved KYC and a map pin are taken as given.

### WeeklySettlement

The rows of two tables, and one run per instance of the API. `Tick` is the scheduler's
check of the hour and of the week key in memory together with the two reads of
`runWeeklySettlement`; the run then looks at its sellers in any order: `Skip` below the
threshold or without bank details, `Take` otherwise. `ClaimTable` is one of the two guarded
`updateMany`s issued together, the last of which compares the counts; `PayoutAccepted`,
`PayoutRefused` and `PayoutTimesOut` are the answers of RazorpayX; `ReleaseTable` gives the rows
that were *read* back, purchases first. `Stop` is a restart, or an error that leaves the
week key set. `paid`, `loose` and `cut` are history, for the properties. Tax and rounding
are left out: both are functions of the gross amount.

### Advertising

One campaign and its `AdvertisingPayment` rows. `RecordOrder` writes the status
unconditionally, after Razorpay answered; `FinalizePayment` is one transaction; `Transition`
is the guarded update all of moderation shares. `ReadCampaign` and `Activate` are the read and
the update of approval and resumption. `CheckRejected`, `ClaimRefund`, `RefundAccepted` (or
`RefundTimesOut`, `RefundRefused`), then `SettleRefund` or `RecordFailure` are
`refundRejectedCampaign`; `RefundEvent` its webhook. `listed` is the cached list of eligible
campaigns: `Serve` reads it however old it is, and `RecordImpression` looks at the rows, as the
transaction does. Money is in whole paise and `Spent` is the code's division. Clicks
are counted for analytics only and left out.

## 3. Runs

| Run | Specification | Shows |
|---|---|---|
| `payment_crash` | restarts anywhere | capture booked once, report only when paid, earnings follow the ledger, one refund per order when a fee is kept, fixed window |
| `payment_live` | no restarts, fairness | every PAID order is accounted for; a captured payment is booked or flagged; refinement of `PaymentPromise!Safe` and `PaymentPromise!Live` |
| `claim_window` | | a raised claim ends the hold, one refund per claim, acceptance releases only what was never disputed |
| `claim_live` | fairness | no earning stays on hold |
| `payout_safe` | | amounts follow the claims, PAID is confirmed, earnings follow their record |
| `payout_paid_again` | violation | the catch block of a second `processPayout` makes a PAID record payable again |
| `refund_safe` | restarts and time-outs anywhere | one call per refund, a processed refund is booked exactly once unless its call was cut, its shares add up, reversals have a refund |
| `report_sale` | restarts and time-outs anywhere | a PAID order is linked to a purchase of its own buyer or carried by exactly one handler; a purchase is paid back once unless a timed-out refund was rejected |
| `special_request` | restarts, fairness of the sweep | no work, payout or refund without a captured advance; REFUNDED was paid; APPROVED is paid out; no assignment or research outlives its deadline |
| `special_paid_rejection` | violation | a request rejected on a stale `advancePaid`, or paid after its rejection, keeps the advance without a refund |
| `weekly_settlement` | restarts, late answers, overlapping runs, fairness | settled means paid; paid again only after a release the code allows; what is owed is paid in the end |
| `advertising` | handlers cut anywhere | the budget is kept and a token billed once; only a paid campaign is live; REFUNDED is Razorpay's word for that payment |

The two findings in `PROJECT.json` quote the comment each violation run contradicts.
`ClaimSettlement` and `ProfessionalPayout` also define `OneActiveClaim`,
`OpenExcludesAcceptance`, `SilenceMeansNoClaim`, `ReasonWrittenOnce` and
`WebhookFindsItsRecord`, which no run checks any more: they are theorems.

Other behaviours the models contain, which a team should know of although no run is
spent on them. Verifications and their money:

- Order creation writes the status after the await of Razorpay (`payment.service.ts:393`), and
  so does the report (`verification.service.ts:764`): a cancelled request comes back to
  life, against the comment at `payment.service.ts:456`. The same write takes `ADVANCE_PAID`
  back to `ADVANCE_PAYMENT_PENDING`, so that two orders of one leg are captured, and
  `REPORT_UNLOCKED` back to `FINAL_PAYMENT_PENDING`, where a delivered request can be
  cancelled.
- A capture that settles between the sum of `executeCancellation`
  (`verification.service.ts:839`) and its transaction is refunded nowhere, against the comment
  at `payment.service.ts:454`. The sum also counts a stranded payment that already has a
  refund row of its own (`payment.service.ts:463`), so the two refunds exceed the payment.
- `payment.failed` of an earlier attempt (`webhook.controller.ts:158`) makes the capture of
  the next attempt on the same order "already processed" (against line 17 of the same
  file): it is never settled. Advertising claims FAILED orders too and has no such gap.
- A restart between the claim of an order and its settlement leaves a PAID order that is
  neither booked nor refunded: `PaidIsAccounted` is claimed without restarts only.
- The rejection of a second claim releases what the approval of the first left frozen
  for its refund (`admin.controller.ts:3148`, against 3116).
- At the very instant of the deadline the sweep expires the window and a claim is still
  accepted; a claim decided `RESOLVED` leaves its earnings `FROZEN` for ever; the
  later of two concurrent decisions overwrites a final one.
- An earning reversed for a refund while its record is `RETRYABLE` is set back with the rest
  of the record and paid; the record's amount never followed the reversal.
- A refund that timed out after Razorpay paid it is given back and paid again by the next
  call: there is no idempotency key. A call cut between the claim and the ledger
  transaction leaves a PROCESSED refund without entries, against the comment at
  `refund.service.ts:113`; `ProcessedIsBooked` names these rows.
- `executeRefund` refunds the latest PAID order, whatever the refund is for: a claim
  refund of the whole fee is asked of one half of it. Processing the refund of a stranded
  payment reverses the gross entry of another payment, and the Expert's earning with it,
  because the stranded one never was in the ledger.
- A partial reversal leaves its capture `RECORDED`, so that the next refund, or a
  concurrent one, takes the whole capture again: `RefundIsMatched` holds of each refund,
  not of their sum. Earnings in `MANUAL_REVIEW` are neither reversed nor flagged.
- Between the update of a payout record and that of its earnings a restart leaves the
  record PAID and the earnings `PROCESSING`, and redelivery ignores it:
  `PaidEarningsFollow` is claimed without restarts.

Report sales:

- Two orders of one buyer that are finalized at the same time both find no earlier purchase
  and create one each (`payment.service.ts:225`), which the comment above that line
  excludes. `PaidIsUnlocked` therefore says whose purchase an order is linked to, not that a
  buyer has one. Nothing refunds the second payment in either case.
- `approveListing` (`admin.controller.ts:714`) does not look at the seller, so a suspended
  seller can have a listing on sale (against `kyc.service.ts:378`).
- A refund opened by an admin while the penalty works through its list makes the penalty's
  insert throw, and the buyers after it are not refunded (`penalty.service.ts:88`).

Weekly settlement:

- `docs/qa-audit-2026-08-03.md:98` calls the claim "genuinely safe against ... concurrent
  settlement runs". A run whose claim comes up short gives back every row it *read*
  (`settlement.service.ts:104`), those another run took and is paying included; the next run
  pays them again. It takes two instances, which the header of `scheduler.ts` rules out;
  `loose` counts these releases, and with one instance there are none.
- A payout that timed out is given back although the money may have moved (line 135), and
  is paid again a week later. A run that is cut leaves rows settled and unpaid, as the
  comment at line 76 accepts (`cut`). A payout RazorpayX reverses later is seen by nobody.
- Refunded purchases are settled like others: the query does not look at refunds.

Special requests:

- Decline (`specialRequest.controller.ts:397`) and assign (534) look at no status: a request
  that is approved, rejected or refunded can be handed to a seller again. `ApprovedIsPaidOut`
  and `RefundedIsSent` hold of the status as it is.
- A decline that lands between accept and submit leaves a COMPLETED request without a
  seller, which the comment at 702 excludes; its approval pays nobody (`orphaned`).
- The sweep and an admin may each open a refund of the same request, against the comment at
  `specialRequestSla.service.ts:55`: the rejection does not repeat the status it read, as
  the sweep does, and the partial unique index covers purchases only. With the single
  refund id of the run the second of the two ends in `RunOutOfIds`.
- "One order is created per special request" (`payment.service.ts:284`) is not so since
  the retry endpoint: the second of two paid orders is never refunded.

Advertising:

- A redelivered `refund.failed` of an earlier refund of the same payment resets PROCESSING to
  FAILED while a later call is under way, and a retry makes a second refund, against the
  comment at `advertising.service.ts:291`. So does a time-out after Razorpay accepted.
- `refund.processed` that arrives before the id of the refund is stored is dropped; if
  the answer said "pending", the payment stays PROCESSING.
- `startCampaignPayment` writes `PAYMENT_PENDING` unconditionally (189): a campaign paid
  through another order in the meantime is pulled back, and needs a second payment, which
  nothing refunds.
- A budget that the price of an impression does not divide is never EXHAUSTED: the campaign
  stays ACTIVE with a rest nobody can bill.

### Bounds

- Three orders and two handlers: enough for an advance, a final and a surplus order of
  either leg, and for any two handlers to interleave at every statement. All
  disagreements found need at most two handlers. Orders and handlers are
  interchangeable, so the safety runs use symmetry.
- `payment_live` uses two orders and no symmetry, as temporal properties require.
- Two claims (the second raised after the first was decided), two earnings (the two
  legs), two sessions; one claim and one earning for liveness.
- Two earnings, records and transfers and two handlers for payouts: an earning can be
  available while another is retried, and two admins or an admin and a webhook interleave
  at every statement. `MaxRetries` is 1 in `payout_safe`, where every failed call of the
  bank ends in manual review and every reported failure is retried, so both branches are
  taken; `payout_paid_again` uses the 3 of the code. A transfer id is used once, so two
  transfers mean at most two attempts in all.
- Three orders, three refunds and two calls: an advance, a surplus payment and a final,
  with a refund of each kind. `Half` 3 and `Kept` 1 make a cancellation's refund end inside
  a capture, a claim's cover two, and a third find too little left.
- Two buyers, orders, refunds and handlers for report sales, so that two orders are one buyer's
  or two buyers'; three strikes, the code's threshold, happen.
- One row of each table and one seller for the settlement, of 250 or 500 rupees against the
  code's threshold of 500: one row may reach it alone, both together, or neither. Two
  instances, one overlapping run, one late answer, one stop: each of these can happen in
  every position, and one more would repeat it.
- Two sellers, one order, one refund, two handlers and the sweep for a special request, and
  two assignments: a declined request is assigned again, to the other seller. A worker that needs a
  second refund row ends (`RunOutOfIds`), as a restart would end it; proofs allow any number.
- Two payments, two refunds at Razorpay, three tokens and two handlers for a campaign.
  Budgets of 20 and 25 paise at 10 paise an impression - far below the 10000 paise the code
  asks for at least - are used up by two impressions, one exactly and one with a rest, with
  one token to spare.
- Nothing else is bounded: counters (`ledger`, `stranded`, `refunded`, `minted`) grow
  only with orders, claims and the handlers that carry them. With `FeeRate = "none"`
  a revived request can be cancelled once for every report or order still in flight;
  the state space stays finite because the ids are.

`CHECK_DEADLOCK FALSE` is set because a request that is delivered or cancelled, with no
handler running, has nothing left to do; the same goes for a listing, a special request and a
campaign. Only `weekly_settlement` is checked for deadlock, and never stops: the hour of the tick
comes and goes. That it gets somewhere is what `OwedIsPaid` says.

### Fairness

- A started handler runs to its end (weak fairness of its step): Node resolves every
  await of the modelled calls or rejects it. Runs with `Crash` check safety only.
- `payment.captured` is redelivered until it is acknowledged, so an order that stays
  claimable is eventually claimed (strong fairness: another handler may occupy the
  slot in between).
- The hourly sweep comes back, and the row lock is granted (strong fairness of
  `Expire`).

- Mondays come, an instance that is up ticks within the hour every time (strong fairness of
  `Tick`: its previous run may be in the way), a run and its call go on, and RazorpayX does
  not refuse the same batch for ever (strong fairness of `PayoutAccepted`). The last is an
  assumption about the outside: a refused batch is tried again a week later, for ever.
- Deadlines of a special request pass, and the sweep and its refund go on (weak fairness).
  Nothing is assumed of sellers, buyers, admins or Razorpay: `NoStaleWork` holds although
  none of them moves. Every write of the row restarts its clock, so the
  deadlines are of inactivity: an admin who reassigns a request again and again postpones
  them for ever. The model bounds assignments, and with them these postponements.

Professional payouts, refunds, report sales and campaigns are checked for safety only: whether
the bank or Razorpay ever answers, or an admin retries, is not the code's to promise.

## 4. Proofs

`tlapm` checks the eight `...Proofs` modules. The only assumptions are those of the constants:
`NoOrderAssumption`, `FeeRateAssumption` (one of three values), `NoClaimAssumption`,
`NoneAssumption`, `NoRefundAssumption` (the "none" values are no ids), `RetryAssumption`
(at least one attempt), `LastAssumption` (orders are numbered) and `AmountAssumption` (a
leg costs something, and a cancellation keeps at most that; in `WeeklySettlement`, amounts and
the threshold are numbers), `StrikeAssumption`, `AssignAssumption` and `BoundAssumption`
(bounds are numbers), `NullAssumption` and `NilAssumption` (again no ids; the sweep is no
handler), `RowAssumption` (the two tables share no id), `PriceAssumption` (budgets and the
price are positive), `TokensAssumption` and `InstancesAssumption` (finitely many tokens and
instances, so that they can be counted). The results hold for any sets of orders, handlers, claims, earnings, sessions,
records, transfers, refunds, rows, sellers, instances, tokens, and any amounts.

*VerificationPayment.* `CapturedOnce` or `DeliveredOnlyIfPaid` are not inductive: that
the advance was captured before a report exists must be known of every request that
may still be moved by a handler holding an old order. The invariant `IInv` therefore
has, besides the types, `OrderInv` (which handler carries which order, and what the
order's row then looks like), `DeliveryInv` (which legs are captured, by status and by
pending handler), `EarningInv` and `RefundInv`. Each part is preserved by a lemma with
one step per action. Without restarts, `AccountInv` adds that a `PAID` order is carried
by exactly one handler or accounted for; `PaidIsAccounted` and the refinement
`KeepsPaymentPromise` rest on it.

*ClaimSettlement.* That acceptance and claim exclude each other is decided when the
lock is granted and takes effect at the commit. `SessionInv` bridges the two: the
holder of the lock is alone (`LockInv`), and what it checked still holds (`WorkInv`).
`ClaimInv` is then preserved, and with `MoneyInv` (an earning on hold or frozen has no
release reason) so are the action properties.

*ProfessionalPayout.* What a webhook may conclude rests on what `processPayout` stored
earlier: `BankInv` ties every stored or carried payout id to a transfer sent for that
record, `ConfirmInv` makes every handler that will write PAID carry a transfer the bank
processed, and `ClaimInv` and `PaidEarningsFollow` relate a record to its earnings. Since the claim
of a record and the write of its earnings are two statements, `PaidEarningsFollow` names the
handler in between.

*RefundExecution.* `ProcessedIsBooked` needs to know, when the ledger transaction commits,
that Razorpay paid and that the refund was not booked before. `CallInv` carries both from
the claim of the row to the commit, and `CutInv` that a row whose call was cut is never
claimed again. `Shares` is the arithmetic: a share lies between nothing and the capture.
`RefundIsMatched` is a sum over the orders, for any number of them. `SumCounts` says what the
library's `SumFunction` computes, by counting: the sum of a function is the number of pairs of
an element and a rupee below its value. `TakenInOrder` then follows the loop of
`recordReversalForRefund`: what the first *n* orders give is the refund or all they have,
whichever is less. Both are inductions; `FiniteSetInduction` has them from the
well-foundedness of the strict subsets of a finite set, as a fact about a *set* of
subsets, since the provers do not instantiate theorems that take an operator.

*ReportSale.* `PaidIsUnlocked` is about orders, handlers and purchases at once: `LinkInv` says
that only a captured order is PAID, only a PAID one is linked, and to a purchase of its own
buyer. `PaidBackOnce` compares two refunds of one purchase. `OneActive` is the index: of
the two, one is REJECTED. `CarryInv` gives every claimed refund one handler, and with it
`SentInv` shows that a refund paid out in time stays PROCESSED; so the rejected one was late.
`KeepsPaymentPromise` maps an order to the abstract payment of `VerificationPayment`: claimed
once, linked (`recorded`) once, never unlinked. Only the safety part is claimed, as a
restart may leave an order claimed for good.

*SpecialRequest.* The advance is read before it matters, so `PaidInv` carries "the advance is
paid" along every handler that is past its check. `CarryInv` says that a claimed refund is
PROCESSED and in one worker's hands, and that the refund behind a REFUNDED request is in
nobody's: no release can take it back.

*WeeklySettlement.* `BatchInv` says that what a run holds is part of its seller's batch, and all
of it when RazorpayX is called; `OwnedInv`, that a settled row was paid, or was cut, or is held by a run
that has not given its table back yet. `SettledIsPaid` follows for any number of instances. So does `PaidOnce`, by counting: being
settled is a token, a payment spends one, a run that owns the row holds one, and `loose` counts
those made by giving back a row that was paid or that the run had not taken. `Balanced` says
that the tokens spent and held never outnumber those made. `PayoutsAreDue` is about the reads at the
top of a run: `PayoutIsDue` says that a batch that is claimed or paid still adds up to the
minimum and its seller still has bank details, although both were looked up statements
before and rows are earned meanwhile. It needs no value of the sum, only that it looks at
nothing but the amounts of the batch (`SameAmounts`). `PayoutIsDue` is defined beside
its proof and no run checks it.

*Advertising.* `BudgetIsKept` needs `SpentIsInt`, the arithmetic of the division, and that
billing a token that was served and not billed adds one to the cardinality.
`RefundedIsReturned` rests on `CarryInv`: the refund a handler carries was made for the payment
it carries, and one it saw processed is.

*RefundPromise.* Each action maps to one step of the promise or to none. The steps that need
the invariant are those that move the money: the answer of Razorpay must find the row
`held` by the caller itself (its claim, carried by `CallInv` or `CarryInv`) and by nobody else, so
that the release of one caller cannot give back what another holds. What it adds to
`OneCallPerRefund` and `RefundedIsSent` is order: a row that was rejected, or PROCESSED and left
behind by a restart, is never claimed or paid afterwards. It also shows what is *not*
promised: after a payment whose answer was lost the row may be given back and paid
again. The three theorems `KeepsRefundPromise` are proved only; no run has them as a property.

Only model-checked: the liveness properties `FulfilsPromise`, `HoldEnds`, `OwedIsPaid` and
`NoStaleWork`, which need fairness and `ENABLED`. Every invariant and action property a
passing run checks is also a theorem.

## 5. Not modelled, and the plan

In this order, the hazards without a property in `PROJECT.json` being the reason for
each:

1. `Rewards`: two redeem requests approved at once against one balance.
2. `QuoteMarket`: quote submission, the duplicate checks of requests and quotes, discovery
   links and messages.
3. `OneTimeCode`: attempts counted concurrently.
4. Pure algorithms: the commission split, the 50/50 split and the proportional reversal of
   commission and earning as operators against a reference definition.
5. The review average, and `Reconciliation` as an observer of the modules above.

Out of reach or out of scope: amounts beyond what tells two payments apart, the content of
reports and messages, click counts, Prisma's SQL, identity providers, the clients. Most of the
repository is of that kind - screens, CRUD and queries - so the map covers the money
and its deadlines, and little of the rest.
