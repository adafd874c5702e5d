------------------------- MODULE VerificationPayment -------------------------
(***************************************************************************)
(* The paid life of one verification request: accept, the two 50% payment  *)
(* legs, the report, and cancellation, as the handlers of the API run it.  *)
(*                                                                         *)
(* Every HTTP or webhook handler is a sequence of awaited database calls,  *)
(* and any other handler may run between two of them.  A handler that      *)
(* spans several awaits is therefore a slot h of Handlers: pc[h] says      *)
(* which await it will run next, handled[h] which payment order it carries *)
(* and counted[h] what it read before the await.  One action is one        *)
(* committed statement or one committed transaction (READ COMMITTED; a     *)
(* guarded updateMany locks the row and re-evaluates its WHERE clause).    *)
(*                                                                         *)
(*   payment.service.ts          order creation and the finalize functions *)
(*   verification.service.ts     accept, start, link, report, cancel       *)
(*   verification.controller.ts  the guards in front of order creation     *)
(*   ledger.service.ts           capture, promotion, cancellation entries  *)
(*   webhook.controller.ts       payment.captured / payment.failed         *)
(*                                                                         *)
(* Amounts are abstracted to which orders they stand for: a leg is always  *)
(* one order, a cancellation refund is the set of orders it adds up.       *)
(***************************************************************************)
EXTENDS Naturals, FiniteSets

CONSTANTS
  Orders,     \* Razorpay order ids that may be minted for the request
  Handlers,   \* slots for concurrently running handlers
  NoOrder,    \* "no order": an unset reference
  FeeRate     \* PlatformSetting.cancellationFeeRateAfterAcceptance

ASSUME NoOrderAssumption == NoOrder \notin Orders

\* "none": rate 0, "part": 0 < rate < 1, "all": rate 1.
ASSUME FeeRateAssumption == FeeRate \in {"none", "part", "all"}

VARIABLES
  \* the VerificationRequest row
  status,       \* VerificationRequestStatus
  hasTarget,    \* listingId or propertyId is set
  byExpert,     \* assignedSellerId is set (else an Admin performs the work)
  hasReport,    \* a VerificationReport row exists (requestId is unique)
  feeRecorded,  \* the CANCELLATION_FEE ledger entries exist (unique key)
  claimWindow,  \* the order whose capture set reportCompletedAt/claimDeadline
  \* the PaymentOrder rows and what hangs off them
  order,        \* PaymentOrder.status, "NONE" before the row exists
  leg,          \* PaymentOrder.kind
  ledger,       \* how often recordCaptureLedgerEntries ran for the order
  earning,      \* ProfessionalEarning.status of the order's earning row
  stranded,     \* Refund rows created by refundStrandedPayment
  refunded,     \* Refund rows of a cancellation that add this order up
  \* Razorpay
  issued,       \* orders whose id reached the buyer's checkout
  charged,      \* orders whose payment Razorpay captured
  declined,     \* orders with a failed payment attempt
  \* the running handlers
  pc, handled, counted

requestVars == <<status, hasTarget, byExpert, hasReport, feeRecorded, claimWindow>>
orderVars   == <<order, leg, ledger, earning, stranded, refunded>>
gatewayVars == <<issued, charged, declined>>
handlerVars == <<pc, handled, counted>>
vars == <<requestVars, orderVars, gatewayVars, handlerVars>>

Statuses == {"OPEN", "ACCEPTED", "ADVANCE_PAYMENT_PENDING", "ADVANCE_PAID",
             "IN_PROGRESS", "COMPLETED", "FINAL_PAYMENT_PENDING",
             "REPORT_UNLOCKED", "CANCELLED"}
\* FULLY_PAID is written and overwritten inside one transaction
\* (SettleFinal): no other session ever reads it.

Legs == {"ADVANCE", "FINAL"}

\* The next await of a handler: idle slots run nothing.
Points == {"idle",
           "createOrder", "recordPending",
           "settle", "strand",
           "readPaidOrders", "commitCancel",
           "commitReport"}

\* The handlers that carry an order.
OrderPoints == {"createOrder", "recordPending", "settle", "strand"}

CancellableStatuses == Statuses \ {"REPORT_UNLOCKED", "CANCELLED"}
DiscoveryLinkableStatuses == {"ADVANCE_PAID", "IN_PROGRESS"}

PaidOrders == {o \in Orders : order[o] = "PAID"}

\* What the settlement of a leg requires and writes.
PendingStatus(l) ==
  IF l = "ADVANCE" THEN "ADVANCE_PAYMENT_PENDING" ELSE "FINAL_PAYMENT_PENDING"

Init ==
  /\ status = "OPEN"
  /\ hasTarget \in BOOLEAN        \* a DISCOVERY request starts without one
  /\ byExpert = FALSE
  /\ hasReport = FALSE
  /\ feeRecorded = FALSE
  /\ claimWindow = NoOrder
  /\ order = [o \in Orders |-> "NONE"]
  /\ leg = [o \in Orders |-> "NONE"]
  /\ ledger = [o \in Orders |-> 0]
  /\ earning = [o \in Orders |-> "NONE"]
  /\ stranded = [o \in Orders |-> 0]
  /\ refunded = [o \in Orders |-> 0]
  /\ issued = {}
  /\ charged = {}
  /\ declined = {}
  /\ pc = [h \in Handlers |-> "idle"]
  /\ handled = [h \in Handlers |-> NoOrder]
  /\ counted = [h \in Handlers |-> {}]

(***************************************************************************)
(* Handler bookkeeping                                                     *)
(***************************************************************************)
Begin(h, point) ==
  /\ pc[h] = "idle"
  /\ pc' = [pc EXCEPT ![h] = point]

Finish(h) ==
  /\ pc' = [pc EXCEPT ![h] = "idle"]
  /\ handled' = [handled EXCEPT ![h] = NoOrder]
  /\ counted' = [counted EXCEPT ![h] = {}]

(***************************************************************************)
(* verification.service.ts: the steps that are one guarded statement       *)
(***************************************************************************)

\* acceptVerificationQuote: the OPEN -> ACCEPTED claim. Only an Expert may
\* quote on a request that has no target yet (submitVerificationQuote).
AcceptQuote ==
  /\ status = "OPEN"
  /\ status' = "ACCEPTED"
  /\ byExpert' \in IF hasTarget THEN BOOLEAN ELSE {TRUE}
  /\ UNCHANGED <<hasTarget, hasReport, feeRecorded, claimWindow,
                 orderVars, gatewayVars, handlerVars>>

StartVerification ==
  /\ status = "ADVANCE_PAID"
  /\ status' = "IN_PROGRESS"
  /\ UNCHANGED <<hasTarget, byExpert, hasReport, feeRecorded, claimWindow,
                 orderVars, gatewayVars, handlerVars>>

LinkDiscoveredProperty ==
  /\ byExpert /\ ~hasTarget
  /\ status \in DiscoveryLinkableStatuses
  /\ hasTarget' = TRUE
  /\ UNCHANGED <<status, byExpert, hasReport, feeRecorded, claimWindow,
                 orderVars, gatewayVars, handlerVars>>

(***************************************************************************)
(* Order creation.  The controller reads the status, Razorpay mints the    *)
(* order, the row is inserted, and only then the status is written - with  *)
(* no condition on what the status has become meanwhile.                   *)
(***************************************************************************)
OrderableLegTooEarly ==
  CASE status \in {"ACCEPTED", "ADVANCE_PAYMENT_PENDING"} -> "ADVANCE"
    [] status \in {"IN_PROGRESS", "COMPLETED", "FINAL_PAYMENT_PENDING"} -> "FINAL"
    [] OTHER -> "NONE"

OrderableLeg ==
  CASE status \in {"ACCEPTED", "ADVANCE_PAYMENT_PENDING"} -> "ADVANCE"
    [] status \in {"COMPLETED", "FINAL_PAYMENT_PENDING"} -> "FINAL"
    [] OTHER -> "NONE"

\* createAdvanceOrder / createFinalOrder up to the call of Razorpay. The
\* slot takes the order id that Razorpay will answer with.
CreateOrder(h, o) ==
  /\ OrderableLeg # "NONE"
  /\ leg[o] = "NONE"
  /\ Begin(h, "createOrder")
  /\ handled' = [handled EXCEPT ![h] = o]
  /\ leg' = [leg EXCEPT ![o] = OrderableLeg]
  /\ UNCHANGED <<requestVars, order, ledger, earning, stranded, refunded,
                 gatewayVars, counted>>

\* createOrder threw: Razorpay refused, or the call timed out (502).
OrderRefused(h) ==
  /\ pc[h] = "createOrder"
  /\ Finish(h)
  /\ UNCHANGED <<requestVars, orderVars, gatewayVars>>

\* prisma.paymentOrder.create
RecordOrder(h) ==
  /\ pc[h] = "createOrder"
  /\ order' = [order EXCEPT ![handled[h]] = "CREATED"]
  /\ pc' = [pc EXCEPT ![h] = "recordPending"]
  /\ UNCHANGED <<requestVars, leg, ledger, earning, stranded, refunded,
                 gatewayVars, handled, counted>>

\* The status write, then the 201 that hands the order id to the checkout.
RecordPending(h) ==
  /\ pc[h] = "recordPending"
  /\ status' = PendingStatus(leg[handled[h]])
  /\ issued' = issued \cup {handled[h]}
  /\ Finish(h)
  /\ UNCHANGED <<hasTarget, byExpert, hasReport, feeRecorded, claimWindow,
                 orderVars, charged, declined>>

(***************************************************************************)
(* Razorpay, as the code uses it: an order the buyer has seen may have     *)
(* failed attempts and at most one captured payment, at any later time.    *)
(***************************************************************************)
Charge(o) ==
  /\ o \in issued \ charged
  /\ charged' = charged \cup {o}
  /\ UNCHANGED <<requestVars, orderVars, issued, declined, handlerVars>>

Decline(o) ==
  /\ o \in issued \ charged
  /\ declined' = declined \cup {o}
  /\ UNCHANGED <<requestVars, orderVars, issued, charged, handlerVars>>

\* payment.failed.  Razorpay delivers it late or again as it likes, so it
\* may arrive after the buyer's next attempt on the same order succeeded.
PaymentFailed(o) ==
  /\ o \in declined
  /\ order[o] = "CREATED"
  /\ order' = [order EXCEPT ![o] = "FAILED"]
  /\ UNCHANGED <<requestVars, leg, ledger, earning, stranded, refunded,
                 gatewayVars, handlerVars>>

(***************************************************************************)
(* finalizeVerificationAdvance / finalizeVerificationFinalPayment, entered *)
(* from payment.captured (delivered any number of times) and from the      *)
(* checkout-verify endpoints.  The loser of the claim answers              *)
(* "alreadyProcessed" and changes nothing.                                 *)
(***************************************************************************)
ClaimableUnlessFailed(o) == order[o] \in {"CREATED", "PAID"}
Claimable(o) == order[o] = "CREATED"

Finalize(h, o) ==
  /\ o \in charged
  /\ Claimable(o)
  /\ Begin(h, "settle")
  /\ handled' = [handled EXCEPT ![h] = o]
  /\ order' = [order EXCEPT ![o] = "PAID"]
  /\ UNCHANGED <<requestVars, leg, ledger, earning, stranded, refunded,
                 gatewayVars, counted>>

\* recordCaptureLedgerEntries: a ProfessionalEarning only for an Expert.
EarningForAnyone(o) == "EARNED"
EarningFor(o) == IF byExpert THEN "EARNED" ELSE earning[o]

\* promoteEarningsOnUnlock
PromotedPastHold(e) ==
  [o \in Orders |-> IF e[o] = "EARNED" THEN "AVAILABLE_FOR_PAYOUT" ELSE e[o]]
PromotedFinalOnly(e) ==
  [o \in Orders |-> IF e[o] = "EARNED" /\ leg[o] = "FINAL"
                    THEN "PENDING_SETTLEMENT" ELSE e[o]]
Promoted(e) ==
  [o \in Orders |-> IF e[o] = "EARNED" THEN "PENDING_SETTLEMENT" ELSE e[o]]

ReopenedWindow(o) == o
OpenedWindow(o) == IF claimWindow = NoOrder THEN o ELSE claimWindow

SettleAdvance(h) ==
  LET o == handled[h] IN
  /\ pc[h] = "settle" /\ leg[o] = "ADVANCE"
  /\ status = "ADVANCE_PAYMENT_PENDING"
  /\ status' = "ADVANCE_PAID"
  /\ ledger' = [ledger EXCEPT ![o] = @ + 1]
  /\ earning' = [earning EXCEPT ![o] = EarningFor(o)]
  /\ Finish(h)
  /\ UNCHANGED <<hasTarget, byExpert, hasReport, feeRecorded, claimWindow,
                 order, leg, stranded, refunded, gatewayVars>>

\* FULLY_PAID -> ledger -> REPORT_UNLOCKED -> promotion, one transaction.
SettleFinal(h) ==
  LET o == handled[h] IN
  /\ pc[h] = "settle" /\ leg[o] = "FINAL"
  /\ status = "FINAL_PAYMENT_PENDING"
  /\ status' = "REPORT_UNLOCKED"
  /\ ledger' = [ledger EXCEPT ![o] = @ + 1]
  /\ earning' = Promoted([earning EXCEPT ![o] = EarningFor(o)])
  /\ claimWindow' = OpenedWindow(o)
  /\ Finish(h)
  /\ UNCHANGED <<hasTarget, byExpert, hasReport, feeRecorded,
                 order, leg, stranded, refunded, gatewayVars>>

\* The request is not waiting for this leg: the transaction writes nothing.
SettleMissed(h) ==
  /\ pc[h] = "settle"
  /\ status # PendingStatus(leg[handled[h]])
  /\ pc' = [pc EXCEPT ![h] = "strand"]
  /\ UNCHANGED <<requestVars, orderVars, gatewayVars, handled, counted>>

\* A dropped refundStrandedPayment.
ForgetStrandedPayment(h) ==
  /\ pc[h] = "strand"
  /\ Finish(h)
  /\ UNCHANGED <<requestVars, orderVars, gatewayVars>>

RefundStrandedPayment(h) ==
  /\ pc[h] = "strand"
  /\ stranded' = [stranded EXCEPT ![handled[h]] = @ + 1]
  /\ Finish(h)
  /\ UNCHANGED <<requestVars, order, leg, ledger, earning, refunded, gatewayVars>>

(***************************************************************************)
(* submitVerificationReport: a read of the status, then a transaction that *)
(* creates the report and writes COMPLETED whatever the status is now.     *)
(***************************************************************************)
SubmitReport(h) ==
  /\ status = "IN_PROGRESS"
  /\ hasTarget
  /\ Begin(h, "commitReport")
  /\ UNCHANGED <<requestVars, orderVars, gatewayVars, handled, counted>>

CommitReport(h) ==
  /\ pc[h] = "commitReport"
  /\ ~hasReport
  /\ hasReport' = TRUE
  /\ status' = "COMPLETED"
  /\ Finish(h)
  /\ UNCHANGED <<hasTarget, byExpert, feeRecorded, claimWindow,
                 orderVars, gatewayVars>>

\* VerificationReport.requestId is unique: the transaction rolls back.
CommitReportAgain(h) ==
  /\ pc[h] = "commitReport"
  /\ hasReport
  /\ Finish(h)
  /\ UNCHANGED <<requestVars, orderVars, gatewayVars>>

(***************************************************************************)
(* executeCancellation, for the buyer and for an admin's force-cancel: the *)
(* status, then the paid orders, then the transaction that claims the row. *)
(***************************************************************************)
Cancel(h) ==
  /\ status \in CancellableStatuses
  /\ Begin(h, "readPaidOrders")
  /\ UNCHANGED <<requestVars, orderVars, gatewayVars, handled, counted>>

ReadPaidOrders(h) ==
  /\ pc[h] = "readPaidOrders"
  /\ counted' = [counted EXCEPT ![h] = PaidOrders]
  /\ pc' = [pc EXCEPT ![h] = "commitCancel"]
  /\ UNCHANGED <<requestVars, orderVars, gatewayVars, handled>>

FeeCharged(h) == counted[h] # {} /\ FeeRate # "none"
RefundDue(h) == counted[h] # {} /\ FeeRate # "all"

\* The claim, and the unique key of the CANCELLATION_FEE entries.
CancelPossibleNoKey(h) == status \in CancellableStatuses
CancelPossible(h) ==
  /\ status \in CancellableStatuses
  /\ ~(FeeCharged(h) /\ feeRecorded)

CommitCancel(h) ==
  /\ pc[h] = "commitCancel"
  /\ CancelPossible(h)
  /\ status' = "CANCELLED"
  /\ feeRecorded' = (feeRecorded \/ FeeCharged(h))
  /\ refunded' = [o \in Orders |->
                    refunded[o] + IF RefundDue(h) /\ o \in counted[h] THEN 1 ELSE 0]
  /\ Finish(h)
  /\ UNCHANGED <<hasTarget, byExpert, hasReport, claimWindow,
                 order, leg, ledger, earning, stranded, gatewayVars>>

\* 409, or the rollback of a second fee.
CancelLost(h) ==
  /\ pc[h] = "commitCancel"
  /\ ~CancelPossible(h)
  /\ Finish(h)
  /\ UNCHANGED <<requestVars, orderVars, gatewayVars>>

(***************************************************************************)
(* A restart of the single API process ends every running handler between  *)
(* two of its statements.                                                  *)
(***************************************************************************)
Crash ==
  /\ pc' = [h \in Handlers |-> "idle"]
  /\ handled' = [h \in Handlers |-> NoOrder]
  /\ counted' = [h \in Handlers |-> {}]
  /\ UNCHANGED <<requestVars, orderVars, gatewayVars>>

Step(h) ==
  \/ OrderRefused(h) \/ RecordOrder(h) \/ RecordPending(h)
  \/ SettleAdvance(h) \/ SettleFinal(h) \/ SettleMissed(h)
  \/ RefundStrandedPayment(h)
  \/ CommitReport(h) \/ CommitReportAgain(h)
  \/ ReadPaidOrders(h) \/ CommitCancel(h) \/ CancelLost(h)

Next ==
  \/ AcceptQuote \/ StartVerification \/ LinkDiscoveredProperty
  \/ \E o \in Orders : Charge(o) \/ Decline(o) \/ PaymentFailed(o)
  \/ \E h \in Handlers : \/ \E o \in Orders : CreateOrder(h, o) \/ Finalize(h, o)
                         \/ SubmitReport(h) \/ Cancel(h)
                         \/ Step(h)

CrashNext == Next \/ Crash

Spec == Init /\ [][Next]_vars
CrashSpec == Init /\ [][CrashNext]_vars

\* Node runs every started handler to its end, and a captured payment is
\* delivered until it is acknowledged (payment.captured is retried).
FairSpec ==
  /\ Spec
  /\ \A h \in Handlers : WF_vars(Step(h))
  /\ \A o \in Orders : SF_vars(\E h \in Handlers : Finalize(h, o))

(***************************************************************************)
(* Properties                                                              *)
(***************************************************************************)
TypeOK ==
  /\ status \in Statuses
  /\ hasTarget \in BOOLEAN
  /\ byExpert \in BOOLEAN
  /\ hasReport \in BOOLEAN
  /\ feeRecorded \in BOOLEAN
  /\ claimWindow \in Orders \cup {NoOrder}
  /\ order \in [Orders -> {"NONE", "CREATED", "PAID", "FAILED"}]
  /\ leg \in [Orders -> Legs \cup {"NONE"}]
  /\ ledger \in [Orders -> Nat]
  /\ earning \in [Orders -> {"NONE", "EARNED", "PENDING_SETTLEMENT"}]
  /\ stranded \in [Orders -> Nat]
  /\ refunded \in [Orders -> Nat]
  /\ issued \subseteq Orders /\ charged \subseteq Orders /\ declined \subseteq Orders
  /\ pc \in [Handlers -> Points]
  /\ handled \in [Handlers -> Orders \cup {NoOrder}]
  /\ counted \in [Handlers -> SUBSET Orders]
  /\ \A h \in Handlers : pc[h] \in OrderPoints => handled[h] \in Orders

Captured(l) == {o \in Orders : ledger[o] > 0 /\ leg[o] = l}
InFlight(o) == \E h \in Handlers : pc[h] \in {"settle", "strand"} /\ handled[h] = o

\* recordCaptureLedgerEntries runs at most once per order, and only for an
\* order Razorpay captured: replayed webhooks and the checkout-verify call
\* never reach the unique keys that back the claim up.
CapturedOnce ==
  \A o \in Orders :
    /\ ledger[o] <= 1
    /\ ledger[o] = 1 => order[o] = "PAID" /\ o \in charged

\* A PAID order took exactly one of the two ways its money can go - the
\* ledger or a Refund row of refundStrandedPayment - or a handler is still
\* carrying it there.
PaidIsAccounted ==
  \A o \in Orders :
    order[o] = "PAID" => \/ InFlight(o) /\ ledger[o] = 0 /\ stranded[o] = 0
                         \/ ledger[o] = 1 /\ stranded[o] = 0
                         \/ ledger[o] = 0 /\ stranded[o] = 1

\* getReport serves the findings only in REPORT_UNLOCKED: then both legs are
\* in the ledger and the report exists, however the status was reached, and
\* a report never exists for a request whose advance was not captured.
DeliveredOnlyIfPaid ==
  /\ status = "REPORT_UNLOCKED" => hasReport /\ Captured("FINAL") # {}
  /\ hasReport => Captured("ADVANCE") # {}

\* While the report is delivered every earning of the request is on hold:
\* no EARNED row was left behind by promoteEarningsOnUnlock, and the review
\* window is open.
UnlockedEarningsOnHold ==
  status = "REPORT_UNLOCKED" =>
    /\ \A o \in Orders : earning[o] # "EARNED"
    /\ claimWindow \in Captured("FINAL")

\* An Expert's captured leg has an earning and nothing else has one; an
\* Admin who performs the work never gets one.
EarningsMatchLedger ==
  \A o \in Orders : earning[o] # "NONE" <=> byExpert /\ ledger[o] > 0

\* When a cancellation keeps a fee, the unique key of the fee entries also
\* stops a second cancellation of a revived request from refunding the same
\* orders again.
CancelRefundsOnce ==
  FeeRate # "none" => \A o \in Orders : refunded[o] <= 1

\* reportCompletedAt / claimDeadline are set exactly once: an unlock that
\* happens again (the buyer paid a second final order) never moves them.
ClaimWindowFixed ==
  [][claimWindow # NoOrder => claimWindow' = claimWindow]_vars

(***************************************************************************)
(* The promise to the buyer, per payment                                   *)
(***************************************************************************)
MoneyOf(o) ==
  CASE order[o] # "PAID" /\ ledger[o] = 0 /\ stranded[o] = 0 -> "open"
    [] order[o] = "PAID" /\ ledger[o] = 0 /\ stranded[o] = 0 -> "claimed"
    [] order[o] = "PAID" /\ ledger[o] = 1 /\ stranded[o] = 0 -> "recorded"
    [] order[o] = "PAID" /\ ledger[o] = 0 /\ stranded[o] = 1 -> "flagged"
    [] OTHER -> "broken"

Money == [o \in Orders |-> MoneyOf(o)]

Promise == INSTANCE PaymentPromise WITH money <- Money

\* Whatever the request goes through, a payment only ever moves as
\* PaymentPromise says: claimed once, then recorded or flagged, never both.
KeepsPromise == Promise!Safe

\* ... and no claimed payment stays without either.
FulfilsPromise == Promise!Live
=============================================================================
