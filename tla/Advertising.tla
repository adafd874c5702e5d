------------------------------ MODULE Advertising ------------------------------
(***************************************************************************)
(* One advertising campaign: its payment, moderation, serving and billing, *)
(* and the refund of a campaign that was rejected.                         *)
(*                                                                         *)
(* A campaign may be paid through several orders.  Impressions are billed  *)
(* per signed token, each once; what is spent is derived from their number *)
(* in whole paise.  Clicks are counted for analytics only and left out.    *)
(***************************************************************************)
EXTENDS Integers, FiniteSets

CONSTANTS
  Payments,   \* AdvertisingPayment rows, one per Razorpay order
  Returns,    \* refunds made by Razorpay
  Tokens,     \* ad tokens, each with a nonce of its own
  Handlers,   \* slots for concurrent requests of advertisers and admins
  Budgets,    \* budgets an advertiser may choose, in paise
  Cpm,        \* paise for a thousand impressions
  Nil

ASSUME NilAssumption == Nil \notin Payments \cup Returns
ASSUME PriceAssumption == Cpm \in Nat \ {0} /\ Budgets \subseteq Nat \ {0}
ASSUME TokensAssumption == IsFiniteSet(Tokens)

VARIABLES
  status,       \* AdCampaign.status
  budget,       \* AdCampaign.budgetPaise
  impressions,  \* AdCampaign.impressions
  when,         \* now, against startDate and endDate
  payment,      \* AdvertisingPayment.status, "NONE" before the row exists
  captured,     \* orders whose payment Razorpay captured
  refundStatus, \* AdvertisingPayment.refundStatus
  refundId,     \* AdvertisingPayment.razorpayRefundId
  made,         \* state of a refund at Razorpay, "none" before it exists
  madeFor,      \* the payment a refund gives back
  token,        \* "new", "served" or "billed"
  listed,       \* the cached list of eligible campaigns holds this one
  pc,           \* next statement of a handler
  pay,          \* the payment whose refund a handler executes
  got           \* the refund Razorpay answered it with

campaignVars == <<status, budget, impressions, when>>
paymentVars == <<payment, captured>>
refundVars == <<refundStatus, refundId>>
bankVars == <<made, madeFor>>
servingVars == <<token, listed>>
handlerVars == <<pc, pay, got>>
vars == <<campaignVars, paymentVars, refundVars, bankVars, servingVars, handlerVars>>

Payable == {"DRAFT", "PAYMENT_PENDING"}
Statuses ==
  Payable \cup {"PENDING_APPROVAL", "ACTIVE", "PAUSED", "REJECTED", "COMPLETED", "EXHAUSTED", "EXPIRED"}
RefundPoints == {"call", "failed", "returned", "returning"}
Points == {"idle", "order", "approve", "resume", "check", "claim"} \cup RefundPoints

Paid == {p \in Payments : payment[p] = "PAID"}

\* createCampaign.  A campaign without a startDate begins "during" it.
Init ==
  /\ status = "DRAFT" /\ budget \in Budgets
  /\ impressions = 0 /\ when \in {"before", "during"}
  /\ payment = [p \in Payments |-> "NONE"] /\ captured = {}
  /\ refundStatus = [p \in Payments |-> "NOT_REQUIRED"]
  /\ refundId = [p \in Payments |-> Nil]
  /\ made = [r \in Returns |-> "none"] /\ madeFor = [r \in Returns |-> Nil]
  /\ token = [t \in Tokens |-> "new"] /\ listed = FALSE
  /\ pc = [h \in Handlers |-> "idle"]
  /\ pay = [h \in Handlers |-> Nil] /\ got = [h \in Handlers |-> Nil]

Goto(h, point) == pc' = [pc EXCEPT ![h] = point] /\ UNCHANGED <<pay, got>>
Finish(h) ==
  /\ pc' = [pc EXCEPT ![h] = "idle"]
  /\ pay' = [pay EXCEPT ![h] = Nil]
  /\ got' = [got EXCEPT ![h] = Nil]

(***************************************************************************)
(* Payment                                                                 *)
(***************************************************************************)

\* startCampaignPayment reads the status and calls Razorpay ...
StartPayment(h) ==
  /\ pc[h] = "idle"
  /\ status \in Payable
  /\ Goto(h, "order")
  /\ UNCHANGED <<campaignVars, paymentVars, refundVars, bankVars, servingVars>>

\* ... and writes the row, and the status whatever it has become.
RecordOrder(h, p) ==
  /\ pc[h] = "order" /\ payment[p] = "NONE"
  /\ payment' = [payment EXCEPT ![p] = "CREATED"]
  /\ status' = "PAYMENT_PENDING"
  /\ Finish(h)
  /\ UNCHANGED <<budget, impressions, when, captured, refundVars, bankVars, servingVars>>

Capture(p) ==
  /\ payment[p] # "NONE" /\ p \notin captured
  /\ captured' = captured \cup {p}
  /\ UNCHANGED <<campaignVars, payment, refundVars, bankVars, servingVars, handlerVars>>

PaymentFailedAlways(p) ==
  /\ payment[p] # "NONE"
  /\ payment' = [payment EXCEPT ![p] = "FAILED"]
  /\ UNCHANGED <<campaignVars, captured, refundVars, bankVars, servingVars, handlerVars>>
\* payment.failed of any attempt on the order, also of one before a success.
PaymentFailed(p) ==
  /\ payment[p] = "CREATED"
  /\ payment' = [payment EXCEPT ![p] = "FAILED"]
  /\ UNCHANGED <<campaignVars, captured, refundVars, bankVars, servingVars, handlerVars>>

\* One transaction, called by the checkout's return and by the webhook.
FinalizePayment(p) ==
  /\ p \in captured /\ payment[p] \in {"CREATED", "FAILED"}
  /\ payment' = [payment EXCEPT ![p] = "PAID"]
  /\ status' = IF status \in Payable THEN "PENDING_APPROVAL" ELSE status
  /\ UNCHANGED <<budget, impressions, when, captured, refundVars, bankVars, servingVars, handlerVars>>

(***************************************************************************)
(* Moderation                                                              *)
(***************************************************************************)
Spent(n) == (n * Cpm) \div 1000

\* The guarded update.  The cache is cleared, but a look-up under way may put
\* the old list back.
Transition(from, to) ==
  /\ status \in from
  /\ status' = to
  /\ listed' \in {listed, FALSE}
  /\ UNCHANGED <<budget, impressions, when, paymentVars, refundVars, bankVars, token>>

\* approveCampaign and resumeCampaign read before they write.
ReadCampaign(h) ==
  /\ pc[h] = "idle" /\ when # "after"
  /\ \/ Goto(h, "approve")
     \/ Spent(impressions) < budget /\ Goto(h, "resume")
  /\ UNCHANGED <<campaignVars, paymentVars, refundVars, bankVars, servingVars>>

Activate(h) ==
  /\ \/ pc[h] = "approve" /\ Transition({"PENDING_APPROVAL"}, "ACTIVE")
     \/ pc[h] = "resume" /\ Transition({"PAUSED"}, "ACTIVE")
  /\ Finish(h)

Pause == Transition({"ACTIVE"}, "PAUSED") /\ UNCHANGED handlerVars
Stop == Transition({"ACTIVE", "PAUSED"}, "COMPLETED") /\ UNCHANGED handlerVars

\* rejectCampaign goes on to refundRejectedCampaign.
RejectCampaign(h) ==
  /\ pc[h] = "idle"
  /\ Transition({"PENDING_APPROVAL"}, "REJECTED")
  /\ Goto(h, "check")

(***************************************************************************)
(* refundRejectedCampaign                                                  *)
(***************************************************************************)

\* An admin asks for it again.
RetryRefund(h) ==
  /\ pc[h] = "idle" /\ status = "REJECTED"
  /\ Goto(h, "check")
  /\ UNCHANGED <<campaignVars, paymentVars, refundVars, bankVars, servingVars>>

CheckRejected(h) ==
  /\ pc[h] = "check"
  /\ IF status = "REJECTED" /\ impressions = 0 THEN Goto(h, "claim") ELSE Finish(h)
  /\ UNCHANGED <<campaignVars, paymentVars, refundVars, bankVars, servingVars>>

ClaimAnyPayment(h) ==
  /\ pc[h] = "claim"
  /\ pc' = [pc EXCEPT ![h] = "call"]
  /\ UNCHANGED <<pay, got, refundVars, campaignVars, paymentVars, bankVars, servingVars>>
\* findFirst has no order: any PAID payment, then the guarded claim of it.
ClaimRefund(h) ==
  /\ pc[h] = "claim"
  /\ \/ \E p \in Paid :
          /\ refundStatus[p] \in {"NOT_REQUIRED", "FAILED"}
          /\ refundStatus' = [refundStatus EXCEPT ![p] = "PROCESSING"]
          /\ pc' = [pc EXCEPT ![h] = "call"] /\ pay' = [pay EXCEPT ![h] = p]
          /\ UNCHANGED <<refundId, got>>
     \/ /\ Paid = {} \/ \E p \in Paid : refundStatus[p] \notin {"NOT_REQUIRED", "FAILED"}
        /\ Finish(h) /\ UNCHANGED refundVars
  /\ UNCHANGED <<campaignVars, paymentVars, bankVars, servingVars>>

\* Razorpay made a refund and says whether it is processed yet ...
RefundAccepted(h, r) ==
  /\ pc[h] = "call" /\ made[r] = "none"
  /\ \E point \in {"returned", "returning"} :
       /\ made' = [made EXCEPT ![r] = IF point = "returned" THEN "processed" ELSE "pending"]
       /\ pc' = [pc EXCEPT ![h] = point]
  /\ madeFor' = [madeFor EXCEPT ![r] = pay[h]]
  /\ got' = [got EXCEPT ![h] = r]
  /\ UNCHANGED <<pay, campaignVars, paymentVars, refundVars, servingVars>>

\* ... or made one whose answer was lost ...
RefundTimesOut(h, r) ==
  /\ pc[h] = "call" /\ made[r] = "none"
  /\ made' = [made EXCEPT ![r] = "pending"]
  /\ madeFor' = [madeFor EXCEPT ![r] = pay[h]]
  /\ Goto(h, "failed")
  /\ UNCHANGED <<campaignVars, paymentVars, refundVars, servingVars>>

\* ... or refused.
RefundRefused(h) ==
  /\ pc[h] = "call"
  /\ Goto(h, "failed")
  /\ UNCHANGED <<campaignVars, paymentVars, refundVars, bankVars, servingVars>>

RecordFailure(h) ==
  /\ pc[h] = "failed"
  /\ refundStatus' = [refundStatus EXCEPT ![pay[h]] = "FAILED"]
  /\ Finish(h)
  /\ UNCHANGED <<refundId, campaignVars, paymentVars, bankVars, servingVars>>

SettleAsRefunded(h) ==
  /\ pc[h] \in {"returned", "returning"}
  /\ refundStatus' = [refundStatus EXCEPT ![pay[h]] = "REFUNDED"]
  /\ refundId' = [refundId EXCEPT ![pay[h]] = got[h]]
  /\ Finish(h)
  /\ UNCHANGED <<campaignVars, paymentVars, bankVars, servingVars>>
SettleRefund(h) ==
  /\ pc[h] \in {"returned", "returning"}
  /\ refundStatus' =
       [refundStatus EXCEPT ![pay[h]] = IF pc[h] = "returned" THEN "REFUNDED" ELSE "PROCESSING"]
  /\ refundId' = [refundId EXCEPT ![pay[h]] = got[h]]
  /\ Finish(h)
  /\ UNCHANGED <<campaignVars, paymentVars, bankVars, servingVars>>

BankSettles(r) ==
  /\ made[r] = "pending"
  /\ \E s \in {"processed", "failed"} : made' = [made EXCEPT ![r] = s]
  /\ UNCHANGED <<madeFor, campaignVars, paymentVars, refundVars, servingVars, handlerVars>>

\* refund.processed and refund.failed, any number of times.  A refund whose
\* id is not stored yet is not found, and the event is acknowledged.
RefundEvent(r, p) ==
  /\ refundId[p] = r
  /\ refundStatus[p] = "PROCESSING"
  /\ \/ made[r] = "processed" /\ refundStatus' = [refundStatus EXCEPT ![p] = "REFUNDED"]
     \/ made[r] = "failed" /\ refundStatus' = [refundStatus EXCEPT ![p] = "FAILED"]
  /\ UNCHANGED <<refundId, campaignVars, paymentVars, bankVars, servingVars, handlerVars>>

(***************************************************************************)
(* Serving and billing                                                     *)
(***************************************************************************)
SweepExpired ==
  /\ when = "after"
  /\ Transition({"ACTIVE"}, "EXPIRED")
  /\ UNCHANGED handlerVars

\* eligibleCampaigns, when the cached list is older than its 15 seconds.
LookUpEligible ==
  /\ listed' = (status = "ACTIVE" /\ Paid # {} /\ when = "during" /\ Spent(impressions) < budget)
  /\ UNCHANGED <<campaignVars, paymentVars, refundVars, bankVars, token, handlerVars>>

Serve(t) ==
  /\ listed /\ token[t] = "new"
  /\ token' = [token EXCEPT ![t] = "served"]
  /\ UNCHANGED <<listed, campaignVars, paymentVars, refundVars, bankVars, handlerVars>>

\* The event of the nonce and the update of the campaign are one transaction.
Bill(t) ==
  /\ status = "ACTIVE" /\ Paid # {} /\ when = "during"
  /\ Spent(impressions + 1) <= budget
  /\ token' = [token EXCEPT ![t] = "billed"]
  /\ impressions' = impressions + 1
  /\ IF Spent(impressions + 1) >= budget
     THEN status' = "EXHAUSTED" /\ listed' \in {listed, FALSE}
     ELSE UNCHANGED <<status, listed>>
  /\ UNCHANGED <<budget, when, paymentVars, refundVars, bankVars, handlerVars>>
RecordImpressionAgain(t) == token[t] \in {"served", "billed"} /\ Bill(t)
RecordImpression(t) == token[t] = "served" /\ Bill(t)

TimePasses ==
  /\ \/ when = "before" /\ when' = "during"
     \/ when = "during" /\ when' = "after"
  /\ UNCHANGED <<status, budget, impressions, paymentVars, refundVars, bankVars, servingVars, handlerVars>>

\* A restart, or an answer that is an error: the handler ends where it is.
Interrupt(h) ==
  /\ pc[h] # "idle"
  /\ Finish(h)
  /\ UNCHANGED <<campaignVars, paymentVars, refundVars, bankVars, servingVars>>

Paying ==
  \/ \E p \in Payments : Capture(p) \/ PaymentFailed(p) \/ FinalizePayment(p)
  \/ \E h \in Handlers : StartPayment(h) \/ \E p \in Payments : RecordOrder(h, p)

Moderating ==
  \/ Pause \/ Stop
  \/ \E h \in Handlers : ReadCampaign(h) \/ Activate(h) \/ RejectCampaign(h)

Refunding ==
  \/ \E h \in Handlers :
       \/ RetryRefund(h) \/ CheckRejected(h) \/ ClaimRefund(h)
       \/ RefundRefused(h) \/ RecordFailure(h) \/ SettleRefund(h)
       \/ \E r \in Returns : RefundAccepted(h, r) \/ RefundTimesOut(h, r)
  \/ \E r \in Returns : BankSettles(r) \/ \E p \in Payments : RefundEvent(r, p)

Serving ==
  \/ SweepExpired \/ LookUpEligible \/ TimePasses
  \/ \E t \in Tokens : Serve(t) \/ RecordImpression(t)

Next == Paying \/ Moderating \/ Refunding \/ Serving \/ \E h \in Handlers : Interrupt(h)

Spec == Init /\ [][Next]_vars

(***************************************************************************)
(* Properties                                                              *)
(***************************************************************************)
TypeOK ==
  /\ status \in Statuses /\ budget \in Budgets /\ impressions \in Nat
  /\ when \in {"before", "during", "after"}
  /\ payment \in [Payments -> {"NONE", "CREATED", "FAILED", "PAID"}]
  /\ captured \subseteq Payments
  /\ refundStatus \in [Payments -> {"NOT_REQUIRED", "PROCESSING", "REFUNDED", "FAILED"}]
  /\ refundId \in [Payments -> Returns \cup {Nil}]
  /\ made \in [Returns -> {"none", "pending", "processed", "failed"}]
  /\ madeFor \in [Returns -> Payments \cup {Nil}]
  /\ token \in [Tokens -> {"new", "served", "billed"}]
  /\ listed \in BOOLEAN
  /\ pc \in [Handlers -> Points]
  /\ pay \in [Handlers -> Payments \cup {Nil}]
  /\ got \in [Handlers -> Returns \cup {Nil}]
  /\ \A h \in Handlers : pc[h] \in RefundPoints => pay[h] \in Payments

Billed == {t \in Tokens : token[t] = "billed"}

\* "Billing rules": an impression is billed once per token and paid for
\* beforehand, the campaign never spends more than its budget, and is
\* EXHAUSTED only when all of it is spent - whatever is served meanwhile from
\* a list that is out of date, and however the campaign was stopped.
BudgetIsKept ==
  /\ impressions = Cardinality(Billed)
  /\ Spent(impressions) <= budget
  /\ status = "EXHAUSTED" => Spent(impressions) = budget
  /\ impressions > 0 => Paid # {}

\* A campaign that left payment behind has a captured payment, whatever
\* events of other attempts arrive when.
LiveIsPaid ==
  /\ status \notin Payable => Paid # {}
  /\ Paid \subseteq captured

\* REFUNDED is the word of Razorpay, given for this very payment: neither a
\* refund still pending nor the event of another one makes it so.
RefundedIsReturned ==
  \A p \in Payments :
    /\ refundStatus[p] = "REFUNDED" => \E r \in Returns : made[r] = "processed" /\ madeFor[r] = p
    /\ refundId[p] # Nil => madeFor[refundId[p]] = p
=============================================================================
