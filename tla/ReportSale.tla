------------------------------- MODULE ReportSale -------------------------------
(***************************************************************************)
(* Selling the report of one listing: its moderation, the orders and        *)
(* purchases of its buyers, and the refunds of those purchases.            *)
(*                                                                         *)
(* finalizeReportUnlock is called by the checkout-verify request and by     *)
(* every delivery of payment.captured; it claims the order in one          *)
(* statement and looks for an earlier purchase of the buyer in the next.   *)
(* Refunds of a purchase are opened by an admin, or by the penalty of a     *)
(* seller whose listing failed a spot check once too often; a partial      *)
(* unique index allows one PENDING or PROCESSED refund per purchase.       *)
(*                                                                         *)
(* A purchase is named by the order whose handler created it.  Statements   *)
(* of one handler are separate steps; the accuracy score and the fine of   *)
(* the seller are left out, nothing here reads them.                       *)
(***************************************************************************)
EXTENDS Naturals, FiniteSets

CONSTANTS
  Buyers,          \* users who unlock the report
  Orders,          \* ids of PaymentOrder rows
  Refunds,         \* ids of Refund rows
  Handlers,        \* slots for concurrent requests
  Null,
  StrikeThreshold, \* spot-check failures until the penalty, 3 in the code
  MaxStrikes       \* bound on the failures of a behaviour

ASSUME StrikeAssumption == StrikeThreshold \in Nat /\ MaxStrikes \in Nat
ASSUME NullAssumption == Null \notin Orders \cup Refunds \cup Buyers

VARIABLES
  live,        \* Listing.status is APPROVED
  suspended,   \* the seller's kycStatus is SUSPENDED
  strikes,     \* Seller.strikeCount
  order,       \* PaymentOrder.status, "NONE" before the row exists
  buyer,       \* PaymentOrder.userId
  purchaseId,  \* PaymentOrder.purchaseId
  captured,    \* orders whose payment Razorpay captured
  declined,    \* orders with a failed payment attempt
  purchases,   \* Purchase rows
  refundOf,    \* Refund.purchaseId
  status,      \* Refund.status, "NONE" before the row exists
  sent,        \* refunds that Razorpay paid out, once or more
  late,        \* refunds whose call timed out after Razorpay paid
  cut,         \* orders and refunds whose handler a restart ended
  pc,          \* next statement of a handler
  arg,         \* the order or refund the handler works on
  todo         \* purchases a penalty has yet to refund

sellerVars == <<live, suspended, strikes>>
orderVars == <<order, buyer, purchaseId, captured, declined, purchases>>
refundVars == <<refundOf, status, sent, late>>
handlerVars == <<pc, arg, todo>>
vars == <<sellerVars, orderVars, refundVars, cut, handlerVars>>

UnlockPoints == {"find", "create", "link"}
RefundPoints == {"execute", "pay", "release"}
PenaltyPoints == {"strike", "suspend", "list", "loop"}
Points == {"idle"} \cup UnlockPoints \cup RefundPoints \cup PenaltyPoints

Init ==
  /\ live = FALSE /\ suspended = FALSE
  /\ strikes = 0
  /\ order = [o \in Orders |-> "NONE"]
  /\ buyer = [o \in Orders |-> Null]
  /\ purchaseId = [o \in Orders |-> Null]
  /\ captured = {} /\ declined = {} /\ purchases = {}
  /\ refundOf = [r \in Refunds |-> Null]
  /\ status = [r \in Refunds |-> "NONE"]
  /\ sent = {} /\ late = {} /\ cut = {}
  /\ pc = [h \in Handlers |-> "idle"]
  /\ arg = [h \in Handlers |-> Null]
  /\ todo = [h \in Handlers |-> {}]

Goto(h, point) == pc' = [pc EXCEPT ![h] = point]

Finish(h) ==
  /\ Goto(h, "idle")
  /\ arg' = [arg EXCEPT ![h] = Null]
  /\ todo' = [todo EXCEPT ![h] = {}]

(***************************************************************************)
(* The listing and its seller                                              *)
(***************************************************************************)
ApproveListing ==
  /\ ~live
  /\ live' = TRUE
  /\ UNCHANGED <<suspended, strikes, orderVars, refundVars, cut, handlerVars>>

\* An admin rejects or deletes it, or its seller edits it.
WithdrawListing ==
  /\ live
  /\ live' = FALSE
  /\ UNCHANGED <<suspended, strikes, orderVars, refundVars, cut, handlerVars>>

\* One transaction; nothing happens to a seller who is SUSPENDED already.
Suspend ==
  /\ suspended' = TRUE
  /\ live' = (live /\ suspended)

SuspendSeller ==
  /\ ~suspended
  /\ Suspend
  /\ UNCHANGED <<strikes, orderVars, refundVars, cut, handlerVars>>

UnsuspendSeller ==
  /\ suspended
  /\ suspended' = FALSE
  /\ UNCHANGED <<live, strikes, orderVars, refundVars, cut, handlerVars>>

(***************************************************************************)
(* Orders and their payment                                                *)
(***************************************************************************)

\* What the purchase of an order collides with: same buyer, same listing.
EarlierPurchasesOfAnyone(o) == purchases
EarlierPurchases(o) == {p \in purchases : buyer[p] = buyer[o]}

\* createPurchase; an order is recorded when Razorpay made it.
CreateOrder(o, b) ==
  /\ live
  /\ \A p \in purchases : buyer[p] # b
  /\ order[o] = "NONE"
  /\ order' = [order EXCEPT ![o] = "CREATED"]
  /\ buyer' = [buyer EXCEPT ![o] = b]
  /\ UNCHANGED <<sellerVars, purchaseId, captured, declined, purchases, refundVars,
                 cut, handlerVars>>

\* Checkout: an attempt fails, or is captured; a later attempt may follow.
Decline(o) ==
  /\ order[o] # "NONE" /\ o \notin captured \cup declined
  /\ declined' = declined \cup {o}
  /\ UNCHANGED <<sellerVars, order, buyer, purchaseId, captured, purchases, refundVars,
                 cut, handlerVars>>

Capture(o) ==
  /\ order[o] # "NONE" /\ o \notin captured
  /\ captured' = captured \cup {o}
  /\ UNCHANGED <<sellerVars, order, buyer, purchaseId, declined, purchases, refundVars,
                 cut, handlerVars>>

PaymentFailed(o) ==
  /\ o \in declined /\ order[o] = "CREATED"
  /\ order' = [order EXCEPT ![o] = "FAILED"]
  /\ UNCHANGED <<sellerVars, buyer, purchaseId, captured, declined, purchases, refundVars,
                 cut, handlerVars>>

(***************************************************************************)
(* finalizeReportUnlock                                                    *)
(***************************************************************************)
Claimable(o) == order[o] = "CREATED"

ClaimOrder(h, o) ==
  /\ pc[h] = "idle"
  /\ o \in captured /\ Claimable(o)
  /\ order' = [order EXCEPT ![o] = "PAID"]
  /\ Goto(h, "find")
  /\ arg' = [arg EXCEPT ![h] = o]
  /\ UNCHANGED <<sellerVars, buyer, purchaseId, captured, declined, purchases, refundVars,
                 cut, todo>>

\* A second paid order is linked to the purchase there is.
LinkEarlier(h) ==
  /\ pc[h] = "find"
  /\ \E p \in EarlierPurchases(arg[h]) : purchaseId' = [purchaseId EXCEPT ![arg[h]] = p]
  /\ Finish(h)
  /\ UNCHANGED <<sellerVars, order, buyer, captured, declined, purchases, refundVars, cut>>

FindNone(h) ==
  /\ pc[h] = "find"
  /\ EarlierPurchases(arg[h]) = {}
  /\ Goto(h, "create")
  /\ UNCHANGED <<sellerVars, orderVars, refundVars, cut, arg, todo>>

CreatePurchase(h) ==
  /\ pc[h] = "create"
  /\ purchases' = purchases \cup {arg[h]}
  /\ Goto(h, "link")
  /\ UNCHANGED <<sellerVars, order, buyer, purchaseId, captured, declined, refundVars,
                 cut, arg, todo>>

LinkCreated(h) ==
  /\ pc[h] = "link"
  /\ purchaseId' = [purchaseId EXCEPT ![arg[h]] = arg[h]]
  /\ Finish(h)
  /\ UNCHANGED <<sellerVars, order, buyer, captured, declined, purchases, refundVars, cut>>

(***************************************************************************)
(* Refunds                                                                 *)
(***************************************************************************)
ActiveStatuses == {"PENDING", "PROCESSED"}
Active(p) == {r \in Refunds : refundOf[r] = p /\ status[r] \in ActiveStatuses}

\* prisma.refund.create, refused by the index when the purchase has an active one.
InsertRefund(r, p) ==
  /\ status[r] = "NONE"
  /\ Active(p) = {}
  /\ status' = [status EXCEPT ![r] = "PENDING"]
  /\ refundOf' = [refundOf EXCEPT ![r] = p]

CreateRefund(r, p) ==
  /\ p \in purchases
  /\ InsertRefund(r, p)
  /\ UNCHANGED <<sellerVars, orderVars, sent, late, cut, handlerVars>>

RejectAnyRefund(r) ==
  /\ status[r] \in ActiveStatuses
  /\ status' = [status EXCEPT ![r] = "REJECTED"]
  /\ UNCHANGED <<sellerVars, orderVars, refundOf, sent, late, cut, handlerVars>>
RejectRefund(r) ==
  /\ status[r] = "PENDING"
  /\ status' = [status EXCEPT ![r] = "REJECTED"]
  /\ UNCHANGED <<sellerVars, orderVars, refundOf, sent, late, cut, handlerVars>>

\* processRefund of an admin enters executeRefund here, the penalty below.
ProcessRefund(h, r) ==
  /\ pc[h] = "idle"
  /\ status[r] = "PENDING"
  /\ status' = [status EXCEPT ![r] = "PROCESSED"]
  /\ Goto(h, "pay")
  /\ arg' = [arg EXCEPT ![h] = r]
  /\ UNCHANGED <<sellerVars, orderVars, refundOf, sent, late, cut, todo>>

\* The penalty goes on with the next purchase; an admin's request ends.
ReturnHasty(h) ==
  IF todo[h] = {} THEN Finish(h)
  ELSE /\ Goto(h, "execute")
       /\ arg' = [arg EXCEPT ![h] = Null]
       /\ UNCHANGED todo
Return(h) ==
  IF todo[h] = {} THEN Finish(h)
  ELSE /\ Goto(h, "loop")
       /\ arg' = [arg EXCEPT ![h] = Null]
       /\ UNCHANGED todo

\* Between the insert and the claim an admin may have taken or rejected it.
ClaimRefund(h) ==
  /\ pc[h] = "execute"
  /\ IF status[arg[h]] = "PENDING"
     THEN /\ status' = [status EXCEPT ![arg[h]] = "PROCESSED"]
          /\ Goto(h, "pay")
          /\ UNCHANGED <<arg, todo>>
     ELSE Return(h) /\ UNCHANGED status
  /\ UNCHANGED <<sellerVars, orderVars, refundOf, sent, late, cut>>

RefundPaid(h) ==
  /\ pc[h] = "pay"
  /\ sent' = sent \cup {arg[h]}
  /\ Return(h)
  /\ UNCHANGED <<sellerVars, orderVars, refundOf, status, late, cut>>

\* Razorpay paid, and its answer did not arrive in time.
RefundTimesOut(h) ==
  /\ pc[h] = "pay"
  /\ sent' = sent \cup {arg[h]}
  /\ late' = late \cup {arg[h]}
  /\ Goto(h, "release")
  /\ UNCHANGED <<sellerVars, orderVars, refundOf, status, cut, arg, todo>>

RefundRefused(h) ==
  /\ pc[h] = "pay"
  /\ Goto(h, "release")
  /\ UNCHANGED <<sellerVars, orderVars, refundVars, cut, arg, todo>>

ReleaseRefund(h) ==
  /\ pc[h] = "release"
  /\ status' = [status EXCEPT ![arg[h]] = "PENDING"]
  /\ Return(h)
  /\ UNCHANGED <<sellerVars, orderVars, refundOf, sent, late, cut>>

(***************************************************************************)
(* spotCheckListing with result FAIL, and applyStrikeEscalation             *)
(***************************************************************************)
FailSpotCheck(h) ==
  /\ pc[h] = "idle"
  /\ strikes < MaxStrikes
  /\ live' = FALSE
  /\ Goto(h, "strike")
  /\ UNCHANGED <<suspended, strikes, orderVars, refundVars, cut, arg, todo>>

Strike(h) ==
  /\ pc[h] = "strike"
  /\ strikes' = strikes + 1
  /\ IF strikes' < StrikeThreshold THEN Finish(h) ELSE Goto(h, "suspend") /\ UNCHANGED <<arg, todo>>
  /\ UNCHANGED <<live, suspended, orderVars, refundVars, cut>>

PenaltySuspend(h) ==
  /\ pc[h] = "suspend"
  /\ Suspend
  /\ Goto(h, "list")
  /\ UNCHANGED <<strikes, orderVars, refundVars, cut, arg, todo>>

\* Purchases of the listing without a refund that is not REJECTED.
ListBuyers(h) ==
  LET unrefunded == {p \in purchases : Active(p) = {}} IN
  /\ pc[h] = "list"
  /\ todo' = [todo EXCEPT ![h] = unrefunded]
  /\ Goto(h, IF unrefunded = {} THEN "idle" ELSE "loop")
  /\ UNCHANGED <<sellerVars, orderVars, refundVars, cut, arg>>

RefundNext(h, r, p) ==
  /\ pc[h] = "loop" /\ p \in todo[h]
  /\ InsertRefund(r, p)
  /\ todo' = [todo EXCEPT ![h] = @ \ {p}]
  /\ arg' = [arg EXCEPT ![h] = r]
  /\ Goto(h, "execute")
  /\ UNCHANGED <<sellerVars, orderVars, sent, late, cut>>

\* An admin opened one meanwhile: the insert throws, and the loop with it.
PenaltyThrows(h, p) ==
  /\ pc[h] = "loop" /\ p \in todo[h]
  /\ Active(p) # {}
  /\ Finish(h)
  /\ UNCHANGED <<sellerVars, orderVars, refundVars, cut>>

(***************************************************************************)
(* A restart ends a request between two statements                         *)
(***************************************************************************)
Crash(h) ==
  /\ pc[h] # "idle"
  /\ cut' = cut \cup ({arg[h]} \ {Null})
  /\ Finish(h)
  /\ UNCHANGED <<sellerVars, orderVars, refundVars>>

Moderate ==
  ApproveListing \/ WithdrawListing \/ SuspendSeller \/ UnsuspendSeller

Pay(o) ==
  (\E b \in Buyers : CreateOrder(o, b)) \/ Decline(o) \/ Capture(o) \/ PaymentFailed(o)

Unlock(h) == LinkEarlier(h) \/ FindNone(h) \/ CreatePurchase(h) \/ LinkCreated(h)

Execute(h) ==
  \/ ClaimRefund(h) \/ RefundPaid(h) \/ RefundTimesOut(h) \/ RefundRefused(h)
  \/ ReleaseRefund(h)

Penalise(h) ==
  \/ Strike(h) \/ PenaltySuspend(h) \/ ListBuyers(h)
  \/ \E p \in Orders : PenaltyThrows(h, p) \/ \E r \in Refunds : RefundNext(h, r, p)

Next ==
  \/ Moderate
  \/ \E o \in Orders : Pay(o) \/ \E h \in Handlers : ClaimOrder(h, o)
  \/ \E r \in Refunds : RejectRefund(r) \/ \E p \in Orders : CreateRefund(r, p)
  \/ \E h \in Handlers, r \in Refunds : ProcessRefund(h, r)
  \/ \E h \in Handlers :
       FailSpotCheck(h) \/ Unlock(h) \/ Execute(h) \/ Penalise(h) \/ Crash(h)

Spec == Init /\ [][Next]_vars

(***************************************************************************)
(* Properties                                                              *)
(***************************************************************************)
RowTypes ==
  /\ live \in BOOLEAN /\ suspended \in BOOLEAN
  /\ strikes \in Nat
  /\ order \in [Orders -> {"NONE", "CREATED", "PAID", "FAILED"}]
  /\ buyer \in [Orders -> Buyers \cup {Null}]
  /\ purchaseId \in [Orders -> Orders \cup {Null}]
  /\ captured \subseteq Orders /\ declined \subseteq Orders /\ purchases \subseteq Orders
  /\ refundOf \in [Refunds -> Orders \cup {Null}]
  /\ status \in [Refunds -> {"NONE", "PENDING", "PROCESSED", "REJECTED"}]
  /\ sent \subseteq Refunds /\ late \subseteq Refunds
  /\ cut \subseteq Orders \cup Refunds

HandlerTypes ==
  /\ pc \in [Handlers -> Points]
  /\ arg \in [Handlers -> Orders \cup Refunds \cup {Null}]
  /\ todo \in [Handlers -> SUBSET Orders]
  /\ \A h \in Handlers :
       /\ pc[h] \in UnlockPoints => arg[h] \in Orders
       /\ pc[h] \in RefundPoints => arg[h] \in Refunds

TypeOK == RowTypes /\ HandlerTypes

\* The handler that unlocks order o.
Unlocks(h, o) == pc[h] \in UnlockPoints /\ arg[h] = o

\* "Both write the Purchase exactly once": a PAID order is linked to a purchase
\* of its own buyer, or exactly one handler is on its way there, or a restart
\* ended that handler; and no purchase exists without its own paid order.
PaidIsUnlocked ==
  /\ \A o \in Orders : order[o] = "PAID" =>
       \/ purchaseId[o] \in purchases /\ buyer[purchaseId[o]] = buyer[o]
       \/ o \in cut
       \/ \E h \in Handlers : Unlocks(h, o)
  /\ \A o \in Orders : \A h, k \in Handlers :
       Unlocks(h, o) => order[o] = "PAID" /\ purchaseId[o] = Null /\ (Unlocks(k, o) => k = h)
  /\ \A p \in purchases : p \in captured /\ order[p] = "PAID"

\* The payment of a purchase goes back once: when two refunds of it were both
\* paid out, the call of one of them had timed out and its row was rejected.
PaidBackOnce ==
  \A r, s \in sent :
    r # s /\ refundOf[r] = refundOf[s] =>
      \E q \in {r, s} : q \in late /\ status[q] = "REJECTED"
=============================================================================
