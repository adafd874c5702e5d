----------------------------- MODULE SpecialRequest -----------------------------
(***************************************************************************)
(* One special request: the advance of its buyer, the seller who researches *)
(* it, its approval with the payout of the seller, its rejection with the  *)
(* refund of the buyer, and the sweep that enforces its two deadlines.     *)
(*                                                                         *)
(* A handler reads the row and writes it in a later statement.  Only the   *)
(* approval and the sweep repeat the status they read in the condition of  *)
(* their write; every other write goes to the row whatever it has become.  *)
(* Sellers need an approved KYC and the listing a map pin: both are taken  *)
(* to be given.  Every write of the row restarts its clock (updatedAt).    *)
(***************************************************************************)
EXTENDS Naturals, FiniteSets

CONSTANTS
  Sellers,
  Orders,       \* ids of PaymentOrder rows of this request
  Refunds,      \* ids of Refund rows of this request
  Handlers,     \* slots for concurrent requests of users and admins
  Sweep,        \* the slot of the scheduled sweep
  Null,
  MaxAssigns    \* bound on the assignments of a behaviour

Workers == Handlers \cup {Sweep}

ASSUME AssignAssumption == MaxAssigns \in Nat
ASSUME NullAssumption == Null \notin Sellers \cup Orders \cup Refunds /\ Sweep \notin Handlers

VARIABLES
  status,       \* SpecialRequest.status
  sellerId,     \* SpecialRequest.sellerId
  advancePaid,  \* SpecialRequest.advancePaid
  overdue,      \* updatedAt lies before the deadline of the status
  order,        \* PaymentOrder.status, "NONE" before the row exists
  captured,     \* orders whose payment Razorpay captured
  refund,       \* Refund.status, "NONE" before the row exists
  sent,         \* refunds that Razorpay paid out
  published,    \* the listing of the research is APPROVED
  payout,       \* seller of the SpecialRequestPayout row, Null without one
  orphaned,     \* an approval found no seller to pay and logged it
  cut,          \* refunds whose execution a restart ended
  undone,       \* a restart ended an approval after its claim
  assigns,
  pc,           \* next statement of a worker
  arg           \* what the worker read or was given: a seller, order or refund

rowVars == <<status, sellerId, overdue>>
orderVars == <<order, captured>>
refundVars == <<refund, sent>>
resultVars == <<published, payout, orphaned>>
cutVars == <<cut, undone>>
workerVars == <<pc, arg>>
vars == <<rowVars, advancePaid, orderVars, refundVars, resultVars, cutVars, assigns, workerVars>>

OpenStatuses == {"PENDING", "ASSIGNED", "IN_PROGRESS", "COMPLETED"}
RefundPoints == {"reject", "execute", "pay", "release", "settle"}
Points ==
  {"idle", "order", "advance", "assign", "accept", "decline", "submit", "approve",
   "publish", "ledger", "unpaid", "lookup", "insert"} \cup RefundPoints

Init ==
  /\ status = "PENDING" /\ sellerId = Null
  /\ advancePaid = FALSE /\ overdue = FALSE
  /\ order = [o \in Orders |-> "NONE"] /\ captured = {}
  /\ refund = [r \in Refunds |-> "NONE"] /\ sent = {}
  /\ published = FALSE /\ payout = Null /\ orphaned = FALSE
  /\ cut = {} /\ undone = FALSE
  /\ assigns = 0
  /\ pc = [w \in Workers |-> "idle"]
  /\ arg = [w \in Workers |-> Null]

Goto(w, point) == pc' = [pc EXCEPT ![w] = point]
Go(w, point, a) == Goto(w, point) /\ arg' = [arg EXCEPT ![w] = a]
Finish(w) == Go(w, "idle", Null)

\* A write of the row: prisma sets updatedAt.
Write(s) == status' = s /\ overdue' = FALSE

(***************************************************************************)
(* The advance                                                             *)
(***************************************************************************)

\* createSpecialRequest and retrySpecialRequestPayment call Razorpay and
\* record the order it made.
AskForOrder(h) ==
  /\ pc[h] = "idle"
  /\ status = "PENDING" /\ ~advancePaid
  /\ Goto(h, "order")
  /\ UNCHANGED <<rowVars, advancePaid, orderVars, refundVars, resultVars, cutVars, assigns, arg>>

RecordOrder(h, o) ==
  /\ pc[h] = "order" /\ order[o] = "NONE"
  /\ order' = [order EXCEPT ![o] = "CREATED"]
  /\ Finish(h)
  /\ UNCHANGED <<rowVars, advancePaid, captured, refundVars, resultVars, cutVars, assigns>>

Capture(o) ==
  /\ order[o] # "NONE" /\ o \notin captured
  /\ captured' = captured \cup {o}
  /\ UNCHANGED <<rowVars, advancePaid, order, refundVars, resultVars, cutVars, assigns, workerVars>>

\* payment.failed of an attempt; a later attempt may still be captured.
PaymentFailed(o) ==
  /\ order[o] = "CREATED"
  /\ order' = [order EXCEPT ![o] = "FAILED"]
  /\ UNCHANGED <<rowVars, advancePaid, captured, refundVars, resultVars, cutVars, assigns, workerVars>>

\* finalizeSpecialRequestAdvance, called by verify and by the webhook.
ClaimAdvance(h, o) ==
  /\ pc[h] = "idle"
  /\ o \in captured /\ order[o] = "CREATED"
  /\ order' = [order EXCEPT ![o] = "PAID"]
  /\ Go(h, "advance", o)
  /\ UNCHANGED <<rowVars, advancePaid, captured, refundVars, resultVars, cutVars, assigns>>

SetAdvancePaid(h) ==
  /\ pc[h] = "advance"
  /\ advancePaid' = TRUE
  /\ Write(status)
  /\ Finish(h)
  /\ UNCHANGED <<sellerId, orderVars, refundVars, resultVars, cutVars, assigns>>

(***************************************************************************)
(* The research                                                            *)
(***************************************************************************)
AssignUnpaid(h, s) ==
  /\ pc[h] = "idle" /\ assigns < MaxAssigns
  /\ Go(h, "assign", s)
  /\ assigns' = assigns + 1
  /\ UNCHANGED <<rowVars, advancePaid, orderVars, refundVars, resultVars, cutVars>>
Assign(h, s) ==
  /\ pc[h] = "idle" /\ assigns < MaxAssigns
  /\ advancePaid
  /\ Go(h, "assign", s)
  /\ assigns' = assigns + 1
  /\ UNCHANGED <<rowVars, advancePaid, orderVars, refundVars, resultVars, cutVars>>

Accept(h) ==
  /\ pc[h] = "idle"
  /\ status = "ASSIGNED" /\ sellerId # Null
  /\ Goto(h, "accept")
  /\ UNCHANGED <<rowVars, advancePaid, orderVars, refundVars, resultVars, cutVars, assigns, arg>>

\* The seller may decline whatever the status is.
Decline(h) ==
  /\ pc[h] = "idle"
  /\ sellerId # Null
  /\ Goto(h, "decline")
  /\ UNCHANGED <<rowVars, advancePaid, orderVars, refundVars, resultVars, cutVars, assigns, arg>>

Submit(h) ==
  /\ pc[h] = "idle"
  /\ status = "IN_PROGRESS" /\ sellerId # Null
  /\ Goto(h, "submit")
  /\ UNCHANGED <<rowVars, advancePaid, orderVars, refundVars, resultVars, cutVars, assigns, arg>>

\* The unconditional writes of the four.
WriteRow(h) ==
  /\ \/ pc[h] = "assign" /\ Write("ASSIGNED") /\ sellerId' = arg[h]
     \/ pc[h] = "accept" /\ Write("IN_PROGRESS") /\ UNCHANGED sellerId
     \/ pc[h] = "decline" /\ Write("PENDING") /\ sellerId' = Null
     \/ pc[h] = "submit" /\ Write("COMPLETED") /\ UNCHANGED sellerId
  /\ Finish(h)
  /\ UNCHANGED <<advancePaid, orderVars, refundVars, resultVars, cutVars, assigns>>

(***************************************************************************)
(* Approval                                                                *)
(***************************************************************************)
Approve(h) ==
  /\ pc[h] = "idle"
  /\ status = "COMPLETED"
  /\ Go(h, "approve", sellerId)
  /\ UNCHANGED <<rowVars, advancePaid, orderVars, refundVars, resultVars, cutVars, assigns>>

ClaimApproval(h) ==
  /\ pc[h] = "approve"
  /\ IF status = "COMPLETED"
     THEN Write("APPROVED") /\ Goto(h, "publish") /\ UNCHANGED arg
     ELSE Finish(h) /\ UNCHANGED <<status, overdue>>
  /\ UNCHANGED <<sellerId, advancePaid, orderVars, refundVars, resultVars, cutVars, assigns>>

PublishOnly(h) ==
  /\ pc[h] = "publish"
  /\ published' = TRUE
  /\ Finish(h)
  /\ UNCHANGED <<rowVars, advancePaid, orderVars, refundVars, payout, orphaned, cutVars, assigns>>
PublishListing(h) ==
  /\ pc[h] = "publish"
  /\ published' = TRUE
  /\ Goto(h, "ledger")
  /\ UNCHANGED <<rowVars, advancePaid, orderVars, refundVars, payout, orphaned, cutVars, assigns, arg>>

\* createPayoutForApprovedRequest: one row per request, a second one throws.
CreatePayout(h) ==
  /\ pc[h] = "ledger"
  /\ payout' = IF payout = Null THEN arg[h] ELSE payout
  /\ orphaned' = (orphaned \/ arg[h] = Null)
  /\ Finish(h)
  /\ UNCHANGED <<rowVars, advancePaid, orderVars, refundVars, published, cutVars, assigns>>

(***************************************************************************)
(* Rejection by an admin, and by the sweep                                 *)
(***************************************************************************)
Reject(h) ==
  /\ pc[h] = "idle"
  /\ status \in OpenStatuses
  /\ Goto(h, IF advancePaid THEN "lookup" ELSE "unpaid")
  /\ UNCHANGED <<rowVars, advancePaid, orderVars, refundVars, resultVars, cutVars, assigns, arg>>

RejectUnpaid(h) ==
  /\ pc[h] = "unpaid"
  /\ Write("REJECTED")
  /\ Finish(h)
  /\ UNCHANGED <<sellerId, advancePaid, orderVars, refundVars, resultVars, cutVars, assigns>>

ActiveRefunds == {r \in Refunds : refund[r] \in {"PENDING", "PROCESSED"}}

LookUpAndReject(h) ==
  /\ pc[h] = "lookup"
  /\ IF ActiveRefunds = {} THEN Goto(h, "reject") /\ UNCHANGED arg ELSE Finish(h)
  /\ UNCHANGED <<rowVars, advancePaid, orderVars, refundVars, resultVars, cutVars, assigns>>
LookUpRefund(h) ==
  /\ pc[h] = "lookup"
  /\ IF ActiveRefunds = {} THEN Goto(h, "insert") /\ UNCHANGED arg ELSE Finish(h)
  /\ UNCHANGED <<rowVars, advancePaid, orderVars, refundVars, resultVars, cutVars, assigns>>

\* The sweep has written the status already, the admin does it next.
InsertRefund(w, r) ==
  /\ pc[w] = "insert" /\ refund[r] = "NONE"
  /\ refund' = [refund EXCEPT ![r] = "PENDING"]
  /\ Go(w, IF w = Sweep THEN "execute" ELSE "reject", r)
  /\ UNCHANGED <<rowVars, advancePaid, orderVars, sent, resultVars, cutVars, assigns>>

\* The ids of the model are used up: as a restart would end it.
RunOutOfIds(w) ==
  /\ pc[w] = "insert" /\ \A r \in Refunds : refund[r] # "NONE"
  /\ Finish(w)
  /\ UNCHANGED <<rowVars, advancePaid, orderVars, refundVars, resultVars, cutVars, assigns>>

RejectPaid(h) ==
  /\ pc[h] = "reject"
  /\ Write("REJECTED")
  /\ Goto(h, "execute")
  /\ UNCHANGED <<sellerId, advancePaid, orderVars, refundVars, resultVars, cutVars, assigns, arg>>

SweepPending ==
  /\ pc[Sweep] = "idle"
  /\ status = "PENDING" /\ overdue
  /\ Write("PENDING") /\ sellerId' = Null
  /\ UNCHANGED <<advancePaid, orderVars, refundVars, resultVars, cutVars, assigns, workerVars>>
\* autoDeclineOverdueAssignments
SweepAssigned ==
  /\ pc[Sweep] = "idle"
  /\ status = "ASSIGNED" /\ overdue
  /\ Write("PENDING") /\ sellerId' = Null
  /\ UNCHANGED <<advancePaid, orderVars, refundVars, resultVars, cutVars, assigns, workerVars>>

\* autoRefundOverdueCompletions
SweepUnfinished ==
  /\ pc[Sweep] = "idle"
  /\ status = "IN_PROGRESS" /\ overdue
  /\ Write("REJECTED")
  /\ Goto(Sweep, IF advancePaid THEN "insert" ELSE "idle")
  /\ UNCHANGED <<sellerId, advancePaid, orderVars, refundVars, resultVars, cutVars, assigns, arg>>

(***************************************************************************)
(* executeRefund                                                           *)
(***************************************************************************)
ProcessRefund(h, r) ==
  /\ pc[h] = "idle" /\ refund[r] = "PENDING"
  /\ refund' = [refund EXCEPT ![r] = "PROCESSED"]
  /\ Go(h, "pay", r)
  /\ UNCHANGED <<rowVars, advancePaid, orderVars, sent, resultVars, cutVars, assigns>>

RejectRefund(r) ==
  /\ refund[r] = "PENDING"
  /\ refund' = [refund EXCEPT ![r] = "REJECTED"]
  /\ UNCHANGED <<rowVars, advancePaid, orderVars, sent, resultVars, cutVars, assigns, workerVars>>

ClaimRefund(w) ==
  /\ pc[w] = "execute"
  /\ IF refund[arg[w]] = "PENDING"
     THEN refund' = [refund EXCEPT ![arg[w]] = "PROCESSED"] /\ Goto(w, "pay") /\ UNCHANGED arg
     ELSE Finish(w) /\ UNCHANGED refund
  /\ UNCHANGED <<rowVars, advancePaid, orderVars, sent, resultVars, cutVars, assigns>>

\* Any PAID order of the request names the payment to give back.
RefundPaid(w) ==
  /\ pc[w] = "pay"
  /\ \E o \in Orders : order[o] = "PAID"
  /\ sent' = sent \cup {arg[w]}
  /\ Goto(w, "settle")
  /\ UNCHANGED <<rowVars, advancePaid, orderVars, refund, resultVars, cutVars, assigns, arg>>

RefundFailsSilently(w) ==
  /\ pc[w] = "pay"
  /\ Goto(w, "settle")
  /\ UNCHANGED <<rowVars, advancePaid, orderVars, refundVars, resultVars, cutVars, assigns, arg>>
\* There is no payment, or Razorpay refused, or paid and answered too late.
RefundFails(w) ==
  /\ pc[w] = "pay"
  /\ sent' \in {sent, sent \cup {arg[w]}}
  /\ Goto(w, "release")
  /\ UNCHANGED <<rowVars, advancePaid, orderVars, refund, resultVars, cutVars, assigns, arg>>

ReleaseRefund(w) ==
  /\ pc[w] = "release"
  /\ refund' = [refund EXCEPT ![arg[w]] = "PENDING"]
  /\ Finish(w)
  /\ UNCHANGED <<rowVars, advancePaid, orderVars, sent, resultVars, cutVars, assigns>>

SettleRefund(w) ==
  /\ pc[w] = "settle"
  /\ Write("REFUNDED")
  /\ Finish(w)
  /\ UNCHANGED <<sellerId, advancePaid, orderVars, refundVars, resultVars, cutVars, assigns>>

(***************************************************************************)
(* Time, and restarts                                                      *)
(***************************************************************************)
DeadlinePasses ==
  /\ status \in {"ASSIGNED", "IN_PROGRESS"} /\ ~overdue
  /\ overdue' = TRUE
  /\ UNCHANGED <<status, sellerId, advancePaid, orderVars, refundVars, resultVars, cutVars, assigns,
                 workerVars>>

Crash(w) ==
  /\ pc[w] # "idle"
  /\ cut' = IF pc[w] \in RefundPoints THEN cut \cup {arg[w]} ELSE cut
  /\ undone' = (undone \/ pc[w] \in {"publish", "ledger"})
  /\ Finish(w)
  /\ UNCHANGED <<rowVars, advancePaid, orderVars, refundVars, resultVars, assigns>>

Advance(h) ==
  \/ AskForOrder(h) \/ SetAdvancePaid(h)
  \/ \E o \in Orders : RecordOrder(h, o) \/ ClaimAdvance(h, o)

Research(h) ==
  \/ Accept(h) \/ Decline(h) \/ Submit(h) \/ WriteRow(h)
  \/ \E s \in Sellers : Assign(h, s)

Decide(h) ==
  \/ Approve(h) \/ ClaimApproval(h) \/ PublishListing(h) \/ CreatePayout(h)
  \/ Reject(h) \/ RejectUnpaid(h) \/ LookUpRefund(h) \/ RejectPaid(h)
  \/ \E r \in Refunds : ProcessRefund(h, r)

Refunding(w) ==
  \/ \E r \in Refunds : InsertRefund(w, r)
  \/ RunOutOfIds(w) \/ ClaimRefund(w) \/ RefundPaid(w) \/ RefundFails(w) \/ ReleaseRefund(w) \/ SettleRefund(w)

Next ==
  \/ \E o \in Orders : Capture(o) \/ PaymentFailed(o)
  \/ \E h \in Handlers : Advance(h) \/ Research(h) \/ Decide(h)
  \/ \E r \in Refunds : RejectRefund(r)
  \/ SweepAssigned \/ SweepUnfinished \/ DeadlinePasses
  \/ \E w \in Workers : Refunding(w) \/ Crash(w)

Spec == Init /\ [][Next]_vars

\* The sweep runs every 15 minutes, without overlap, and its statements go on;
\* deadlines pass.  Nothing is assumed of users, admins or Razorpay.
Fairness ==
  /\ WF_vars(DeadlinePasses)
  /\ WF_vars(SweepAssigned) /\ WF_vars(SweepUnfinished)
  /\ WF_vars(Refunding(Sweep))

FairSpec == Spec /\ Fairness

(***************************************************************************)
(* Properties                                                              *)
(***************************************************************************)
RowTypes ==
  /\ status \in OpenStatuses \cup {"APPROVED", "REJECTED", "REFUNDED"}
  /\ sellerId \in Sellers \cup {Null}
  /\ advancePaid \in BOOLEAN /\ overdue \in BOOLEAN
  /\ order \in [Orders -> {"NONE", "CREATED", "PAID", "FAILED"}]
  /\ captured \subseteq Orders
  /\ refund \in [Refunds -> {"NONE", "PENDING", "PROCESSED", "REJECTED"}]
  /\ sent \subseteq Refunds /\ cut \subseteq Refunds
  /\ published \in BOOLEAN /\ orphaned \in BOOLEAN /\ undone \in BOOLEAN
  /\ payout \in Sellers \cup {Null}
  /\ assigns \in Nat

WorkerTypes ==
  /\ pc \in [Workers -> Points]
  /\ arg \in [Workers -> Sellers \cup Orders \cup Refunds \cup {Null}]
  /\ \A w \in Workers :
       /\ pc[w] \in RefundPoints => arg[w] \in Refunds
       /\ pc[w] = "assign" => arg[w] \in Sellers
       /\ pc[w] \in {"approve", "publish", "ledger"} => arg[w] \in Sellers \cup {Null}

TypeOK == RowTypes /\ WorkerTypes

\* Nobody works on, is paid for or is refunded a request whose advance was
\* not captured, whatever the order of the writes.
AdvanceFirst ==
  /\ \/ status \in {"ASSIGNED", "IN_PROGRESS", "COMPLETED", "APPROVED", "REFUNDED"}
     \/ payout # Null
     \/ \E r \in Refunds : refund[r] # "NONE"
     => advancePaid
  /\ advancePaid => \E o \in captured : order[o] = "PAID"

\* A refund that Razorpay has not paid is PROCESSED only while somebody
\* executes it, or after a restart; a REFUNDED request has one that was paid.
RefundedIsSent ==
  /\ \A r \in Refunds \ (sent \cup cut) : refund[r] = "PROCESSED" =>
       \E w \in Workers : pc[w] \in {"pay", "release"} /\ arg[w] = r
  /\ status = "REFUNDED" => \E r \in sent : refund[r] = "PROCESSED"

\* An approved request has published its listing and a payout for its seller,
\* or the approval is still at it, or a restart ended it, or it found no seller.
ApprovedIsPaidOut ==
  /\ status = "APPROVED" =>
       \/ published /\ (payout # Null \/ orphaned)
       \/ undone
       \/ \E h \in Handlers : pc[h] \in {"publish", "ledger"}
  /\ payout # Null => published

\* No assignment waits for ever to be accepted, and no research to be finished.
NoStaleWork ==
  /\ status = "ASSIGNED" ~> status # "ASSIGNED"
  /\ status = "IN_PROGRESS" ~> status # "IN_PROGRESS"

\* "If the advance was paid, the buyer gets a real refund at once".  A request
\* rejected while unpaid keeps its open order.
PaidRejectionIsRefunded ==
  status = "REJECTED" /\ advancePaid =>
    \/ \E r \in Refunds : refund[r] # "NONE"
    \/ \E w \in Workers : pc[w] # "idle"
=============================================================================
