---------------------------- MODULE ReportSaleProofs ----------------------------
(***************************************************************************)
(* Theorems about ReportSale, for any buyers, orders, refunds and requests, *)
(* and any number of spot-check failures.                                  *)
(*                                                                         *)
(* Two facts carry the argument and neither is a property by itself: the   *)
(* link of an order, once written, stays within the purchases of its       *)
(* buyer (LinkInv), and a refund that Razorpay paid out without a timeout  *)
(* stays PROCESSED with nobody working on it (SentInv), so that the index  *)
(* refuses every further refund of the purchase.                           *)
(*                                                                         *)
(* The last two sections are the refinements of RefundPromise and of       *)
(* PaymentPromise.                                                         *)
(***************************************************************************)
EXTENDS ReportSale, TLAPS

\* Rows of orders, purchases and their links.
LinkInv ==
  /\ \A o \in captured : order[o] # "NONE"
  /\ \A o \in Orders : order[o] = "PAID" => o \in captured
  /\ \A o \in Orders : purchaseId[o] # Null =>
       /\ purchaseId[o] \in purchases /\ buyer[purchaseId[o]] = buyer[o]
       /\ order[o] = "PAID"
  /\ \A h \in Handlers : pc[h] = "link" => arg[h] \in purchases

\* The handler that is between claiming a refund and its outcome.
Carries(h, r) == pc[h] \in {"pay", "release"} /\ arg[h] = r

\* A claimed refund is PROCESSED and carried once; one that is only about to
\* be claimed exists; purchases a penalty listed exist.
CarryInv ==
  /\ \A h, k \in Handlers, r \in Refunds :
       Carries(h, r) => status[r] = "PROCESSED" /\ (Carries(k, r) => k = h)
  /\ \A r \in Refunds : status[r] # "NONE" <=> refundOf[r] # Null
  /\ \A h \in Handlers : pc[h] \in RefundPoints => status[arg[h]] # "NONE"

\* Money that left without a timeout left for good.
SentInv ==
  /\ \A r \in sent : status[r] # "NONE"
  /\ \A r \in sent \ late : status[r] = "PROCESSED" /\ \A h \in Handlers : ~Carries(h, r)

\* The partial unique index.
OneActive ==
  \A r, s \in Refunds :
    refundOf[r] = refundOf[s] /\ status[r] \in ActiveStatuses /\ status[s] \in ActiveStatuses
      => r = s

IInv == TypeOK /\ PaidIsUnlocked /\ LinkInv /\ CarryInv /\ SentInv /\ OneActive

-----------------------------------------------------------------------------
\* Two refunds of one purchase are not both out of the way of the index.
LEMMA PaidBack == IInv => PaidBackOnce
<1>. SUFFICES ASSUME IInv, NEW r \in sent, NEW s \in sent, r # s, refundOf[r] = refundOf[s]
              PROVE  \E q \in {r, s} : q \in late /\ status[q] = "REJECTED"
  BY DEF PaidBackOnce
<1>1. /\ r \in Refunds /\ s \in Refunds
      /\ status[r] \in {"PENDING", "PROCESSED", "REJECTED"}
      /\ status[s] \in {"PENDING", "PROCESSED", "REJECTED"}
  BY DEF IInv, TypeOK, RowTypes, SentInv
<1>2. status[r] \notin ActiveStatuses \/ status[s] \notin ActiveStatuses
  BY <1>1 DEF IInv, OneActive
<1>3. \A q \in {r, s} : status[q] \notin ActiveStatuses => status[q] = "REJECTED" /\ q \in late
  BY <1>1 DEF IInv, SentInv, ActiveStatuses
<1>. QED  BY <1>2, <1>3

LEMMA InitInv == Init => IInv
<1>. SUFFICES ASSUME Init  PROVE IInv
  OBVIOUS
<1>1. TypeOK
  BY DEF Init, TypeOK, RowTypes, HandlerTypes, Points, UnlockPoints, RefundPoints
<1>2. PaidIsUnlocked
  BY DEF Init, PaidIsUnlocked, Unlocks, UnlockPoints
<1>3. LinkInv /\ CarryInv /\ SentInv /\ OneActive
  BY DEF Init, LinkInv, CarryInv, SentInv, OneActive, Carries, RefundPoints, ActiveStatuses
<1>. QED  BY <1>1, <1>2, <1>3 DEF IInv

\* Moderation of the listing touches neither orders nor refunds.
LEMMA ModerateStep ==
  ASSUME IInv, Moderate
  PROVE  IInv'
<1>1. UNCHANGED <<orderVars, refundVars, cut, handlerVars>>
  BY DEF Moderate, ApproveListing, WithdrawListing, SuspendSeller, UnsuspendSeller
<1>2. live' \in BOOLEAN /\ suspended' \in BOOLEAN /\ strikes' = strikes
  BY DEF Moderate, ApproveListing, WithdrawListing, SuspendSeller, UnsuspendSeller, Suspend, IInv, TypeOK, RowTypes
<1>. QED
  BY <1>1, <1>2 DEF IInv, TypeOK, RowTypes, HandlerTypes, PaidIsUnlocked, LinkInv, CarryInv, SentInv, OneActive, Unlocks, Carries,
             orderVars, refundVars, handlerVars

\* What happens at checkout before an order is claimed.
LEMMA PayStep ==
  ASSUME IInv, NEW o \in Orders, Pay(o)
  PROVE  IInv'
<1>. USE DEF IInv, TypeOK, RowTypes, HandlerTypes, PaidIsUnlocked, LinkInv, CarryInv, SentInv, OneActive, Unlocks, Carries,
             sellerVars, refundVars, handlerVars
<1>1. ASSUME NEW b \in Buyers, CreateOrder(o, b)  PROVE IInv'
  <2>. USE <1>1 DEF CreateOrder
  <2>1. TypeOK'
    OBVIOUS
  <2>2. o \notin purchases /\ o \notin captured /\ \A p \in Orders : purchaseId[p] # o
    BY NullAssumption
  <2>3. PaidIsUnlocked'
    BY <2>2
  <2>4. LinkInv'
    BY <2>2
  <2>. QED  BY <2>1, <2>3, <2>4
<1>2. CASE Decline(o)
  BY <1>2 DEF Decline
<1>3. CASE Capture(o)
  BY <1>3 DEF Capture
<1>4. CASE PaymentFailed(o)
  BY <1>4 DEF PaymentFailed
<1>. QED  BY <1>1, <1>2, <1>3, <1>4 DEF Pay

\* The claim of an order: nobody works on a CREATED one.
LEMMA ClaimStep ==
  ASSUME IInv, NEW h \in Handlers, NEW o \in Orders, ClaimOrder(h, o)
  PROVE  IInv'
<1>. USE NullAssumption
     DEF IInv, TypeOK, RowTypes, HandlerTypes, PaidIsUnlocked, LinkInv, CarryInv, SentInv, OneActive, Unlocks, Carries,
         ClaimOrder, Claimable, Goto, Points, UnlockPoints, RefundPoints, sellerVars, refundVars
<1>1. TypeOK'
  OBVIOUS
<1>2. purchaseId[o] = Null /\ o \notin purchases /\ \A k \in Handlers : ~ Unlocks(k, o)
  OBVIOUS
<1>3. PaidIsUnlocked'
  BY <1>2
<1>4. LinkInv'
  BY <1>2
<1>5. CarryInv' /\ SentInv' /\ OneActive'
  OBVIOUS
<1>. QED  BY <1>1, <1>3, <1>4, <1>5

\* The statements of finalizeReportUnlock after the claim.
LEMMA UnlockStep ==
  ASSUME IInv, NEW h \in Handlers, Unlock(h)
  PROVE  IInv'
<1>. USE NullAssumption
     DEF IInv, TypeOK, RowTypes, HandlerTypes, PaidIsUnlocked, LinkInv, CarryInv, SentInv, OneActive, Unlocks, Carries,
         Points, UnlockPoints, RefundPoints, Goto, Finish, sellerVars, orderVars, refundVars
<1>1. CASE LinkEarlier(h)
  BY <1>1 DEF LinkEarlier, EarlierPurchases
<1>2. CASE FindNone(h)
  BY <1>2 DEF FindNone
<1>3. CASE CreatePurchase(h)
  BY <1>3 DEF CreatePurchase
<1>4. CASE LinkCreated(h)
  BY <1>4 DEF LinkCreated
<1>. QED  BY <1>1, <1>2, <1>3, <1>4 DEF Unlock

\* A new refund row is the only active one of its purchase.
LEMMA InsertStep ==
  ASSUME IInv, NEW r \in Refunds,
         \E p \in Orders : \/ CreateRefund(r, p)
                           \/ \E h \in Handlers : RefundNext(h, r, p)
  PROVE  IInv'
<1>. USE NullAssumption
     DEF IInv, TypeOK, RowTypes, HandlerTypes, PaidIsUnlocked, LinkInv, CarryInv, SentInv, OneActive, Unlocks, Carries,
         Points, UnlockPoints, RefundPoints, PenaltyPoints, ActiveStatuses, Goto, InsertRefund,
         Active, sellerVars, orderVars, handlerVars
<1>1. ASSUME NEW p \in Orders, CreateRefund(r, p)  PROVE IInv'
  BY <1>1 DEF CreateRefund
<1>2. ASSUME NEW p \in Orders, NEW h \in Handlers, RefundNext(h, r, p)  PROVE IInv'
  <2>. USE <1>2 DEF RefundNext
  <2>1. RowTypes'
    OBVIOUS
  <2>2. HandlerTypes'
    OBVIOUS
  <2>3. LinkInv'
    OBVIOUS
  <2>4. PaidIsUnlocked' /\ CarryInv'
    <3>1. \A k \in Handlers : pc'[k] \in UnlockPoints <=> pc[k] \in UnlockPoints
      OBVIOUS
    <3>2. \A k \in Handlers : pc[k] \in UnlockPoints => arg'[k] = arg[k]
      OBVIOUS
    <3>3. PaidIsUnlocked'
      BY <3>1, <3>2
    <3>4. CarryInv'
      OBVIOUS
    <3>. QED  BY <3>3, <3>4
  <2>5. SentInv'
    OBVIOUS
  <2>6. OneActive'
    OBVIOUS
  <2>. QED  BY <2>1, <2>2, <2>3, <2>4, <2>5, <2>6
<1>. QED  BY <1>1, <1>2

\* Rejecting a refund, or claiming it for an admin.
LEMMA RefundRowStep ==
  ASSUME IInv, NEW r \in Refunds,
         RejectRefund(r) \/ \E h \in Handlers : ProcessRefund(h, r)
  PROVE  IInv'
<1>. USE NullAssumption
     DEF IInv, TypeOK, RowTypes, HandlerTypes, PaidIsUnlocked, LinkInv, CarryInv, SentInv, OneActive, Unlocks, Carries,
         Points, UnlockPoints, RefundPoints, PenaltyPoints, ActiveStatuses, Goto,
         sellerVars, orderVars, handlerVars
<1>1. CASE RejectRefund(r)
  BY <1>1 DEF RejectRefund
<1>2. ASSUME NEW h \in Handlers, ProcessRefund(h, r)  PROVE IInv'
  BY <1>2 DEF ProcessRefund
<1>. QED  BY <1>1, <1>2

\* A step that touches neither an order nor a handler on its way to a link.
LEMMA UnlockersStay ==
  ASSUME PaidIsUnlocked,
         UNCHANGED <<order, buyer, purchaseId, purchases, captured, cut>>,
         \A k \in Handlers, o \in Orders : Unlocks(k, o)' <=> Unlocks(k, o)
  PROVE  PaidIsUnlocked'
BY DEF PaidIsUnlocked

\* Where a handler goes when executeRefund returns.
LEMMA Returns ==
  ASSUME TypeOK, NEW h \in Handlers, Return(h)
  PROVE  /\ \E point \in {"idle", "loop"} : pc' = [pc EXCEPT ![h] = point]
         /\ arg' = [arg EXCEPT ![h] = Null]
         /\ todo' \in [Handlers -> SUBSET Orders]
         /\ HandlerTypes'
<1>1. PICK point \in {"idle", "loop"} : pc' = [pc EXCEPT ![h] = point]
  BY DEF Return, Finish, Goto
<1>2. arg' = [arg EXCEPT ![h] = Null]
  BY DEF Return, Finish, Goto
<1>3. todo' \in [Handlers -> SUBSET Orders]
  BY DEF TypeOK, HandlerTypes, Return, Finish, Goto
<1>4. \A k \in Handlers : k # h => pc'[k] = pc[k] /\ arg'[k] = arg[k]
  BY <1>1, <1>2 DEF TypeOK, HandlerTypes
<1>5. pc'[h] \notin UnlockPoints \cup RefundPoints
  BY <1>1 DEF TypeOK, HandlerTypes, UnlockPoints, RefundPoints
<1>6. pc' \in [Handlers -> Points] /\ arg' \in [Handlers -> Orders \cup Refunds \cup {Null}]
  BY <1>1, <1>2 DEF TypeOK, HandlerTypes, Points, PenaltyPoints
<1>7. HandlerTypes'
  BY <1>3, <1>4, <1>5, <1>6 DEF TypeOK, HandlerTypes
<1>. QED  BY <1>1, <1>2, <1>3, <1>7

\* executeRefund from the claim of the row on.
LEMMA ExecuteStep ==
  ASSUME IInv, NEW h \in Handlers, Execute(h)
  PROVE  IInv'
<1>. USE NullAssumption
     DEF IInv, TypeOK, RowTypes, HandlerTypes, PaidIsUnlocked, LinkInv, CarryInv, SentInv, OneActive, Unlocks, Carries,
         Points, UnlockPoints, RefundPoints, PenaltyPoints, ActiveStatuses, Goto,
         sellerVars, orderVars, refundVars
<1>1. CASE ClaimRefund(h)
  <2>1. CASE status[arg[h]] = "PENDING"
    <3>. USE <1>1, <2>1 DEF ClaimRefund
    <3>1. TypeOK' /\ PaidIsUnlocked' /\ LinkInv'
      <4>1. RowTypes'
        OBVIOUS
      <4>2. HandlerTypes'
        OBVIOUS
      <4>3. PaidIsUnlocked'
        <5>1. \A k \in Handlers, o \in Orders : Unlocks(k, o)' <=> Unlocks(k, o)
          OBVIOUS
        <5>. QED  BY <5>1, UnlockersStay
      <4>4. LinkInv'
        OBVIOUS
      <4>. QED  BY <4>1, <4>2, <4>3, <4>4
    <3>2. CarryInv'
      OBVIOUS
    <3>3. SentInv' /\ OneActive'
      OBVIOUS
    <3>. QED  BY <3>1, <3>2, <3>3
  <2>2. CASE status[arg[h]] # "PENDING"
    <3>1. Return(h) /\ UNCHANGED <<sellerVars, orderVars, refundVars, cut>>
      BY <1>1, <2>2 DEF ClaimRefund
    <3>2. /\ \E point \in {"idle", "loop"} : pc' = [pc EXCEPT ![h] = point]
         /\ arg' = [arg EXCEPT ![h] = Null]
         /\ todo' \in [Handlers -> SUBSET Orders]
         /\ HandlerTypes'
      BY <3>1, Returns DEF IInv
    <3>3. TypeOK'
      BY <3>1, <3>2
    <3>4. PaidIsUnlocked' /\ LinkInv'
      <4>1. UNCHANGED <<order, buyer, purchaseId, purchases, captured, cut>>
        BY <3>1
      <4>2. \A k \in Handlers : pc'[k] \in UnlockPoints <=> pc[k] \in UnlockPoints
        BY <3>2, <1>1 DEF ClaimRefund
      <4>3. \A k \in Handlers : pc[k] \in UnlockPoints => arg'[k] = arg[k] /\ pc'[k] = pc[k]
        BY <3>2, <1>1 DEF ClaimRefund
      <4>. QED  BY <4>1, <4>2, <4>3
    <3>5. CarryInv' /\ SentInv' /\ OneActive'
      BY <3>1, <3>2
    <3>. QED  BY <3>3, <3>4, <3>5
  <2>. QED  BY <2>1, <2>2
<1>2. CASE RefundPaid(h)
  <2>1. /\ \E point \in {"idle", "loop"} : pc' = [pc EXCEPT ![h] = point]
         /\ arg' = [arg EXCEPT ![h] = Null]
         /\ todo' \in [Handlers -> SUBSET Orders]
         /\ HandlerTypes'
    BY <1>2, Returns DEF RefundPaid, IInv
  <2>2. RowTypes' /\ HandlerTypes'
    <3>1. RowTypes'
      BY <2>1, <1>2 DEF RefundPaid
    <3>2. HandlerTypes'
      BY <2>1
    <3>. QED  BY <3>1, <3>2
  <2>3. PaidIsUnlocked' /\ LinkInv'
    BY <2>1, <1>2 DEF RefundPaid
  <2>4. CarryInv' /\ SentInv' /\ OneActive'
    BY <2>1, <1>2 DEF RefundPaid
  <2>. QED  BY <2>2, <2>3, <2>4
<1>3. CASE RefundTimesOut(h)
  BY <1>3 DEF RefundTimesOut
<1>4. CASE RefundRefused(h)
  BY <1>4 DEF RefundRefused
<1>5. CASE ReleaseRefund(h)
  <2>1. /\ \E point \in {"idle", "loop"} : pc' = [pc EXCEPT ![h] = point]
         /\ arg' = [arg EXCEPT ![h] = Null]
         /\ todo' \in [Handlers -> SUBSET Orders]
         /\ HandlerTypes'
    BY <1>5, Returns DEF ReleaseRefund, IInv
  <2>2. RowTypes' /\ HandlerTypes'
    <3>1. RowTypes'
      BY <2>1, <1>5 DEF ReleaseRefund
    <3>2. HandlerTypes'
      BY <2>1
    <3>. QED  BY <3>1, <3>2
  <2>3. PaidIsUnlocked' /\ LinkInv'
    BY <2>1, <1>5 DEF ReleaseRefund
  <2>4. CarryInv' /\ SentInv' /\ OneActive'
    BY <2>1, <1>5 DEF ReleaseRefund
  <2>. QED  BY <2>2, <2>3, <2>4
<1>. QED  BY <1>1, <1>2, <1>3, <1>4, <1>5 DEF Execute

\* The rest of the penalty, and a restart: no row changes.
LEMMA PenaltyStep ==
  ASSUME IInv, NEW h \in Handlers,
         \/ FailSpotCheck(h) \/ Strike(h) \/ PenaltySuspend(h) \/ ListBuyers(h)
         \/ (\E p \in Orders : PenaltyThrows(h, p)) \/ Crash(h)
  PROVE  IInv'
<1>. USE NullAssumption
     DEF IInv, TypeOK, RowTypes, HandlerTypes, PaidIsUnlocked, LinkInv, CarryInv, SentInv, OneActive, Unlocks, Carries,
         Points, UnlockPoints, RefundPoints, PenaltyPoints, Goto, Finish,
         sellerVars, orderVars, refundVars
<1>1. CASE FailSpotCheck(h)
  <2>. USE <1>1 DEF FailSpotCheck
  <2>1. RowTypes' /\ HandlerTypes'
    <3>1. RowTypes'
      OBVIOUS
    <3>2. HandlerTypes'
      OBVIOUS
    <3>. QED  BY <3>1, <3>2
  <2>2. PaidIsUnlocked' /\ LinkInv'
    OBVIOUS
  <2>3. CarryInv'
    OBVIOUS
  <2>4. SentInv' /\ OneActive'
    OBVIOUS
  <2>. QED  BY <2>1, <2>2, <2>3, <2>4
<1>2. CASE Strike(h)
  <2>. USE <1>2 DEF Strike
  <2>1. RowTypes' /\ HandlerTypes'
    <3>1. RowTypes'
      OBVIOUS
    <3>2. CASE strikes' < StrikeThreshold
      BY <3>1, <3>2
    <3>3. CASE ~(strikes' < StrikeThreshold)
      BY <3>1, <3>3
    <3>. QED  BY <3>2, <3>3
  <2>2. PaidIsUnlocked' /\ LinkInv'
    <3>1. PaidIsUnlocked'
      <4>1. \A k \in Handlers, o \in Orders : Unlocks(k, o)' <=> Unlocks(k, o)
        OBVIOUS
      <4>. QED  BY <4>1, UnlockersStay
    <3>2. LinkInv'
      OBVIOUS
    <3>. QED  BY <3>1, <3>2
  <2>3. CarryInv'
    OBVIOUS
  <2>4. SentInv' /\ OneActive'
    OBVIOUS
  <2>. QED  BY <2>1, <2>2, <2>3, <2>4
<1>3. CASE PenaltySuspend(h)
  BY <1>3 DEF PenaltySuspend, Suspend
<1>4. CASE ListBuyers(h)
  BY <1>4 DEF ListBuyers
<1>5. ASSUME NEW p \in Orders, PenaltyThrows(h, p)  PROVE IInv'
  BY <1>5 DEF PenaltyThrows
<1>6. CASE Crash(h)
  BY <1>6 DEF Crash
<1>. QED  BY <1>1, <1>2, <1>3, <1>4, <1>5, <1>6

\* Every step keeps the invariant.
LEMMA NextInv == IInv /\ [Next]_vars => IInv'
<1>. SUFFICES ASSUME IInv, [Next]_vars  PROVE IInv'
  OBVIOUS
<1>1. CASE UNCHANGED vars
  BY <1>1 DEF IInv, TypeOK, RowTypes, HandlerTypes, PaidIsUnlocked, LinkInv, CarryInv, SentInv, OneActive, Unlocks, Carries,
              vars, sellerVars, orderVars, refundVars, handlerVars
<1>2. CASE Moderate
  BY <1>2, ModerateStep
<1>3. ASSUME NEW o \in Orders, Pay(o) \/ \E h \in Handlers : ClaimOrder(h, o)  PROVE IInv'
  BY <1>3, PayStep, ClaimStep
<1>4. ASSUME NEW r \in Refunds,
             \/ RejectRefund(r) \/ (\E p \in Orders : CreateRefund(r, p))
             \/ \E h \in Handlers : ProcessRefund(h, r)
      PROVE  IInv'
  BY <1>4, RefundRowStep, InsertStep
<1>5. ASSUME NEW h \in Handlers,
             FailSpotCheck(h) \/ Unlock(h) \/ Execute(h) \/ Penalise(h) \/ Crash(h)
      PROVE  IInv'
  BY <1>5, UnlockStep, ExecuteStep, PenaltyStep, InsertStep DEF Penalise
<1>. QED  BY <1>1, <1>2, <1>3, <1>4, <1>5 DEF Next

-----------------------------------------------------------------------------
(***************************************************************************)
(* Theorems                                                                *)
(***************************************************************************)

\* Every reachable state has the inductive invariant of the sale.
THEOREM SaleInvariant == Spec => []IInv
<1>. QED  BY InitInv, NextInv, PTL DEF Spec

\* The rows of the sale and the state of its requests keep to their values.
THEOREM SaleTypes == Spec => []TypeOK
<1>1. IInv => TypeOK
  BY DEF IInv
<1>. QED  BY <1>1, SaleInvariant, PTL

\* A paid order ends linked to a purchase of its buyer, written by exactly one
\* of the racing verify and webhook handlers, unless a restart ended it.
THEOREM PaidOrdersUnlock == Spec => []PaidIsUnlocked
<1>1. IInv => PaidIsUnlocked
  BY DEF IInv
<1>. QED  BY <1>1, SaleInvariant, PTL

\* Admins and penalties together pay a purchase back once, timeouts aside.
THEOREM PaidBackAtMostOnce == Spec => []PaidBackOnce
<1>. QED  BY PaidBack, SaleInvariant, PTL

-----------------------------------------------------------------------------
(***************************************************************************)
(* Refinement: executeRefund keeps the promise of RefundPromise, for   *)
(* admins and penalties alike.                                             *)
(***************************************************************************)
Holds(h, r) == pc[h] \in {"pay", "release"} /\ arg[h] = r

RowOf(r) ==
  CASE status[r] = "NONE" -> "none"
    [] status[r] = "PENDING" -> "pending"
    [] status[r] = "REJECTED" -> "rejected"
    [] status[r] = "PROCESSED" -> IF \E h \in Handlers : Holds(h, r) THEN "held" ELSE "left"

Row == [r \in Refunds |-> RowOf(r)]

Promise == INSTANCE RefundPromise WITH row <- Row

LEMMA PromiseInit == Init => Promise!Init
BY DEF Init, Promise!Init, Row, RowOf

\* A step that moves the row of one refund and touches no other.
LEMMA RowMoves ==
  ASSUME NEW r \in Refunds,
         \A x \in Refunds \ {r} : /\ status'[x] = status[x]
                                  /\ \A h \in Handlers : Holds(h, x)' <=> Holds(h, x)
  PROVE  Row' = [Row EXCEPT ![r] = RowOf(r)']
<1>1. \A x \in Refunds \ {r} : RowOf(x)' = RowOf(x)
  BY DEF RowOf
<1>. QED  BY <1>1 DEF Row

\* The moves of one row that pay nothing.
LEMMA PromiseMoves ==
  ASSUME NEW r \in Refunds, sent' = sent,
         \A x \in Refunds \ {r} : /\ status'[x] = status[x]
                                  /\ \A h \in Handlers : Holds(h, x)' <=> Holds(h, x),
         \/ RowOf(r) = "none" /\ RowOf(r)' = "pending"
         \/ RowOf(r) = "pending" /\ RowOf(r)' \in {"held", "rejected"}
         \/ RowOf(r) = "held" /\ RowOf(r)' \in {"pending", "left"}
  PROVE  Promise!Next
<1>1. Row[r] = RowOf(r)
  BY DEF Row
<1>2. Row' = [Row EXCEPT ![r] = RowOf(r)']
  BY RowMoves
<1>. QED
  BY <1>1, <1>2 DEF Promise!Next, Promise!Move, Promise!Open, Promise!Reject, Promise!Claim,
                    Promise!GiveBack, Promise!Abandon

\* A payment, answered or not.
LEMMA PromisePays ==
  ASSUME NEW r \in Refunds, sent' = sent \cup {r},
         \A x \in Refunds \ {r} : /\ status'[x] = status[x]
                                  /\ \A h \in Handlers : Holds(h, x)' <=> Holds(h, x),
         RowOf(r) = "held", RowOf(r)' \in {"held", "left"}
  PROVE  Promise!Next
<1>1. Row[r] = RowOf(r)
  BY DEF Row
<1>2. Row' = [Row EXCEPT ![r] = RowOf(r)']
  BY RowMoves
<1>. QED  BY <1>1, <1>2 DEF Promise!Next, Promise!Pay

LEMMA PromiseStays ==
  ASSUME UNCHANGED <<status, sent>>,
         \A r \in Refunds, h \in Handlers : Holds(h, r)' <=> Holds(h, r)
  PROVE  UNCHANGED <<Row, sent>>
<1>1. \A r \in Refunds : RowOf(r)' = RowOf(r)
  BY DEF RowOf
<1>. QED  BY <1>1 DEF Row

\* Steps of a handler that is not about to pay, before or after.
LEMMA PromiseElsewhere ==
  ASSUME IInv, NEW h \in Handlers, UNCHANGED <<status, sent>>,
         pc[h] \notin {"pay", "release"}, pc'[h] \notin {"pay", "release"},
         \A k \in Handlers \ {h} : pc'[k] = pc[k] /\ arg'[k] = arg[k]
  PROVE  UNCHANGED <<Row, sent>>
<1>1. \A r \in Refunds, k \in Handlers : Holds(k, r)' <=> Holds(k, r)
  BY DEF Holds
<1>. QED  BY <1>1, PromiseStays

\* Rows that are opened or rejected, and claims.
LEMMA PromiseRowStep ==
  ASSUME IInv, NEW r \in Refunds,
         \/ RejectRefund(r)
         \/ \E p \in Orders : CreateRefund(r, p) \/ \E h \in Handlers : RefundNext(h, r, p)
         \/ \E h \in Handlers : ProcessRefund(h, r)
  PROVE  Promise!Next
<1>. USE DEF IInv, TypeOK, RowTypes, HandlerTypes
<1>1. ASSUME NEW p \in Orders, CreateRefund(r, p)  PROVE Promise!Next
  <2>1. status[r] = "NONE" /\ status' = [status EXCEPT ![r] = "PENDING"] /\ UNCHANGED <<sent, pc, arg>>
    BY <1>1 DEF CreateRefund, InsertRefund, handlerVars
  <2>. QED  BY <2>1, PromiseMoves DEF RowOf, Holds
<1>2. ASSUME NEW p \in Orders, NEW h \in Handlers, RefundNext(h, r, p)  PROVE Promise!Next
  <2>1. /\ status[r] = "NONE" /\ status' = [status EXCEPT ![r] = "PENDING"] /\ sent' = sent
        /\ pc[h] = "loop" /\ pc'[h] = "execute"
        /\ \A k \in Handlers \ {h} : pc'[k] = pc[k] /\ arg'[k] = arg[k]
    BY <1>2 DEF RefundNext, InsertRefund, Goto
  <2>2. \A x \in Refunds, k \in Handlers : Holds(k, x)' <=> Holds(k, x)
    BY <2>1 DEF Holds
  <2>. QED  BY <2>1, <2>2, PromiseMoves DEF RowOf
<1>3. CASE RejectRefund(r)
  <2>1. status[r] = "PENDING" /\ status' = [status EXCEPT ![r] = "REJECTED"] /\ UNCHANGED <<sent, pc, arg>>
    BY <1>3 DEF RejectRefund, handlerVars
  <2>. QED  BY <2>1, PromiseMoves DEF RowOf, Holds
<1>4. ASSUME NEW h \in Handlers, ProcessRefund(h, r)  PROVE Promise!Next
  <2>1. /\ status[r] = "PENDING" /\ status' = [status EXCEPT ![r] = "PROCESSED"] /\ sent' = sent
        /\ pc[h] = "idle" /\ pc'[h] = "pay" /\ arg'[h] = r
        /\ \A k \in Handlers \ {h} : pc'[k] = pc[k] /\ arg'[k] = arg[k]
    BY <1>4 DEF ProcessRefund, Goto
  <2>2. Holds(h, r)' /\ \A x \in Refunds \ {r}, k \in Handlers : Holds(k, x)' <=> Holds(k, x)
    BY <2>1 DEF Holds
  <2>3. RowOf(r) = "pending" /\ RowOf(r)' = "held"
    BY <2>1, <2>2 DEF RowOf
  <2>. QED  BY <2>1, <2>2, <2>3, PromiseMoves
<1>. QED  BY <1>1, <1>2, <1>3, <1>4

\* executeRefund: only the handler that claimed the row is on it.
LEMMA PromiseExecuteStep ==
  ASSUME IInv, NEW h \in Handlers, Execute(h) \/ Crash(h)
  PROVE  Promise!Next \/ UNCHANGED <<Row, sent>>
<1>. USE DEF IInv, TypeOK, RowTypes, HandlerTypes
<1>1. \A k \in Handlers \ {h} : pc'[k] = pc[k] /\ arg'[k] = arg[k]
  BY Returns DEF Execute, ClaimRefund, RefundPaid, RefundTimesOut, RefundRefused, ReleaseRefund,
                 Crash, Finish, Goto
<1>2. CASE pc[h] \notin {"pay", "release"} /\ UNCHANGED <<status, sent>>
  <2>1. ClaimRefund(h) => status[arg[h]] # "PENDING"
    BY <1>2 DEF ClaimRefund, RefundPoints
  <2>2. pc[h] \notin {"pay", "release"} /\ (Crash(h) \/ (ClaimRefund(h) /\ Return(h)))
    BY <1>2, <2>1 DEF Execute, ClaimRefund, RefundPaid, RefundTimesOut, RefundRefused, ReleaseRefund
  <2>3. pc'[h] \notin {"pay", "release"}
    BY <2>2, Returns DEF Crash, Finish, Goto
  <2>. QED  BY <1>1, <1>2, <2>3, PromiseElsewhere
<1>3. CASE ClaimRefund(h) /\ status[arg[h]] = "PENDING"
  <2>1. PICK r \in Refunds : r = arg[h]
    BY <1>3 DEF ClaimRefund, RefundPoints
  <2>2. /\ status[r] = "PENDING" /\ status' = [status EXCEPT ![r] = "PROCESSED"] /\ sent' = sent
        /\ pc[h] = "execute" /\ pc'[h] = "pay" /\ arg'[h] = r
    BY <1>3, <2>1 DEF ClaimRefund, Goto
  <2>3. Holds(h, r)' /\ \A x \in Refunds \ {r}, k \in Handlers : Holds(k, x)' <=> Holds(k, x)
    BY <1>1, <2>1, <2>2 DEF Holds
  <2>4. RowOf(r) = "pending" /\ RowOf(r)' = "held"
    BY <2>2, <2>3 DEF RowOf
  <2>. QED  BY <2>2, <2>3, <2>4, PromiseMoves
<1>4. CASE pc[h] \in {"pay", "release"}
  <2>1. PICK r \in Refunds : r = arg[h]
    BY <1>4 DEF RefundPoints
  <2>2. Holds(h, r) /\ status[r] = "PROCESSED" /\ \A k \in Handlers \ {h} : ~Holds(k, r) /\ ~Holds(k, r)'
    BY <1>1, <1>4, <2>1 DEF Holds, Carries, CarryInv
  <2>3. RowOf(r) = "held"
    BY <2>2 DEF RowOf
  <2>4. arg'[h] \in {r, Null}
    BY <1>4, <2>1, Returns DEF Execute, ClaimRefund, RefundPaid, RefundTimesOut, RefundRefused,
                               ReleaseRefund, Crash, Finish, Goto
  <2>5. \A x \in Refunds \ {r}, k \in Handlers : Holds(k, x)' <=> Holds(k, x)
    BY <1>1, <2>1, <2>4, NullAssumption DEF Holds
  <2>6. CASE RefundPaid(h)
    <3>1. sent' = sent \cup {r} /\ status' = status /\ ~Holds(h, r)'
      BY <2>1, <2>6, Returns, NullAssumption DEF RefundPaid, Holds
    <3>2. RowOf(r)' = "left"
      BY <2>2, <3>1 DEF RowOf
    <3>. QED  BY <2>3, <2>5, <3>1, <3>2, PromisePays
  <2>7. CASE RefundTimesOut(h)
    <3>1. sent' = sent \cup {r} /\ status' = status /\ Holds(h, r)'
      BY <2>1, <2>7 DEF RefundTimesOut, Holds, Goto
    <3>2. RowOf(r)' = "held"
      BY <2>2, <3>1 DEF RowOf
    <3>. QED  BY <2>3, <2>5, <3>1, <3>2, PromisePays
  <2>8. CASE RefundRefused(h)
    <3>1. UNCHANGED <<status, sent>> /\ Holds(h, r)'
      BY <2>1, <2>8 DEF RefundRefused, Holds, Goto, refundVars
    <3>2. \A x \in Refunds, k \in Handlers : Holds(k, x)' <=> Holds(k, x)
      BY <2>2, <2>5, <3>1
    <3>. QED  BY <3>1, <3>2, PromiseStays
  <2>9. CASE ReleaseRefund(h)
    <3>1. sent' = sent /\ status' = [status EXCEPT ![r] = "PENDING"]
      BY <2>1, <2>9 DEF ReleaseRefund
    <3>2. RowOf(r)' = "pending"
      BY <3>1 DEF RowOf
    <3>. QED  BY <2>3, <2>5, <3>1, <3>2, PromiseMoves
  <2>10. CASE Crash(h)
    <3>1. UNCHANGED <<status, sent>> /\ ~Holds(h, r)'
      BY <2>1, <2>10 DEF Crash, Holds, Finish, Goto, refundVars
    <3>2. RowOf(r)' = "left"
      BY <2>2, <3>1 DEF RowOf
    <3>. QED  BY <2>3, <2>5, <3>1, <3>2, PromiseMoves
  <2>. QED  BY <1>4, <2>6, <2>7, <2>8, <2>9, <2>10 DEF Execute, ClaimRefund
<1>. QED
  BY <1>2, <1>3, <1>4 DEF Execute, ClaimRefund, RefundPaid, RefundTimesOut, RefundRefused,
                          ReleaseRefund, Crash, refundVars

LEMMA PromiseStep == IInv /\ [Next]_vars => [Promise!Next]_<<Row, sent>>
<1>. SUFFICES ASSUME IInv, [Next]_vars  PROVE Promise!Next \/ UNCHANGED <<Row, sent>>
  OBVIOUS
<1>1. CASE UNCHANGED <<status, sent, pc, arg>>
  BY <1>1, PromiseStays DEF Holds
<1>2. CASE Moderate \/ \E o \in Orders : Pay(o)
  <2>1. UNCHANGED <<status, sent, pc, arg>>
    BY <1>2 DEF Moderate, ApproveListing, WithdrawListing, SuspendSeller, UnsuspendSeller, Pay,
                CreateOrder, Decline, Capture, PaymentFailed, refundVars, handlerVars
  <2>. QED  BY <1>1, <2>1
<1>3. ASSUME NEW h \in Handlers,
             \/ (\E o \in Orders : ClaimOrder(h, o)) \/ FailSpotCheck(h) \/ Unlock(h)
             \/ Strike(h) \/ PenaltySuspend(h) \/ ListBuyers(h)
             \/ \E p \in Orders : PenaltyThrows(h, p)
      PROVE  UNCHANGED <<Row, sent>>
  <2>. USE DEF ClaimOrder, FailSpotCheck, Unlock, LinkEarlier, FindNone, CreatePurchase, LinkCreated,
               Strike, PenaltySuspend, ListBuyers, PenaltyThrows, Finish, Goto, refundVars
  <2>1. UNCHANGED <<status, sent>> /\ pc[h] \notin {"pay", "release"}
    BY <1>3
  <2>2. pc'[h] \notin {"pay", "release"} /\ \A k \in Handlers \ {h} : pc'[k] = pc[k] /\ arg'[k] = arg[k]
    BY <1>3 DEF IInv, TypeOK, HandlerTypes
  <2>. QED  BY <2>1, <2>2, PromiseElsewhere
<1>. QED
  BY <1>1, <1>2, <1>3, PromiseRowStep, PromiseExecuteStep DEF Next, Penalise, vars, refundVars, handlerVars

\* However an admin, a penalty and a restart interleave on the refunds of the
\* purchases, each row goes through executeRefund as RefundPromise says.
THEOREM KeepsRefundPromise == Spec => Promise!Spec
<1>. QED  BY PromiseInit, PromiseStep, SaleInvariant, PTL DEF Spec, Promise!Spec
-----------------------------------------------------------------------------
(***************************************************************************)
(* Refinement: finalizeReportUnlock keeps the promise of PaymentPromise,   *)
(* the same as the payments of a verification.  A report payment is never  *)
(* flagged: a claimed order is recorded when it is linked to a purchase.   *)
(***************************************************************************)
MoneyOf(o) ==
  IF order[o] # "PAID" THEN "open" ELSE IF purchaseId[o] = Null THEN "claimed" ELSE "recorded"

Money == [o \in Orders |-> MoneyOf(o)]

Sale == INSTANCE PaymentPromise WITH money <- Money

LEMMA SaleInit == Init => Sale!Init
BY DEF Init, Sale!Init, Money, MoneyOf

\* Orders of which neither the claim nor the link changes.
LEMMA MoneyStays ==
  ASSUME UNCHANGED purchaseId, \A o \in Orders : order'[o] = "PAID" <=> order[o] = "PAID"
  PROVE  Money' = Money
BY DEF Money, MoneyOf

\* A step that moves one order and leaves the others.
LEMMA MoneyMoves ==
  ASSUME NEW o \in Orders,
         \A p \in Orders \ {o} : order'[p] = order[p] /\ purchaseId'[p] = purchaseId[p]
  PROVE  Money' = [Money EXCEPT ![o] = MoneyOf(o)']
<1>1. \A p \in Orders \ {o} : MoneyOf(p)' = MoneyOf(p)
  BY DEF MoneyOf
<1>. QED  BY <1>1 DEF Money

LEMMA SalePayStep ==
  ASSUME IInv, NEW o \in Orders, Pay(o)
  PROVE  Money' = Money
<1>1. UNCHANGED purchaseId /\ \A p \in Orders : order'[p] = "PAID" <=> order[p] = "PAID"
  BY DEF Pay, CreateOrder, Decline, Capture, PaymentFailed, IInv, TypeOK, RowTypes
<1>. QED  BY <1>1, MoneyStays

LEMMA SaleClaimStep ==
  ASSUME IInv, NEW h \in Handlers, NEW o \in Orders, ClaimOrder(h, o)
  PROVE  Sale!Next
<1>1. order[o] = "CREATED" /\ order' = [order EXCEPT ![o] = "PAID"] /\ purchaseId' = purchaseId
  BY DEF ClaimOrder, Claimable
<1>2. purchaseId[o] = Null
  BY <1>1 DEF IInv, LinkInv
<1>3. Money[o] = "open" /\ MoneyOf(o)' = "claimed"
  BY <1>1, <1>2 DEF Money, MoneyOf, IInv, TypeOK, RowTypes
<1>4. Money' = [Money EXCEPT ![o] = "claimed"]
  BY <1>1, <1>3, MoneyMoves DEF IInv, TypeOK, RowTypes
<1>. QED  BY <1>3, <1>4 DEF Sale!Next, Sale!Claim

\* The link is written by the one handler of the order, which was not linked.
LEMMA SaleLinkStep ==
  ASSUME IInv, NEW h \in Handlers, LinkEarlier(h) \/ LinkCreated(h)
  PROVE  Sale!Next
<1>1. pc[h] \in UnlockPoints
  BY DEF LinkEarlier, LinkCreated, UnlockPoints
<1>2. PICK o \in Orders : o = arg[h]
  BY <1>1 DEF IInv, TypeOK, HandlerTypes
<1>3. order[o] = "PAID" /\ purchaseId[o] = Null
  BY <1>1, <1>2 DEF IInv, PaidIsUnlocked, Unlocks
<1>4. order' = order /\ \E p \in Orders : purchaseId' = [purchaseId EXCEPT ![o] = p]
  BY <1>2 DEF LinkEarlier, LinkCreated, EarlierPurchases, IInv, TypeOK, RowTypes
<1>5. Money[o] = "claimed" /\ MoneyOf(o)' = "recorded"
  BY <1>3, <1>4, NullAssumption DEF Money, MoneyOf, IInv, TypeOK, RowTypes
<1>6. Money' = [Money EXCEPT ![o] = "recorded"]
  BY <1>4, <1>5, MoneyMoves DEF IInv, TypeOK, RowTypes
<1>. QED  BY <1>5, <1>6 DEF Sale!Next, Sale!Account

LEMMA SaleStep == IInv /\ [Next]_vars => [Sale!Next]_Money
<1>. SUFFICES ASSUME IInv, [Next]_vars  PROVE Sale!Next \/ Money' = Money
  OBVIOUS
<1>1. CASE UNCHANGED <<order, purchaseId>>
  BY <1>1, MoneyStays
<1>2. CASE \E o \in Orders : Pay(o)
  BY <1>2, SalePayStep
<1>3. CASE \E o \in Orders, h \in Handlers : ClaimOrder(h, o)
  BY <1>3, SaleClaimStep
<1>4. CASE \E h \in Handlers : LinkEarlier(h) \/ LinkCreated(h)
  BY <1>4, SaleLinkStep
<1>5. ASSUME NEW r \in Refunds,
             \/ RejectRefund(r)
             \/ \E p \in Orders : CreateRefund(r, p) \/ \E h \in Handlers : RefundNext(h, r, p)
             \/ \E h \in Handlers : ProcessRefund(h, r)
      PROVE  UNCHANGED <<order, purchaseId>>
  BY <1>5 DEF RejectRefund, CreateRefund, RefundNext, ProcessRefund, orderVars
<1>6. ASSUME NEW h \in Handlers, FindNone(h) \/ CreatePurchase(h) \/ Execute(h) \/ Crash(h)
      PROVE  UNCHANGED <<order, purchaseId>>
  BY <1>6 DEF FindNone, CreatePurchase, Execute, ClaimRefund, RefundPaid, RefundTimesOut,
              RefundRefused, ReleaseRefund, Crash, orderVars
<1>7. ASSUME NEW h \in Handlers,
             \/ FailSpotCheck(h) \/ Strike(h) \/ PenaltySuspend(h) \/ ListBuyers(h)
             \/ \E p \in Orders : PenaltyThrows(h, p)
      PROVE  UNCHANGED <<order, purchaseId>>
  BY <1>7 DEF FailSpotCheck, Strike, PenaltySuspend, ListBuyers, PenaltyThrows, orderVars
<1>8. CASE Moderate
  <2>1. UNCHANGED <<order, purchaseId>>
    BY <1>8 DEF Moderate, ApproveListing, WithdrawListing, SuspendSeller, UnsuspendSeller, orderVars
  <2>. QED  BY <1>1, <2>1
<1>. QED
  BY <1>1, <1>2, <1>3, <1>4, <1>5, <1>6, <1>7, <1>8 DEF Next, Unlock, Penalise, vars, orderVars

\* Verify and webhook may both deliver a payment, and a restart may end either:
\* an order is claimed once and linked once, as PaymentPromise says.
THEOREM KeepsPaymentPromise == Spec => Sale!Safe
<1>. QED  BY SaleInit, SaleStep, SaleInvariant, PTL DEF Spec, Sale!Safe
=============================================================================
