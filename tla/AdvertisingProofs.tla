--------------------------- MODULE AdvertisingProofs ---------------------------
(***************************************************************************)
(* Theorems about Advertising, for any payments, refunds, tokens, requests *)
(* at work, budgets and price.                                             *)
(*                                                                         *)
(* Payment and billing are inductive nearly as stated.  That REFUNDED is   *)
(* Razorpay's word needs to know, when an answer is written, that the      *)
(* refund in it was made for the payment the handler claimed (CarryInv).   *)
(***************************************************************************)
EXTENDS Advertising, FiniteSetTheorems, TLAPS

Answered == {"returned", "returning"}

\* What handlers carry and rows store are refunds that exist.
CarryInv ==
  /\ \A h \in Handlers : pc[h] \in Answered =>
       /\ got[h] \in Returns /\ made[got[h]] # "none" /\ madeFor[got[h]] = pay[h]
       /\ pc[h] = "returned" => made[got[h]] = "processed"
  /\ \A p \in Payments : refundId[p] # Nil => made[refundId[p]] # "none"

IInv == TypeOK /\ BudgetIsKept /\ LiveIsPaid /\ RefundedIsReturned /\ CarryInv

-----------------------------------------------------------------------------
\* What was spent is a whole number of paise.
LEMMA SpentIsInt ==
  ASSUME NEW n \in Nat
  PROVE  Spent(n) \in Int
BY PriceAssumption DEF Spent

LEMMA InitInv == Init => IInv
<1>. SUFFICES ASSUME Init  PROVE IInv
  OBVIOUS
<1>1. TypeOK
  BY DEF Init, TypeOK, Statuses, Payable, Points, RefundPoints
<1>2. BudgetIsKept
  <2>1. Billed = {}
    BY DEF Init, Billed
  <2>2. Spent(0) = 0
    BY PriceAssumption DEF Spent
  <2>. QED  BY <2>1, <2>2, FS_EmptySet, PriceAssumption DEF Init, BudgetIsKept
<1>3. LiveIsPaid
  BY DEF Init, LiveIsPaid, Payable, Paid
<1>4. RefundedIsReturned /\ CarryInv
  BY DEF Init, RefundedIsReturned, CarryInv, Answered
<1>. QED  BY <1>1, <1>2, <1>3, <1>4 DEF IInv

\* What moderation and the sweep share.
LEMMA TransitionInv ==
  ASSUME IInv, NEW from, NEW to \in Statuses \ Payable, Transition(from, to),
         from \cap Payable = {}, to # "EXHAUSTED",
         UNCHANGED handlerVars \/ \E h \in Handlers, point \in Points \ RefundPoints :
            /\ pc' = [pc EXCEPT ![h] = point]
            /\ pay' \in [Handlers -> Payments \cup {Nil}]
            /\ got' \in [Handlers -> Returns \cup {Nil}]
            /\ \A g \in Handlers \ {h} : pay'[g] = pay[g] /\ got'[g] = got[g]
  PROVE  IInv'
<1>1. listed' \in BOOLEAN
  BY Zenon DEF IInv, TypeOK, Transition
<1>2. TypeOK'
  BY <1>1 DEF IInv, TypeOK, Transition, Points, RefundPoints, handlerVars, paymentVars, refundVars, bankVars
<1>3. BudgetIsKept'
  BY DEF IInv, BudgetIsKept, Transition, Billed, Paid, paymentVars
<1>4. LiveIsPaid'
  BY DEF IInv, LiveIsPaid, Transition, Payable, Paid, paymentVars
<1>5. RefundedIsReturned' /\ CarryInv'
  BY DEF IInv, TypeOK, RefundedIsReturned, CarryInv, Answered, Points, RefundPoints, Transition, refundVars,
         bankVars, handlerVars
<1>. QED  BY <1>2, <1>3, <1>4, <1>5 DEF IInv

\* Payments: captured, failed, finalized; orders.
LEMMA PayingStep ==
  ASSUME IInv, Paying
  PROVE  IInv'
<1>. USE DEF IInv, TypeOK, BudgetIsKept, LiveIsPaid, RefundedIsReturned, CarryInv, Answered, Paid,
             Payable, Statuses, Points, RefundPoints, Billed, campaignVars, paymentVars, refundVars,
             bankVars, servingVars, handlerVars, Goto, Finish
<1>1. ASSUME NEW p \in Payments, Capture(p)  PROVE IInv'
  BY <1>1 DEF Capture
<1>2. ASSUME NEW p \in Payments, PaymentFailed(p)  PROVE IInv'
  BY <1>2 DEF PaymentFailed
<1>3. ASSUME NEW p \in Payments, FinalizePayment(p)  PROVE IInv'
  BY <1>3 DEF FinalizePayment
<1>4. ASSUME NEW h \in Handlers, StartPayment(h)  PROVE IInv'
  BY <1>4 DEF StartPayment
<1>5. ASSUME NEW h \in Handlers, NEW p \in Payments, RecordOrder(h, p)  PROVE IInv'
  BY <1>5 DEF RecordOrder
<1>. QED  BY <1>1, <1>2, <1>3, <1>4, <1>5 DEF Paying

\* Moderation.
LEMMA ModeratingStep ==
  ASSUME IInv, Moderating
  PROVE  IInv'
<1>1. CASE Pause \/ Stop
  BY <1>1, TransitionInv DEF Pause, Stop, Payable, Statuses
<1>2. ASSUME NEW h \in Handlers, ReadCampaign(h)  PROVE IInv'
  BY <1>2 DEF ReadCampaign, IInv, TypeOK, BudgetIsKept, LiveIsPaid, RefundedIsReturned, CarryInv, Answered,
             Paid, Payable, Statuses, Points, RefundPoints, Billed, campaignVars, paymentVars, refundVars,
             bankVars, servingVars, handlerVars, Goto
<1>3. ASSUME NEW h \in Handlers, Activate(h)  PROVE IInv'
  <2>1. PICK from : from \cap Payable = {} /\ Transition(from, "ACTIVE")
    BY <1>3 DEF Activate, Payable
  <2>2. /\ pc' = [pc EXCEPT ![h] = "idle"]
        /\ pay' \in [Handlers -> Payments \cup {Nil}]
        /\ got' \in [Handlers -> Returns \cup {Nil}]
        /\ \A g \in Handlers \ {h} : pay'[g] = pay[g] /\ got'[g] = got[g]
    BY <1>3 DEF Activate, Finish, IInv, TypeOK
  <2>3. "ACTIVE" \in Statuses \ Payable /\ "idle" \in Points \ RefundPoints
    BY DEF Statuses, Payable, Points, RefundPoints
  <2>. QED  BY <2>1, <2>2, <2>3, TransitionInv
<1>4. ASSUME NEW h \in Handlers, RejectCampaign(h)  PROVE IInv'
  <2>1. {"PENDING_APPROVAL"} \cap Payable = {} /\ Transition({"PENDING_APPROVAL"}, "REJECTED")
    BY <1>4 DEF RejectCampaign, Payable
  <2>2. /\ pc' = [pc EXCEPT ![h] = "check"]
        /\ pay' \in [Handlers -> Payments \cup {Nil}]
        /\ got' \in [Handlers -> Returns \cup {Nil}]
        /\ \A g \in Handlers \ {h} : pay'[g] = pay[g] /\ got'[g] = got[g]
    BY <1>4 DEF RejectCampaign, Goto, IInv, TypeOK
  <2>3. "REJECTED" \in Statuses \ Payable /\ "check" \in Points \ RefundPoints
    BY DEF Statuses, Payable, Points, RefundPoints
  <2>. QED  BY <2>1, <2>2, <2>3, TransitionInv
<1>. QED  BY <1>1, <1>2, <1>3, <1>4 DEF Moderating

\* The refund, from the request to the bank's word.
LEMMA RefundingStep ==
  ASSUME IInv, Refunding
  PROVE  IInv'
<1>. USE NilAssumption
     DEF IInv, TypeOK, BudgetIsKept, LiveIsPaid, RefundedIsReturned, CarryInv, Answered, Paid,
             Payable, Statuses, Points, RefundPoints, Billed, campaignVars, paymentVars, refundVars,
             bankVars, servingVars, handlerVars, Goto, Finish
<1>1. ASSUME NEW h \in Handlers, RetryRefund(h) \/ CheckRejected(h)  PROVE IInv'
  <2>1. CASE RetryRefund(h)
    BY <2>1 DEF RetryRefund
  <2>2. CASE CheckRejected(h)
    BY <2>2 DEF CheckRejected
  <2>. QED  BY <1>1, <2>1, <2>2
<1>2. ASSUME NEW h \in Handlers, ClaimRefund(h)  PROVE IInv'
  BY <1>2 DEF ClaimRefund
<1>3. ASSUME NEW h \in Handlers, RefundRefused(h)  PROVE IInv'
  BY <1>3 DEF RefundRefused
<1>4. ASSUME NEW h \in Handlers, RecordFailure(h)  PROVE IInv'
  BY <1>4 DEF RecordFailure
<1>5. ASSUME NEW h \in Handlers, SettleRefund(h)  PROVE IInv'
  BY <1>5 DEF SettleRefund
<1>6. ASSUME NEW h \in Handlers, NEW r \in Returns, RefundAccepted(h, r)  PROVE IInv'
  BY <1>6 DEF RefundAccepted
<1>7. ASSUME NEW h \in Handlers, NEW r \in Returns, RefundTimesOut(h, r)  PROVE IInv'
  BY <1>7 DEF RefundTimesOut
<1>8. ASSUME NEW r \in Returns, BankSettles(r)  PROVE IInv'
  BY <1>8 DEF BankSettles
<1>9. ASSUME NEW r \in Returns, NEW p \in Payments, RefundEvent(r, p)  PROVE IInv'
  BY <1>9 DEF RefundEvent
<1>. QED  BY <1>1, <1>2, <1>3, <1>4, <1>5, <1>6, <1>7, <1>8, <1>9 DEF Refunding

\* Serving, and the impression that is billed.
LEMMA ServingStep ==
  ASSUME IInv, Serving
  PROVE  IInv'
<1>1. CASE SweepExpired
  BY <1>1, TransitionInv DEF SweepExpired, Payable, Statuses
<1>. USE DEF IInv, TypeOK, LiveIsPaid, RefundedIsReturned, CarryInv, Paid, Payable, Statuses, Billed,
             campaignVars, paymentVars, refundVars, bankVars, servingVars, handlerVars
<1>2. CASE LookUpEligible
  <2>1. listed' \in BOOLEAN
    BY <1>2, Zenon DEF LookUpEligible
  <2>. QED  BY <1>2, <2>1 DEF LookUpEligible, BudgetIsKept
<1>3. CASE TimePasses
  BY <1>3 DEF TimePasses, BudgetIsKept
<1>4. ASSUME NEW t \in Tokens, Serve(t)  PROVE IInv'
  <2>1. Billed' = Billed
    BY <1>4 DEF Serve
  <2>2. TypeOK'
    BY <1>4 DEF Serve
  <2>3. (LiveIsPaid /\ RefundedIsReturned /\ CarryInv)'
    BY <1>4 DEF Serve
  <2>4. BudgetIsKept'
    BY ONLY BudgetIsKept, <1>4, <2>1 DEF Serve, BudgetIsKept, Paid, campaignVars, paymentVars
  <2>. QED  BY <2>2, <2>3, <2>4
<1>5. ASSUME NEW t \in Tokens, RecordImpression(t)  PROVE IInv'
  <2>1. listed' \in BOOLEAN
    BY <1>5, Zenon DEF RecordImpression, Bill
  <2>2. TypeOK'
    <3>1. status' \in Statuses /\ impressions' \in Nat /\ token' \in [Tokens -> {"new", "served", "billed"}]
      <4>1. status' \in {status, "EXHAUSTED"}
        BY ONLY <1>5 DEF RecordImpression, Bill
      <4>. QED  BY <1>5, <4>1 DEF RecordImpression, Bill
    <3>. QED  BY <1>5, <2>1, <3>1 DEF RecordImpression, Bill
  <2>3. (LiveIsPaid /\ RefundedIsReturned /\ CarryInv)'
    BY <1>5 DEF RecordImpression, Bill
  <2>4. impressions' = Cardinality(Billed')
    <3>1. Billed' = Billed \cup {t} /\ t \notin Billed
      BY <1>5 DEF RecordImpression, Bill
    <3>2. IsFiniteSet(Billed)
      BY TokensAssumption, FS_Subset
    <3>3. Cardinality(Billed \cup {t}) = Cardinality(Billed) + 1
      BY ONLY <3>1, <3>2, FS_AddElement
    <3>4. impressions' = impressions + 1 /\ impressions = Cardinality(Billed)
      BY <1>5 DEF RecordImpression, Bill, BudgetIsKept
    <3>. QED  BY ONLY <3>1, <3>3, <3>4
  <2>5. Spent(impressions + 1) \in Int /\ budget \in Nat
    BY SpentIsInt, PriceAssumption
  <2>6. (Spent(impressions) <= budget)' /\ (status = "EXHAUSTED" => Spent(impressions) = budget)'
    <3>1. impressions' = impressions + 1 /\ budget' = budget /\ Spent(impressions + 1) <= budget
      BY <1>5 DEF RecordImpression, Bill
    <3>2. status' = "EXHAUSTED" => Spent(impressions + 1) >= budget
      BY <1>5 DEF RecordImpression, Bill
    <3>3. (Spent(impressions))' = Spent(impressions + 1)
      BY <3>1 DEF Spent
    <3>. QED  BY <3>1, <3>2, <3>3, <2>5
  <2>7. (impressions > 0 => Paid # {})'
    BY <1>5 DEF RecordImpression, Bill
  <2>. QED  BY <2>2, <2>3, <2>4, <2>6, <2>7 DEF BudgetIsKept
<1>. QED  BY <1>1, <1>2, <1>3, <1>4, <1>5 DEF Serving

\* Every step keeps the invariant.
LEMMA NextInv == IInv /\ [Next]_vars => IInv'
<1>. SUFFICES ASSUME IInv, [Next]_vars  PROVE IInv'
  OBVIOUS
<1>. USE DEF IInv, TypeOK, BudgetIsKept, LiveIsPaid, RefundedIsReturned, CarryInv, Answered, Paid, Billed,
             Points, RefundPoints, campaignVars, paymentVars, refundVars, bankVars, servingVars, handlerVars
<1>1. CASE UNCHANGED vars
  BY <1>1 DEF vars
<1>2. ASSUME NEW h \in Handlers, Interrupt(h)  PROVE IInv'
  BY <1>2 DEF Interrupt, Finish
<1>3. CASE Paying \/ Moderating \/ Refunding \/ Serving
  BY <1>3, PayingStep, ModeratingStep, RefundingStep, ServingStep
<1>. QED  BY <1>1, <1>2, <1>3 DEF Next

-----------------------------------------------------------------------------
(***************************************************************************)
(* Theorems                                                                *)
(***************************************************************************)

\* Every reachable state has the inductive invariant of the campaign.
THEOREM CampaignInvariant == Spec => []IInv
<1>. QED  BY InitInv, NextInv, PTL DEF Spec

\* The rows of the campaign and its handlers keep to their values.
THEOREM CampaignTypes == Spec => []TypeOK
<1>1. IInv => TypeOK
  BY DEF IInv
<1>. QED  BY <1>1, CampaignInvariant, PTL

\* No campaign is billed twice for a token or beyond its budget, whatever the
\* price and the budget.
THEOREM BudgetIsAlwaysKept == Spec => []BudgetIsKept
<1>1. IInv => BudgetIsKept
  BY DEF IInv
<1>. QED  BY <1>1, CampaignInvariant, PTL

\* Nothing is moderated, served or refunded that was not paid.
THEOREM LiveWasPaid == Spec => []LiveIsPaid
<1>1. IInv => LiveIsPaid
  BY DEF IInv
<1>. QED  BY <1>1, CampaignInvariant, PTL

\* A payment is REFUNDED only after Razorpay processed a refund of it.
THEOREM RefundedWasReturned == Spec => []RefundedIsReturned
<1>1. IInv => RefundedIsReturned
  BY DEF IInv
<1>. QED  BY <1>1, CampaignInvariant, PTL
=============================================================================
