---------------------- MODULE VerificationPaymentProofs ----------------------
(***************************************************************************)
(* Theorems about VerificationPayment, for any set of orders and handlers, *)
(* any cancellation rate, and with restarts at any point (CrashSpec) except *)
(* where a theorem names Spec.                                             *)
(***************************************************************************)
EXTENDS VerificationPayment, TLAPS

(***************************************************************************)
(* The inductive invariant, by subject.                                    *)
(***************************************************************************)
Carries(h) == pc[h] \in {"settle", "strand"}
Creates(h) == pc[h] \in {"createOrder", "recordPending"}
LegCaptured(l) == \E o \in Orders : ledger[o] > 0 /\ leg[o] = l

\* An order id has one creator and, once claimed, one carrier; whoever
\* carries an order found it PAID and nothing recorded for it yet.
OrderInv ==
  /\ CapturedOnce
  /\ \A o \in Orders : order[o] # "NONE" => leg[o] \in Legs
  /\ \A h \in Handlers : Creates(h) => handled[h] \in Orders /\ leg[handled[h]] \in Legs
  /\ \A h \in Handlers : pc[h] = "createOrder" => order[handled[h]] = "NONE"
  /\ \A g, h \in Handlers :
       pc[g] = "createOrder" /\ pc[h] = "createOrder" /\ g # h => handled[g] # handled[h]
  /\ \A h \in Handlers :
       Carries(h) => /\ handled[h] \in charged
                     /\ order[handled[h]] = "PAID"
                     /\ leg[handled[h]] \in Legs
                     /\ ledger[handled[h]] = 0
  /\ \A g, h \in Handlers : Carries(g) /\ Carries(h) /\ g # h => handled[g] # handled[h]

\* What has been captured and written when the request is in a state, or a
\* handler has passed the read that will write that state.
DeliveryInv ==
  /\ status \in {"ADVANCE_PAID", "IN_PROGRESS"} => LegCaptured("ADVANCE")
  /\ hasReport => LegCaptured("ADVANCE")
  /\ \A h \in Handlers : pc[h] = "commitReport" => LegCaptured("ADVANCE")
  /\ status \in {"COMPLETED", "FINAL_PAYMENT_PENDING", "REPORT_UNLOCKED"} => hasReport
  /\ \A h \in Handlers : Creates(h) /\ leg[handled[h]] = "FINAL" => hasReport
  /\ status = "REPORT_UNLOCKED" => LegCaptured("FINAL")

EarningInv ==
  /\ status = "OPEN" => ~byExpert /\ \A o \in Orders : ledger[o] = 0
  /\ EarningsMatchLedger
  /\ claimWindow # NoOrder => ledger[claimWindow] > 0 /\ leg[claimWindow] = "FINAL"
  /\ status = "REPORT_UNLOCKED" =>
       claimWindow # NoOrder /\ \A o \in Orders : earning[o] # "EARNED"

\* The fee entries exist before any order is refunded by a cancellation.
RefundInv ==
  FeeRate # "none" =>
    \A o \in Orders : refunded[o] <= 1 /\ (~feeRecorded => refunded[o] = 0)

IInv == TypeOK /\ OrderInv /\ DeliveryInv /\ EarningInv /\ RefundInv

\* Without restarts: where the money of every order is.
AccountInv ==
  \A o \in Orders :
    \/ order[o] # "PAID" /\ ledger[o] = 0 /\ stranded[o] = 0
    \/ order[o] = "PAID" /\ ledger[o] = 0 /\ stranded[o] = 0 /\ InFlight(o)
    \/ order[o] = "PAID" /\ ledger[o] = 1 /\ stranded[o] = 0 /\ ~InFlight(o)
    \/ order[o] = "PAID" /\ ledger[o] = 0 /\ stranded[o] = 1 /\ ~InFlight(o)


(***************************************************************************)
(* Type correctness                                                        *)
(***************************************************************************)
LEMMA TypeInit == Init => TypeOK
<1> SUFFICES ASSUME Init
             PROVE  TypeOK
  OBVIOUS
<1>1. /\ status \in Statuses /\ hasTarget \in BOOLEAN /\ byExpert \in BOOLEAN
      /\ hasReport \in BOOLEAN /\ feeRecorded \in BOOLEAN
      /\ claimWindow \in Orders \cup {NoOrder}
  BY DEF Init, Statuses
<1>2. /\ order \in [Orders -> {"NONE", "CREATED", "PAID", "FAILED"}]
      /\ leg \in [Orders -> Legs \cup {"NONE"}]
      /\ earning \in [Orders -> {"NONE", "EARNED", "PENDING_SETTLEMENT"}]
  BY DEF Init
<1>3. /\ ledger \in [Orders -> Nat] /\ stranded \in [Orders -> Nat]
      /\ refunded \in [Orders -> Nat]
  BY DEF Init
<1>4. /\ issued \subseteq Orders /\ charged \subseteq Orders /\ declined \subseteq Orders
  BY DEF Init
<1>5. /\ pc \in [Handlers -> Points]
      /\ handled \in [Handlers -> Orders \cup {NoOrder}]
      /\ counted \in [Handlers -> SUBSET Orders]
      /\ \A h \in Handlers : pc[h] \in OrderPoints => handled[h] \in Orders
  BY DEF Init, Points, OrderPoints
<1>6. QED
  BY <1>1, <1>2, <1>3, <1>4, <1>5 DEF TypeOK

LEMMA TypeNext == TypeOK /\ [CrashNext]_vars => TypeOK'
<1> SUFFICES ASSUME TypeOK, [CrashNext]_vars
             PROVE  TypeOK'
  OBVIOUS
<1> USE DEF TypeOK, Statuses, Points, OrderPoints, Legs, requestVars, orderVars, gatewayVars, handlerVars
<1>1. CASE AcceptQuote
  BY <1>1 DEF AcceptQuote
<1>2. CASE StartVerification
  BY <1>2 DEF StartVerification
<1>3. CASE LinkDiscoveredProperty
  BY <1>3 DEF LinkDiscoveredProperty
<1>4. ASSUME NEW o \in Orders, Charge(o)
      PROVE  TypeOK'
  BY <1>4 DEF Charge
<1>5. ASSUME NEW o \in Orders, Decline(o)
      PROVE  TypeOK'
  BY <1>5 DEF Decline
<1>6. ASSUME NEW o \in Orders, PaymentFailed(o)
      PROVE  TypeOK'
  BY <1>6 DEF PaymentFailed
<1>7. ASSUME NEW h \in Handlers, NEW o \in Orders, CreateOrder(h, o)
      PROVE  TypeOK'
  BY <1>7 DEF CreateOrder, Begin, OrderableLeg
<1>8. ASSUME NEW h \in Handlers, NEW o \in Orders, Finalize(h, o)
      PROVE  TypeOK'
  BY <1>8 DEF Finalize, Begin
<1>9. ASSUME NEW h \in Handlers, SubmitReport(h)
      PROVE  TypeOK'
  BY <1>9 DEF SubmitReport, Begin
<1>10. ASSUME NEW h \in Handlers, Cancel(h)
      PROVE  TypeOK'
  BY <1>10 DEF Cancel, Begin
<1>11. ASSUME NEW h \in Handlers, OrderRefused(h)
      PROVE  TypeOK'
  BY <1>11 DEF OrderRefused, Finish
<1>12. ASSUME NEW h \in Handlers, RecordOrder(h)
      PROVE  TypeOK'
  BY <1>12 DEF RecordOrder
<1>13. ASSUME NEW h \in Handlers, RecordPending(h)
      PROVE  TypeOK'
  BY <1>13 DEF RecordPending, Finish, PendingStatus
<1>14. ASSUME NEW h \in Handlers, SettleAdvance(h)
      PROVE  TypeOK'
  BY <1>14 DEF SettleAdvance, Finish, EarningFor
<1>15. ASSUME NEW h \in Handlers, SettleFinal(h)
      PROVE  TypeOK'
  BY <1>15 DEF SettleFinal, Finish, EarningFor, Promoted, OpenedWindow
<1>16. ASSUME NEW h \in Handlers, SettleMissed(h)
      PROVE  TypeOK'
  BY <1>16 DEF SettleMissed
<1>17. ASSUME NEW h \in Handlers, RefundStrandedPayment(h)
      PROVE  TypeOK'
  BY <1>17 DEF RefundStrandedPayment, Finish
<1>18. ASSUME NEW h \in Handlers, CommitReport(h)
      PROVE  TypeOK'
  BY <1>18 DEF CommitReport, Finish
<1>19. ASSUME NEW h \in Handlers, CommitReportAgain(h)
      PROVE  TypeOK'
  BY <1>19 DEF CommitReportAgain, Finish
<1>20. ASSUME NEW h \in Handlers, ReadPaidOrders(h)
      PROVE  TypeOK'
  BY <1>20 DEF ReadPaidOrders, PaidOrders
<1>21. ASSUME NEW h \in Handlers, CommitCancel(h)
      PROVE  TypeOK'
  BY <1>21 DEF CommitCancel, Finish, FeeCharged, RefundDue
<1>22. ASSUME NEW h \in Handlers, CancelLost(h)
      PROVE  TypeOK'
  BY <1>22 DEF CancelLost, Finish
<1>23. CASE Crash
  BY <1>23 DEF Crash
<1>24. CASE UNCHANGED vars
  BY <1>24 DEF vars
<1>25. QED
  BY <1>1, <1>2, <1>3, <1>4, <1>5, <1>6, <1>7, <1>8, <1>9, <1>10, <1>11, <1>12, <1>13, <1>14, <1>15, <1>16, <1>17, <1>18, <1>19, <1>20, <1>21, <1>22, <1>23, <1>24 DEF CrashNext, Next, Step

(***************************************************************************)
(* Who holds which order                                                   *)
(***************************************************************************)
LEMMA OrderInit == Init => OrderInv
  BY DEF Init, OrderInv, CapturedOnce, Creates, Carries

LEMMA OrderNext ==
  TypeOK /\ TypeOK' /\ OrderInv /\ [CrashNext]_vars => OrderInv'
<1> SUFFICES ASSUME TypeOK, TypeOK', OrderInv, [CrashNext]_vars
             PROVE  OrderInv'
  OBVIOUS
<1> USE DEF TypeOK, OrderPoints, Points, Legs, requestVars, orderVars, gatewayVars, handlerVars,
         OrderInv, CapturedOnce, Creates, Carries
<1>1. CASE AcceptQuote
  BY <1>1 DEF AcceptQuote
<1>2. CASE StartVerification
  BY <1>2 DEF StartVerification
<1>3. CASE LinkDiscoveredProperty
  BY <1>3 DEF LinkDiscoveredProperty
<1>4. ASSUME NEW o \in Orders, Charge(o)
      PROVE  OrderInv'
  BY <1>4 DEF Charge
<1>5. ASSUME NEW o \in Orders, Decline(o)
      PROVE  OrderInv'
  BY <1>5 DEF Decline
<1>6. ASSUME NEW o \in Orders, PaymentFailed(o)
      PROVE  OrderInv'
  BY <1>6 DEF PaymentFailed
<1>7. ASSUME NEW h \in Handlers, NEW o \in Orders, CreateOrder(h, o)
      PROVE  OrderInv'
  BY <1>7 DEF CreateOrder, Begin, OrderableLeg
<1>8. ASSUME NEW h \in Handlers, NEW o \in Orders, Finalize(h, o)
      PROVE  OrderInv'
  BY <1>8 DEF Finalize, Begin, Claimable
<1>9. ASSUME NEW h \in Handlers, SubmitReport(h)
      PROVE  OrderInv'
  BY <1>9 DEF SubmitReport, Begin
<1>10. ASSUME NEW h \in Handlers, Cancel(h)
      PROVE  OrderInv'
  BY <1>10 DEF Cancel, Begin
<1>11. ASSUME NEW h \in Handlers, OrderRefused(h)
      PROVE  OrderInv'
  BY <1>11 DEF OrderRefused, Finish
<1>12. ASSUME NEW h \in Handlers, RecordOrder(h)
      PROVE  OrderInv'
  BY <1>12 DEF RecordOrder
<1>13. ASSUME NEW h \in Handlers, RecordPending(h)
      PROVE  OrderInv'
  BY <1>13 DEF RecordPending, Finish, PendingStatus
<1>14. ASSUME NEW h \in Handlers, SettleAdvance(h)
      PROVE  OrderInv'
  BY <1>14 DEF SettleAdvance, Finish, EarningFor
<1>15. ASSUME NEW h \in Handlers, SettleFinal(h)
      PROVE  OrderInv'
  BY <1>15 DEF SettleFinal, Finish, EarningFor, Promoted, OpenedWindow
<1>16. ASSUME NEW h \in Handlers, SettleMissed(h)
      PROVE  OrderInv'
  BY <1>16 DEF SettleMissed
<1>17. ASSUME NEW h \in Handlers, RefundStrandedPayment(h)
      PROVE  OrderInv'
  BY <1>17 DEF RefundStrandedPayment, Finish
<1>18. ASSUME NEW h \in Handlers, CommitReport(h)
      PROVE  OrderInv'
  BY <1>18 DEF CommitReport, Finish
<1>19. ASSUME NEW h \in Handlers, CommitReportAgain(h)
      PROVE  OrderInv'
  BY <1>19 DEF CommitReportAgain, Finish
<1>20. ASSUME NEW h \in Handlers, ReadPaidOrders(h)
      PROVE  OrderInv'
  BY <1>20 DEF ReadPaidOrders, PaidOrders
<1>21. ASSUME NEW h \in Handlers, CommitCancel(h)
      PROVE  OrderInv'
  BY <1>21 DEF CommitCancel, Finish, FeeCharged, RefundDue, CancellableStatuses, CancelPossible
<1>22. ASSUME NEW h \in Handlers, CancelLost(h)
      PROVE  OrderInv'
  BY <1>22 DEF CancelLost, Finish
<1>23. CASE Crash
  BY <1>23 DEF Crash
<1>24. CASE UNCHANGED vars
  BY <1>24 DEF vars
<1>25. QED
  BY <1>1, <1>2, <1>3, <1>4, <1>5, <1>6, <1>7, <1>8, <1>9, <1>10, <1>11,
     <1>12, <1>13, <1>14, <1>15, <1>16, <1>17, <1>18, <1>19, <1>20, <1>21,
     <1>22, <1>23, <1>24 DEF CrashNext, Next, Step

(***************************************************************************)
(* What has been paid when the request moves on                            *)
(***************************************************************************)
LEMMA DeliveryInit == Init => DeliveryInv
  BY DEF Init, DeliveryInv, Creates

LEMMA DeliveryNext ==
  TypeOK /\ TypeOK' /\ OrderInv /\ DeliveryInv /\ [CrashNext]_vars => DeliveryInv'
<1> SUFFICES ASSUME TypeOK, TypeOK', OrderInv, DeliveryInv, [CrashNext]_vars
             PROVE  DeliveryInv'
  OBVIOUS
<1> USE DEF TypeOK, OrderPoints, Points, Legs, Statuses, requestVars, orderVars, gatewayVars, handlerVars,
         OrderInv, DeliveryInv, Creates, Carries, LegCaptured
<1>1. CASE AcceptQuote
  BY <1>1 DEF AcceptQuote
<1>2. CASE StartVerification
  BY <1>2 DEF StartVerification
<1>3. CASE LinkDiscoveredProperty
  BY <1>3 DEF LinkDiscoveredProperty
<1>4. ASSUME NEW o \in Orders, Charge(o)
      PROVE  DeliveryInv'
  BY <1>4 DEF Charge
<1>5. ASSUME NEW o \in Orders, Decline(o)
      PROVE  DeliveryInv'
  BY <1>5 DEF Decline
<1>6. ASSUME NEW o \in Orders, PaymentFailed(o)
      PROVE  DeliveryInv'
  BY <1>6 DEF PaymentFailed
<1>7. ASSUME NEW h \in Handlers, NEW o \in Orders, CreateOrder(h, o)
      PROVE  DeliveryInv'
  BY <1>7 DEF CreateOrder, Begin, OrderableLeg
<1>8. ASSUME NEW h \in Handlers, NEW o \in Orders, Finalize(h, o)
      PROVE  DeliveryInv'
  BY <1>8 DEF Finalize, Begin, Claimable
<1>9. ASSUME NEW h \in Handlers, SubmitReport(h)
      PROVE  DeliveryInv'
  BY <1>9 DEF SubmitReport, Begin
<1>10. ASSUME NEW h \in Handlers, Cancel(h)
      PROVE  DeliveryInv'
  BY <1>10 DEF Cancel, Begin
<1>11. ASSUME NEW h \in Handlers, OrderRefused(h)
      PROVE  DeliveryInv'
  BY <1>11 DEF OrderRefused, Finish
<1>12. ASSUME NEW h \in Handlers, RecordOrder(h)
      PROVE  DeliveryInv'
  BY <1>12 DEF RecordOrder
<1>13. ASSUME NEW h \in Handlers, RecordPending(h)
      PROVE  DeliveryInv'
  BY <1>13 DEF RecordPending, Finish, PendingStatus
<1>14. ASSUME NEW h \in Handlers, SettleAdvance(h)
      PROVE  DeliveryInv'
  BY <1>14 DEF SettleAdvance, Finish, EarningFor
<1>15. ASSUME NEW h \in Handlers, SettleFinal(h)
      PROVE  DeliveryInv'
  BY <1>15 DEF SettleFinal, Finish, EarningFor, Promoted, OpenedWindow
<1>16. ASSUME NEW h \in Handlers, SettleMissed(h)
      PROVE  DeliveryInv'
  BY <1>16 DEF SettleMissed
<1>17. ASSUME NEW h \in Handlers, RefundStrandedPayment(h)
      PROVE  DeliveryInv'
  BY <1>17 DEF RefundStrandedPayment, Finish
<1>18. ASSUME NEW h \in Handlers, CommitReport(h)
      PROVE  DeliveryInv'
  BY <1>18 DEF CommitReport, Finish
<1>19. ASSUME NEW h \in Handlers, CommitReportAgain(h)
      PROVE  DeliveryInv'
  BY <1>19 DEF CommitReportAgain, Finish
<1>20. ASSUME NEW h \in Handlers, ReadPaidOrders(h)
      PROVE  DeliveryInv'
  BY <1>20 DEF ReadPaidOrders, PaidOrders
<1>21. ASSUME NEW h \in Handlers, CommitCancel(h)
      PROVE  DeliveryInv'
  BY <1>21 DEF CommitCancel, Finish, FeeCharged, RefundDue, CancellableStatuses, CancelPossible
<1>22. ASSUME NEW h \in Handlers, CancelLost(h)
      PROVE  DeliveryInv'
  BY <1>22 DEF CancelLost, Finish
<1>23. CASE Crash
  BY <1>23 DEF Crash
<1>24. CASE UNCHANGED vars
  BY <1>24 DEF vars
<1>25. QED
  BY <1>1, <1>2, <1>3, <1>4, <1>5, <1>6, <1>7, <1>8, <1>9, <1>10, <1>11,
     <1>12, <1>13, <1>14, <1>15, <1>16, <1>17, <1>18, <1>19, <1>20, <1>21,
     <1>22, <1>23, <1>24 DEF CrashNext, Next, Step

(***************************************************************************)
(* Earnings and the review window                                          *)
(***************************************************************************)
LEMMA EarningInit == Init => EarningInv
  BY DEF Init, EarningInv, EarningsMatchLedger

LEMMA EarningNext ==
  TypeOK /\ TypeOK' /\ OrderInv /\ EarningInv /\ [CrashNext]_vars => EarningInv'
<1> SUFFICES ASSUME TypeOK, TypeOK', OrderInv, EarningInv, [CrashNext]_vars
             PROVE  EarningInv'
  OBVIOUS
<1> USE NoOrderAssumption DEF TypeOK, OrderPoints, Points, Legs, Statuses, requestVars, orderVars, gatewayVars, handlerVars,
         OrderInv, EarningInv, EarningsMatchLedger, Creates, Carries
<1>1. CASE AcceptQuote
  BY <1>1 DEF AcceptQuote
<1>2. CASE StartVerification
  BY <1>2 DEF StartVerification
<1>3. CASE LinkDiscoveredProperty
  BY <1>3 DEF LinkDiscoveredProperty
<1>4. ASSUME NEW o \in Orders, Charge(o)
      PROVE  EarningInv'
  BY <1>4 DEF Charge
<1>5. ASSUME NEW o \in Orders, Decline(o)
      PROVE  EarningInv'
  BY <1>5 DEF Decline
<1>6. ASSUME NEW o \in Orders, PaymentFailed(o)
      PROVE  EarningInv'
  BY <1>6 DEF PaymentFailed
<1>7. ASSUME NEW h \in Handlers, NEW o \in Orders, CreateOrder(h, o)
      PROVE  EarningInv'
  BY <1>7 DEF CreateOrder, Begin, OrderableLeg
<1>8. ASSUME NEW h \in Handlers, NEW o \in Orders, Finalize(h, o)
      PROVE  EarningInv'
  BY <1>8 DEF Finalize, Begin, Claimable
<1>9. ASSUME NEW h \in Handlers, SubmitReport(h)
      PROVE  EarningInv'
  BY <1>9 DEF SubmitReport, Begin
<1>10. ASSUME NEW h \in Handlers, Cancel(h)
      PROVE  EarningInv'
  BY <1>10 DEF Cancel, Begin
<1>11. ASSUME NEW h \in Handlers, OrderRefused(h)
      PROVE  EarningInv'
  BY <1>11 DEF OrderRefused, Finish
<1>12. ASSUME NEW h \in Handlers, RecordOrder(h)
      PROVE  EarningInv'
  BY <1>12 DEF RecordOrder
<1>13. ASSUME NEW h \in Handlers, RecordPending(h)
      PROVE  EarningInv'
  BY <1>13 DEF RecordPending, Finish, PendingStatus
<1>14. ASSUME NEW h \in Handlers, SettleAdvance(h)
      PROVE  EarningInv'
  BY <1>14 DEF SettleAdvance, Finish, EarningFor
<1>15. ASSUME NEW h \in Handlers, SettleFinal(h)
      PROVE  EarningInv'
  BY <1>15 DEF SettleFinal, Finish, EarningFor, Promoted, OpenedWindow
<1>16. ASSUME NEW h \in Handlers, SettleMissed(h)
      PROVE  EarningInv'
  BY <1>16 DEF SettleMissed
<1>17. ASSUME NEW h \in Handlers, RefundStrandedPayment(h)
      PROVE  EarningInv'
  BY <1>17 DEF RefundStrandedPayment, Finish
<1>18. ASSUME NEW h \in Handlers, CommitReport(h)
      PROVE  EarningInv'
  BY <1>18 DEF CommitReport, Finish
<1>19. ASSUME NEW h \in Handlers, CommitReportAgain(h)
      PROVE  EarningInv'
  BY <1>19 DEF CommitReportAgain, Finish
<1>20. ASSUME NEW h \in Handlers, ReadPaidOrders(h)
      PROVE  EarningInv'
  BY <1>20 DEF ReadPaidOrders, PaidOrders
<1>21. ASSUME NEW h \in Handlers, CommitCancel(h)
      PROVE  EarningInv'
  BY <1>21 DEF CommitCancel, Finish, FeeCharged, RefundDue, CancellableStatuses, CancelPossible
<1>22. ASSUME NEW h \in Handlers, CancelLost(h)
      PROVE  EarningInv'
  BY <1>22 DEF CancelLost, Finish
<1>23. CASE Crash
  BY <1>23 DEF Crash
<1>24. CASE UNCHANGED vars
  BY <1>24 DEF vars
<1>25. QED
  BY <1>1, <1>2, <1>3, <1>4, <1>5, <1>6, <1>7, <1>8, <1>9, <1>10, <1>11,
     <1>12, <1>13, <1>14, <1>15, <1>16, <1>17, <1>18, <1>19, <1>20, <1>21,
     <1>22, <1>23, <1>24 DEF CrashNext, Next, Step

(***************************************************************************)
(* Refunds of a cancellation                                               *)
(***************************************************************************)
LEMMA RefundInit == Init => RefundInv
  BY DEF Init, RefundInv

LEMMA RefundNext ==
  TypeOK /\ TypeOK' /\ RefundInv /\ [CrashNext]_vars => RefundInv'
<1> SUFFICES ASSUME TypeOK, TypeOK', RefundInv, [CrashNext]_vars
             PROVE  RefundInv'
  OBVIOUS
<1> USE DEF TypeOK, OrderPoints, Points, Legs, Statuses, requestVars, orderVars, gatewayVars, handlerVars, RefundInv
<1>1. CASE AcceptQuote
  BY <1>1 DEF AcceptQuote
<1>2. CASE StartVerification
  BY <1>2 DEF StartVerification
<1>3. CASE LinkDiscoveredProperty
  BY <1>3 DEF LinkDiscoveredProperty
<1>4. ASSUME NEW o \in Orders, Charge(o)
      PROVE  RefundInv'
  BY <1>4 DEF Charge
<1>5. ASSUME NEW o \in Orders, Decline(o)
      PROVE  RefundInv'
  BY <1>5 DEF Decline
<1>6. ASSUME NEW o \in Orders, PaymentFailed(o)
      PROVE  RefundInv'
  BY <1>6 DEF PaymentFailed
<1>7. ASSUME NEW h \in Handlers, NEW o \in Orders, CreateOrder(h, o)
      PROVE  RefundInv'
  BY <1>7 DEF CreateOrder, Begin, OrderableLeg
<1>8. ASSUME NEW h \in Handlers, NEW o \in Orders, Finalize(h, o)
      PROVE  RefundInv'
  BY <1>8 DEF Finalize, Begin, Claimable
<1>9. ASSUME NEW h \in Handlers, SubmitReport(h)
      PROVE  RefundInv'
  BY <1>9 DEF SubmitReport, Begin
<1>10. ASSUME NEW h \in Handlers, Cancel(h)
      PROVE  RefundInv'
  BY <1>10 DEF Cancel, Begin
<1>11. ASSUME NEW h \in Handlers, OrderRefused(h)
      PROVE  RefundInv'
  BY <1>11 DEF OrderRefused, Finish
<1>12. ASSUME NEW h \in Handlers, RecordOrder(h)
      PROVE  RefundInv'
  BY <1>12 DEF RecordOrder
<1>13. ASSUME NEW h \in Handlers, RecordPending(h)
      PROVE  RefundInv'
  BY <1>13 DEF RecordPending, Finish, PendingStatus
<1>14. ASSUME NEW h \in Handlers, SettleAdvance(h)
      PROVE  RefundInv'
  BY <1>14 DEF SettleAdvance, Finish, EarningFor
<1>15. ASSUME NEW h \in Handlers, SettleFinal(h)
      PROVE  RefundInv'
  BY <1>15 DEF SettleFinal, Finish, EarningFor, Promoted, OpenedWindow
<1>16. ASSUME NEW h \in Handlers, SettleMissed(h)
      PROVE  RefundInv'
  BY <1>16 DEF SettleMissed
<1>17. ASSUME NEW h \in Handlers, RefundStrandedPayment(h)
      PROVE  RefundInv'
  BY <1>17 DEF RefundStrandedPayment, Finish
<1>18. ASSUME NEW h \in Handlers, CommitReport(h)
      PROVE  RefundInv'
  BY <1>18 DEF CommitReport, Finish
<1>19. ASSUME NEW h \in Handlers, CommitReportAgain(h)
      PROVE  RefundInv'
  BY <1>19 DEF CommitReportAgain, Finish
<1>20. ASSUME NEW h \in Handlers, ReadPaidOrders(h)
      PROVE  RefundInv'
  BY <1>20 DEF ReadPaidOrders, PaidOrders
<1>21. ASSUME NEW h \in Handlers, CommitCancel(h)
      PROVE  RefundInv'
  <2> SUFFICES ASSUME FeeRate # "none", NEW o \in Orders
               PROVE  refunded'[o] <= 1 /\ (~feeRecorded' => refunded'[o] = 0)
    OBVIOUS
  <2>1. CASE RefundDue(h) /\ o \in counted[h]
    <3>1. FeeCharged(h) /\ ~feeRecorded /\ feeRecorded'
      BY <1>21, <2>1 DEF CommitCancel, FeeCharged, CancelPossible
    <3>2. refunded'[o] = 1
      BY <1>21, <2>1, <3>1 DEF CommitCancel
    <3>3. QED
      BY <3>1, <3>2
  <2>2. CASE ~(RefundDue(h) /\ o \in counted[h])
    BY <1>21, <2>2 DEF CommitCancel
  <2>3. QED
    BY <2>1, <2>2
<1>22. ASSUME NEW h \in Handlers, CancelLost(h)
      PROVE  RefundInv'
  BY <1>22 DEF CancelLost, Finish
<1>23. CASE Crash
  BY <1>23 DEF Crash
<1>24. CASE UNCHANGED vars
  BY <1>24 DEF vars
<1>25. QED
  BY <1>1, <1>2, <1>3, <1>4, <1>5, <1>6, <1>7, <1>8, <1>9, <1>10, <1>11,
     <1>12, <1>13, <1>14, <1>15, <1>16, <1>17, <1>18, <1>19, <1>20, <1>21,
     <1>22, <1>23, <1>24 DEF CrashNext, Next, Step

(***************************************************************************)
(* The theorems                                                            *)
(***************************************************************************)

\* The invariant holds with restarts at any point.
THEOREM Invariant == CrashSpec => []IInv
<1>1. Init => IInv
  BY TypeInit, OrderInit, DeliveryInit, EarningInit, RefundInit DEF IInv
<1>2. IInv /\ [CrashNext]_vars => IInv'
  BY TypeNext, OrderNext, DeliveryNext, EarningNext, RefundNext DEF IInv
<1>3. QED
  BY <1>1, <1>2, PTL DEF CrashSpec

\* The rows keep their types and every handler that carries an order has one.
THEOREM TypeCorrect == CrashSpec => []TypeOK
<1>1. IInv => TypeOK
  BY DEF IInv
<1>2. QED
  BY <1>1, Invariant, PTL

\* Replays, races and restarts never record a payment twice.
THEOREM CaptureIsUnique == CrashSpec => []CapturedOnce
<1>1. IInv => CapturedOnce
  BY DEF IInv, OrderInv
<1>2. QED
  BY <1>1, Invariant, PTL

\* The full report is served only when both legs were captured.
THEOREM DeliveryIsPaid == CrashSpec => []DeliveredOnlyIfPaid
<1>1. IInv => DeliveredOnlyIfPaid
  BY DEF IInv, DeliveryInv, DeliveredOnlyIfPaid, Captured, LegCaptured
<1>2. QED
  BY <1>1, Invariant, PTL

\* A delivered report has its review window and all its earnings on hold.
THEOREM DeliveryHoldsEarnings == CrashSpec => []UnlockedEarningsOnHold
<1>1. IInv => UnlockedEarningsOnHold
  BY DEF IInv, TypeOK, EarningInv, UnlockedEarningsOnHold, Captured
<1>2. QED
  BY <1>1, Invariant, PTL

\* Earnings exist for the Expert's captured legs and for nothing else.
THEOREM EarningsAreCaptured == CrashSpec => []EarningsMatchLedger
<1>1. IInv => EarningsMatchLedger
  BY DEF IInv, EarningInv
<1>2. QED
  BY <1>1, Invariant, PTL

\* With a cancellation fee, no order is refunded by two cancellations.
THEOREM CancellationRefundsOnce == CrashSpec => []CancelRefundsOnce
<1>1. IInv => CancelRefundsOnce
  BY DEF IInv, RefundInv, CancelRefundsOnce
<1>2. QED
  BY <1>1, Invariant, PTL

(***************************************************************************)
(* Without restarts, the money of every order is somewhere                 *)
(***************************************************************************)
LEMMA AccountInit == Init => AccountInv
  BY DEF Init, AccountInv

LEMMA AccountNext ==
  TypeOK /\ TypeOK' /\ OrderInv /\ AccountInv /\ [Next]_vars => AccountInv'
<1> SUFFICES ASSUME TypeOK, TypeOK', OrderInv, AccountInv, [Next]_vars
             PROVE  AccountInv'
  OBVIOUS
<1> USE DEF TypeOK, OrderPoints, Points, Legs, requestVars, orderVars, gatewayVars, handlerVars,
         OrderInv, CapturedOnce, AccountInv, InFlight, Creates, Carries
<1>1. CASE AcceptQuote
  BY <1>1 DEF AcceptQuote
<1>2. CASE StartVerification
  BY <1>2 DEF StartVerification
<1>3. CASE LinkDiscoveredProperty
  BY <1>3 DEF LinkDiscoveredProperty
<1>4. ASSUME NEW o \in Orders, Charge(o)
      PROVE  AccountInv'
  BY <1>4 DEF Charge
<1>5. ASSUME NEW o \in Orders, Decline(o)
      PROVE  AccountInv'
  BY <1>5 DEF Decline
<1>6. ASSUME NEW o \in Orders, PaymentFailed(o)
      PROVE  AccountInv'
  BY <1>6 DEF PaymentFailed
<1>7. ASSUME NEW h \in Handlers, NEW o \in Orders, CreateOrder(h, o)
      PROVE  AccountInv'
  BY <1>7 DEF CreateOrder, Begin, OrderableLeg
<1>8. ASSUME NEW h \in Handlers, NEW o \in Orders, Finalize(h, o)
      PROVE  AccountInv'
  BY <1>8 DEF Finalize, Begin, Claimable
<1>9. ASSUME NEW h \in Handlers, SubmitReport(h)
      PROVE  AccountInv'
  BY <1>9 DEF SubmitReport, Begin
<1>10. ASSUME NEW h \in Handlers, Cancel(h)
      PROVE  AccountInv'
  BY <1>10 DEF Cancel, Begin
<1>11. ASSUME NEW h \in Handlers, OrderRefused(h)
      PROVE  AccountInv'
  BY <1>11 DEF OrderRefused, Finish
<1>12. ASSUME NEW h \in Handlers, RecordOrder(h)
      PROVE  AccountInv'
  BY <1>12 DEF RecordOrder
<1>13. ASSUME NEW h \in Handlers, RecordPending(h)
      PROVE  AccountInv'
  BY <1>13 DEF RecordPending, Finish, PendingStatus
<1>14. ASSUME NEW h \in Handlers, SettleAdvance(h)
      PROVE  AccountInv'
  BY <1>14 DEF SettleAdvance, Finish, EarningFor
<1>15. ASSUME NEW h \in Handlers, SettleFinal(h)
      PROVE  AccountInv'
  BY <1>15 DEF SettleFinal, Finish, EarningFor, Promoted, OpenedWindow
<1>16. ASSUME NEW h \in Handlers, SettleMissed(h)
      PROVE  AccountInv'
  BY <1>16 DEF SettleMissed
<1>17. ASSUME NEW h \in Handlers, RefundStrandedPayment(h)
      PROVE  AccountInv'
  BY <1>17 DEF RefundStrandedPayment, Finish
<1>18. ASSUME NEW h \in Handlers, CommitReport(h)
      PROVE  AccountInv'
  BY <1>18 DEF CommitReport, Finish
<1>19. ASSUME NEW h \in Handlers, CommitReportAgain(h)
      PROVE  AccountInv'
  BY <1>19 DEF CommitReportAgain, Finish
<1>20. ASSUME NEW h \in Handlers, ReadPaidOrders(h)
      PROVE  AccountInv'
  BY <1>20 DEF ReadPaidOrders, PaidOrders
<1>21. ASSUME NEW h \in Handlers, CommitCancel(h)
      PROVE  AccountInv'
  BY <1>21 DEF CommitCancel, Finish, FeeCharged, RefundDue, CancellableStatuses, CancelPossible
<1>22. ASSUME NEW h \in Handlers, CancelLost(h)
      PROVE  AccountInv'
  BY <1>22 DEF CancelLost, Finish
<1>23. CASE UNCHANGED vars
  BY <1>23 DEF vars
<1>24. QED
  BY <1>1, <1>2, <1>3, <1>4, <1>5, <1>6, <1>7, <1>8, <1>9, <1>10, <1>11,
     <1>12, <1>13, <1>14, <1>15, <1>16, <1>17, <1>18, <1>19, <1>20, <1>21,
     <1>22, <1>23 DEF Next, Step

THEOREM SpecImpliesCrashSpec == Spec => CrashSpec
<1>1. [Next]_vars => [CrashNext]_vars
  BY DEF CrashNext
<1>2. QED
  BY <1>1, PTL DEF Spec, CrashSpec

\* Invariant and accounting together, for the behaviours without restarts.
THEOREM AccountInvariant == Spec => [](IInv /\ AccountInv)
<1>1. Init => AccountInv
  BY AccountInit
<1>2. IInv /\ IInv' /\ AccountInv /\ [Next]_vars => AccountInv'
  BY AccountNext DEF IInv
<1>3. Spec => []IInv
  BY SpecImpliesCrashSpec, Invariant
<1>4. QED
  BY <1>1, <1>2, <1>3, PTL DEF Spec

\* As long as the process runs, a PAID order is in the ledger, flagged for a
\* refund, or carried there by a handler - exactly one of the three.
THEOREM PaidIsAlwaysAccounted == Spec => []PaidIsAccounted
<1>1. IInv /\ AccountInv => PaidIsAccounted
  BY DEF AccountInv, PaidIsAccounted
<1>2. QED
  BY <1>1, AccountInvariant, PTL

(***************************************************************************)
(* The review window                                                       *)
(***************************************************************************)

\* reportCompletedAt and claimDeadline are written once.
THEOREM WindowIsFixed == CrashSpec => ClaimWindowFixed
<1>1. ASSUME [CrashNext]_vars, claimWindow # NoOrder
      PROVE  claimWindow' = claimWindow
  <2>1. ASSUME NEW h \in Handlers, SettleFinal(h)
        PROVE  claimWindow' = claimWindow
    BY <1>1, <2>1 DEF SettleFinal, OpenedWindow
  <2>2. CASE UNCHANGED claimWindow
    BY <2>2
  <2>3. QED
    BY <1>1, <2>1, <2>2
       DEF CrashNext, Next, Step, Crash, vars, requestVars,
           AcceptQuote, StartVerification, LinkDiscoveredProperty,
           Charge, Decline, PaymentFailed, CreateOrder, OrderRefused, RecordOrder,
           RecordPending, Finalize, SettleAdvance, SettleMissed,
           RefundStrandedPayment, SubmitReport, CommitReport, CommitReportAgain,
           Cancel, ReadPaidOrders, CommitCancel, CancelLost
<1>2. QED
  BY <1>1, PTL DEF CrashSpec, ClaimWindowFixed

(***************************************************************************)
(* Refinement: the payment code keeps the promise of PaymentPromise        *)
(***************************************************************************)
LEMMA PromiseInit == Init => Promise!Init
  BY DEF Init, Promise!Init, Money, MoneyOf

\* A step that touches no order row, ledger entry or stranded refund.
LEMMA PromiseStutter ==
  (UNCHANGED <<order, ledger, stranded>>) => Money' = Money
  BY DEF Money, MoneyOf

\* Order rows may also move between the statuses that precede PAID.
LEMMA PromiseUnpaid ==
  ASSUME TypeOK, TypeOK', UNCHANGED <<ledger, stranded>>,
         \A o \in Orders : order'[o] = "PAID" <=> order[o] = "PAID"
  PROVE  Money' = Money
  BY DEF Money, MoneyOf

\* A step that moves the money of one order and touches no other.
LEMMA PromiseMove ==
  ASSUME NEW o \in Orders, NEW m, Money'[o] = m,
         \A p \in Orders \ {o} : /\ order'[p] = order[p]
                                  /\ ledger'[p] = ledger[p]
                                  /\ stranded'[p] = stranded[p]
  PROVE  Money' = [Money EXCEPT ![o] = m]
<1>1. \A p \in Orders \ {o} : MoneyOf(p)' = MoneyOf(p)
  BY DEF MoneyOf
<1>2. QED
  BY <1>1 DEF Money

LEMMA PromiseStep ==
  IInv /\ IInv' /\ AccountInv /\ AccountInv' /\ [Next]_vars => [Promise!Next]_Money
<1> SUFFICES ASSUME IInv, IInv', AccountInv, AccountInv', [Next]_vars
             PROVE  Promise!Next \/ Money' = Money
  OBVIOUS
<1>0. TypeOK /\ TypeOK' /\ OrderInv
  BY DEF IInv
<1>1. ASSUME NEW o \in Orders, PaymentFailed(o)
      PROVE  Money' = Money
  BY <1>0, <1>1, PromiseUnpaid DEF PaymentFailed, TypeOK
<1>2. ASSUME NEW h \in Handlers, RecordOrder(h)
      PROVE  Money' = Money
  BY <1>0, <1>2, PromiseUnpaid DEF RecordOrder, TypeOK, OrderInv, OrderPoints
<1>3. ASSUME NEW h \in Handlers, NEW o \in Orders, Finalize(h, o)
      PROVE  Promise!Next
  <2>1. Money[o] = "open"
    BY <1>3, <1>0 DEF Finalize, Claimable, Money, MoneyOf, AccountInv
  <2>2. Money' = [Money EXCEPT ![o] = "claimed"]
    <3>1. Money'[o] = "claimed"
      BY <1>3, <1>0 DEF Finalize, Claimable, Money, MoneyOf, AccountInv, TypeOK
    <3>2. QED
      BY <1>3, <1>0, <3>1, PromiseMove DEF Finalize, TypeOK
  <2>3. QED
    BY <2>1, <2>2 DEF Promise!Next, Promise!Claim
<1>4. ASSUME NEW h \in Handlers, SettleAdvance(h) \/ SettleFinal(h)
      PROVE  Promise!Next
  <2> DEFINE o == handled[h]
  <2>1. o \in Orders /\ order[o] = "PAID" /\ ledger[o] = 0 /\ stranded[o] = 0
    BY <1>4, <1>0 DEF SettleAdvance, SettleFinal, TypeOK, OrderPoints, OrderInv,
                      AccountInv, Carries, InFlight
  <2>2. order' = order /\ stranded' = stranded /\ ledger' = [ledger EXCEPT ![o] = 1]
    BY <1>4, <1>0, <2>1 DEF SettleAdvance, SettleFinal, TypeOK
  <2>3. Money[o] = "claimed"
    BY <2>1 DEF Money, MoneyOf
  <2>4. Money' = [Money EXCEPT ![o] = "recorded"]
    <3>1. Money'[o] = "recorded"
      BY <2>1, <2>2, <1>0 DEF Money, MoneyOf, TypeOK
    <3> HIDE DEF o
    <3>2. QED
      BY <2>1, <2>2, <3>1, <1>0, PromiseMove DEF TypeOK
  <2>5. QED
    BY <2>1, <2>3, <2>4 DEF Promise!Next, Promise!Account
<1>5. ASSUME NEW h \in Handlers, RefundStrandedPayment(h)
      PROVE  Promise!Next
  <2> DEFINE o == handled[h]
  <2>1. o \in Orders /\ order[o] = "PAID" /\ ledger[o] = 0 /\ stranded[o] = 0
    BY <1>5, <1>0 DEF RefundStrandedPayment, TypeOK, OrderPoints, OrderInv,
                      AccountInv, Carries, InFlight
  <2>2. order' = order /\ ledger' = ledger /\ stranded' = [stranded EXCEPT ![o] = 1]
    BY <1>5, <1>0, <2>1 DEF RefundStrandedPayment, TypeOK
  <2>3. Money[o] = "claimed"
    BY <2>1 DEF Money, MoneyOf
  <2>4. Money' = [Money EXCEPT ![o] = "flagged"]
    <3>1. Money'[o] = "flagged"
      BY <2>1, <2>2, <1>0 DEF Money, MoneyOf, TypeOK
    <3> HIDE DEF o
    <3>2. QED
      BY <2>1, <2>2, <3>1, <1>0, PromiseMove DEF TypeOK
  <2>5. QED
    BY <2>1, <2>3, <2>4 DEF Promise!Next, Promise!Account
<1>6. CASE UNCHANGED <<order, ledger, stranded>>
  BY <1>6, PromiseStutter
<1>7. QED
  BY <1>1, <1>2, <1>3, <1>4, <1>5, <1>6
     DEF Next, Step, vars, orderVars, AcceptQuote, StartVerification,
         LinkDiscoveredProperty, Charge, Decline, CreateOrder, OrderRefused,
         RecordPending, SettleMissed, SubmitReport, CommitReport,
         CommitReportAgain, Cancel, ReadPaidOrders, CommitCancel, CancelLost

\* Every payment is claimed at most once and then recorded or flagged, as
\* PaymentPromise says.
THEOREM KeepsPaymentPromise == Spec => KeepsPromise
<1>1. Spec => Init /\ [][Next]_vars
  BY DEF Spec
<1>2. QED
  BY <1>1, PromiseInit, PromiseStep, AccountInvariant, PTL DEF KeepsPromise, Promise!Safe
=============================================================================
