------------------------- MODULE SpecialRequestProofs -------------------------
(***************************************************************************)
(* Theorems about SpecialRequest, for any sellers, orders, refunds,        *)
(* requests at work and number of assignments.                             *)
(*                                                                         *)
(* The handlers write rows they read a while ago, so the argument is about *)
(* what a handler knew when it set out and cannot lose: that the advance   *)
(* was paid (PaidInv), that its listing is published (PaidInv), that the   *)
(* refund it executes is its own (CarryInv).                               *)
(*                                                                         *)
(* The last section is the refinement of RefundPromise.                    *)
(***************************************************************************)
EXTENDS SpecialRequest, TLAPS

\* Statements that are only reached once the advance is paid.
PaidPoints ==
  {"assign", "accept", "submit", "approve", "publish", "ledger", "lookup", "insert"}
    \cup RefundPoints

PaidInv ==
  /\ \A w \in Workers : pc[w] \in PaidPoints => advancePaid
  /\ \A w \in Workers : pc[w] = "advance" => \E o \in captured : order[o] = "PAID"
  /\ \A w \in Workers : pc[w] = "ledger" => published

\* The worker between claiming a refund and its outcome.
Carries(w, r) == pc[w] \in {"pay", "release", "settle"} /\ arg[w] = r

CarryInv ==
  /\ \A w, v \in Workers, r \in Refunds :
       Carries(w, r) => refund[r] = "PROCESSED" /\ (Carries(v, r) => v = w)
  /\ \A w \in Workers : pc[w] \in RefundPoints => refund[arg[w]] # "NONE"
  /\ \A w \in Workers : pc[w] = "settle" => arg[w] \in sent
  /\ status = "REFUNDED" =>
       \E r \in sent : refund[r] = "PROCESSED" /\ \A w \in Workers : ~Carries(w, r)

IInv == TypeOK /\ AdvanceFirst /\ RefundedIsSent /\ ApprovedIsPaidOut /\ PaidInv /\ CarryInv

-----------------------------------------------------------------------------
LEMMA InitInv == Init => IInv
<1>. SUFFICES ASSUME Init  PROVE IInv
  OBVIOUS
<1>1. TypeOK
  BY DEF Init, TypeOK, RowTypes, WorkerTypes, OpenStatuses, Points, RefundPoints
<1>2. AdvanceFirst /\ RefundedIsSent /\ ApprovedIsPaidOut
  BY DEF Init, AdvanceFirst, RefundedIsSent, ApprovedIsPaidOut
<1>3. PaidInv /\ CarryInv
  BY DEF Init, PaidInv, CarryInv, Carries, PaidPoints, RefundPoints
<1>. QED  BY <1>1, <1>2, <1>3 DEF IInv

\* Where one worker's step goes, in a form the other lemmas share.
LEMMA GoTypes ==
  ASSUME TypeOK, NEW w \in Workers, NEW point \in Points, NEW a, Go(w, point, a),
         a \in Sellers \cup Orders \cup Refunds \cup {Null},
         point \in RefundPoints => a \in Refunds,
         point = "assign" => a \in Sellers,
         point \in {"approve", "publish", "ledger"} => a \in Sellers \cup {Null}
  PROVE  /\ WorkerTypes'
         /\ pc'[w] = point /\ arg'[w] = a
         /\ \A v \in Workers \ {w} : pc'[v] = pc[v] /\ arg'[v] = arg[v]
BY DEF TypeOK, WorkerTypes, Go, Goto

\* The advance.
LEMMA AdvanceStep ==
  ASSUME IInv,
         \/ \E o \in Orders : Capture(o) \/ PaymentFailed(o)
         \/ \E h \in Handlers : Advance(h)
  PROVE  IInv'
<1>. USE DEF IInv, TypeOK, RowTypes, WorkerTypes, AdvanceFirst, RefundedIsSent, ApprovedIsPaidOut,
             PaidInv, CarryInv, Carries, PaidPoints, RefundPoints, Points, Workers,
             rowVars, orderVars, refundVars, resultVars, cutVars, workerVars, Goto, Go, Finish, Write
<1>1. ASSUME NEW o \in Orders, Capture(o)  PROVE IInv'
  BY <1>1 DEF Capture
<1>2. ASSUME NEW o \in Orders, PaymentFailed(o)  PROVE IInv'
  BY <1>2 DEF PaymentFailed
<1>3. ASSUME NEW h \in Handlers, AskForOrder(h)  PROVE IInv'
  BY <1>3 DEF AskForOrder
<1>4. ASSUME NEW h \in Handlers, NEW o \in Orders, RecordOrder(h, o)  PROVE IInv'
  BY <1>4 DEF RecordOrder
<1>5. ASSUME NEW h \in Handlers, NEW o \in Orders, ClaimAdvance(h, o)  PROVE IInv'
  BY <1>5 DEF ClaimAdvance
<1>6. ASSUME NEW h \in Handlers, SetAdvancePaid(h)  PROVE IInv'
  <2>1. TypeOK'
    BY <1>6 DEF SetAdvancePaid
  <2>2. AdvanceFirst'
    BY <1>6 DEF SetAdvancePaid
  <2>3. RefundedIsSent'
    BY <1>6 DEF SetAdvancePaid
  <2>4. ApprovedIsPaidOut'
    BY <1>6 DEF SetAdvancePaid
  <2>5. PaidInv'
    BY <1>6 DEF SetAdvancePaid
  <2>6. CarryInv'
    BY <1>6 DEF SetAdvancePaid
  <2>. QED  BY <2>1, <2>2, <2>3, <2>4, <2>5, <2>6
<1>. QED  BY <1>1, <1>2, <1>3, <1>4, <1>5, <1>6 DEF Advance

\* The research.
LEMMA ResearchStep ==
  ASSUME IInv, NEW h \in Handlers, Research(h)
  PROVE  IInv'
<1>. USE DEF IInv, TypeOK, RowTypes, WorkerTypes, AdvanceFirst, RefundedIsSent, ApprovedIsPaidOut,
             PaidInv, CarryInv, Carries, PaidPoints, RefundPoints, Points, Workers, OpenStatuses,
             rowVars, orderVars, refundVars, resultVars, cutVars, workerVars, Goto, Go, Finish, Write
<1>1. ASSUME NEW s \in Sellers, Assign(h, s)  PROVE IInv'
  BY <1>1 DEF Assign
<1>2. CASE Accept(h)
  BY <1>2 DEF Accept
<1>3. CASE Decline(h)
  BY <1>3 DEF Decline
<1>4. CASE Submit(h)
  BY <1>4 DEF Submit
<1>5. CASE WriteRow(h)
  <2>1. TypeOK'
    <3>1. status' \in OpenStatuses /\ sellerId' \in Sellers \cup {Null} /\ overdue' \in BOOLEAN
      <4>1. CASE pc[h] = "assign" /\ Write("ASSIGNED") /\ sellerId' = arg[h]
        BY <4>1
      <4>2. CASE pc[h] = "accept" /\ Write("IN_PROGRESS") /\ UNCHANGED sellerId
        BY <4>2
      <4>3. CASE pc[h] = "decline" /\ Write("PENDING") /\ sellerId' = Null
        BY <4>3
      <4>4. CASE pc[h] = "submit" /\ Write("COMPLETED") /\ UNCHANGED sellerId
        BY <4>4
      <4>. QED  BY <1>5, <4>1, <4>2, <4>3, <4>4 DEF WriteRow
    <3>2. WorkerTypes'
      BY <1>5 DEF WriteRow
    <3>. QED  BY <1>5, <3>1, <3>2 DEF WriteRow
  <2>2. AdvanceFirst'
    BY <1>5 DEF WriteRow
  <2>3. RefundedIsSent'
    BY <1>5 DEF WriteRow
  <2>4. ApprovedIsPaidOut'
    BY <1>5 DEF WriteRow
  <2>5. PaidInv'
    BY <1>5 DEF WriteRow
  <2>6. CarryInv'
    BY <1>5 DEF WriteRow
  <2>. QED  BY <2>1, <2>2, <2>3, <2>4, <2>5, <2>6
<1>. QED  BY <1>1, <1>2, <1>3, <1>4, <1>5 DEF Research

\* Approval and rejection.
LEMMA DecideStep ==
  ASSUME IInv, NEW h \in Handlers, Decide(h)
  PROVE  IInv'
<1>. USE DEF IInv, TypeOK, RowTypes, WorkerTypes, AdvanceFirst, RefundedIsSent, ApprovedIsPaidOut,
             PaidInv, CarryInv, Carries, PaidPoints, RefundPoints, Points, Workers, OpenStatuses,
             rowVars, orderVars, refundVars, resultVars, cutVars, workerVars, Goto, Go, Finish, Write
<1>1. CASE Approve(h)
  BY <1>1 DEF Approve
<1>2. CASE ClaimApproval(h)
  <2>1. TypeOK'
    <3>1. CASE status = "COMPLETED"
      <4>1. RowTypes'
        BY <1>2, <3>1 DEF ClaimApproval
      <4>2. WorkerTypes'
        BY <1>2, <3>1 DEF ClaimApproval
      <4>. QED  BY <4>1, <4>2
    <3>2. CASE status # "COMPLETED"
      BY <1>2, <3>2 DEF ClaimApproval
    <3>. QED  BY <3>1, <3>2
  <2>2. AdvanceFirst'
    BY <1>2 DEF ClaimApproval
  <2>3. RefundedIsSent'
    BY <1>2 DEF ClaimApproval
  <2>4. ApprovedIsPaidOut'
    BY <1>2 DEF ClaimApproval
  <2>5. PaidInv'
    BY <1>2 DEF ClaimApproval
  <2>6. CarryInv'
    BY <1>2 DEF ClaimApproval
  <2>. QED  BY <2>1, <2>2, <2>3, <2>4, <2>5, <2>6
<1>3. CASE PublishListing(h)
  BY <1>3 DEF PublishListing
<1>4. CASE CreatePayout(h)
  BY <1>4 DEF CreatePayout
<1>5. CASE Reject(h)
  BY <1>5 DEF Reject
<1>6. CASE RejectUnpaid(h)
  <2>1. TypeOK'
    BY <1>6 DEF RejectUnpaid
  <2>2. AdvanceFirst'
    BY <1>6 DEF RejectUnpaid
  <2>3. RefundedIsSent'
    BY <1>6 DEF RejectUnpaid
  <2>4. ApprovedIsPaidOut'
    BY <1>6 DEF RejectUnpaid
  <2>5. PaidInv'
    BY <1>6 DEF RejectUnpaid
  <2>6. CarryInv'
    BY <1>6 DEF RejectUnpaid
  <2>. QED  BY <2>1, <2>2, <2>3, <2>4, <2>5, <2>6
<1>7. CASE LookUpRefund(h)
  BY <1>7 DEF LookUpRefund
<1>8. CASE RejectPaid(h)
  <2>1. TypeOK'
    BY <1>8 DEF RejectPaid
  <2>2. AdvanceFirst'
    BY <1>8 DEF RejectPaid
  <2>3. RefundedIsSent'
    BY <1>8 DEF RejectPaid
  <2>4. ApprovedIsPaidOut'
    BY <1>8 DEF RejectPaid
  <2>5. PaidInv'
    BY <1>8 DEF RejectPaid
  <2>6. CarryInv'
    BY <1>8 DEF RejectPaid
  <2>. QED  BY <2>1, <2>2, <2>3, <2>4, <2>5, <2>6
<1>9. ASSUME NEW r \in Refunds, ProcessRefund(h, r)  PROVE IInv'
  BY <1>9 DEF ProcessRefund
<1>. QED  BY <1>1, <1>2, <1>3, <1>4, <1>5, <1>6, <1>7, <1>8, <1>9 DEF Decide

\* executeRefund, from the row on.
LEMMA RefundingStep ==
  ASSUME IInv, NEW w \in Workers, Refunding(w)
  PROVE  IInv'
<1>. USE NullAssumption
     DEF IInv, TypeOK, RowTypes, WorkerTypes, AdvanceFirst, RefundedIsSent, ApprovedIsPaidOut,
             PaidInv, CarryInv, Carries, PaidPoints, RefundPoints, Points, Workers, OpenStatuses,
             rowVars, orderVars, refundVars, resultVars, cutVars, workerVars, Goto, Go, Finish, Write
<1>1. ASSUME NEW r \in Refunds, InsertRefund(w, r)  PROVE IInv'
  BY <1>1 DEF InsertRefund
<1>2. CASE RunOutOfIds(w)
  BY <1>2 DEF RunOutOfIds
<1>3. CASE ClaimRefund(w)
  BY <1>3 DEF ClaimRefund
<1>4. CASE RefundPaid(w)
  BY <1>4 DEF RefundPaid
<1>5. CASE RefundFails(w)
  BY <1>5 DEF RefundFails
<1>6. CASE ReleaseRefund(w)
  BY <1>6 DEF ReleaseRefund
<1>7. CASE SettleRefund(w)
  <2>1. TypeOK'
    BY <1>7 DEF SettleRefund
  <2>2. AdvanceFirst'
    BY <1>7 DEF SettleRefund
  <2>3. RefundedIsSent'
    BY <1>7 DEF SettleRefund
  <2>4. ApprovedIsPaidOut'
    BY <1>7 DEF SettleRefund
  <2>5. PaidInv'
    BY <1>7 DEF SettleRefund
  <2>6. CarryInv'
    BY <1>7 DEF SettleRefund
  <2>. QED  BY <2>1, <2>2, <2>3, <2>4, <2>5, <2>6
<1>. QED  BY <1>1, <1>2, <1>3, <1>4, <1>5, <1>6, <1>7 DEF Refunding

\* The sweep, the clock, a rejected refund and a restart.
LEMMA OtherStep ==
  ASSUME IInv,
         \/ SweepAssigned \/ SweepUnfinished \/ DeadlinePasses
         \/ \E r \in Refunds : RejectRefund(r)
         \/ \E w \in Workers : Crash(w)
  PROVE  IInv'
<1>. USE NullAssumption
     DEF IInv, TypeOK, RowTypes, WorkerTypes, AdvanceFirst, RefundedIsSent, ApprovedIsPaidOut,
             PaidInv, CarryInv, Carries, PaidPoints, RefundPoints, Points, Workers, OpenStatuses,
             rowVars, orderVars, refundVars, resultVars, cutVars, workerVars, Goto, Go, Finish, Write
<1>1. CASE SweepAssigned
  <2>1. TypeOK'
    BY <1>1 DEF SweepAssigned
  <2>2. AdvanceFirst'
    BY <1>1 DEF SweepAssigned
  <2>3. RefundedIsSent'
    BY <1>1 DEF SweepAssigned
  <2>4. ApprovedIsPaidOut'
    BY <1>1 DEF SweepAssigned
  <2>5. PaidInv'
    BY <1>1 DEF SweepAssigned
  <2>6. CarryInv'
    BY <1>1 DEF SweepAssigned
  <2>. QED  BY <2>1, <2>2, <2>3, <2>4, <2>5, <2>6
<1>2. CASE SweepUnfinished
  <2>1. TypeOK'
    BY <1>2 DEF SweepUnfinished
  <2>2. AdvanceFirst'
    BY <1>2 DEF SweepUnfinished
  <2>3. RefundedIsSent'
    BY <1>2 DEF SweepUnfinished
  <2>4. ApprovedIsPaidOut'
    BY <1>2 DEF SweepUnfinished
  <2>5. PaidInv'
    BY <1>2 DEF SweepUnfinished
  <2>6. CarryInv'
    BY <1>2 DEF SweepUnfinished
  <2>. QED  BY <2>1, <2>2, <2>3, <2>4, <2>5, <2>6
<1>3. CASE DeadlinePasses
  BY <1>3 DEF DeadlinePasses
<1>4. ASSUME NEW r \in Refunds, RejectRefund(r)  PROVE IInv'
  BY <1>4 DEF RejectRefund
<1>5. ASSUME NEW w \in Workers, Crash(w)  PROVE IInv'
  BY <1>5 DEF Crash
<1>. QED  BY <1>1, <1>2, <1>3, <1>4, <1>5

\* Every step keeps the invariant.
LEMMA NextInv == IInv /\ [Next]_vars => IInv'
<1>. SUFFICES ASSUME IInv, [Next]_vars  PROVE IInv'
  OBVIOUS
<1>1. CASE UNCHANGED vars
  BY <1>1 DEF IInv, TypeOK, RowTypes, WorkerTypes, AdvanceFirst, RefundedIsSent, ApprovedIsPaidOut,
              PaidInv, CarryInv, Carries, vars, rowVars, orderVars, refundVars, resultVars, cutVars,
              workerVars
<1>2. CASE Next
  BY <1>2, AdvanceStep, ResearchStep, DecideStep, RefundingStep, OtherStep DEF Next
<1>. QED  BY <1>1, <1>2

-----------------------------------------------------------------------------
(***************************************************************************)
(* Theorems                                                                *)
(***************************************************************************)

\* Every reachable state has the inductive invariant of the request.
THEOREM RequestInvariant == Spec => []IInv
<1>. QED  BY InitInv, NextInv, PTL DEF Spec

\* The rows of the request and its workers keep to their values.
THEOREM RequestTypes == Spec => []TypeOK
<1>1. IInv => TypeOK
  BY DEF IInv
<1>. QED  BY <1>1, RequestInvariant, PTL

\* No research, payout or refund without a captured advance.
THEOREM AdvanceComesFirst == Spec => []AdvanceFirst
<1>1. IInv => AdvanceFirst
  BY DEF IInv
<1>. QED  BY <1>1, RequestInvariant, PTL

\* REFUNDED is the word of a refund that was paid.
THEOREM RefundedWasSent == Spec => []RefundedIsSent
<1>1. IInv => RefundedIsSent
  BY DEF IInv
<1>. QED  BY <1>1, RequestInvariant, PTL

\* An approval that no restart cut short ends with the listing published and
\* the payout of the seller in the ledger.
THEOREM ApprovalPaysOut == Spec => []ApprovedIsPaidOut
<1>1. IInv => ApprovedIsPaidOut
  BY DEF IInv
<1>. QED  BY <1>1, RequestInvariant, PTL

-----------------------------------------------------------------------------
(***************************************************************************)
(* Refinement: executeRefund keeps the promise of RefundPromise, for   *)
(* admins and the sweep alike.                                             *)
(***************************************************************************)
Holds(w, r) == pc[w] \in {"pay", "release"} /\ arg[w] = r

RowOf(r) ==
  CASE refund[r] = "NONE" -> "none"
    [] refund[r] = "PENDING" -> "pending"
    [] refund[r] = "REJECTED" -> "rejected"
    [] refund[r] = "PROCESSED" -> IF \E w \in Workers : Holds(w, r) THEN "held" ELSE "left"

Row == [r \in Refunds |-> RowOf(r)]

Promise == INSTANCE RefundPromise WITH row <- Row

LEMMA PromiseInit == Init => Promise!Init
BY DEF Init, Promise!Init, Row, RowOf

\* A step that moves the row of one refund and touches no other.
LEMMA RowMoves ==
  ASSUME NEW r \in Refunds,
         \A x \in Refunds \ {r} : /\ refund'[x] = refund[x]
                                  /\ \A w \in Workers : Holds(w, x)' <=> Holds(w, x)
  PROVE  Row' = [Row EXCEPT ![r] = RowOf(r)']
<1>1. \A x \in Refunds \ {r} : RowOf(x)' = RowOf(x)
  BY DEF RowOf
<1>. QED  BY <1>1 DEF Row

\* The moves of one row that pay nothing.
LEMMA PromiseMoves ==
  ASSUME NEW r \in Refunds, sent' = sent,
         \A x \in Refunds \ {r} : /\ refund'[x] = refund[x]
                                  /\ \A w \in Workers : Holds(w, x)' <=> Holds(w, x),
         \/ RowOf(r) = "none" /\ RowOf(r)' = "pending"
         \/ RowOf(r) = "pending" /\ RowOf(r)' \in {"held", "rejected"}
         \/ RowOf(r) = "held" /\ RowOf(r)' \in {"pending", "left"}
  PROVE  Promise!Next
<1>1. Row[r] = RowOf(r)
  BY DEF Row
<1>2. Row' = [Row EXCEPT ![r] = RowOf(r)']
  BY RowMoves
<1>. QED
  BY <1>1, <1>2 DEF Promise!Next, Promise!Move, Promise!Open, Promise!Reject, Promise!Claim,
                    Promise!GiveBack, Promise!Abandon

\* A payment, answered or not.
LEMMA PromisePays ==
  ASSUME NEW r \in Refunds, sent' = sent \cup {r},
         \A x \in Refunds \ {r} : /\ refund'[x] = refund[x]
                                  /\ \A w \in Workers : Holds(w, x)' <=> Holds(w, x),
         RowOf(r) = "held", RowOf(r)' \in {"held", "left"}
  PROVE  Promise!Next
<1>1. Row[r] = RowOf(r)
  BY DEF Row
<1>2. Row' = [Row EXCEPT ![r] = RowOf(r)']
  BY RowMoves
<1>. QED  BY <1>1, <1>2 DEF Promise!Next, Promise!Pay

LEMMA PromiseStays ==
  ASSUME UNCHANGED <<refund, sent>>,
         \A r \in Refunds, w \in Workers : Holds(w, r)' <=> Holds(w, r)
  PROVE  UNCHANGED <<Row, sent>>
<1>1. \A r \in Refunds : RowOf(r)' = RowOf(r)
  BY DEF RowOf
<1>. QED  BY <1>1 DEF Row

\* Steps of a worker that is not about to pay, before or after.
LEMMA PromiseElsewhere ==
  ASSUME NEW w \in Workers, UNCHANGED <<refund, sent>>,
         pc[w] \notin {"pay", "release"}, pc'[w] \notin {"pay", "release"},
         \A v \in Workers \ {w} : pc'[v] = pc[v] /\ arg'[v] = arg[v]
  PROVE  UNCHANGED <<Row, sent>>
<1>1. \A r \in Refunds, v \in Workers : Holds(v, r)' <=> Holds(v, r)
  BY DEF Holds
<1>. QED  BY <1>1, PromiseStays

\* Rows that are opened or rejected, and claims.
LEMMA PromiseRowStep ==
  ASSUME IInv, NEW r \in Refunds,
         \/ RejectRefund(r)
         \/ \E w \in Workers : InsertRefund(w, r)
         \/ \E h \in Handlers : ProcessRefund(h, r)
  PROVE  Promise!Next
<1>. USE DEF IInv, TypeOK, RowTypes, WorkerTypes
<1>1. ASSUME NEW w \in Workers, InsertRefund(w, r)  PROVE Promise!Next
  <2>1. /\ refund[r] = "NONE" /\ refund' = [refund EXCEPT ![r] = "PENDING"] /\ sent' = sent
        /\ pc[w] = "insert" /\ pc'[w] \in {"execute", "reject"}
        /\ \A v \in Workers \ {w} : pc'[v] = pc[v] /\ arg'[v] = arg[v]
    BY <1>1 DEF InsertRefund, Go, Goto
  <2>2. \A x \in Refunds, v \in Workers : Holds(v, x)' <=> Holds(v, x)
    BY <2>1 DEF Holds
  <2>. QED  BY <2>1, <2>2, PromiseMoves DEF RowOf
<1>2. CASE RejectRefund(r)
  <2>1. refund[r] = "PENDING" /\ refund' = [refund EXCEPT ![r] = "REJECTED"] /\ UNCHANGED <<sent, pc, arg>>
    BY <1>2 DEF RejectRefund, workerVars
  <2>. QED  BY <2>1, PromiseMoves DEF RowOf, Holds
<1>3. ASSUME NEW h \in Handlers, ProcessRefund(h, r)  PROVE Promise!Next
  <2>0. h \in Workers
    BY DEF Workers
  <2>1. /\ refund[r] = "PENDING" /\ refund' = [refund EXCEPT ![r] = "PROCESSED"] /\ sent' = sent
        /\ pc[h] = "idle" /\ pc'[h] = "pay" /\ arg'[h] = r
        /\ \A v \in Workers \ {h} : pc'[v] = pc[v] /\ arg'[v] = arg[v]
    BY <1>3, <2>0 DEF ProcessRefund, Go, Goto
  <2>2. Holds(h, r)' /\ \A x \in Refunds \ {r}, v \in Workers : Holds(v, x)' <=> Holds(v, x)
    BY <2>1 DEF Holds
  <2>3. RowOf(r) = "pending" /\ RowOf(r)' = "held"
    BY <2>0, <2>1, <2>2 DEF RowOf
  <2>. QED  BY <2>1, <2>2, <2>3, PromiseMoves
<1>. QED  BY <1>1, <1>2, <1>3

\* executeRefund: only the worker that claimed the row is on it.
LEMMA PromiseExecuteStep ==
  ASSUME IInv, NEW w \in Workers,
         \/ ClaimRefund(w) \/ RefundPaid(w) \/ RefundFails(w) \/ ReleaseRefund(w) \/ Crash(w)
  PROVE  Promise!Next \/ UNCHANGED <<Row, sent>>
<1>. USE DEF IInv, TypeOK, RowTypes, WorkerTypes
<1>1. \A v \in Workers \ {w} : pc'[v] = pc[v] /\ arg'[v] = arg[v]
  BY DEF ClaimRefund, RefundPaid, RefundFails, ReleaseRefund, Crash, Finish, Go, Goto
<1>2. CASE ClaimRefund(w)
  <2>1. PICK r \in Refunds : r = arg[w]
    BY <1>2 DEF ClaimRefund, RefundPoints
  <2>2. CASE refund[r] = "PENDING"
    <3>1. /\ refund' = [refund EXCEPT ![r] = "PROCESSED"] /\ sent' = sent
          /\ pc[w] = "execute" /\ pc'[w] = "pay" /\ arg'[w] = r
      BY <1>2, <2>1, <2>2 DEF ClaimRefund, Goto
    <3>2. Holds(w, r)' /\ \A x \in Refunds \ {r}, v \in Workers : Holds(v, x)' <=> Holds(v, x)
      BY <1>1, <2>1, <3>1 DEF Holds
    <3>3. RowOf(r) = "pending" /\ RowOf(r)' = "held"
      BY <2>2, <3>1, <3>2 DEF RowOf
    <3>. QED  BY <3>1, <3>2, <3>3, PromiseMoves
  <2>3. CASE refund[r] # "PENDING"
    <3>1. UNCHANGED <<refund, sent>> /\ pc[w] = "execute" /\ pc'[w] = "idle"
      BY <1>2, <2>1, <2>3 DEF ClaimRefund, Finish, Go, Goto
    <3>. QED  BY <1>1, <3>1, PromiseElsewhere
  <2>. QED  BY <2>2, <2>3
<1>3. CASE pc[w] \notin {"pay", "release"} /\ Crash(w)
  <2>1. UNCHANGED <<refund, sent>> /\ pc'[w] = "idle"
    BY <1>3 DEF Crash, Finish, Go, Goto, refundVars
  <2>. QED  BY <1>1, <1>3, <2>1, PromiseElsewhere
<1>4. CASE pc[w] \in {"pay", "release"}
  <2>1. PICK r \in Refunds : r = arg[w]
    BY <1>4 DEF RefundPoints
  <2>2. Holds(w, r) /\ refund[r] = "PROCESSED" /\ \A v \in Workers \ {w} : ~Holds(v, r) /\ ~Holds(v, r)'
    BY <1>1, <1>4, <2>1 DEF Holds, Carries, CarryInv
  <2>3. RowOf(r) = "held"
    BY <2>2 DEF RowOf
  <2>4. arg'[w] \in {r, Null}
    BY <1>4, <2>1 DEF ClaimRefund, RefundPaid, RefundFails, ReleaseRefund, Crash, Finish, Go, Goto
  <2>5. \A x \in Refunds \ {r}, v \in Workers : Holds(v, x)' <=> Holds(v, x)
    BY <1>1, <2>1, <2>4, NullAssumption DEF Holds
  <2>6. CASE RefundPaid(w)
    <3>1. sent' = sent \cup {r} /\ refund' = refund /\ ~Holds(w, r)'
      BY <2>1, <2>6 DEF RefundPaid, Holds, Goto
    <3>2. RowOf(r)' = "left"
      BY <2>2, <3>1 DEF RowOf
    <3>. QED  BY <2>3, <2>5, <3>1, <3>2, PromisePays
  <2>7. CASE RefundFails(w)
    <3>1. sent' \in {sent, sent \cup {r}} /\ refund' = refund /\ Holds(w, r)'
      BY <2>1, <2>7 DEF RefundFails, Holds, Goto
    <3>2. RowOf(r)' = "held"
      BY <2>2, <3>1 DEF RowOf
    <3>3. \A x \in Refunds, v \in Workers : Holds(v, x)' <=> Holds(v, x)
      BY <2>2, <2>5, <3>1
    <3>. QED  BY <2>3, <2>5, <3>1, <3>2, <3>3, PromisePays, PromiseStays
  <2>8. CASE ReleaseRefund(w)
    <3>1. sent' = sent /\ refund' = [refund EXCEPT ![r] = "PENDING"]
      BY <2>1, <2>8 DEF ReleaseRefund
    <3>2. RowOf(r)' = "pending"
      BY <3>1 DEF RowOf
    <3>. QED  BY <2>3, <2>5, <3>1, <3>2, PromiseMoves
  <2>9. CASE Crash(w)
    <3>1. UNCHANGED <<refund, sent>> /\ ~Holds(w, r)'
      BY <2>1, <2>9 DEF Crash, Holds, Finish, Go, Goto, refundVars
    <3>2. RowOf(r)' = "left"
      BY <2>2, <3>1 DEF RowOf
    <3>. QED  BY <2>3, <2>5, <3>1, <3>2, PromiseMoves
  <2>. QED  BY <1>4, <2>6, <2>7, <2>8, <2>9 DEF ClaimRefund
<1>. QED  BY <1>2, <1>3, <1>4 DEF RefundPaid, RefundFails, ReleaseRefund

\* Everything else: the request, its advance, its approval and the sweep.
LEMMA PromiseOtherStep ==
  ASSUME IInv, NEW w \in Workers,
         \/ w \in Handlers /\ (Advance(w) \/ Research(w))
         \/ /\ w \in Handlers
            /\ \/ Approve(w) \/ ClaimApproval(w) \/ PublishListing(w) \/ CreatePayout(w)
               \/ Reject(w) \/ RejectUnpaid(w) \/ LookUpRefund(w) \/ RejectPaid(w)
         \/ w = Sweep /\ (SweepAssigned \/ SweepUnfinished)
         \/ RunOutOfIds(w) \/ SettleRefund(w)
  PROVE  UNCHANGED <<Row, sent>>
<1>. USE DEF Go, Goto, Finish, refundVars, workerVars
<1>1. ASSUME w \in Handlers, Advance(w)
      PROVE  /\ UNCHANGED <<refund, sent>> /\ pc[w] \notin {"pay", "release"}
             /\ pc'[w] \notin {"pay", "release"}
             /\ \A v \in Workers \ {w} : pc'[v] = pc[v] /\ arg'[v] = arg[v]
  BY <1>1 DEF IInv, TypeOK, WorkerTypes, Advance, AskForOrder, SetAdvancePaid, RecordOrder, ClaimAdvance
<1>2. ASSUME w \in Handlers, Research(w)
      PROVE  /\ UNCHANGED <<refund, sent>> /\ pc[w] \notin {"pay", "release"}
             /\ pc'[w] \notin {"pay", "release"}
             /\ \A v \in Workers \ {w} : pc'[v] = pc[v] /\ arg'[v] = arg[v]
  BY <1>2 DEF IInv, TypeOK, WorkerTypes, Research, Accept, Decline, Submit, WriteRow, Assign
<1>3. ASSUME \/ Approve(w) \/ ClaimApproval(w) \/ PublishListing(w) \/ CreatePayout(w)
             \/ Reject(w) \/ RejectUnpaid(w) \/ LookUpRefund(w) \/ RejectPaid(w)
             \/ RunOutOfIds(w) \/ SettleRefund(w)
      PROVE  /\ UNCHANGED <<refund, sent>> /\ pc[w] \notin {"pay", "release"}
             /\ pc'[w] \notin {"pay", "release"}
             /\ \A v \in Workers \ {w} : pc'[v] = pc[v] /\ arg'[v] = arg[v]
  BY <1>3 DEF IInv, TypeOK, WorkerTypes, Approve, ClaimApproval, PublishListing, CreatePayout, Reject,
              RejectUnpaid, LookUpRefund, RejectPaid, RunOutOfIds, SettleRefund
<1>4. ASSUME w = Sweep, SweepAssigned \/ SweepUnfinished
      PROVE  /\ UNCHANGED <<refund, sent>> /\ pc[w] \notin {"pay", "release"}
             /\ pc'[w] \notin {"pay", "release"}
             /\ \A v \in Workers \ {w} : pc'[v] = pc[v] /\ arg'[v] = arg[v]
  BY <1>4 DEF IInv, TypeOK, WorkerTypes, SweepAssigned, SweepUnfinished
<1>. QED  BY <1>1, <1>2, <1>3, <1>4, PromiseElsewhere

LEMMA PromiseStep == IInv /\ [Next]_vars => [Promise!Next]_<<Row, sent>>
<1>. SUFFICES ASSUME IInv, [Next]_vars  PROVE Promise!Next \/ UNCHANGED <<Row, sent>>
  OBVIOUS
<1>1. CASE UNCHANGED vars \/ DeadlinePasses \/ \E o \in Orders : Capture(o) \/ PaymentFailed(o)
  <2>1. UNCHANGED <<refund, sent, pc, arg>>
    BY <1>1 DEF vars, refundVars, workerVars, DeadlinePasses, Capture, PaymentFailed
  <2>. QED  BY <2>1, PromiseStays DEF Holds
<1>2. ASSUME NEW h \in Handlers, Advance(h) \/ Research(h) \/ Decide(h)
      PROVE  Promise!Next \/ UNCHANGED <<Row, sent>>
  BY <1>2, PromiseOtherStep, PromiseRowStep DEF Decide, Workers
<1>3. CASE \E r \in Refunds : RejectRefund(r)
  BY <1>3, PromiseRowStep
<1>4. CASE SweepAssigned \/ SweepUnfinished
  BY <1>4, PromiseOtherStep DEF Workers
<1>5. ASSUME NEW w \in Workers, Refunding(w) \/ Crash(w)
      PROVE  Promise!Next \/ UNCHANGED <<Row, sent>>
  BY <1>5, PromiseOtherStep, PromiseRowStep, PromiseExecuteStep DEF Refunding
<1>. QED  BY <1>1, <1>2, <1>3, <1>4, <1>5 DEF Next

\* However admins, the sweep and a restart interleave on the refunds of the
\* request, each row goes through executeRefund as RefundPromise says.
THEOREM KeepsRefundPromise == Spec => Promise!Spec
<1>. QED  BY PromiseInit, PromiseStep, RequestInvariant, PTL DEF Spec, Promise!Spec
=============================================================================
