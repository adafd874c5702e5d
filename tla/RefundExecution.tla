---------------------------- MODULE RefundExecution ----------------------------
(***************************************************************************)
(* Paying a Refund row of one verification request: executeRefund of       *)
(* refund.service.ts and recordReversalForRefund of ledger.service.ts.     *)
(*                                                                         *)
(* The row is claimed PENDING -> PROCESSED before Razorpay is called, so   *)
(* that two callers cannot both reach it; a failed call gives the row      *)
(* back.  The ledger reversal covers the captures of the request oldest    *)
(* first.  Refunds come from a cancellation, from a payment that found its *)
(* request no longer waiting, and from approved claims.                    *)
(*                                                                         *)
(* Orders are numbered by createdAt; legs are captured in that order.      *)
(* Every order pays one half of the fee, Half; a cancellation keeps Kept   *)
(* of each.  An earning is LIVE while a refund may reverse it; payouts are *)
(* in ProfessionalPayout.  Razorpay may accept or refuse any amount.       *)
(***************************************************************************)
EXTENDS Integers, FiniteSets, Functions

CONSTANTS
  Last,        \* the orders of the request are 1 .. Last
  Refunds,     \* ids of Refund rows
  Handlers,    \* slots for concurrent executeRefund calls
  NoRefund,
  Half, Kept   \* the amount of an order, and what a cancellation keeps of it

ASSUME LastAssumption == Last \in Nat
ASSUME AmountAssumption == Half \in Nat \ {0} /\ Kept \in 0 .. Half
ASSUME NoRefundAssumption == NoRefund \notin Refunds

Orders == 1 .. Last

VARIABLES
  cancelled,   \* the request is CANCELLED
  paid,        \* orders with PaymentOrder.status PAID
  gross,       \* the GROSS_PAYMENT entry of an order
  earning,     \* its ProfessionalEarning
  status,      \* Refund.status, "NONE" before the row exists
  amount,      \* Refund.amount
  booked,      \* REFUND entries of the refund
  reversal,    \* what the reversal entries of the refund take from an order
  unmatched,   \* amount of its REFUND_MISMATCH issue
  sent,        \* refunds that Razorpay paid out, once or more
  cut,         \* refunds whose call a restart or an exception ended midway
  pc, on, entries  \* the call: next await, its refund, the captures it read

requestVars == <<cancelled, paid>>
refundVars == <<status, amount>>
ledgerVars == <<gross, earning, booked, reversal, unmatched>>
callVars == <<pc, on, entries>>
vars == <<requestVars, refundVars, ledgerVars, sent, cut, callVars>>

RefundStatuses == {"NONE", "PENDING", "PROCESSED", "REJECTED"}
Points == {"idle", "pay", "release", "readLedger", "book"}

Init ==
  /\ cancelled = FALSE
  /\ paid = {}
  /\ gross = [o \in Orders |-> "NONE"]
  /\ earning = [o \in Orders |-> "NONE"]
  /\ status = [r \in Refunds |-> "NONE"]
  /\ amount = [r \in Refunds |-> 0]
  /\ booked = [r \in Refunds |-> 0]
  /\ reversal = [r \in Refunds |-> [o \in Orders |-> 0]]
  /\ unmatched = [r \in Refunds |-> 0]
  /\ sent = {}
  /\ cut = {}
  /\ pc = [h \in Handlers |-> "idle"]
  /\ on = [h \in Handlers |-> NoRefund]
  /\ entries = [h \in Handlers |-> {}]

Captured == {o \in Orders : gross[o] # "NONE"}
Delivered == Cardinality(Captured) = 2

CreateRefund(r, rupees) ==
  /\ status[r] = "NONE"
  /\ status' = [status EXCEPT ![r] = "PENDING"]
  /\ amount' = [amount EXCEPT ![r] = rupees]

(***************************************************************************)
(* Where refunds come from                                                 *)
(***************************************************************************)

\* A leg is captured; an Admin who does the work has no earning.
CaptureLeg(o) ==
  /\ ~cancelled /\ ~Delivered
  /\ o \notin paid
  /\ \A p \in Captured : p < o
  /\ paid' = paid \cup {o}
  /\ gross' = [gross EXCEPT ![o] = "RECORDED"]
  /\ \E e \in {"NONE", "LIVE"} : earning' = [earning EXCEPT ![o] = e]
  /\ UNCHANGED <<cancelled, refundVars, booked, reversal, unmatched, sent, cut, callVars>>

\* refundStrandedPayment: the order is PAID, its request was not waiting.
StrandPayment(o, r) ==
  /\ cancelled \/ Captured # {}
  /\ o \notin paid
  /\ paid' = paid \cup {o}
  /\ CreateRefund(r, Half)
  /\ UNCHANGED <<cancelled, ledgerVars, sent, cut, callVars>>

\* executeCancellation: every PAID order less the fee.
CancelRequest(r) ==
  LET due == Cardinality(paid) * (Half - Kept) IN
  /\ ~cancelled /\ ~Delivered
  /\ cancelled' = TRUE
  /\ IF due > 0 THEN CreateRefund(r, due)
                ELSE UNCHANGED refundVars
  /\ UNCHANGED <<paid, ledgerVars, sent, cut, callVars>>

\* resolveClaim: the agreed fee, that is both legs.
ApproveClaim(r) ==
  /\ ~cancelled /\ Delivered
  /\ CreateRefund(r, 2 * Half)
  /\ UNCHANGED <<requestVars, ledgerVars, sent, cut, callVars>>

RejectRefund(r) ==
  /\ status[r] = "PENDING"
  /\ status' = [status EXCEPT ![r] = "REJECTED"]
  /\ UNCHANGED <<requestVars, amount, ledgerVars, sent, cut, callVars>>

(***************************************************************************)
(* executeRefund.  It refunds the latest PAID order of the request,         *)
(* whatever the refund is for; a refund only exists after a payment, so    *)
(* there always is one.                                                    *)
(***************************************************************************)
ClaimableAgain(r) == status[r] \in {"PENDING", "PROCESSED"}
Claimable(r) == status[r] = "PENDING"

ExecuteRefund(h, r) ==
  /\ pc[h] = "idle"
  /\ Claimable(r)
  /\ status' = [status EXCEPT ![r] = "PROCESSED"]
  /\ pc' = [pc EXCEPT ![h] = "pay"]
  /\ on' = [on EXCEPT ![h] = r]
  /\ UNCHANGED <<requestVars, amount, ledgerVars, sent, cut, entries>>

\* refundPayment pays, and the answer arrives - or the call times out after it.
RefundPayment(h) ==
  /\ pc[h] = "pay"
  /\ sent' = sent \cup {on[h]}
  /\ \E point \in {"readLedger", "release"} : pc' = [pc EXCEPT ![h] = point]
  /\ UNCHANGED <<requestVars, refundVars, ledgerVars, cut, on, entries>>

RefundRefused(h) ==
  /\ pc[h] = "pay"
  /\ pc' = [pc EXCEPT ![h] = "release"]
  /\ UNCHANGED <<requestVars, refundVars, ledgerVars, sent, cut, on, entries>>

Finish(h) ==
  /\ pc' = [pc EXCEPT ![h] = "idle"]
  /\ on' = [on EXCEPT ![h] = NoRefund]
  /\ entries' = [entries EXCEPT ![h] = {}]

\* The catch block gives the claim back.
KeepClaim(h) ==
  /\ pc[h] = "release"
  /\ Finish(h)
  /\ UNCHANGED <<requestVars, refundVars, ledgerVars, sent, cut>>
ReleaseClaim(h) ==
  /\ pc[h] = "release"
  /\ status' = [status EXCEPT ![on[h]] = "PENDING"]
  /\ Finish(h)
  /\ UNCHANGED <<requestVars, amount, ledgerVars, sent, cut>>

(***************************************************************************)
(* recordReversalForRefund, READ COMMITTED: it reads the captures that are *)
(* not reversed, and writes what it concludes from them.                   *)
(***************************************************************************)
ReadLedger(h) ==
  /\ pc[h] = "readLedger"
  /\ entries' = [entries EXCEPT ![h] = {o \in Orders : gross[o] = "RECORDED"}]
  /\ pc' = [pc EXCEPT ![h] = "book"]
  /\ UNCHANGED <<requestVars, refundVars, ledgerVars, sent, cut, on>>

\* What is left of the refund when the loop reaches an entry, and its share.
RemainingWhole(h, o) == amount[on[h]]
Remaining(h, o) == amount[on[h]] - Half * Cardinality({p \in entries[h] : p < o})

Share(h, o) ==
  IF o \notin entries[h] \/ Remaining(h, o) <= 0 THEN 0
  ELSE IF Remaining(h, o) < Half THEN Remaining(h, o) ELSE Half

LeftoverSigned(h) == amount[on[h]] - Half * Cardinality(entries[h])
Leftover(h) ==
  LET rest == amount[on[h]] - Half * Cardinality(entries[h])
  IN  IF rest > 0 THEN rest ELSE 0

\* A capture is REVERSED only when its whole amount was; its earning always is.
MarkedWhole(h, o) == Share(h, o) > 0
Marked(h, o) == Share(h, o) = Half

BookRefund(h) ==
  /\ pc[h] = "book"
  /\ booked' = [booked EXCEPT ![on[h]] = @ + 1]
  /\ reversal' = [reversal EXCEPT ![on[h]] = [o \in Orders |-> Share(h, o)]]
  /\ unmatched' = [unmatched EXCEPT ![on[h]] = Leftover(h)]
  /\ gross' = [o \in Orders |-> IF Marked(h, o) THEN "REVERSED" ELSE gross[o]]
  /\ earning' = [o \in Orders |->
       IF Share(h, o) > 0 /\ earning[o] = "LIVE" THEN "REVERSED" ELSE earning[o]]
  /\ Finish(h)
  /\ UNCHANGED <<requestVars, refundVars, sent, cut>>

\* A restart, or an exception of a statement outside the try block: the row
\* stays PROCESSED, and nothing takes it up again.
Interrupt(h) ==
  /\ pc[h] # "idle"
  /\ cut' = cut \cup {on[h]}
  /\ Finish(h)
  /\ UNCHANGED <<requestVars, refundVars, ledgerVars, sent>>

Step(h) ==
  \/ RefundPayment(h) \/ RefundRefused(h)
  \/ ReleaseClaim(h) \/ ReadLedger(h) \/ BookRefund(h) \/ Interrupt(h)

Next ==
  \/ \E o \in Orders : CaptureLeg(o) \/ \E r \in Refunds : StrandPayment(o, r)
  \/ \E r \in Refunds : CancelRequest(r) \/ ApproveClaim(r) \/ RejectRefund(r)
  \/ \E h \in Handlers : Step(h) \/ \E r \in Refunds : ExecuteRefund(h, r)

Spec == Init /\ [][Next]_vars

(***************************************************************************)
(* Properties                                                              *)
(***************************************************************************)
TypeOK ==
  /\ cancelled \in BOOLEAN
  /\ paid \subseteq Orders
  /\ gross \in [Orders -> {"NONE", "RECORDED", "REVERSED"}]
  /\ earning \in [Orders -> {"NONE", "LIVE", "REVERSED"}]
  /\ status \in [Refunds -> RefundStatuses]
  /\ amount \in [Refunds -> Nat]
  /\ booked \in [Refunds -> Nat]
  /\ reversal \in [Refunds -> [Orders -> 0 .. Half]]
  /\ unmatched \in [Refunds -> Nat]
  /\ sent \subseteq Refunds
  /\ cut \subseteq Refunds
  /\ pc \in [Handlers -> Points]
  /\ on \in [Handlers -> Refunds \cup {NoRefund}]
  /\ entries \in [Handlers -> SUBSET Orders]
  /\ \A h \in Handlers : pc[h] # "idle" => on[h] \in Refunds

Carries(h, r) == pc[h] # "idle" /\ on[h] = r

\* "Two racing callers must not both reach Razorpay for the same refund": at
\* most one call carries a refund, and it holds the claim, so an admin cannot
\* reject it meanwhile.
OneCallPerRefund ==
  \A h \in Handlers, r \in Refunds :
    Carries(h, r) => /\ status[r] = "PROCESSED"
                     /\ \A k \in Handlers : Carries(k, r) => k = h

\* "A processed refund can never end up without its ledger entries", as far as
\* that goes: it was paid out and booked exactly once, or a call is carrying
\* it, or its call was cut; and no other refund is in the ledger.
ProcessedIsBooked ==
  \A r \in Refunds :
    \/ booked[r] = 0 /\ status[r] # "PROCESSED"
    \/ booked[r] = 0 /\ (r \in cut \/ \E h \in Handlers : Carries(h, r))
    \/ booked[r] = 1 /\ status[r] = "PROCESSED" /\ r \in sent \ cut

\* What a booked refund takes from the captures, plus what is left on the
\* reconciliation list, is what the buyer got.
RefundIsMatched ==
  \A r \in Refunds :
    booked[r] > 0 => SumFunction(reversal[r]) + unmatched[r] = amount[r]

\* A capture is closed only by a refund that gave all of it back, and an
\* earning is reversed only by a refund that took something of its payment.
ReversedByARefund ==
  \A o \in Orders :
    /\ gross[o] = "REVERSED" => \E r \in Refunds : booked[r] = 1 /\ reversal[r][o] = Half
    /\ earning[o] = "REVERSED" => \E r \in Refunds : booked[r] = 1 /\ reversal[r][o] > 0
=============================================================================
