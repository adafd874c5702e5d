--------------------------- MODULE ProfessionalPayout ---------------------------
(***************************************************************************)
(* Paying one Expert: payout.service.ts and the admin endpoints in front of *)
(* it (admin.controller.ts), with the bank behind razorpayPayouts.ts.      *)
(*                                                                         *)
(* A payout record collects the earnings that are available, is sent to    *)
(* RazorpayX by a super admin, and becomes PAID or REVERSED only by a      *)
(* webhook.  Several admins may process one record, and webhooks arrive    *)
(* more than once and in any order.  A handler h is one running call; its  *)
(* pc names the await it will run next.                                    *)
(*                                                                         *)
(* The amount of a record is abstracted to the earnings it adds up.  The   *)
(* Expert stays eligible with a bank account on file.                      *)
(***************************************************************************)
EXTENDS Naturals, FiniteSets

CONSTANTS
  Earnings,    \* ProfessionalEarning rows of the Expert
  Records,     \* ids of ProfessionalPayoutRecord rows
  Transfers,   \* payout ids RazorpayX may hand out
  Handlers,    \* slots for concurrently running handlers
  NoRecord, NoTransfer,
  MaxRetries   \* MAX_PAYOUT_RETRY_ATTEMPTS

ASSUME RetryAssumption == MaxRetries \in Nat \ {0}
ASSUME NoneAssumption == NoRecord \notin Records /\ NoTransfer \notin Transfers

VARIABLES
  earning,     \* ProfessionalEarning.status
  inRecord,    \* ProfessionalEarning.payoutRecordId
  record,      \* ProfessionalPayoutRecord.status, "NONE" before it exists
  total,       \* the earnings totalAmountPaise adds up
  retries,     \* retryCount, counted up to MaxRetries: it is only compared with it
  payoutId,    \* razorpayPayoutId
  transfer,    \* the bank: what became of the transfer, "NONE" before it exists
  sentFor,     \* the bank: reference_id of the transfer
  reversing,   \* earnings a refund's transaction has read and will reverse
  pc, rec, got, read   \* the handler: next await, record, transfer, retryCount read

rowVars == <<earning, inRecord, record, total, retries, payoutId>>
bankVars == <<transfer, sentFor>>
handlerVars == <<reversing, pc, rec, got, read>>
vars == <<rowVars, bankVars, handlerVars>>

RecordStatuses == {"NONE", "PAYOUT_REQUESTED", "PROCESSING", "PAID",
                   "RETRYABLE", "MANUAL_REVIEW", "REVERSED"}
EarningStatuses == {"PENDING_SETTLEMENT", "AVAILABLE_FOR_PAYOUT"}
                     \cup (RecordStatuses \ {"NONE"})
TransferStates == {"NONE", "accepted", "processed", "failed", "reversed"}

Sendable == {"PAYOUT_REQUESTED", "RETRYABLE"}
Reversible == {"PENDING_SETTLEMENT", "AVAILABLE_FOR_PAYOUT", "RETRYABLE"}

RecordPoints == {"send", "commit", "fail", "claimPaid", "markPaid", "recheck",
                 "claimFailed", "claimReversed", "markReversed", "retry", "writeOff"}
Points == {"idle"} \cup RecordPoints

Init ==
  /\ earning = [e \in Earnings |-> "PENDING_SETTLEMENT"]
  /\ inRecord = [e \in Earnings |-> NoRecord]
  /\ record = [r \in Records |-> "NONE"]
  /\ total = [r \in Records |-> {}]
  /\ retries = [r \in Records |-> 0]
  /\ payoutId = [r \in Records |-> NoTransfer]
  /\ transfer = [t \in Transfers |-> "NONE"]
  /\ sentFor = [t \in Transfers |-> NoRecord]
  /\ reversing = {}
  /\ pc = [h \in Handlers |-> "idle"]
  /\ rec = [h \in Handlers |-> NoRecord]
  /\ got = [h \in Handlers |-> NoTransfer]
  /\ read = [h \in Handlers |-> 0]

Begin(h, point, r, count) ==
  /\ pc[h] = "idle"
  /\ pc' = [pc EXCEPT ![h] = point]
  /\ rec' = [rec EXCEPT ![h] = r]
  /\ read' = [read EXCEPT ![h] = count]
  /\ UNCHANGED <<got, reversing>>

Goto(h, point) ==
  /\ pc' = [pc EXCEPT ![h] = point]
  /\ UNCHANGED <<rec, got, read, reversing>>

End(h) ==
  /\ pc' = [pc EXCEPT ![h] = "idle"]
  /\ rec' = [rec EXCEPT ![h] = NoRecord]
  /\ got' = [got EXCEPT ![h] = NoTransfer]
  /\ read' = [read EXCEPT ![h] = 0]
  /\ UNCHANGED reversing

\* updateMany({ where: { payoutRecordId: r }, data: { status } })
MarkEarnings(r, status) ==
  earning' = [e \in Earnings |-> IF inRecord[e] = r THEN status ELSE earning[e]]

SetRecord(r, status) == record' = [record EXCEPT ![r] = status]

(***************************************************************************)
(* Around the payout: the review window releases an earning, a refund of   *)
(* the buyer reverses one that is not on its way to the Expert.            *)
(***************************************************************************)
ReleaseEarning(e) ==
  /\ earning[e] = "PENDING_SETTLEMENT"
  /\ earning' = [earning EXCEPT ![e] = "AVAILABLE_FOR_PAYOUT"]
  /\ UNCHANGED <<inRecord, record, total, retries, payoutId, bankVars, handlerVars>>

\* recordReversalForRefund reads the earning and writes it without a condition;
\* payoutRecordId keeps its value.
ReverseForRefund(e) ==
  /\ earning[e] \in Reversible
  /\ reversing' = reversing \cup {e}
  /\ UNCHANGED <<rowVars, bankVars, pc, rec, got, read>>

CommitReversal(e) ==
  /\ e \in reversing
  /\ reversing' = reversing \ {e}
  /\ earning' = [earning EXCEPT ![e] = "REVERSED"]
  /\ UNCHANGED <<inRecord, record, total, retries, payoutId, bankVars,
                 pc, rec, got, read>>

(***************************************************************************)
(* requestPayout: one transaction that claims what is available; the       *)
(* guarded update and its count make it atomic.                            *)
(***************************************************************************)
ClaimableWithRetryable ==
  {e \in Earnings : earning[e] \in {"AVAILABLE_FOR_PAYOUT", "RETRYABLE"}}
Claimable == {e \in Earnings : earning[e] = "AVAILABLE_FOR_PAYOUT"}

RequestPayout(r) ==
  /\ record[r] = "NONE"
  /\ Claimable # {}
  /\ SetRecord(r, "PAYOUT_REQUESTED")
  /\ total' = [total EXCEPT ![r] = Claimable]
  /\ earning' = [e \in Earnings |->
       IF e \in Claimable THEN "PAYOUT_REQUESTED" ELSE earning[e]]
  /\ inRecord' = [e \in Earnings |-> IF e \in Claimable THEN r ELSE inRecord[e]]
  /\ UNCHANGED <<retries, payoutId, bankVars, handlerVars>>

\* A failed attempt: try again, or leave it to a human.
AfterFailureFailed(exhausted) == IF exhausted THEN "MANUAL_REVIEW" ELSE "FAILED"
AfterFailure(exhausted) == IF exhausted THEN "MANUAL_REVIEW" ELSE "RETRYABLE"

(***************************************************************************)
(* processPayout: a read, the call of the bank, and a transaction that     *)
(* claims the record only after the money was sent.                        *)
(***************************************************************************)
Process(h, r) ==
  /\ record[r] \in Sendable
  /\ Begin(h, "send", r, retries[r])
  /\ UNCHANGED <<rowVars, bankVars>>

\* createPayout answered with the id of the transfer.
BankAccepts(h, t) ==
  /\ pc[h] = "send"
  /\ transfer[t] = "NONE"
  /\ transfer' = [transfer EXCEPT ![t] = "accepted"]
  /\ sentFor' = [sentFor EXCEPT ![t] = rec[h]]
  /\ got' = [got EXCEPT ![h] = t]
  /\ pc' = [pc EXCEPT ![h] = "commit"]
  /\ UNCHANGED <<rowVars, rec, read, reversing>>

\* The answer came after PROVIDER_TIMEOUT_MS, or could not be read.
BankTimesOut(h, t) ==
  /\ pc[h] = "send"
  /\ transfer[t] = "NONE"
  /\ transfer' = [transfer EXCEPT ![t] = "accepted"]
  /\ sentFor' = [sentFor EXCEPT ![t] = rec[h]]
  /\ Goto(h, "fail")
  /\ UNCHANGED rowVars

BankRefuses(h) ==
  /\ pc[h] = "send"
  /\ Goto(h, "fail")
  /\ UNCHANGED <<rowVars, bankVars>>

SentIsPaid == "PAID"
SentStatus == "PROCESSING"

StoredIdOfBefore(h) == payoutId[rec[h]]
StoredId(h) == got[h]

CommitProcessing(h) ==
  /\ pc[h] = "commit"
  /\ record[rec[h]] \in Sendable
  /\ SetRecord(rec[h], SentStatus)
  /\ payoutId' = [payoutId EXCEPT ![rec[h]] = StoredId(h)]
  /\ MarkEarnings(rec[h], SentStatus)
  /\ End(h)
  /\ UNCHANGED <<inRecord, total, retries, bankVars>>

\* Another admin was first: the 409 is caught like a failure of the bank.
ProcessingLost(h) ==
  /\ pc[h] = "commit"
  /\ record[rec[h]] \notin Sendable
  /\ Goto(h, "fail")
  /\ UNCHANGED <<rowVars, bankVars>>

\* The catch block writes the record whatever it has become.
Fail(h) ==
  LET next == AfterFailure(read[h] + 1 >= MaxRetries) IN
  /\ pc[h] = "fail"
  /\ SetRecord(rec[h], next)
  /\ retries' = [retries EXCEPT ![rec[h]] = IF @ = MaxRetries THEN @ ELSE @ + 1]
  /\ MarkEarnings(rec[h], next)
  /\ End(h)
  /\ UNCHANGED <<inRecord, total, payoutId, bankVars>>

(***************************************************************************)
(* The bank                                                                *)
(***************************************************************************)
Settle(t, state) ==
  /\ <<transfer[t], state>> \in {<<"accepted", "processed">>, <<"accepted", "failed">>,
                                 <<"processed", "reversed">>}
  /\ transfer' = [transfer EXCEPT ![t] = state]
  /\ UNCHANGED <<rowVars, sentFor, handlerVars>>

(***************************************************************************)
(* handlePayoutWebhookEvent: the record is found by the payout id, so an   *)
(* event that arrives before CommitProcessing finds none and is ignored.   *)
(***************************************************************************)
PayoutProcessed(h, t, r) ==
  /\ transfer[t] \in {"processed", "reversed"}
  /\ payoutId[r] = t
  /\ Begin(h, "claimPaid", r, 0)
  /\ UNCHANGED <<rowVars, bankVars>>

ClaimPaid(h) ==
  /\ pc[h] = "claimPaid"
  /\ record[rec[h]] = "PROCESSING"
  /\ SetRecord(rec[h], "PAID")
  /\ Goto(h, "markPaid")
  /\ UNCHANGED <<earning, inRecord, total, retries, payoutId, bankVars>>

\* A second statement, outside any transaction.
MarkPaidNothing(h) ==
  /\ pc[h] = "markPaid"
  /\ End(h)
  /\ UNCHANGED <<rowVars, bankVars>>
MarkPaid(h) ==
  /\ pc[h] = "markPaid"
  /\ MarkEarnings(rec[h], "PAID")
  /\ End(h)
  /\ UNCHANGED <<inRecord, record, total, retries, payoutId, bankVars>>

PayoutFailed(h, t, r) ==
  /\ transfer[t] = "failed"
  /\ payoutId[r] = t
  /\ Begin(h, "recheck", r, 0)
  /\ UNCHANGED <<rowVars, bankVars>>

Recheck(h) ==
  /\ pc[h] = "recheck"
  /\ record[rec[h]] = "PROCESSING"
  /\ pc' = [pc EXCEPT ![h] = "claimFailed"]
  /\ read' = [read EXCEPT ![h] = retries[rec[h]]]
  /\ UNCHANGED <<rowVars, bankVars, rec, got, reversing>>

ClaimFailed(h) ==
  LET next == AfterFailure(read[h] >= MaxRetries) IN
  /\ pc[h] = "claimFailed"
  /\ record[rec[h]] = "PROCESSING"
  /\ SetRecord(rec[h], next)
  /\ MarkEarnings(rec[h], next)
  /\ End(h)
  /\ UNCHANGED <<inRecord, total, retries, payoutId, bankVars>>

PayoutReversed(h, t, r) ==
  /\ transfer[t] = "reversed"
  /\ payoutId[r] = t
  /\ Begin(h, "claimReversed", r, 0)
  /\ UNCHANGED <<rowVars, bankVars>>

ClaimReversed(h) ==
  /\ pc[h] = "claimReversed"
  /\ record[rec[h]] = "PAID"
  /\ SetRecord(rec[h], "REVERSED")
  /\ Goto(h, "markReversed")
  /\ UNCHANGED <<earning, inRecord, total, retries, payoutId, bankVars>>

MarkReversed(h) ==
  /\ pc[h] = "markReversed"
  /\ MarkEarnings(rec[h], "REVERSED")
  /\ End(h)
  /\ UNCHANGED <<inRecord, record, total, retries, payoutId, bankVars>>

\* A duplicate, or an event the record is no longer waiting for.
EventIgnored(h) ==
  /\ \/ pc[h] \in {"claimPaid", "recheck", "claimFailed"} /\ record[rec[h]] # "PROCESSING"
     \/ pc[h] = "claimReversed" /\ record[rec[h]] # "PAID"
  /\ End(h)
  /\ UNCHANGED <<rowVars, bankVars>>

(***************************************************************************)
(* resolveManualReviewPayout: the status is read, then a transaction       *)
(* writes without looking again.                                           *)
(***************************************************************************)
ResolveReview(h, r) ==
  /\ record[r] = "MANUAL_REVIEW"
  /\ \E point \in {"retry", "writeOff"} : Begin(h, point, r, retries[r])
  /\ UNCHANGED <<rowVars, bankVars>>

CommitRetry(h) ==
  /\ pc[h] = "retry"
  /\ SetRecord(rec[h], "RETRYABLE")
  /\ retries' = [retries EXCEPT ![rec[h]] = 0]
  /\ MarkEarnings(rec[h], "RETRYABLE")
  /\ End(h)
  /\ UNCHANGED <<inRecord, total, payoutId, bankVars>>

CommitWriteOff(h) ==
  /\ pc[h] = "writeOff"
  /\ SetRecord(rec[h], "REVERSED")
  /\ retries' = [retries EXCEPT ![rec[h]] = read[h]]
  /\ MarkEarnings(rec[h], "REVERSED")
  /\ End(h)
  /\ UNCHANGED <<inRecord, total, payoutId, bankVars>>

Step(h) ==
  \/ \E t \in Transfers : BankAccepts(h, t) \/ BankTimesOut(h, t)
  \/ BankRefuses(h) \/ CommitProcessing(h) \/ ProcessingLost(h) \/ Fail(h)
  \/ ClaimPaid(h) \/ MarkPaid(h) \/ Recheck(h) \/ ClaimFailed(h)
  \/ ClaimReversed(h) \/ MarkReversed(h) \/ EventIgnored(h)
  \/ CommitRetry(h) \/ CommitWriteOff(h)

Next ==
  \/ \E e \in Earnings : ReleaseEarning(e) \/ ReverseForRefund(e) \/ CommitReversal(e)
  \/ \E r \in Records : RequestPayout(r)
  \/ \E t \in Transfers, state \in TransferStates : Settle(t, state)
  \/ \E h \in Handlers :
       \/ Step(h)
       \/ \E r \in Records :
            \/ Process(h, r) \/ ResolveReview(h, r)
            \/ \E t \in Transfers : \/ PayoutProcessed(h, t, r)
                                    \/ PayoutFailed(h, t, r)
                                    \/ PayoutReversed(h, t, r)

Spec == Init /\ [][Next]_vars

(***************************************************************************)
(* Properties                                                              *)
(***************************************************************************)
TypeOK ==
  /\ earning \in [Earnings -> EarningStatuses]
  /\ inRecord \in [Earnings -> Records \cup {NoRecord}]
  /\ record \in [Records -> RecordStatuses]
  /\ total \in [Records -> SUBSET Earnings]
  /\ retries \in [Records -> 0 .. MaxRetries]
  /\ payoutId \in [Records -> Transfers \cup {NoTransfer}]
  /\ transfer \in [Transfers -> TransferStates]
  /\ sentFor \in [Transfers -> Records \cup {NoRecord}]
  /\ reversing \subseteq Earnings
  /\ pc \in [Handlers -> Points]
  /\ rec \in [Handlers -> Records \cup {NoRecord}]
  /\ got \in [Handlers -> Transfers \cup {NoTransfer}]
  /\ read \in [Handlers -> 0 .. MaxRetries]
  /\ \A h \in Handlers : pc[h] \in RecordPoints => rec[h] \in Records

\* What a record adds up is what is claimed into it, however often it is
\* retried or reversed: no earning is counted in two records, and the amount
\* sent to the bank never goes stale.
AmountMatchesClaims ==
  \A r \in Records : total[r] = {e \in Earnings : inRecord[e] = r}

Confirmed(r) == \E t \in Transfers : sentFor[t] = r /\ transfer[t] \in {"processed", "reversed"}

\* "Never mark a professional as PAID merely because the internal ledger says
\* the amount is payable": a PAID record and its PAID earnings have a transfer
\* of that record that the bank processed.
PaidIsConfirmed ==
  /\ \A r \in Records : record[r] = "PAID" => Confirmed(r)
  /\ \A e \in Earnings : earning[e] = "PAID" => inRecord[e] \in Records /\ Confirmed(inRecord[e])

\* The payout id of a record names a transfer that was sent for it, and no
\* other record has the same: a webhook finds the right record or none.
WebhookFindsItsRecord ==
  \A r \in Records :
    /\ payoutId[r] # NoTransfer => sentFor[payoutId[r]] = r
    /\ record[r] \in {"PROCESSING", "PAID"} => payoutId[r] # NoTransfer

\* The earnings of a PAID record are written by a second statement, after
\* other handlers may have run: they are PAID too (or reversed by an event that
\* came late), or the handler that will write them is still there.
PaidEarningsFollow ==
  \A r \in Records : record[r] = "PAID" =>
    \/ \A e \in total[r] : earning[e] \in {"PAID", "REVERSED"}
    \/ \E h \in Handlers : pc[h] = "markPaid" /\ rec[h] = r

\* payout.service.ts: from PAID a payout goes only to REVERSED, by a webhook.
\* The catch block of a second processPayout makes it RETRYABLE, to be sent
\* again.
PaidOnlyReverses ==
  [][ \A r \in Records : record[r] = "PAID" => record'[r] \in {"PAID", "REVERSED"} ]_vars
=============================================================================
