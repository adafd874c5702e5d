------------------------- MODULE ProfessionalPayoutProofs -------------------------
(***************************************************************************)
(* Proofs about payouts, for any number of earnings, records, transfers    *)
(* and handlers, and any retry limit.                                      *)
(*                                                                         *)
(* What a PAID record promises depends on what the handlers carry: a call  *)
(* that holds a transfer id got it for its own record (BankInv), and a     *)
(* webhook that is about to write PAID was delivered for a transfer of its *)
(* record that the bank processed (ConfirmInv), although the record may    *)
(* have been retried and sent again meanwhile.                             *)
(***************************************************************************)
EXTENDS ProfessionalPayout, TLAPS

\* Earnings enter a record once, from AVAILABLE_FOR_PAYOUT.
ClaimInv ==
  /\ AmountMatchesClaims
  /\ \A r \in Records : record[r] = "NONE" => total[r] = {}
  /\ \A e \in Earnings :
       earning[e] \in {"PENDING_SETTLEMENT", "AVAILABLE_FOR_PAYOUT"} => inRecord[e] = NoRecord

\* The transfers that handlers and records hold are their own.
BankInv ==
  /\ WebhookFindsItsRecord
  /\ \A r \in Records : payoutId[r] # NoTransfer => transfer[payoutId[r]] # "NONE"
  /\ \A h \in Handlers :
       pc[h] = "commit" => /\ got[h] \in Transfers
                           /\ sentFor[got[h]] = rec[h]
                           /\ transfer[got[h]] # "NONE"

ConfirmInv ==
  /\ PaidIsConfirmed
  /\ \A h \in Handlers : pc[h] \in {"claimPaid", "markPaid"} => Confirmed(rec[h])

IInv == TypeOK /\ ClaimInv /\ BankInv /\ ConfirmInv /\ PaidEarningsFollow

-----------------------------------------------------------------------------
\* The initial state satisfies the inductive invariant.
LEMMA InitIInv == Init => IInv
<1> SUFFICES ASSUME Init
             PROVE  IInv
  OBVIOUS
<1> USE RetryAssumption, NoneAssumption DEF Init
<1>1. TypeOK
  BY DEF TypeOK, RecordStatuses, EarningStatuses, TransferStates, RecordPoints, Points
<1>2. ClaimInv
  BY DEF ClaimInv, AmountMatchesClaims
<1>3. BankInv
  BY DEF BankInv, WebhookFindsItsRecord
<1>4. ConfirmInv
  BY DEF ConfirmInv, PaidIsConfirmed
<1>5. PaidEarningsFollow
  BY DEF PaidEarningsFollow
<1>6. QED
  BY <1>1, <1>2, <1>3, <1>4, <1>5 DEF IInv

-----------------------------------------------------------------------------
\* Every action keeps the types.
LEMMA TypeNext ==
  TypeOK /\ [Next]_vars => TypeOK'
<1> SUFFICES ASSUME TypeOK, [Next]_vars
             PROVE  TypeOK'
  OBVIOUS
<1> USE RetryAssumption, NoneAssumption DEF TypeOK, rowVars, bankVars, handlerVars,
      RecordStatuses, EarningStatuses, TransferStates,
      RecordPoints, Points
<1>1. ASSUME NEW e \in Earnings, ReleaseEarning(e)
      PROVE  TypeOK'
  BY <1>1 DEF ReleaseEarning
<1>2. ASSUME NEW e \in Earnings, ReverseForRefund(e)
      PROVE  TypeOK'
  BY <1>2 DEF ReverseForRefund
<1>3. ASSUME NEW e \in Earnings, CommitReversal(e)
      PROVE  TypeOK'
  BY <1>3 DEF CommitReversal
<1>4. ASSUME NEW r \in Records, RequestPayout(r)
      PROVE  TypeOK'
  BY <1>4 DEF RequestPayout, Claimable, SetRecord
<1>5. ASSUME NEW t \in Transfers, 
             NEW state \in TransferStates, Settle(t, state)
      PROVE  TypeOK'
  BY <1>5 DEF Settle
<1>6. ASSUME NEW h \in Handlers, NEW r \in Records, Process(h, r)
      PROVE  TypeOK'
  BY <1>6 DEF Process, Begin
<1>7. ASSUME NEW h \in Handlers, NEW r \in Records, ResolveReview(h, r)
      PROVE  TypeOK'
  BY <1>7 DEF ResolveReview, Begin
<1>8. ASSUME NEW h \in Handlers, NEW t \in Transfers, 
             NEW r \in Records, PayoutProcessed(h, t, r)
      PROVE  TypeOK'
  BY <1>8 DEF PayoutProcessed, Begin
<1>9. ASSUME NEW h \in Handlers, NEW t \in Transfers, 
             NEW r \in Records, PayoutFailed(h, t, r)
      PROVE  TypeOK'
  BY <1>9 DEF PayoutFailed, Begin
<1>10. ASSUME NEW h \in Handlers, NEW t \in Transfers, 
             NEW r \in Records, PayoutReversed(h, t, r)
      PROVE  TypeOK'
  BY <1>10 DEF PayoutReversed, Begin
<1>11. ASSUME NEW h \in Handlers, NEW t \in Transfers, BankAccepts(h, t)
      PROVE  TypeOK'
  BY <1>11 DEF BankAccepts
<1>12. ASSUME NEW h \in Handlers, NEW t \in Transfers, BankTimesOut(h, t)
      PROVE  TypeOK'
  BY <1>12 DEF BankTimesOut, Goto
<1>13. ASSUME NEW h \in Handlers, BankRefuses(h)
      PROVE  TypeOK'
  BY <1>13 DEF BankRefuses, Goto
<1>14. ASSUME NEW h \in Handlers, CommitProcessing(h)
      PROVE  TypeOK'
  BY <1>14 DEF CommitProcessing, SetRecord, MarkEarnings, StoredId, SentStatus, End
<1>15. ASSUME NEW h \in Handlers, ProcessingLost(h)
      PROVE  TypeOK'
  BY <1>15 DEF ProcessingLost, Goto
<1>16. ASSUME NEW h \in Handlers, Fail(h)
      PROVE  TypeOK'
  BY <1>16 DEF Fail, SetRecord, MarkEarnings, AfterFailure, End
<1>17. ASSUME NEW h \in Handlers, ClaimPaid(h)
      PROVE  TypeOK'
  BY <1>17 DEF ClaimPaid, SetRecord, Goto
<1>18. ASSUME NEW h \in Handlers, MarkPaid(h)
      PROVE  TypeOK'
  BY <1>18 DEF MarkPaid, MarkEarnings, End
<1>19. ASSUME NEW h \in Handlers, Recheck(h)
      PROVE  TypeOK'
  BY <1>19 DEF Recheck
<1>20. ASSUME NEW h \in Handlers, ClaimFailed(h)
      PROVE  TypeOK'
  BY <1>20 DEF ClaimFailed, SetRecord, MarkEarnings, AfterFailure, End
<1>21. ASSUME NEW h \in Handlers, ClaimReversed(h)
      PROVE  TypeOK'
  BY <1>21 DEF ClaimReversed, SetRecord, Goto
<1>22. ASSUME NEW h \in Handlers, MarkReversed(h)
      PROVE  TypeOK'
  BY <1>22 DEF MarkReversed, MarkEarnings, End
<1>23. ASSUME NEW h \in Handlers, EventIgnored(h)
      PROVE  TypeOK'
  BY <1>23 DEF EventIgnored, End
<1>24. ASSUME NEW h \in Handlers, CommitRetry(h)
      PROVE  TypeOK'
  BY <1>24 DEF CommitRetry, SetRecord, MarkEarnings, End
<1>25. ASSUME NEW h \in Handlers, CommitWriteOff(h)
      PROVE  TypeOK'
  BY <1>25 DEF CommitWriteOff, SetRecord, MarkEarnings, End
<1>26. CASE UNCHANGED vars
  BY <1>26 DEF vars
<1>27. QED
  BY <1>1, <1>2, <1>3, <1>4, <1>5, <1>6, <1>7, <1>8, <1>9, <1>10, <1>11, <1>12, <1>13,
     <1>14, <1>15, <1>16, <1>17, <1>18, <1>19, <1>20, <1>21, <1>22, <1>23, <1>24, <1>25, <1>26 DEF Next, Step

-----------------------------------------------------------------------------
\* What a record adds up stays what is claimed into it.
LEMMA ClaimNext ==
  TypeOK /\ ClaimInv /\ [Next]_vars => ClaimInv'
<1> SUFFICES ASSUME TypeOK, ClaimInv, [Next]_vars
             PROVE  ClaimInv'
  OBVIOUS
<1> USE NoneAssumption DEF TypeOK, ClaimInv, AmountMatchesClaims, rowVars, bankVars, handlerVars,
      RecordPoints, Points
<1>1. ASSUME NEW e \in Earnings, ReleaseEarning(e)
      PROVE  ClaimInv'
  BY <1>1 DEF ReleaseEarning
<1>2. ASSUME NEW e \in Earnings, ReverseForRefund(e)
      PROVE  ClaimInv'
  BY <1>2 DEF ReverseForRefund
<1>3. ASSUME NEW e \in Earnings, CommitReversal(e)
      PROVE  ClaimInv'
  BY <1>3 DEF CommitReversal
<1>4. ASSUME NEW r \in Records, RequestPayout(r)
      PROVE  ClaimInv'
  BY <1>4 DEF RequestPayout, Claimable, SetRecord
<1>5. ASSUME NEW t \in Transfers, 
             NEW state \in TransferStates, Settle(t, state)
      PROVE  ClaimInv'
  BY <1>5 DEF Settle
<1>6. ASSUME NEW h \in Handlers, NEW r \in Records, Process(h, r)
      PROVE  ClaimInv'
  BY <1>6 DEF Process, Begin
<1>7. ASSUME NEW h \in Handlers, NEW r \in Records, ResolveReview(h, r)
      PROVE  ClaimInv'
  BY <1>7 DEF ResolveReview, Begin
<1>8. ASSUME NEW h \in Handlers, NEW t \in Transfers, 
             NEW r \in Records, PayoutProcessed(h, t, r)
      PROVE  ClaimInv'
  BY <1>8 DEF PayoutProcessed, Begin
<1>9. ASSUME NEW h \in Handlers, NEW t \in Transfers, 
             NEW r \in Records, PayoutFailed(h, t, r)
      PROVE  ClaimInv'
  BY <1>9 DEF PayoutFailed, Begin
<1>10. ASSUME NEW h \in Handlers, NEW t \in Transfers, 
             NEW r \in Records, PayoutReversed(h, t, r)
      PROVE  ClaimInv'
  BY <1>10 DEF PayoutReversed, Begin
<1>11. ASSUME NEW h \in Handlers, NEW t \in Transfers, BankAccepts(h, t)
      PROVE  ClaimInv'
  BY <1>11 DEF BankAccepts
<1>12. ASSUME NEW h \in Handlers, NEW t \in Transfers, BankTimesOut(h, t)
      PROVE  ClaimInv'
  BY <1>12 DEF BankTimesOut, Goto
<1>13. ASSUME NEW h \in Handlers, BankRefuses(h)
      PROVE  ClaimInv'
  BY <1>13 DEF BankRefuses, Goto
<1>14. ASSUME NEW h \in Handlers, CommitProcessing(h)
      PROVE  ClaimInv'
  BY <1>14 DEF CommitProcessing, SetRecord, MarkEarnings, StoredId, SentStatus, End
<1>15. ASSUME NEW h \in Handlers, ProcessingLost(h)
      PROVE  ClaimInv'
  BY <1>15 DEF ProcessingLost, Goto
<1>16. ASSUME NEW h \in Handlers, Fail(h)
      PROVE  ClaimInv'
  BY <1>16 DEF Fail, SetRecord, MarkEarnings, AfterFailure, End
<1>17. ASSUME NEW h \in Handlers, ClaimPaid(h)
      PROVE  ClaimInv'
  BY <1>17 DEF ClaimPaid, SetRecord, Goto
<1>18. ASSUME NEW h \in Handlers, MarkPaid(h)
      PROVE  ClaimInv'
  BY <1>18 DEF MarkPaid, MarkEarnings, End
<1>19. ASSUME NEW h \in Handlers, Recheck(h)
      PROVE  ClaimInv'
  BY <1>19 DEF Recheck
<1>20. ASSUME NEW h \in Handlers, ClaimFailed(h)
      PROVE  ClaimInv'
  BY <1>20 DEF ClaimFailed, SetRecord, MarkEarnings, AfterFailure, End
<1>21. ASSUME NEW h \in Handlers, ClaimReversed(h)
      PROVE  ClaimInv'
  BY <1>21 DEF ClaimReversed, SetRecord, Goto
<1>22. ASSUME NEW h \in Handlers, MarkReversed(h)
      PROVE  ClaimInv'
  BY <1>22 DEF MarkReversed, MarkEarnings, End
<1>23. ASSUME NEW h \in Handlers, EventIgnored(h)
      PROVE  ClaimInv'
  BY <1>23 DEF EventIgnored, End
<1>24. ASSUME NEW h \in Handlers, CommitRetry(h)
      PROVE  ClaimInv'
  BY <1>24 DEF CommitRetry, SetRecord, MarkEarnings, End
<1>25. ASSUME NEW h \in Handlers, CommitWriteOff(h)
      PROVE  ClaimInv'
  BY <1>25 DEF CommitWriteOff, SetRecord, MarkEarnings, End
<1>26. CASE UNCHANGED vars
  BY <1>26 DEF vars
<1>27. QED
  BY <1>1, <1>2, <1>3, <1>4, <1>5, <1>6, <1>7, <1>8, <1>9, <1>10, <1>11, <1>12, <1>13,
     <1>14, <1>15, <1>16, <1>17, <1>18, <1>19, <1>20, <1>21, <1>22, <1>23, <1>24, <1>25, <1>26 DEF Next, Step

-----------------------------------------------------------------------------
\* Transfers stay with the record they were sent for.
LEMMA BankNext ==
  TypeOK /\ BankInv /\ [Next]_vars => BankInv'
<1> SUFFICES ASSUME TypeOK, BankInv, [Next]_vars
             PROVE  BankInv'
  OBVIOUS
<1> USE NoneAssumption DEF TypeOK, BankInv, WebhookFindsItsRecord, rowVars, bankVars, handlerVars,
      RecordPoints, Points
<1>1. ASSUME NEW e \in Earnings, ReleaseEarning(e)
      PROVE  BankInv'
  BY <1>1 DEF ReleaseEarning
<1>2. ASSUME NEW e \in Earnings, ReverseForRefund(e)
      PROVE  BankInv'
  BY <1>2 DEF ReverseForRefund
<1>3. ASSUME NEW e \in Earnings, CommitReversal(e)
      PROVE  BankInv'
  BY <1>3 DEF CommitReversal
<1>4. ASSUME NEW r \in Records, RequestPayout(r)
      PROVE  BankInv'
  BY <1>4 DEF RequestPayout, Claimable, SetRecord
<1>5. ASSUME NEW t \in Transfers, 
             NEW state \in TransferStates, Settle(t, state)
      PROVE  BankInv'
  BY <1>5 DEF Settle
<1>6. ASSUME NEW h \in Handlers, NEW r \in Records, Process(h, r)
      PROVE  BankInv'
  BY <1>6 DEF Process, Begin
<1>7. ASSUME NEW h \in Handlers, NEW r \in Records, ResolveReview(h, r)
      PROVE  BankInv'
  BY <1>7 DEF ResolveReview, Begin
<1>8. ASSUME NEW h \in Handlers, NEW t \in Transfers, 
             NEW r \in Records, PayoutProcessed(h, t, r)
      PROVE  BankInv'
  BY <1>8 DEF PayoutProcessed, Begin
<1>9. ASSUME NEW h \in Handlers, NEW t \in Transfers, 
             NEW r \in Records, PayoutFailed(h, t, r)
      PROVE  BankInv'
  BY <1>9 DEF PayoutFailed, Begin
<1>10. ASSUME NEW h \in Handlers, NEW t \in Transfers, 
             NEW r \in Records, PayoutReversed(h, t, r)
      PROVE  BankInv'
  BY <1>10 DEF PayoutReversed, Begin
<1>11. ASSUME NEW h \in Handlers, NEW t \in Transfers, BankAccepts(h, t)
      PROVE  BankInv'
  BY <1>11 DEF BankAccepts
<1>12. ASSUME NEW h \in Handlers, NEW t \in Transfers, BankTimesOut(h, t)
      PROVE  BankInv'
  BY <1>12 DEF BankTimesOut, Goto
<1>13. ASSUME NEW h \in Handlers, BankRefuses(h)
      PROVE  BankInv'
  BY <1>13 DEF BankRefuses, Goto
<1>14. ASSUME NEW h \in Handlers, CommitProcessing(h)
      PROVE  BankInv'
  BY <1>14 DEF CommitProcessing, SetRecord, MarkEarnings, StoredId, SentStatus, End
<1>15. ASSUME NEW h \in Handlers, ProcessingLost(h)
      PROVE  BankInv'
  BY <1>15 DEF ProcessingLost, Goto
<1>16. ASSUME NEW h \in Handlers, Fail(h)
      PROVE  BankInv'
  BY <1>16 DEF Fail, SetRecord, MarkEarnings, AfterFailure, End
<1>17. ASSUME NEW h \in Handlers, ClaimPaid(h)
      PROVE  BankInv'
  BY <1>17 DEF ClaimPaid, SetRecord, Goto
<1>18. ASSUME NEW h \in Handlers, MarkPaid(h)
      PROVE  BankInv'
  BY <1>18 DEF MarkPaid, MarkEarnings, End
<1>19. ASSUME NEW h \in Handlers, Recheck(h)
      PROVE  BankInv'
  BY <1>19 DEF Recheck
<1>20. ASSUME NEW h \in Handlers, ClaimFailed(h)
      PROVE  BankInv'
  BY <1>20 DEF ClaimFailed, SetRecord, MarkEarnings, AfterFailure, End
<1>21. ASSUME NEW h \in Handlers, ClaimReversed(h)
      PROVE  BankInv'
  BY <1>21 DEF ClaimReversed, SetRecord, Goto
<1>22. ASSUME NEW h \in Handlers, MarkReversed(h)
      PROVE  BankInv'
  BY <1>22 DEF MarkReversed, MarkEarnings, End
<1>23. ASSUME NEW h \in Handlers, EventIgnored(h)
      PROVE  BankInv'
  BY <1>23 DEF EventIgnored, End
<1>24. ASSUME NEW h \in Handlers, CommitRetry(h)
      PROVE  BankInv'
  BY <1>24 DEF CommitRetry, SetRecord, MarkEarnings, End
<1>25. ASSUME NEW h \in Handlers, CommitWriteOff(h)
      PROVE  BankInv'
  BY <1>25 DEF CommitWriteOff, SetRecord, MarkEarnings, End
<1>26. CASE UNCHANGED vars
  BY <1>26 DEF vars
<1>27. QED
  BY <1>1, <1>2, <1>3, <1>4, <1>5, <1>6, <1>7, <1>8, <1>9, <1>10, <1>11, <1>12, <1>13,
     <1>14, <1>15, <1>16, <1>17, <1>18, <1>19, <1>20, <1>21, <1>22, <1>23, <1>24, <1>25, <1>26 DEF Next, Step

-----------------------------------------------------------------------------
\* PAID is written only for a transfer the bank processed.
LEMMA ConfirmNext ==
  TypeOK /\ ClaimInv /\ BankInv /\ ConfirmInv /\ [Next]_vars => ConfirmInv'
<1> SUFFICES ASSUME TypeOK, ClaimInv, BankInv, ConfirmInv, [Next]_vars
             PROVE  ConfirmInv'
  OBVIOUS
<1> USE NoneAssumption DEF TypeOK, ClaimInv, BankInv, WebhookFindsItsRecord, ConfirmInv,
      PaidIsConfirmed, Confirmed, rowVars, bankVars, handlerVars, RecordPoints, Points
<1>1. ASSUME NEW e \in Earnings, ReleaseEarning(e)
      PROVE  ConfirmInv'
  BY <1>1 DEF ReleaseEarning
<1>2. ASSUME NEW e \in Earnings, ReverseForRefund(e)
      PROVE  ConfirmInv'
  BY <1>2 DEF ReverseForRefund
<1>3. ASSUME NEW e \in Earnings, CommitReversal(e)
      PROVE  ConfirmInv'
  BY <1>3 DEF CommitReversal
<1>4. ASSUME NEW r \in Records, RequestPayout(r)
      PROVE  ConfirmInv'
  BY <1>4 DEF RequestPayout, Claimable, SetRecord
<1>5. ASSUME NEW t \in Transfers, 
             NEW state \in TransferStates, Settle(t, state)
      PROVE  ConfirmInv'
  BY <1>5 DEF Settle
<1>6. ASSUME NEW h \in Handlers, NEW r \in Records, Process(h, r)
      PROVE  ConfirmInv'
  BY <1>6 DEF Process, Begin
<1>7. ASSUME NEW h \in Handlers, NEW r \in Records, ResolveReview(h, r)
      PROVE  ConfirmInv'
  BY <1>7 DEF ResolveReview, Begin
<1>8. ASSUME NEW h \in Handlers, NEW t \in Transfers, 
             NEW r \in Records, PayoutProcessed(h, t, r)
      PROVE  ConfirmInv'
  BY <1>8 DEF PayoutProcessed, Begin
<1>9. ASSUME NEW h \in Handlers, NEW t \in Transfers, 
             NEW r \in Records, PayoutFailed(h, t, r)
      PROVE  ConfirmInv'
  BY <1>9 DEF PayoutFailed, Begin
<1>10. ASSUME NEW h \in Handlers, NEW t \in Transfers, 
             NEW r \in Records, PayoutReversed(h, t, r)
      PROVE  ConfirmInv'
  BY <1>10 DEF PayoutReversed, Begin
<1>11. ASSUME NEW h \in Handlers, NEW t \in Transfers, BankAccepts(h, t)
      PROVE  ConfirmInv'
  BY <1>11 DEF BankAccepts
<1>12. ASSUME NEW h \in Handlers, NEW t \in Transfers, BankTimesOut(h, t)
      PROVE  ConfirmInv'
  BY <1>12 DEF BankTimesOut, Goto
<1>13. ASSUME NEW h \in Handlers, BankRefuses(h)
      PROVE  ConfirmInv'
  BY <1>13 DEF BankRefuses, Goto
<1>14. ASSUME NEW h \in Handlers, CommitProcessing(h)
      PROVE  ConfirmInv'
  BY <1>14 DEF CommitProcessing, SetRecord, MarkEarnings, StoredId, SentStatus, End
<1>15. ASSUME NEW h \in Handlers, ProcessingLost(h)
      PROVE  ConfirmInv'
  BY <1>15 DEF ProcessingLost, Goto
<1>16. ASSUME NEW h \in Handlers, Fail(h)
      PROVE  ConfirmInv'
  BY <1>16 DEF Fail, SetRecord, MarkEarnings, AfterFailure, End
<1>17. ASSUME NEW h \in Handlers, ClaimPaid(h)
      PROVE  ConfirmInv'
  BY <1>17 DEF ClaimPaid, SetRecord, Goto
<1>18. ASSUME NEW h \in Handlers, MarkPaid(h)
      PROVE  ConfirmInv'
  BY <1>18 DEF MarkPaid, MarkEarnings, End
<1>19. ASSUME NEW h \in Handlers, Recheck(h)
      PROVE  ConfirmInv'
  BY <1>19 DEF Recheck
<1>20. ASSUME NEW h \in Handlers, ClaimFailed(h)
      PROVE  ConfirmInv'
  BY <1>20 DEF ClaimFailed, SetRecord, MarkEarnings, AfterFailure, End
<1>21. ASSUME NEW h \in Handlers, ClaimReversed(h)
      PROVE  ConfirmInv'
  BY <1>21 DEF ClaimReversed, SetRecord, Goto
<1>22. ASSUME NEW h \in Handlers, MarkReversed(h)
      PROVE  ConfirmInv'
  BY <1>22 DEF MarkReversed, MarkEarnings, End
<1>23. ASSUME NEW h \in Handlers, EventIgnored(h)
      PROVE  ConfirmInv'
  BY <1>23 DEF EventIgnored, End
<1>24. ASSUME NEW h \in Handlers, CommitRetry(h)
      PROVE  ConfirmInv'
  BY <1>24 DEF CommitRetry, SetRecord, MarkEarnings, End
<1>25. ASSUME NEW h \in Handlers, CommitWriteOff(h)
      PROVE  ConfirmInv'
  BY <1>25 DEF CommitWriteOff, SetRecord, MarkEarnings, End
<1>26. CASE UNCHANGED vars
  BY <1>26 DEF vars
<1>27. QED
  BY <1>1, <1>2, <1>3, <1>4, <1>5, <1>6, <1>7, <1>8, <1>9, <1>10, <1>11, <1>12, <1>13,
     <1>14, <1>15, <1>16, <1>17, <1>18, <1>19, <1>20, <1>21, <1>22, <1>23, <1>24, <1>25, <1>26 DEF Next, Step

-----------------------------------------------------------------------------
\* The earnings of a PAID record follow it.
LEMMA FollowNext ==
  TypeOK /\ ClaimInv /\ PaidEarningsFollow /\ [Next]_vars => PaidEarningsFollow'
<1> SUFFICES ASSUME TypeOK, ClaimInv, PaidEarningsFollow, [Next]_vars
             PROVE  PaidEarningsFollow'
  OBVIOUS
<1> USE NoneAssumption DEF TypeOK, ClaimInv, AmountMatchesClaims, PaidEarningsFollow, rowVars, bankVars, handlerVars,
      RecordPoints, Points
<1>1. ASSUME NEW e \in Earnings, ReleaseEarning(e)
      PROVE  PaidEarningsFollow'
  BY <1>1 DEF ReleaseEarning
<1>2. ASSUME NEW e \in Earnings, ReverseForRefund(e)
      PROVE  PaidEarningsFollow'
  BY <1>2 DEF ReverseForRefund
<1>3. ASSUME NEW e \in Earnings, CommitReversal(e)
      PROVE  PaidEarningsFollow'
  BY <1>3 DEF CommitReversal
<1>4. ASSUME NEW r \in Records, RequestPayout(r)
      PROVE  PaidEarningsFollow'
  BY <1>4 DEF RequestPayout, Claimable, SetRecord
<1>5. ASSUME NEW t \in Transfers, 
             NEW state \in TransferStates, Settle(t, state)
      PROVE  PaidEarningsFollow'
  BY <1>5 DEF Settle
<1>6. ASSUME NEW h \in Handlers, NEW r \in Records, Process(h, r)
      PROVE  PaidEarningsFollow'
  BY <1>6 DEF Process, Begin
<1>7. ASSUME NEW h \in Handlers, NEW r \in Records, ResolveReview(h, r)
      PROVE  PaidEarningsFollow'
  BY <1>7 DEF ResolveReview, Begin
<1>8. ASSUME NEW h \in Handlers, NEW t \in Transfers, 
             NEW r \in Records, PayoutProcessed(h, t, r)
      PROVE  PaidEarningsFollow'
  BY <1>8 DEF PayoutProcessed, Begin
<1>9. ASSUME NEW h \in Handlers, NEW t \in Transfers, 
             NEW r \in Records, PayoutFailed(h, t, r)
      PROVE  PaidEarningsFollow'
  BY <1>9 DEF PayoutFailed, Begin
<1>10. ASSUME NEW h \in Handlers, NEW t \in Transfers, 
             NEW r \in Records, PayoutReversed(h, t, r)
      PROVE  PaidEarningsFollow'
  BY <1>10 DEF PayoutReversed, Begin
<1>11. ASSUME NEW h \in Handlers, NEW t \in Transfers, BankAccepts(h, t)
      PROVE  PaidEarningsFollow'
  BY <1>11 DEF BankAccepts
<1>12. ASSUME NEW h \in Handlers, NEW t \in Transfers, BankTimesOut(h, t)
      PROVE  PaidEarningsFollow'
  BY <1>12 DEF BankTimesOut, Goto
<1>13. ASSUME NEW h \in Handlers, BankRefuses(h)
      PROVE  PaidEarningsFollow'
  BY <1>13 DEF BankRefuses, Goto
<1>14. ASSUME NEW h \in Handlers, CommitProcessing(h)
      PROVE  PaidEarningsFollow'
  BY <1>14 DEF CommitProcessing, SetRecord, MarkEarnings, StoredId, SentStatus, End
<1>15. ASSUME NEW h \in Handlers, ProcessingLost(h)
      PROVE  PaidEarningsFollow'
  BY <1>15 DEF ProcessingLost, Goto
<1>16. ASSUME NEW h \in Handlers, Fail(h)
      PROVE  PaidEarningsFollow'
  BY <1>16 DEF Fail, SetRecord, MarkEarnings, AfterFailure, End
<1>17. ASSUME NEW h \in Handlers, ClaimPaid(h)
      PROVE  PaidEarningsFollow'
  BY <1>17 DEF ClaimPaid, SetRecord, Goto
<1>18. ASSUME NEW h \in Handlers, MarkPaid(h)
      PROVE  PaidEarningsFollow'
  BY <1>18 DEF MarkPaid, MarkEarnings, End
<1>19. ASSUME NEW h \in Handlers, Recheck(h)
      PROVE  PaidEarningsFollow'
  BY <1>19 DEF Recheck
<1>20. ASSUME NEW h \in Handlers, ClaimFailed(h)
      PROVE  PaidEarningsFollow'
  BY <1>20 DEF ClaimFailed, SetRecord, MarkEarnings, AfterFailure, End
<1>21. ASSUME NEW h \in Handlers, ClaimReversed(h)
      PROVE  PaidEarningsFollow'
  BY <1>21 DEF ClaimReversed, SetRecord, Goto
<1>22. ASSUME NEW h \in Handlers, MarkReversed(h)
      PROVE  PaidEarningsFollow'
  BY <1>22 DEF MarkReversed, MarkEarnings, End
<1>23. ASSUME NEW h \in Handlers, EventIgnored(h)
      PROVE  PaidEarningsFollow'
  BY <1>23 DEF EventIgnored, End
<1>24. ASSUME NEW h \in Handlers, CommitRetry(h)
      PROVE  PaidEarningsFollow'
  BY <1>24 DEF CommitRetry, SetRecord, MarkEarnings, End
<1>25. ASSUME NEW h \in Handlers, CommitWriteOff(h)
      PROVE  PaidEarningsFollow'
  BY <1>25 DEF CommitWriteOff, SetRecord, MarkEarnings, End
<1>26. CASE UNCHANGED vars
  BY <1>26 DEF vars
<1>27. QED
  BY <1>1, <1>2, <1>3, <1>4, <1>5, <1>6, <1>7, <1>8, <1>9, <1>10, <1>11, <1>12, <1>13,
     <1>14, <1>15, <1>16, <1>17, <1>18, <1>19, <1>20, <1>21, <1>22, <1>23, <1>24, <1>25, <1>26 DEF Next, Step

-----------------------------------------------------------------------------
\* The inductive invariant of payouts: claims, transfers, confirmations and the
\* earnings of PAID records, however many admins and webhooks run.
THEOREM PayoutInvariant == Spec => []IInv
<1>1. IInv /\ [Next]_vars => IInv'
  BY TypeNext, ClaimNext, BankNext, ConfirmNext, FollowNext DEF IInv
<1>2. QED
  BY <1>1, InitIInv, PTL DEF Spec

\* Every variable of the payout keeps its type.
THEOREM PayoutTypes == Spec => []TypeOK
<1>1. IInv => TypeOK
  BY DEF IInv, ClaimInv, BankInv, ConfirmInv
<1>2. QED
  BY <1>1, PayoutInvariant, PTL

\* requestPayout puts an earning into one record for good, and the amount of a
\* record is the sum of its earnings at every retry.
THEOREM AmountIsWhatWasClaimed == Spec => []AmountMatchesClaims
<1>1. IInv => AmountMatchesClaims
  BY DEF IInv, ClaimInv, BankInv, ConfirmInv
<1>2. QED
  BY <1>1, PayoutInvariant, PTL

\* Nothing is PAID that the bank did not process a transfer for, whatever order
\* processPayout, its failures, retries and the webhooks run in.
THEOREM PaidIsAlwaysConfirmed == Spec => []PaidIsConfirmed
<1>1. IInv => PaidIsConfirmed
  BY DEF IInv, ClaimInv, BankInv, ConfirmInv
<1>2. QED
  BY <1>1, PayoutInvariant, PTL

\* handlePayoutWebhookEvent never finds the record of another transfer.
THEOREM WebhooksFindTheirRecord == Spec => []WebhookFindsItsRecord
<1>1. IInv => WebhookFindsItsRecord
  BY DEF IInv, ClaimInv, BankInv, ConfirmInv
<1>2. QED
  BY <1>1, PayoutInvariant, PTL

\* No PAID record forgets its earnings while the process runs.
THEOREM EarningsFollowTheRecord == Spec => []PaidEarningsFollow
<1>1. IInv => PaidEarningsFollow
  BY DEF IInv, ClaimInv, BankInv, ConfirmInv
<1>2. QED
  BY <1>1, PayoutInvariant, PTL
=============================================================================
