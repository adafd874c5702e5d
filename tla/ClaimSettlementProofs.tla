-------------------------- MODULE ClaimSettlementProofs --------------------------
(***************************************************************************)
(* Proofs about the review window, for any number of earnings, claims and  *)
(* concurrent handlers.                                                    *)
(*                                                                         *)
(* The properties about claims are not inductive by themselves: that an    *)
(* acceptance and a claim exclude each other is decided when the lock is   *)
(* granted and takes effect at the commit.  SessionInv says what a handler *)
(* may still rely on in between: the holder of the row lock is alone       *)
(* (LockInv), and what it checked is still so when it commits (WorkInv).   *)
(***************************************************************************)
EXTENDS ClaimSettlement, TLAPS

LockInv ==
  \A s, t \in Sessions : pc[s] \in LockedPoints /\ pc[t] \in LockedPoints => s = t

WorkInv ==
  \A s \in Sessions :
    /\ pc[s] = "resolve" => claim[on[s]] # "NONE" /\ verdict[s] \in Verdicts
    /\ pc[s] = "accept" => \A c \in Claims : claim[c] # "OPEN"
    /\ pc[s] = "claim" => ~accepted

SessionInv == LockInv /\ WorkInv

ClaimInv ==
  /\ ClaimEndsHold
  /\ OneActiveClaim
  /\ RefundOncePerClaim
  /\ OpenExcludesAcceptance
  /\ AcceptedIsUndisputed

\* A reason is written only together with the release.
MoneyInv ==
  \A e \in Earnings : earning[e] \in Held \cup {"FROZEN"} => reason[e] = "NONE"

IInv == TypeOK /\ SessionInv /\ ClaimInv /\ MoneyInv

-----------------------------------------------------------------------------
\* The initial state satisfies the inductive invariant.
LEMMA InitIInv == Init => IInv
<1> SUFFICES ASSUME Init
             PROVE  IInv
  OBVIOUS
<1> USE DEF Init
<1>1. TypeOK
  BY DEF TypeOK, Active, Final, Verdicts, ClaimStatuses,
         Held, EarningStatuses, Reasons, LockedPoints, Points, ClaimPoints
<1>2. SessionInv
  BY DEF SessionInv, LockInv, WorkInv, LockedPoints
<1>3. ClaimEndsHold /\ OneActiveClaim
  BY DEF ClaimEndsHold, OneActiveClaim, Active
<1>4. RefundOncePerClaim /\ OpenExcludesAcceptance /\ AcceptedIsUndisputed
  BY DEF RefundOncePerClaim, OpenExcludesAcceptance, AcceptedIsUndisputed
<1>5. MoneyInv
  BY DEF MoneyInv
<1>6. QED
  BY <1>1, <1>2, <1>3, <1>4, <1>5 DEF IInv, ClaimInv

-----------------------------------------------------------------------------
\* Every action keeps the types; a handler that works on a claim has one.
LEMMA TypeNext ==
  TypeOK /\ SessionInv /\ [Next]_vars => TypeOK'
<1> SUFFICES ASSUME TypeOK, SessionInv, [Next]_vars
             PROVE  TypeOK'
  OBVIOUS
<1> USE DEF TypeOK, requestVars, claimVars, moneyVars, sessionVars,
       Active, Final, Verdicts, ClaimStatuses, Held, EarningStatuses, Reasons,
       LockedPoints, Points, ClaimPoints
<1>1. ASSUME Tick
      PROVE  TypeOK'
  BY <1>1 DEF Tick
<1>2. ASSUME RequestPayout
      PROVE  TypeOK'
  BY <1>2 DEF RequestPayout
<1>3. ASSUME NEW c \in Claims, RejectRefund(c)
      PROVE  TypeOK'
  BY <1>3 DEF RejectRefund
<1>4. ASSUME NEW s \in Sessions, Accept(s)
      PROVE  TypeOK'
  BY <1>4 DEF Accept, Begin
<1>5. ASSUME NEW s \in Sessions, Expire(s)
      PROVE  TypeOK'
  BY <1>5 DEF Expire, Begin
<1>6. ASSUME NEW s \in Sessions, NEW c \in Claims, RaiseClaim(s, c)
      PROVE  TypeOK'
  BY <1>6 DEF RaiseClaim, Begin
<1>7. ASSUME NEW s \in Sessions, NEW c \in Claims, ExecuteRefund(s, c)
      PROVE  TypeOK'
  BY <1>7 DEF ExecuteRefund, Begin
<1>8. ASSUME NEW s \in Sessions, NEW c \in Claims, NEW v \in Verdicts,
             ReadClaim(s, c, v)
      PROVE  TypeOK'
  BY <1>8 DEF ReadClaim, Begin
<1>9. ASSUME NEW s \in Sessions, CommitAccept(s)
      PROVE  TypeOK'
  BY <1>9 DEF CommitAccept, End, ReleaseFrom
<1>10. ASSUME NEW s \in Sessions, CommitExpire(s)
      PROVE  TypeOK'
  BY <1>10 DEF CommitExpire, End, ReleaseFrom
<1>11. ASSUME NEW s \in Sessions, CommitClaim(s)
      PROVE  TypeOK'
  BY <1>11 DEF CommitClaim, End, Freezable
<1>12. ASSUME NEW s \in Sessions, ClaimRefused(s)
      PROVE  TypeOK'
  BY <1>12 DEF ClaimRefused, End
<1>13. ASSUME NEW s \in Sessions, CommitVerdict(s)
      PROVE  TypeOK'
  BY <1>13 DEF CommitVerdict, End, ReleaseFrom, CreatesRefund, SessionInv, WorkInv
<1>14. ASSUME NEW s \in Sessions, VerdictRefused(s)
      PROVE  TypeOK'
  BY <1>14 DEF VerdictRefused, End
<1>15. ASSUME NEW s \in Sessions, RefundFailed(s)
      PROVE  TypeOK'
  BY <1>15 DEF RefundFailed, End
<1>16. ASSUME NEW s \in Sessions, CommitReversal(s)
      PROVE  TypeOK'
  BY <1>16 DEF CommitReversal, End
<1>17. CASE UNCHANGED vars
  BY <1>17 DEF vars
<1>18. QED
  BY <1>1, <1>2, <1>3, <1>4, <1>5, <1>6, <1>7, <1>8, <1>9, <1>10, <1>11, <1>12, <1>13, <1>14, <1>15, <1>16, <1>17 DEF Next, Step

-----------------------------------------------------------------------------
\* The row lock admits one transaction at a time.
LEMMA LockNext ==
  TypeOK /\ LockInv /\ [Next]_vars => LockInv'
<1> SUFFICES ASSUME TypeOK, LockInv, [Next]_vars
             PROVE  LockInv'
  OBVIOUS
<1> USE DEF TypeOK, LockInv, requestVars, claimVars, moneyVars, sessionVars, LockedPoints, Points, ClaimPoints
<1>1. ASSUME Tick
      PROVE  LockInv'
  BY <1>1 DEF Tick
<1>2. ASSUME RequestPayout
      PROVE  LockInv'
  BY <1>2 DEF RequestPayout
<1>3. ASSUME NEW c \in Claims, RejectRefund(c)
      PROVE  LockInv'
  BY <1>3 DEF RejectRefund
<1>4. ASSUME NEW s \in Sessions, Accept(s)
      PROVE  LockInv'
  BY <1>4 DEF Accept, Begin, LockFree
<1>5. ASSUME NEW s \in Sessions, Expire(s)
      PROVE  LockInv'
  BY <1>5 DEF Expire, Begin, LockFree
<1>6. ASSUME NEW s \in Sessions, NEW c \in Claims, RaiseClaim(s, c)
      PROVE  LockInv'
  BY <1>6 DEF RaiseClaim, Begin, LockFree
<1>7. ASSUME NEW s \in Sessions, NEW c \in Claims, ExecuteRefund(s, c)
      PROVE  LockInv'
  BY <1>7 DEF ExecuteRefund, Begin
<1>8. ASSUME NEW s \in Sessions, NEW c \in Claims, NEW v \in Verdicts,
             ReadClaim(s, c, v)
      PROVE  LockInv'
  BY <1>8 DEF ReadClaim, Begin
<1>9. ASSUME NEW s \in Sessions, CommitAccept(s)
      PROVE  LockInv'
  BY <1>9 DEF CommitAccept, End, ReleaseFrom
<1>10. ASSUME NEW s \in Sessions, CommitExpire(s)
      PROVE  LockInv'
  BY <1>10 DEF CommitExpire, End, ReleaseFrom
<1>11. ASSUME NEW s \in Sessions, CommitClaim(s)
      PROVE  LockInv'
  BY <1>11 DEF CommitClaim, End
<1>12. ASSUME NEW s \in Sessions, ClaimRefused(s)
      PROVE  LockInv'
  BY <1>12 DEF ClaimRefused, End
<1>13. ASSUME NEW s \in Sessions, CommitVerdict(s)
      PROVE  LockInv'
  BY <1>13 DEF CommitVerdict, End, ReleaseFrom
<1>14. ASSUME NEW s \in Sessions, VerdictRefused(s)
      PROVE  LockInv'
  BY <1>14 DEF VerdictRefused, End
<1>15. ASSUME NEW s \in Sessions, RefundFailed(s)
      PROVE  LockInv'
  BY <1>15 DEF RefundFailed, End
<1>16. ASSUME NEW s \in Sessions, CommitReversal(s)
      PROVE  LockInv'
  BY <1>16 DEF CommitReversal, End
<1>17. CASE UNCHANGED vars
  BY <1>17 DEF vars
<1>18. QED
  BY <1>1, <1>2, <1>3, <1>4, <1>5, <1>6, <1>7, <1>8, <1>9, <1>10, <1>11, <1>12, <1>13, <1>14, <1>15, <1>16, <1>17 DEF Next, Step

-----------------------------------------------------------------------------
\* What a handler checked under the lock, or read of its claim, still holds.
LEMMA WorkNext ==
  TypeOK /\ SessionInv /\ [Next]_vars => WorkInv'
<1> SUFFICES ASSUME TypeOK, SessionInv, [Next]_vars
             PROVE  WorkInv'
  OBVIOUS
<1> USE DEF TypeOK, SessionInv, LockInv, WorkInv, requestVars, claimVars, moneyVars, sessionVars,
       Active, Final, Verdicts, ClaimStatuses, LockedPoints, Points, ClaimPoints
<1>1. ASSUME Tick
      PROVE  WorkInv'
  BY <1>1 DEF Tick
<1>2. ASSUME RequestPayout
      PROVE  WorkInv'
  BY <1>2 DEF RequestPayout
<1>3. ASSUME NEW c \in Claims, RejectRefund(c)
      PROVE  WorkInv'
  BY <1>3 DEF RejectRefund
<1>4. ASSUME NEW s \in Sessions, Accept(s)
      PROVE  WorkInv'
  BY <1>4 DEF Accept, Begin, HasActiveClaim
<1>5. ASSUME NEW s \in Sessions, Expire(s)
      PROVE  WorkInv'
  BY <1>5 DEF Expire, Begin
<1>6. ASSUME NEW s \in Sessions, NEW c \in Claims, RaiseClaim(s, c)
      PROVE  WorkInv'
  BY <1>6 DEF RaiseClaim, Begin
<1>7. ASSUME NEW s \in Sessions, NEW c \in Claims, ExecuteRefund(s, c)
      PROVE  WorkInv'
  BY <1>7 DEF ExecuteRefund, Begin
<1>8. ASSUME NEW s \in Sessions, NEW c \in Claims, NEW v \in Verdicts,
             ReadClaim(s, c, v)
      PROVE  WorkInv'
  BY <1>8 DEF ReadClaim, Begin
<1>9. ASSUME NEW s \in Sessions, CommitAccept(s)
      PROVE  WorkInv'
  BY <1>9 DEF CommitAccept, End, ReleaseFrom
<1>10. ASSUME NEW s \in Sessions, CommitExpire(s)
      PROVE  WorkInv'
  BY <1>10 DEF CommitExpire, End, ReleaseFrom
<1>11. ASSUME NEW s \in Sessions, CommitClaim(s)
      PROVE  WorkInv'
  BY <1>11 DEF CommitClaim, End
<1>12. ASSUME NEW s \in Sessions, ClaimRefused(s)
      PROVE  WorkInv'
  BY <1>12 DEF ClaimRefused, End
<1>13. ASSUME NEW s \in Sessions, CommitVerdict(s)
      PROVE  WorkInv'
  BY <1>13 DEF CommitVerdict, End, ReleaseFrom
<1>14. ASSUME NEW s \in Sessions, VerdictRefused(s)
      PROVE  WorkInv'
  BY <1>14 DEF VerdictRefused, End
<1>15. ASSUME NEW s \in Sessions, RefundFailed(s)
      PROVE  WorkInv'
  BY <1>15 DEF RefundFailed, End
<1>16. ASSUME NEW s \in Sessions, CommitReversal(s)
      PROVE  WorkInv'
  BY <1>16 DEF CommitReversal, End
<1>17. CASE UNCHANGED vars
  BY <1>17 DEF vars
<1>18. QED
  BY <1>1, <1>2, <1>3, <1>4, <1>5, <1>6, <1>7, <1>8, <1>9, <1>10, <1>11, <1>12, <1>13, <1>14, <1>15, <1>16, <1>17 DEF Next, Step

-----------------------------------------------------------------------------
\* Claims: the hold ends with the first, one is active, refunded once, and none
\* is open beside an acceptance.
LEMMA ClaimNext ==
  TypeOK /\ SessionInv /\ ClaimInv /\ [Next]_vars => ClaimInv'
<1> SUFFICES ASSUME TypeOK, SessionInv, ClaimInv, [Next]_vars
             PROVE  ClaimInv'
  OBVIOUS
<1> USE DEF TypeOK, SessionInv, WorkInv, ClaimInv, ClaimEndsHold,
       OneActiveClaim, RefundOncePerClaim, OpenExcludesAcceptance,
       AcceptedIsUndisputed,
       requestVars, claimVars, moneyVars, sessionVars,
       Active, Final, Verdicts, ClaimStatuses, Held, EarningStatuses, Reasons,
       LockedPoints, Points, ClaimPoints
<1>1. ASSUME Tick
      PROVE  ClaimInv'
  BY <1>1 DEF Tick
<1>2. ASSUME RequestPayout
      PROVE  ClaimInv'
  BY <1>2 DEF RequestPayout
<1>3. ASSUME NEW c \in Claims, RejectRefund(c)
      PROVE  ClaimInv'
  BY <1>3 DEF RejectRefund
<1>4. ASSUME NEW s \in Sessions, Accept(s)
      PROVE  ClaimInv'
  BY <1>4 DEF Accept, Begin
<1>5. ASSUME NEW s \in Sessions, Expire(s)
      PROVE  ClaimInv'
  BY <1>5 DEF Expire, Begin
<1>6. ASSUME NEW s \in Sessions, NEW c \in Claims, RaiseClaim(s, c)
      PROVE  ClaimInv'
  BY <1>6 DEF RaiseClaim, Begin
<1>7. ASSUME NEW s \in Sessions, NEW c \in Claims, ExecuteRefund(s, c)
      PROVE  ClaimInv'
  BY <1>7 DEF ExecuteRefund, Begin
<1>8. ASSUME NEW s \in Sessions, NEW c \in Claims, NEW v \in Verdicts,
             ReadClaim(s, c, v)
      PROVE  ClaimInv'
  BY <1>8 DEF ReadClaim, Begin
<1>9. ASSUME NEW s \in Sessions, CommitAccept(s)
      PROVE  ClaimInv'
  BY <1>9 DEF CommitAccept, End, ReleaseFrom
<1>10. ASSUME NEW s \in Sessions, CommitExpire(s)
      PROVE  ClaimInv'
  BY <1>10 DEF CommitExpire, End, ReleaseFrom
<1>11. ASSUME NEW s \in Sessions, CommitClaim(s)
      PROVE  ClaimInv'
  BY <1>11 DEF CommitClaim, End, Freezable, HasActiveClaim
<1>12. ASSUME NEW s \in Sessions, ClaimRefused(s)
      PROVE  ClaimInv'
  BY <1>12 DEF ClaimRefused, End
<1>13. ASSUME NEW s \in Sessions, CommitVerdict(s)
      PROVE  ClaimInv'
  BY <1>13 DEF CommitVerdict, End, ReleaseFrom, Committable, ReopensBeside, CreatesRefund
<1>14. ASSUME NEW s \in Sessions, VerdictRefused(s)
      PROVE  ClaimInv'
  BY <1>14 DEF VerdictRefused, End
<1>15. ASSUME NEW s \in Sessions, RefundFailed(s)
      PROVE  ClaimInv'
  BY <1>15 DEF RefundFailed, End
<1>16. ASSUME NEW s \in Sessions, CommitReversal(s)
      PROVE  ClaimInv'
  BY <1>16 DEF CommitReversal, End
<1>17. CASE UNCHANGED vars
  BY <1>17 DEF vars
<1>18. QED
  BY <1>1, <1>2, <1>3, <1>4, <1>5, <1>6, <1>7, <1>8, <1>9, <1>10, <1>11, <1>12, <1>13, <1>14, <1>15, <1>16, <1>17 DEF Next, Step

-----------------------------------------------------------------------------
\* An earning that is on hold or frozen was never released.
LEMMA MoneyNext ==
  TypeOK /\ MoneyInv /\ [Next]_vars => MoneyInv'
<1> SUFFICES ASSUME TypeOK, MoneyInv, [Next]_vars
             PROVE  MoneyInv'
  OBVIOUS
<1> USE DEF TypeOK, MoneyInv, requestVars, claimVars, moneyVars, sessionVars, Held, EarningStatuses, Reasons
<1>1. ASSUME Tick
      PROVE  MoneyInv'
  BY <1>1 DEF Tick
<1>2. ASSUME RequestPayout
      PROVE  MoneyInv'
  BY <1>2 DEF RequestPayout
<1>3. ASSUME NEW c \in Claims, RejectRefund(c)
      PROVE  MoneyInv'
  BY <1>3 DEF RejectRefund
<1>4. ASSUME NEW s \in Sessions, Accept(s)
      PROVE  MoneyInv'
  BY <1>4 DEF Accept, Begin
<1>5. ASSUME NEW s \in Sessions, Expire(s)
      PROVE  MoneyInv'
  BY <1>5 DEF Expire, Begin
<1>6. ASSUME NEW s \in Sessions, NEW c \in Claims, RaiseClaim(s, c)
      PROVE  MoneyInv'
  BY <1>6 DEF RaiseClaim, Begin
<1>7. ASSUME NEW s \in Sessions, NEW c \in Claims, ExecuteRefund(s, c)
      PROVE  MoneyInv'
  BY <1>7 DEF ExecuteRefund, Begin
<1>8. ASSUME NEW s \in Sessions, NEW c \in Claims, NEW v \in Verdicts,
             ReadClaim(s, c, v)
      PROVE  MoneyInv'
  BY <1>8 DEF ReadClaim, Begin
<1>9. ASSUME NEW s \in Sessions, CommitAccept(s)
      PROVE  MoneyInv'
  BY <1>9 DEF CommitAccept, End, ReleaseFrom
<1>10. ASSUME NEW s \in Sessions, CommitExpire(s)
      PROVE  MoneyInv'
  BY <1>10 DEF CommitExpire, End, ReleaseFrom
<1>11. ASSUME NEW s \in Sessions, CommitClaim(s)
      PROVE  MoneyInv'
  BY <1>11 DEF CommitClaim, End, Freezable
<1>12. ASSUME NEW s \in Sessions, ClaimRefused(s)
      PROVE  MoneyInv'
  BY <1>12 DEF ClaimRefused, End
<1>13. ASSUME NEW s \in Sessions, CommitVerdict(s)
      PROVE  MoneyInv'
  BY <1>13 DEF CommitVerdict, End, ReleaseFrom
<1>14. ASSUME NEW s \in Sessions, VerdictRefused(s)
      PROVE  MoneyInv'
  BY <1>14 DEF VerdictRefused, End
<1>15. ASSUME NEW s \in Sessions, RefundFailed(s)
      PROVE  MoneyInv'
  BY <1>15 DEF RefundFailed, End
<1>16. ASSUME NEW s \in Sessions, CommitReversal(s)
      PROVE  MoneyInv'
  BY <1>16 DEF CommitReversal, End
<1>17. CASE UNCHANGED vars
  BY <1>17 DEF vars
<1>18. QED
  BY <1>1, <1>2, <1>3, <1>4, <1>5, <1>6, <1>7, <1>8, <1>9, <1>10, <1>11, <1>12, <1>13, <1>14, <1>15, <1>16, <1>17 DEF Next, Step

-----------------------------------------------------------------------------
\* No action overwrites a reason.
LEMMA ReasonNext ==
  TypeOK /\ MoneyInv /\ [Next]_vars => (\A e \in Earnings : reason[e] # "NONE" => reason'[e] = reason[e])
<1> SUFFICES ASSUME TypeOK, MoneyInv, [Next]_vars
             PROVE  (\A e \in Earnings : reason[e] # "NONE" => reason'[e] = reason[e])
  OBVIOUS
<1> USE DEF TypeOK, MoneyInv, requestVars, claimVars, moneyVars, sessionVars, Held, EarningStatuses, Reasons
<1>1. ASSUME Tick
      PROVE  (\A e \in Earnings : reason[e] # "NONE" => reason'[e] = reason[e])
  BY <1>1 DEF Tick
<1>2. ASSUME RequestPayout
      PROVE  (\A e \in Earnings : reason[e] # "NONE" => reason'[e] = reason[e])
  BY <1>2 DEF RequestPayout
<1>3. ASSUME NEW c \in Claims, RejectRefund(c)
      PROVE  (\A e \in Earnings : reason[e] # "NONE" => reason'[e] = reason[e])
  BY <1>3 DEF RejectRefund
<1>4. ASSUME NEW s \in Sessions, Accept(s)
      PROVE  (\A e \in Earnings : reason[e] # "NONE" => reason'[e] = reason[e])
  BY <1>4 DEF Accept, Begin
<1>5. ASSUME NEW s \in Sessions, Expire(s)
      PROVE  (\A e \in Earnings : reason[e] # "NONE" => reason'[e] = reason[e])
  BY <1>5 DEF Expire, Begin
<1>6. ASSUME NEW s \in Sessions, NEW c \in Claims, RaiseClaim(s, c)
      PROVE  (\A e \in Earnings : reason[e] # "NONE" => reason'[e] = reason[e])
  BY <1>6 DEF RaiseClaim, Begin
<1>7. ASSUME NEW s \in Sessions, NEW c \in Claims, ExecuteRefund(s, c)
      PROVE  (\A e \in Earnings : reason[e] # "NONE" => reason'[e] = reason[e])
  BY <1>7 DEF ExecuteRefund, Begin
<1>8. ASSUME NEW s \in Sessions, NEW c \in Claims, NEW v \in Verdicts,
             ReadClaim(s, c, v)
      PROVE  (\A e \in Earnings : reason[e] # "NONE" => reason'[e] = reason[e])
  BY <1>8 DEF ReadClaim, Begin
<1>9. ASSUME NEW s \in Sessions, CommitAccept(s)
      PROVE  (\A e \in Earnings : reason[e] # "NONE" => reason'[e] = reason[e])
  BY <1>9 DEF CommitAccept, End, ReleaseFrom
<1>10. ASSUME NEW s \in Sessions, CommitExpire(s)
      PROVE  (\A e \in Earnings : reason[e] # "NONE" => reason'[e] = reason[e])
  BY <1>10 DEF CommitExpire, End, ReleaseFrom
<1>11. ASSUME NEW s \in Sessions, CommitClaim(s)
      PROVE  (\A e \in Earnings : reason[e] # "NONE" => reason'[e] = reason[e])
  BY <1>11 DEF CommitClaim, End
<1>12. ASSUME NEW s \in Sessions, ClaimRefused(s)
      PROVE  (\A e \in Earnings : reason[e] # "NONE" => reason'[e] = reason[e])
  BY <1>12 DEF ClaimRefused, End
<1>13. ASSUME NEW s \in Sessions, CommitVerdict(s)
      PROVE  (\A e \in Earnings : reason[e] # "NONE" => reason'[e] = reason[e])
  BY <1>13 DEF CommitVerdict, End, ReleaseFrom
<1>14. ASSUME NEW s \in Sessions, VerdictRefused(s)
      PROVE  (\A e \in Earnings : reason[e] # "NONE" => reason'[e] = reason[e])
  BY <1>14 DEF VerdictRefused, End
<1>15. ASSUME NEW s \in Sessions, RefundFailed(s)
      PROVE  (\A e \in Earnings : reason[e] # "NONE" => reason'[e] = reason[e])
  BY <1>15 DEF RefundFailed, End
<1>16. ASSUME NEW s \in Sessions, CommitReversal(s)
      PROVE  (\A e \in Earnings : reason[e] # "NONE" => reason'[e] = reason[e])
  BY <1>16 DEF CommitReversal, End
<1>17. CASE UNCHANGED vars
  BY <1>17 DEF vars
<1>18. QED
  BY <1>1, <1>2, <1>3, <1>4, <1>5, <1>6, <1>7, <1>8, <1>9, <1>10, <1>11, <1>12, <1>13, <1>14, <1>15, <1>16, <1>17 DEF Next, Step

-----------------------------------------------------------------------------
\* The inductive invariant holds in every state: types, what a handler may rely
\* on between its checks and its commit, and the facts about claims and money.
THEOREM WindowInvariant == Spec => []IInv
<1>1. IInv /\ [Next]_vars => IInv'
  BY TypeNext, LockNext, WorkNext, ClaimNext, MoneyNext DEF IInv, SessionInv
<1>2. QED
  BY <1>1, InitIInv, PTL DEF Spec

\* Every variable of the window keeps its type.
THEOREM WindowTypes == Spec => []TypeOK
<1>1. IInv => TypeOK
  BY DEF IInv, ClaimInv
<1>2. QED
  BY <1>1, WindowInvariant, PTL

\* Once a claim was raised, no later acceptance or lapse can find anything on
\* hold: acceptReport and expireClaimWindowIfEligible release nothing.
THEOREM ClaimEndsHoldAlways == Spec => []ClaimEndsHold
<1>1. IInv => ClaimEndsHold
  BY DEF IInv, ClaimInv
<1>2. QED
  BY <1>1, WindowInvariant, PTL

\* However admins decide claims concurrently, at most one is OPEN or
\* UNDER_REVIEW (resolveClaim takes no lock; the partial index protects it).
THEOREM OneClaimIsActive == Spec => []OneActiveClaim
<1>1. IInv => OneActiveClaim
  BY DEF IInv, ClaimInv
<1>2. QED
  BY <1>1, WindowInvariant, PTL

\* However many admins approve one claim at a time, it has one refund.
THEOREM ClaimRefundsOnce == Spec => []RefundOncePerClaim
<1>1. IInv => RefundOncePerClaim
  BY DEF IInv, ClaimInv
<1>2. QED
  BY <1>1, WindowInvariant, PTL

\* acceptReport and createClaimWithFreeze exclude each other.
THEOREM AcceptanceExcludesClaim == Spec => []OpenExcludesAcceptance
<1>1. IInv => OpenExcludesAcceptance
  BY DEF IInv, ClaimInv
<1>2. QED
  BY <1>1, WindowInvariant, PTL

\* Once acceptReport released an earning, the request has no claim, decided or
\* not, and never gets one.
THEOREM AcceptedIsNeverDisputed == Spec => []AcceptedIsUndisputed
<1>1. IInv => AcceptedIsUndisputed
  BY DEF IInv, ClaimInv
<1>2. QED
  BY <1>1, WindowInvariant, PTL

\* Acceptance and the lapse of the window release earnings only while no claim
\* was ever raised: what is on hold has no claim (ClaimEndsHold).
THEOREM ReleaseMeansNoClaim == Spec => SilenceMeansNoClaim
<1>1. IInv /\ [Next]_vars
        => [ \A e \in Earnings :
               earning[e] \in Held /\ earning'[e] = "AVAILABLE_FOR_PAYOUT"
                 => \A c \in Claims : claim[c] = "NONE" ]_vars
  BY DEF IInv, ClaimInv, ClaimEndsHold
<1>2. QED
  BY <1>1, WindowInvariant, PTL DEF Spec, SilenceMeansNoClaim

\* The reason an earning was released for is never overwritten.
THEOREM ReasonIsWrittenOnce == Spec => ReasonWrittenOnce
<1>1. IInv /\ [Next]_vars
        => [ \A e \in Earnings : reason[e] # "NONE" => reason'[e] = reason[e] ]_vars
  BY ReasonNext DEF IInv
<1>2. QED
  BY <1>1, WindowInvariant, PTL DEF Spec, ReasonWrittenOnce
=============================================================================
