------------------------- MODULE RefundExecutionProofs -------------------------
(***************************************************************************)
(* Theorems about RefundExecution, for any number of orders, refunds,      *)
(* calls and any amounts.                                                  *)
(*                                                                         *)
(* ProcessedIsBooked is not inductive: that a call which reaches the       *)
(* ledger was paid out, and that its refund was not booked before, is      *)
(* decided when the row is claimed and needed when the transaction         *)
(* commits.  CallInv carries it from one to the other.                     *)
(*                                                                         *)
(* RefundIsMatched is about a sum over the orders.  It is proved by        *)
(* counting rupees, see SumCounts, and follows the loop over the captures  *)
(* order by order.  The last section is the refinement of RefundPromise.   *)
(***************************************************************************)
EXTENDS RefundExecution, FiniteSetTheorems, WellFoundedInduction, TLAPS

\* What a running call may rely on.
CallInv ==
  \A h \in Handlers :
    pc[h] # "idle" => /\ booked[on[h]] = 0 /\ on[h] \notin cut
                      /\ pc[h] \in {"readLedger", "book"} => on[h] \in sent

\* A row whose call was cut stays claimed, so no other call carries it.
CutInv == \A r \in cut : status[r] = "PROCESSED" /\ booked[r] = 0

IInv ==
  TypeOK /\ OneCallPerRefund /\ CallInv /\ CutInv /\ ProcessedIsBooked
         /\ ReversedByARefund /\ RefundIsMatched

-----------------------------------------------------------------------------
(***************************************************************************)
(* Amounts                                                                 *)
(***************************************************************************)

\* Any set of orders of the request can be counted.
LEMMA OrdersAreFinite ==
  ASSUME NEW S \in SUBSET Orders
  PROVE  IsFiniteSet(S) /\ Cardinality(S) \in Nat
<1>1. IsFiniteSet(Orders)
  BY FS_Interval, LastAssumption DEF Orders
<1>. QED  BY <1>1, FS_Subset, FS_CardinalityType

\* Amounts of several orders are amounts.
LEMMA Multiple ==
  ASSUME NEW n \in Nat, NEW a \in Nat
  PROVE  n * a \in Nat
OBVIOUS

\* The share of a capture is between nothing and all of it, and the rest of a
\* refund is never negative.
LEMMA Shares ==
  ASSUME TypeOK, NEW h \in Handlers, on[h] \in Refunds
  PROVE  /\ \A o \in Orders : Share(h, o) \in 0 .. Half
         /\ Leftover(h) \in Nat
<1>1. /\ Half \in Nat \ {0} /\ amount[on[h]] \in Nat /\ entries[h] \in SUBSET Orders
  BY AmountAssumption DEF TypeOK
<1>2. ASSUME NEW o \in Orders  PROVE Share(h, o) \in 0 .. Half
  <2>1. {p \in entries[h] : p < o} \in SUBSET Orders
    BY <1>1
  <2>2. Half * Cardinality({p \in entries[h] : p < o}) \in Nat
    BY <2>1, <1>1, OrdersAreFinite, Multiple
  <2>3. Remaining(h, o) \in Int
    BY <2>2, <1>1 DEF Remaining
  <2>. QED  BY <2>3, <1>1 DEF Share
<1>3. Leftover(h) \in Nat
  <2>1. Half * Cardinality(entries[h]) \in Nat
    BY <1>1, OrdersAreFinite, Multiple
  <2>. QED  BY <2>1, <1>1 DEF Leftover
<1>. QED  BY <1>2, <1>3

-----------------------------------------------------------------------------
(***************************************************************************)
(* Sums.  The provers do not instantiate induction theorems that take an   *)
(* operator, but the subsets of a finite set are well-founded, and that is *)
(* a fact about sets.                                                      *)
(***************************************************************************)

\* The element of a set that the folds of the library take first.
Picked(S) == CHOOSE x \in S : TRUE

\* SumFunction is a function defined by recursion on the subsets of the domain.
LEMMA SumUnfolds ==
  ASSUME NEW D, NEW f \in [D -> Nat]
  PROVE  SumFunction(f) =
           (CHOOSE iter : iter = [S \in SUBSET D |->
              IF S = {} THEN 0 ELSE f[Picked(S)] + iter[S \ {Picked(S)}]])[D]
BY DEF SumFunction, SumFunctionOnSet, FoldFunctionOnSet, MapThenFoldSet, Picked

\* Induction over the subsets of a finite set, for a set of subsets: a smallest
\* one that is not Good would have an element without which it is.
LEMMA FiniteSetInduction ==
  ASSUME NEW D, IsFiniteSet(D), NEW Good, {} \in Good,
         \A S \in SUBSET D : S # {} /\ (\A x \in S : S \ {x} \in Good) => S \in Good
  PROVE  SUBSET D \subseteq Good
<1>. DEFINE Bad == {S \in SUBSET D : S \notin Good}
<1>. SUFFICES ASSUME Bad # {}  PROVE FALSE
  OBVIOUS
<1>1. PICK S \in Bad : \A T \in Bad : <<T, S>> \notin StrictSubsetOrdering(D)
  <2>1. IsWellFoundedOn(StrictSubsetOrdering(D), FiniteSubsetsOf(D))
    BY FS_StrictSubsetOrderingWellFounded
  <2>2. Bad \subseteq FiniteSubsetsOf(D)
    BY FS_FiniteSubsetsOfFinite
  <2>. QED  BY <2>1, <2>2, WFMin
<1>2. S # {}
  OBVIOUS
<1>3. ASSUME NEW x \in S  PROVE S \ {x} \in Good
  <2>1. <<S \ {x}, S>> \in StrictSubsetOrdering(D)
    BY DEF StrictSubsetOrdering
  <2>. QED  BY <1>1, <2>1
<1>. QED  BY <1>2, <1>3

\* The rupees a function gives to the elements of S, one by one.
Units(f, S) == UNION {{x} \X (1 .. f[x]) : x \in S}

\* One element has as many as the function says.
LEMMA UnitsOfOne ==
  ASSUME NEW x, NEW n \in Nat
  PROVE  IsFiniteSet({x} \X (1 .. n)) /\ Cardinality({x} \X (1 .. n)) = n
<1>1. IsFiniteSet({x}) /\ Cardinality({x}) = 1
  BY FS_Singleton
<1>2. IsFiniteSet(1 .. n) /\ Cardinality(1 .. n) = n
  BY FS_Interval
<1>3. \A S, T : IsFiniteSet(S) /\ IsFiniteSet(T) =>
        IsFiniteSet(S \X T) /\ Cardinality(S \X T) = Cardinality(S) * Cardinality(T)
  BY FS_Product
<1>4. /\ IsFiniteSet({x} \X (1 .. n))
      /\ Cardinality({x} \X (1 .. n)) = Cardinality({x}) * Cardinality(1 .. n)
  BY <1>1, <1>2, <1>3, Zenon
<1>. QED  BY <1>1, <1>2, <1>4

\* The rupees of two elements are different ones.
LEMMA UnitsGrow ==
  ASSUME NEW D, NEW f \in [D -> Nat], NEW S \in SUBSET D, NEW x \in S,
         IsFiniteSet(Units(f, S \ {x}))
  PROVE  /\ IsFiniteSet(Units(f, S))
         /\ Cardinality(Units(f, S)) = f[x] + Cardinality(Units(f, S \ {x}))
<1>. DEFINE U == Units(f, S \ {x})
            V == {x} \X (1 .. f[x])
<1>1. IsFiniteSet(V) /\ Cardinality(V) = f[x] /\ f[x] \in Nat
  BY UnitsOfOne
<1>2. Units(f, S) = U \cup V
  BY DEF Units
<1>3. U \cap V = {}
  BY DEF Units
<1>4. Cardinality(U) \in Nat
  BY FS_CardinalityType
<1>5. Cardinality(U \cap V) = 0
  BY <1>3, FS_EmptySet
<1>6. /\ IsFiniteSet(U \cup V)
      /\ Cardinality(U \cup V) = Cardinality(U) + Cardinality(V) - Cardinality(U \cap V)
  BY <1>1, FS_Union
<1>. QED  BY <1>1, <1>2, <1>4, <1>5, <1>6

\* There are finitely many.
LEMMA UnitsAreFinite ==
  ASSUME NEW D, IsFiniteSet(D), NEW f \in [D -> Nat]
  PROVE  \A S \in SUBSET D : IsFiniteSet(Units(f, S)) /\ Cardinality(Units(f, S)) \in Nat
<1>. DEFINE Good == {S \in SUBSET D : IsFiniteSet(Units(f, S))}
<1>1. {} \in Good
  BY FS_EmptySet DEF Units
<1>2. \A S \in SUBSET D : S # {} /\ (\A x \in S : S \ {x} \in Good) => S \in Good
  BY UnitsGrow
<1>3. SUBSET D \subseteq Good
  <2>. HIDE DEF Good
  <2>. QED  BY <1>1, <1>2, FiniteSetInduction
<1>. QED  BY <1>3, FS_CardinalityType

\* The sum of a function is the number of its rupees: counting them satisfies
\* the recursion of SumFunction, and nothing else does.
LEMMA SumCounts ==
  ASSUME NEW D, IsFiniteSet(D), NEW f \in [D -> Nat]
  PROVE  SumFunction(f) = Cardinality(Units(f, D))
<1>. DEFINE Body(iter) == [S \in SUBSET D |->
              IF S = {} THEN 0 ELSE f[Picked(S)] + iter[S \ {Picked(S)}]]
            count == [S \in SUBSET D |-> Cardinality(Units(f, S))]
            sum == CHOOSE iter : iter = Body(iter)
<1>1. count = Body(count)
  <2>1. ASSUME NEW S \in SUBSET D
        PROVE count[S] = IF S = {} THEN 0 ELSE f[Picked(S)] + count[S \ {Picked(S)}]
    <3>1. CASE S = {}
      BY <3>1, FS_EmptySet DEF Units
    <3>2. CASE S # {}
      <4>1. Picked(S) \in S
        BY <3>2 DEF Picked
      <4>2. S \ {Picked(S)} \in SUBSET D
        OBVIOUS
      <4>3. IsFiniteSet(Units(f, S \ {Picked(S)}))
        BY <4>2, UnitsAreFinite
      <4>. QED  BY <3>2, <4>1, <4>2, <4>3, UnitsGrow
    <3>. QED  BY <3>1, <3>2
  <2>. QED  BY <2>1
<1>2. sum = Body(sum)
  <2>. HIDE DEF Body, count
  <2>. QED  BY <1>1
<1>3. \A S \in SUBSET D : sum[S] = count[S]
  <2>. DEFINE Good == {S \in SUBSET D : sum[S] = count[S]}
  <2>1. \A S \in SUBSET D : sum[S] = IF S = {} THEN 0 ELSE f[Picked(S)] + sum[S \ {Picked(S)}]
    <3>. HIDE DEF sum
    <3>. QED  BY <1>2
  <2>2. \A S \in SUBSET D : count[S] = IF S = {} THEN 0 ELSE f[Picked(S)] + count[S \ {Picked(S)}]
    <3>. HIDE DEF count
    <3>. QED  BY <1>1
  <2>. HIDE DEF sum, count, Body
  <2>3. {} \in Good
    BY <2>1, <2>2
  <2>4. \A S \in SUBSET D : S # {} /\ (\A x \in S : S \ {x} \in Good) => S \in Good
    <3>1. \A S \in SUBSET D : S # {} => Picked(S) \in S
      BY DEF Picked
    <3>. QED  BY <2>1, <2>2, <3>1
  <2>5. SUBSET D \subseteq Good
    <3>. HIDE DEF Good
    <3>. QED  BY <2>3, <2>4, FiniteSetInduction
  <2>. QED  BY <2>5
<1>4. SumFunction(f) = sum[D]
  BY SumUnfolds, Zenon
<1>5. sum[D] = count[D]
  <2>. HIDE DEF sum, count
  <2>. QED  BY <1>3
<1>. QED  BY <1>4, <1>5

\* The loop of recordReversalForRefund gives the first n orders what the refund
\* has, or all they have, whichever is less.
Covered(h, n) == Half * Cardinality(entries[h] \cap (1 .. n))
TakenBy(h, n) == IF amount[on[h]] < Covered(h, n) THEN amount[on[h]] ELSE Covered(h, n)

\* One order more or less.
LEMMA CoveredGrows ==
  ASSUME TypeOK, NEW h \in Handlers, NEW n \in 1 .. Last
  PROVE  /\ Covered(h, n) \in Nat /\ Covered(h, n - 1) \in Nat
         /\ Covered(h, n) = Covered(h, n - 1) + (IF n \in entries[h] THEN Half ELSE 0)
         /\ Remaining(h, n) = amount[on[h]] - Covered(h, n - 1)
<1>. DEFINE before == entries[h] \cap (1 .. (n - 1))
            k == Cardinality(before)
<1>1. /\ Half \in Nat /\ n \in Nat /\ n - 1 \in Nat /\ Last \in Nat
      /\ entries[h] \in SUBSET Orders
  BY AmountAssumption, LastAssumption DEF TypeOK
<1>2. IsFiniteSet(before) /\ k \in Nat
  <2>1. before \in SUBSET Orders
    BY <1>1
  <2>. QED  BY <2>1, OrdersAreFinite
<1>3. before = {p \in entries[h] : p < n}
  BY <1>1 DEF Orders
<1>4. /\ Half * k \in Nat
      /\ Covered(h, n - 1) = Half * k
      /\ Remaining(h, n) = amount[on[h]] - Half * k
  BY <1>1, <1>2, <1>3, Multiple DEF Covered, Remaining
<1>5. CASE n \in entries[h]
  <2>1. entries[h] \cap (1 .. n) = before \cup {n} /\ n \notin before
    BY <1>1, <1>5
  <2>2. Cardinality(entries[h] \cap (1 .. n)) = k + 1
    BY <2>1, <1>2, FS_AddElement
  <2>3. Half * (k + 1) = Half * k + Half
    BY <1>1, <1>2
  <2>4. Covered(h, n) = Half * k + Half
    BY <2>2, <2>3 DEF Covered
  <2>. QED  BY <1>1, <1>4, <1>5, <2>4
<1>6. CASE n \notin entries[h]
  <2>1. entries[h] \cap (1 .. n) = before
    BY <1>1, <1>6
  <2>2. Covered(h, n) = Half * k
    BY <2>1 DEF Covered
  <2>. QED  BY <1>1, <1>4, <1>6, <2>2
<1>. QED  BY <1>5, <1>6

\* What the shares of a booked refund add up to, order by order.
LEMMA TakenInOrder ==
  ASSUME TypeOK, NEW h \in Handlers, on[h] \in Refunds,
         NEW share, share = [o \in Orders |-> Share(h, o)]
  PROVE  \A n \in 0 .. Last : Cardinality(Units(share, 1 .. n)) = TakenBy(h, n)
<1>1. /\ Half \in Nat \ {0} /\ Last \in Nat /\ amount[on[h]] \in Nat
      /\ share \in [Orders -> Nat]
  BY AmountAssumption, LastAssumption, Shares DEF TypeOK
<1>2. IsFiniteSet(Orders)
  BY OrdersAreFinite
<1>. DEFINE Good == {S \in SUBSET Orders :
                      \A n \in 0 .. Last : S = 1 .. n => Cardinality(Units(share, S)) = TakenBy(h, n)}
<1>3. {} \in Good
  <2>1. ASSUME NEW n \in 0 .. Last, {} = 1 .. n  PROVE TakenBy(h, n) = 0
    <3>1. n = 0
      BY <2>1
    <3>2. Cardinality(entries[h] \cap (1 .. n)) = 0
      BY <2>1, FS_EmptySet
    <3>. QED  BY <1>1, <3>2 DEF TakenBy, Covered
  <2>2. Cardinality(Units(share, {})) = 0
    BY FS_EmptySet DEF Units
  <2>. QED  BY <2>1, <2>2
<1>4. \A S \in SUBSET Orders : S # {} /\ (\A x \in S : S \ {x} \in Good) => S \in Good
  <2>. SUFFICES ASSUME NEW n \in 0 .. Last, 1 .. n # {}, \A x \in 1 .. n : (1 .. n) \ {x} \in Good
                PROVE  Cardinality(Units(share, 1 .. n)) = TakenBy(h, n)
    OBVIOUS
  <2>1. n \in 1 .. Last /\ n \in Orders /\ n - 1 \in 0 .. Last
    BY <1>1 DEF Orders
  <2>2. (1 .. n) \ {n} = 1 .. (n - 1)
    BY <2>1
  <2>3. Cardinality(Units(share, 1 .. (n - 1))) = TakenBy(h, n - 1)
    BY <2>1, <2>2
  <2>4. Cardinality(Units(share, 1 .. n)) = share[n] + TakenBy(h, n - 1)
    <3>1. 1 .. n \in SUBSET Orders /\ n \in 1 .. n
      BY <1>1, <2>1 DEF Orders
    <3>2. IsFiniteSet(Units(share, (1 .. n) \ {n}))
      BY <1>1, <1>2, <3>1, UnitsAreFinite
    <3>3. Cardinality(Units(share, 1 .. n)) = share[n] + Cardinality(Units(share, (1 .. n) \ {n}))
      <4>1. ASSUME NEW S \in SUBSET Orders, NEW x \in S, IsFiniteSet(Units(share, S \ {x}))
            PROVE  Cardinality(Units(share, S)) = share[x] + Cardinality(Units(share, S \ {x}))
        <5>. HIDE DEF Good
        <5>. QED  BY <1>1, <4>1, UnitsGrow
      <4>. QED  BY <4>1, <3>1, <3>2, Zenon
    <3>. QED  BY <2>2, <2>3, <3>3
  <2>. HIDE DEF Good
  <2>5. share[n] = Share(h, n)
    BY <2>1
  <2>6. /\ Covered(h, n) \in Nat /\ Covered(h, n - 1) \in Nat
        /\ Covered(h, n) = Covered(h, n - 1) + (IF n \in entries[h] THEN Half ELSE 0)
        /\ Remaining(h, n) = amount[on[h]] - Covered(h, n - 1)
    BY <2>1, CoveredGrows
  <2>7. Share(h, n) + TakenBy(h, n - 1) = TakenBy(h, n)
    BY <1>1, <2>6 DEF TakenBy, Share
  <2>. QED  BY <2>4, <2>5, <2>7
<1>5. SUBSET Orders \subseteq Good
  <2>. HIDE DEF Good
  <2>. QED  BY <1>2, <1>3, <1>4, FiniteSetInduction
<1>. QED
  <2>1. \A n \in 0 .. Last : 1 .. n \in SUBSET Orders
    BY <1>1 DEF Orders
  <2>. QED  BY <1>5, <2>1

\* What the shares of a refund add up to, with what is left of it, is the refund.
LEMMA SharesAddUp ==
  ASSUME TypeOK, NEW h \in Handlers, on[h] \in Refunds
  PROVE  SumFunction([o \in Orders |-> Share(h, o)]) + Leftover(h) = amount[on[h]]
<1>. DEFINE share == [o \in Orders |-> Share(h, o)]
<1>1. /\ Half \in Nat /\ Last \in Nat /\ amount[on[h]] \in Nat
      /\ entries[h] \in SUBSET Orders /\ share \in [Orders -> Nat]
  BY AmountAssumption, LastAssumption, Shares DEF TypeOK
<1>2. SumFunction(share) = Cardinality(Units(share, Orders))
  BY <1>1, OrdersAreFinite, SumCounts
<1>3. Cardinality(Units(share, Orders)) = TakenBy(h, Last)
  BY <1>1, TakenInOrder DEF Orders
<1>4. entries[h] \cap (1 .. Last) = entries[h]
  BY <1>1 DEF Orders
<1>5. Half * Cardinality(entries[h]) \in Nat
  BY <1>1, OrdersAreFinite, Multiple
<1>6. Covered(h, Last) = Half * Cardinality(entries[h])
  BY <1>4 DEF Covered
<1>7. TakenBy(h, Last) + Leftover(h) = amount[on[h]]
  BY <1>1, <1>5, <1>6 DEF TakenBy, Leftover
<1>. QED  BY <1>2, <1>3, <1>7

-----------------------------------------------------------------------------
(***************************************************************************)
(* The inductive invariant                                                 *)
(***************************************************************************)
LEMMA InitInv == Init => IInv
<1>. SUFFICES ASSUME Init  PROVE IInv
  OBVIOUS
<1>1. reversal \in [Refunds -> [Orders -> 0 .. Half]]
  BY AmountAssumption DEF Init
<1>2. TypeOK
  BY <1>1 DEF Init, TypeOK, RefundStatuses, Points
<1>. QED
  BY <1>2 DEF Init, IInv, OneCallPerRefund, CallInv, CutInv, ProcessedIsBooked, ReversedByARefund, RefundIsMatched, Carries

\* A capture touches no refund.
LEMMA CaptureStep ==
  ASSUME IInv, NEW o \in Orders, CaptureLeg(o)
  PROVE  IInv'
BY DEF IInv, TypeOK, OneCallPerRefund, CallInv, CutInv, ProcessedIsBooked, ReversedByARefund, RefundIsMatched,
       Carries, CaptureLeg, refundVars, callVars

\* The other steps around the refund create or reject a row no call carries.
LEMMA RequestStep ==
  ASSUME IInv, NEW r \in Refunds,
         \/ \E o \in Orders : StrandPayment(o, r)
         \/ CancelRequest(r) \/ ApproveClaim(r) \/ RejectRefund(r)
  PROVE  IInv'
<1>. USE DEF IInv, TypeOK, OneCallPerRefund, CallInv, CutInv, ProcessedIsBooked, ReversedByARefund, RefundIsMatched,
             Carries, RefundStatuses, ledgerVars, refundVars, requestVars, callVars
<1>1. ASSUME NEW o \in Orders, StrandPayment(o, r)  PROVE IInv'
  BY <1>1, AmountAssumption DEF StrandPayment, CreateRefund
<1>2. CASE CancelRequest(r)
  <2>. DEFINE due == Cardinality(paid) * (Half - Kept)
  <2>1. due \in Nat
    <3>1. Half - Kept \in Nat
      BY AmountAssumption
    <3>. QED  BY <3>1, OrdersAreFinite, Multiple
  <2>2. /\ cancelled' = TRUE
        /\ UNCHANGED <<paid, ledgerVars, sent, cut, callVars>>
        /\ CreateRefund(r, due) \/ UNCHANGED refundVars
    BY <1>2 DEF CancelRequest
  <2>. HIDE DEF due
  <2>3. CASE CreateRefund(r, due)
    BY <2>1, <2>2, <2>3 DEF CreateRefund
  <2>4. CASE UNCHANGED refundVars
    BY <2>2, <2>4
  <2>. QED  BY <2>2, <2>3, <2>4
<1>3. CASE ApproveClaim(r)
  BY <1>3, AmountAssumption DEF ApproveClaim, CreateRefund
<1>4. CASE RejectRefund(r)
  BY <1>4 DEF RejectRefund
<1>. QED  BY <1>1, <1>2, <1>3, <1>4

\* The claim of the row.
LEMMA ClaimStep ==
  ASSUME IInv, NEW h \in Handlers, NEW r \in Refunds, ExecuteRefund(h, r)
  PROVE  IInv'
BY DEF IInv, TypeOK, OneCallPerRefund, CallInv, CutInv, ProcessedIsBooked, ReversedByARefund, RefundIsMatched,
       Carries, RefundStatuses, Points, ExecuteRefund, Claimable, ledgerVars, requestVars

\* The call of Razorpay, its answer, and the first read of the transaction.
LEMMA CallStep ==
  ASSUME IInv, NEW h \in Handlers,
         \/ RefundPayment(h) \/ RefundRefused(h) \/ ReleaseClaim(h)
         \/ ReadLedger(h) \/ Interrupt(h)
  PROVE  IInv'
<1>. USE DEF IInv, TypeOK, OneCallPerRefund, CallInv, CutInv, ProcessedIsBooked, ReversedByARefund, RefundIsMatched,
             Carries, RefundStatuses, Points, ledgerVars, refundVars, requestVars
<1>1. CASE RefundPayment(h)
  BY <1>1 DEF RefundPayment
<1>2. CASE RefundRefused(h)
  BY <1>2 DEF RefundRefused
<1>3. CASE ReleaseClaim(h)
  BY <1>3, NoRefundAssumption DEF ReleaseClaim, Finish
<1>4. CASE ReadLedger(h)
  BY <1>4 DEF ReadLedger
<1>5. CASE Interrupt(h)
  BY <1>5, NoRefundAssumption DEF Interrupt, Finish
<1>. QED  BY <1>1, <1>2, <1>3, <1>4, <1>5

\* The ledger transaction books the refund it carries, once.
LEMMA BookStep ==
  ASSUME IInv, NEW h \in Handlers, BookRefund(h)
  PROVE  IInv'
<1>. DEFINE r == on[h]
<1>1. /\ r \in Refunds /\ booked[r] = 0 /\ r \in sent \ cut /\ status[r] = "PROCESSED"
      /\ \A k \in Handlers : Carries(k, r) => k = h
  BY DEF IInv, TypeOK, OneCallPerRefund, CallInv, Carries, BookRefund
<1>2. /\ \A o \in Orders : Share(h, o) \in 0 .. Half
      /\ Leftover(h) \in Nat
  BY <1>1, Shares DEF IInv
<1>3. TypeOK'
  BY <1>1, <1>2 DEF IInv, TypeOK, BookRefund, Finish, Points, refundVars, requestVars
<1>4. OneCallPerRefund'
  BY <1>1 DEF IInv, TypeOK, OneCallPerRefund, Carries, BookRefund, Finish, refundVars
<1>5. CallInv'
  BY <1>1 DEF IInv, TypeOK, CallInv, Carries, BookRefund, Finish, refundVars
<1>6. CutInv'
  BY <1>1 DEF IInv, TypeOK, CutInv, BookRefund, refundVars
<1>7. ProcessedIsBooked'
  BY <1>1 DEF IInv, TypeOK, ProcessedIsBooked, Carries, BookRefund, Finish, refundVars
<1>8. ReversedByARefund'
  <2>1. booked'[r] = 1 /\ \A o \in Orders : reversal'[r][o] = Share(h, o)
    BY <1>1 DEF IInv, TypeOK, BookRefund
  <2>2. ASSUME NEW q \in Refunds, q # r
        PROVE  booked'[q] = booked[q] /\ reversal'[q] = reversal[q]
    BY <2>2 DEF IInv, TypeOK, BookRefund
  <2>3. ASSUME NEW o \in Orders, gross'[o] = "REVERSED"
        PROVE  \E q \in Refunds : booked'[q] = 1 /\ reversal'[q][o] = Half
    <3>1. CASE Marked(h, o)
      BY <3>1, <1>1, <2>1 DEF Marked
    <3>2. CASE ~ Marked(h, o)
      <4>1. gross[o] = "REVERSED"
        BY <3>2, <2>3 DEF BookRefund
      <4>2. PICK q \in Refunds : booked[q] = 1 /\ reversal[q][o] = Half
        BY <4>1 DEF IInv, ReversedByARefund
      <4>. QED  BY <4>2, <2>2, <1>1
    <3>. QED  BY <3>1, <3>2
  <2>4. ASSUME NEW o \in Orders, earning'[o] = "REVERSED"
        PROVE  \E q \in Refunds : booked'[q] = 1 /\ reversal'[q][o] > 0
    <3>1. CASE Share(h, o) > 0
      BY <3>1, <1>1, <2>1
    <3>2. CASE ~ (Share(h, o) > 0)
      <4>1. earning[o] = "REVERSED"
        BY <3>2, <2>4 DEF BookRefund
      <4>2. PICK q \in Refunds : booked[q] = 1 /\ reversal[q][o] > 0
        BY <4>1 DEF IInv, ReversedByARefund
      <4>. QED  BY <4>2, <2>2, <1>1
    <3>. QED  BY <3>1, <3>2
  <2>. QED  BY <2>3, <2>4 DEF ReversedByARefund
<1>9. RefundIsMatched'
  <2>1. /\ reversal'[r] = [o \in Orders |-> Share(h, o)]
        /\ unmatched'[r] = Leftover(h) /\ amount'[r] = amount[r]
    BY <1>1 DEF IInv, TypeOK, BookRefund, refundVars
  <2>2. SumFunction(reversal'[r]) + unmatched'[r] = amount'[r]
    BY <1>1, <2>1, SharesAddUp DEF IInv
  <2>3. ASSUME NEW q \in Refunds, q # r
        PROVE  /\ booked'[q] = booked[q] /\ reversal'[q] = reversal[q]
               /\ unmatched'[q] = unmatched[q] /\ amount'[q] = amount[q]
    BY <2>3 DEF IInv, TypeOK, BookRefund, refundVars
  <2>. QED  BY <2>2, <2>3 DEF IInv, RefundIsMatched
<1>. QED  BY <1>3, <1>4, <1>5, <1>6, <1>7, <1>8, <1>9 DEF IInv

\* Every step keeps the invariant.
LEMMA NextInv == IInv /\ [Next]_vars => IInv'
<1>. SUFFICES ASSUME IInv, [Next]_vars  PROVE IInv'
  OBVIOUS
<1>1. CASE UNCHANGED vars
  BY <1>1 DEF IInv, TypeOK, OneCallPerRefund, CallInv, CutInv, ProcessedIsBooked, ReversedByARefund, RefundIsMatched,
              Carries, vars, requestVars, refundVars, ledgerVars, callVars
<1>2. CASE \E o \in Orders : CaptureLeg(o)
  BY <1>2, CaptureStep
<1>3. CASE \E r \in Refunds :
             \/ \E o \in Orders : StrandPayment(o, r)
             \/ CancelRequest(r) \/ ApproveClaim(r) \/ RejectRefund(r)
  BY <1>3, RequestStep
<1>4. CASE \E h \in Handlers, r \in Refunds : ExecuteRefund(h, r)
  BY <1>4, ClaimStep
<1>5. CASE \E h \in Handlers : Step(h)
  BY <1>5, CallStep, BookStep DEF Step
<1>. QED  BY <1>1, <1>2, <1>3, <1>4, <1>5 DEF Next

-----------------------------------------------------------------------------
(***************************************************************************)
(* Theorems                                                                *)
(***************************************************************************)

\* Every reachable state has the inductive invariant of executeRefund.
THEOREM RefundInvariant == Spec => []IInv
<1>. QED  BY InitInv, NextInv, PTL DEF Spec

\* The columns of the rows the code writes keep to their values.
THEOREM RefundTypes == Spec => []TypeOK
<1>1. IInv => TypeOK
  BY DEF IInv
<1>. QED  BY <1>1, RefundInvariant, PTL

\* Two racing callers of executeRefund never both reach Razorpay for one row.
THEOREM OneCallAtATime == Spec => []OneCallPerRefund
<1>1. IInv => OneCallPerRefund
  BY DEF IInv
<1>. QED  BY <1>1, RefundInvariant, PTL

\* A PROCESSED row was paid out and is in the ledger exactly once, or the call
\* that holds its claim is still at work or was cut; any other row is not in
\* the ledger.
THEOREM ProcessedIsAlwaysBooked == Spec => []ProcessedIsBooked
<1>1. IInv => ProcessedIsBooked
  BY DEF IInv
<1>. QED  BY <1>1, RefundInvariant, PTL

\* recordReversalForRefund closes a capture only for a refund of all of it,
\* and reverses an earning only for a refund of some of its payment.
THEOREM ReversalsHaveARefund == Spec => []ReversedByARefund
<1>1. IInv => ReversedByARefund
  BY DEF IInv
<1>. QED  BY <1>1, RefundInvariant, PTL

\* Whatever the number of captures and whatever the refund: what the loop takes
\* from them, and what it puts on the reconciliation list, is the refund.
THEOREM RefundsAreMatched == Spec => []RefundIsMatched
<1>1. IInv => RefundIsMatched
  BY DEF IInv
<1>. QED  BY <1>1, RefundInvariant, PTL
-----------------------------------------------------------------------------
(***************************************************************************)
(* Refinement: executeRefund keeps the promise of RefundPromise.  A claim  *)
(* is held from its UPDATE until Razorpay answered or the row was given    *)
(* back; after that, PROCESSED is final.                                   *)
(***************************************************************************)
Holds(h, r) == pc[h] \in {"pay", "release"} /\ on[h] = r

RowOf(r) ==
  CASE status[r] = "NONE" -> "none"
    [] status[r] = "PENDING" -> "pending"
    [] status[r] = "REJECTED" -> "rejected"
    [] status[r] = "PROCESSED" -> IF \E h \in Handlers : Holds(h, r) THEN "held" ELSE "left"

Row == [r \in Refunds |-> RowOf(r)]

Promise == INSTANCE RefundPromise WITH row <- Row

LEMMA PromiseInit == Init => Promise!Init
BY DEF Init, Promise!Init, Row, RowOf

\* A step that moves the row of one refund and touches no other.
LEMMA RowMoves ==
  ASSUME NEW r \in Refunds, NEW v, RowOf(r)' = v,
         \A x \in Refunds \ {r} : status'[x] = status[x] /\ \A h \in Handlers : Holds(h, x)' <=> Holds(h, x)
  PROVE  Row' = [Row EXCEPT ![r] = v]
<1>1. \A x \in Refunds \ {r} : RowOf(x)' = RowOf(x)
  BY DEF RowOf
<1>. QED  BY <1>1 DEF Row

LEMMA RowsStay ==
  ASSUME status' = status, \A r \in Refunds, h \in Handlers : Holds(h, r)' <=> Holds(h, r)
  PROVE  Row' = Row
<1>1. \A r \in Refunds : RowOf(r)' = RowOf(r)
  BY DEF RowOf
<1>. QED  BY <1>1 DEF Row

\* Nobody else is on the refund a call carries, whatever that call does.
LEMMA OnlyHolder ==
  ASSUME IInv, NEW h \in Handlers, pc[h] # "idle", NEW r, r = on[h],
         \A k \in Handlers \ {h} : pc'[k] = pc[k] /\ on'[k] = on[k]
  PROVE  /\ status[r] = "PROCESSED"
         /\ \A k \in Handlers \ {h} : ~Holds(k, r) /\ ~Holds(k, r)'
<1>1. r \in Refunds /\ Carries(h, r)
  BY DEF IInv, TypeOK, Carries
<1>2. status[r] = "PROCESSED" /\ \A k \in Handlers : Carries(k, r) => k = h
  BY <1>1 DEF IInv, OneCallPerRefund
<1>. QED  BY <1>1, <1>2 DEF Holds, Carries

LEMMA PromiseRequestStep ==
  ASSUME IInv, NEW r \in Refunds,
         \/ \E o \in Orders : CaptureLeg(o) \/ StrandPayment(o, r)
         \/ CancelRequest(r) \/ ApproveClaim(r) \/ RejectRefund(r)
  PROVE  Promise!Next \/ UNCHANGED <<Row, sent>>
<1>1. UNCHANGED <<sent, pc, on>>
  BY DEF CaptureLeg, StrandPayment, CancelRequest, ApproveClaim, RejectRefund, callVars
<1>2. \A x \in Refunds, h \in Handlers : Holds(h, x)' <=> Holds(h, x)
  BY <1>1 DEF Holds
<1>3. CASE \E o \in Orders : CaptureLeg(o)
  BY <1>1, <1>2, <1>3, RowsStay DEF CaptureLeg, refundVars
<1>4. CASE CreateRefund(r, Half) \/ CreateRefund(r, 2 * Half)
             \/ CreateRefund(r, Cardinality(paid) * (Half - Kept))
  <2>1. status[r] = "NONE" /\ status' = [status EXCEPT ![r] = "PENDING"]
    BY <1>4 DEF CreateRefund
  <2>2. Row[r] = "none"
    BY <2>1 DEF Row, RowOf
  <2>3. RowOf(r)' = "pending"
    BY <2>1 DEF RowOf, IInv, TypeOK
  <2>4. Row' = [Row EXCEPT ![r] = "pending"]
    BY <1>2, <2>1, <2>3, RowMoves DEF IInv, TypeOK
  <2>. QED  BY <1>1, <2>2, <2>4 DEF Promise!Next, Promise!Open, Promise!Move
<1>5. CASE RejectRefund(r)
  <2>1. status[r] = "PENDING" /\ status' = [status EXCEPT ![r] = "REJECTED"]
    BY <1>5 DEF RejectRefund
  <2>2. Row[r] = "pending"
    BY <2>1 DEF Row, RowOf
  <2>3. RowOf(r)' = "rejected"
    BY <2>1 DEF RowOf, IInv, TypeOK
  <2>4. Row' = [Row EXCEPT ![r] = "rejected"]
    BY <1>2, <2>1, <2>3, RowMoves DEF IInv, TypeOK
  <2>. QED  BY <1>1, <2>2, <2>4 DEF Promise!Next, Promise!Reject, Promise!Move
<1>6. CASE UNCHANGED status
  BY <1>1, <1>2, <1>6, RowsStay
<1>. QED
  BY <1>3, <1>4, <1>5, <1>6 DEF StrandPayment, CancelRequest, ApproveClaim, refundVars

LEMMA PromiseClaimStep ==
  ASSUME IInv, NEW h \in Handlers, NEW r \in Refunds, ExecuteRefund(h, r)
  PROVE  Promise!Next
<1>1. /\ pc[h] = "idle" /\ status[r] = "PENDING" /\ sent' = sent
      /\ status' = [status EXCEPT ![r] = "PROCESSED"]
      /\ pc'[h] = "pay" /\ on'[h] = r
      /\ \A k \in Handlers \ {h} : pc'[k] = pc[k] /\ on'[k] = on[k]
  BY DEF ExecuteRefund, Claimable, IInv, TypeOK
<1>2. Row[r] = "pending"
  BY <1>1 DEF Row, RowOf
<1>3. RowOf(r)' = "held"
  BY <1>1 DEF RowOf, Holds, IInv, TypeOK
<1>4. \A x \in Refunds \ {r}, k \in Handlers : Holds(k, x)' <=> Holds(k, x)
  BY <1>1 DEF Holds
<1>5. Row' = [Row EXCEPT ![r] = "held"]
  BY <1>1, <1>3, <1>4, RowMoves DEF IInv, TypeOK
<1>. QED  BY <1>1, <1>2, <1>5 DEF Promise!Next, Promise!Claim, Promise!Move

LEMMA PromiseCallStep ==
  ASSUME IInv, NEW h \in Handlers, Step(h)
  PROVE  Promise!Next \/ UNCHANGED <<Row, sent>>
<1>1. /\ pc[h] # "idle"
      /\ \A k \in Handlers \ {h} : pc'[k] = pc[k] /\ on'[k] = on[k]
  BY DEF Step, RefundPayment, RefundRefused, ReleaseClaim, ReadLedger, BookRefund, Interrupt,
         Finish, IInv, TypeOK
<1>0. PICK r \in Refunds : r = on[h]
  BY <1>1 DEF IInv, TypeOK
<1>2. /\ status[r] = "PROCESSED"
      /\ \A k \in Handlers \ {h} : ~Holds(k, r) /\ ~Holds(k, r)'
  BY <1>0, <1>1, OnlyHolder
<1>3. pc'[h] = "idle" \/ on'[h] = r
  BY <1>0 DEF Step, RefundPayment, RefundRefused, ReleaseClaim, ReadLedger, BookRefund, Interrupt,
         Finish, IInv, TypeOK
<1>4. \A x \in Refunds \ {r}, k \in Handlers : Holds(k, x)' <=> Holds(k, x)
  BY <1>0, <1>1, <1>3 DEF Holds, IInv, TypeOK
<1>5. Holds(h, r) => Row[r] = "held"
  BY <1>2 DEF Row, RowOf
<1>6. ASSUME Holds(h, r), status' = status, ~Holds(h, r)'  PROVE Row' = [Row EXCEPT ![r] = "left"]
  <2>1. RowOf(r)' = "left"
    BY <1>2, <1>6 DEF RowOf
  <2>. QED  BY <1>2, <1>4, <1>6, <2>1, RowMoves
<1>7. ASSUME status' = status, Holds(h, r)' <=> Holds(h, r)  PROVE Row' = Row
  <2>1. \A x \in Refunds, k \in Handlers : Holds(k, x)' <=> Holds(k, x)
    BY <1>2, <1>4, <1>7 DEF Holds
  <2>. QED  BY <1>7, <2>1, RowsStay
<1>8. CASE RefundPayment(h)
  <2>1. /\ Holds(h, r) /\ status' = status /\ sent' = sent \cup {r}
        /\ on'[h] = r /\ pc'[h] \in {"readLedger", "release"}
    BY <1>0, <1>8 DEF RefundPayment, Holds, refundVars, IInv, TypeOK
  <2>2. CASE pc'[h] = "readLedger"
    <3>1. Row' = [Row EXCEPT ![r] = "left"]
      BY <1>6, <2>1, <2>2 DEF Holds
    <3>. QED  BY <1>2, <1>5, <2>1, <3>1 DEF Promise!Next, Promise!Pay
  <2>3. CASE pc'[h] = "release"
    <3>1. Row' = Row
      BY <1>7, <2>1, <2>3 DEF Holds
    <3>2. Row' = [Row EXCEPT ![r] = "held"]
      BY <1>2, <1>5, <2>1, <3>1 DEF Row
    <3>. QED  BY <1>2, <1>5, <2>1, <3>2 DEF Promise!Next, Promise!Pay
  <2>. QED  BY <2>1, <2>2, <2>3
<1>9. CASE RefundRefused(h)
  <2>1. sent' = sent /\ status' = status /\ Holds(h, r) /\ Holds(h, r)'
    BY <1>0, <1>9 DEF RefundRefused, Holds, refundVars, IInv, TypeOK
  <2>. QED  BY <1>7, <2>1
<1>10. CASE ReleaseClaim(h)
  <2>1. sent' = sent /\ Holds(h, r) /\ status' = [status EXCEPT ![r] = "PENDING"]
    BY <1>0, <1>10 DEF ReleaseClaim, Holds
  <2>2. RowOf(r)' = "pending"
    BY <1>2, <2>1 DEF RowOf, IInv, TypeOK
  <2>3. Row' = [Row EXCEPT ![r] = "pending"]
    BY <1>2, <1>4, <2>1, <2>2, RowMoves DEF IInv, TypeOK
  <2>. QED  BY <1>2, <1>5, <2>1, <2>3 DEF Promise!Next, Promise!GiveBack, Promise!Move
<1>11. CASE ReadLedger(h) \/ BookRefund(h)
  <2>1. sent' = sent /\ status' = status /\ ~Holds(h, r) /\ ~Holds(h, r)'
    BY <1>0, <1>11 DEF ReadLedger, BookRefund, Finish, Holds, refundVars, IInv, TypeOK
  <2>. QED  BY <1>7, <2>1
<1>12. CASE Interrupt(h)
  <2>1. sent' = sent /\ status' = status /\ ~Holds(h, r)'
    BY <1>0, <1>12 DEF Interrupt, Finish, Holds, refundVars, IInv, TypeOK
  <2>2. CASE Holds(h, r)
    BY <1>2, <1>5, <1>6, <2>1, <2>2 DEF Promise!Next, Promise!Abandon, Promise!Move
  <2>3. CASE ~Holds(h, r)
    BY <1>7, <2>1, <2>3
  <2>. QED  BY <2>2, <2>3
<1>. QED  BY <1>8, <1>9, <1>10, <1>11, <1>12 DEF Step

LEMMA PromiseStep == IInv /\ [Next]_vars => [Promise!Next]_<<Row, sent>>
<1>. SUFFICES ASSUME IInv, [Next]_vars  PROVE Promise!Next \/ UNCHANGED <<Row, sent>>
  OBVIOUS
<1>1. CASE UNCHANGED vars
  BY <1>1 DEF vars, refundVars, callVars, Row, RowOf, Holds
<1>2. CASE \E o \in Orders : CaptureLeg(o)
  <2>1. UNCHANGED <<status, sent, pc, on>>
    BY <1>2 DEF CaptureLeg, refundVars, callVars
  <2>. QED  BY <2>1, RowsStay DEF Holds
<1>. QED
  BY <1>1, <1>2, PromiseRequestStep, PromiseClaimStep, PromiseCallStep DEF Next

\* However many calls race for the refunds of a request, and wherever a
\* restart ends them, each row goes through executeRefund as RefundPromise
\* says: money leaves only under a held claim, and a rejected row or one left
\* behind is never paid.
THEOREM KeepsRefundPromise == Spec => Promise!Spec
<1>. QED  BY PromiseInit, PromiseStep, RefundInvariant, PTL DEF Spec, Promise!Spec
=============================================================================
