------------------------ MODULE WeeklySettlementProofs ------------------------
(***************************************************************************)
(* Theorems about WeeklySettlement, for any rows, sellers, amounts,        *)
(* threshold and number of instances.                                      *)
(*                                                                         *)
(* The argument for SettledIsPaid is that a row an instance took stays its *)
(* responsibility (Owns) until the very statement that gives it back, so   *)
(* that no state in between leaves it settled without an owner.  For       *)
(* PaidOnce the owners of a row are counted: see Balanced.                 *)
(***************************************************************************)
EXTENDS WeeklySettlement, FiniteSetTheorems, TLAPS

\* The rows a run works on exist, and its claims took some of its batch.
BatchInv ==
  \A i \in Instances :
    /\ \A r \in read[i] : owner[r] # Null
    /\ pc[i] \in {"idle", "loop"} => held[i] = {}
    /\ held[i] \subseteq Batch(i)
    /\ pc[i] = "pay" => held[i] = Batch(i)

Owns(i, r) == r \in held[i] /\ (pc[i] = "release" => \E t \in left[i] : r \in t)

OwnedInv == \A r \in settled : paid[r] > 0 \/ r \in cut \/ \E i \in Instances : Owns(i, r)

IInv == TypeOK /\ BatchInv /\ OwnedInv

-----------------------------------------------------------------------------
LEMMA OwnedIsPaid == IInv => SettledIsPaid
BY DEF IInv, OwnedInv, Owns, SettledIsPaid

LEMMA InitInv == Init => IInv
<1>. SUFFICES ASSUME Init  PROVE IInv
  OBVIOUS
<1>1. RowTypes
  BY DEF Init, RowTypes
<1>2. 0 \in 0..MaxLate /\ 0 \in 0..MaxStops /\ 0 \in 0..MaxOverlaps
  BY BoundAssumption
<1>3. RunTypes
  BY <1>2 DEF Init, RunTypes
<1>4. BatchInv /\ OwnedInv
  BY DEF Init, BatchInv, OwnedInv, Batch, RowsOf
<1>. QED  BY <1>1, <1>3, <1>4 DEF IInv, TypeOK

\* Every row of a batch is in one of the tables the batch touches.
LEMMA TouchedCovers ==
  ASSUME NEW rows, rows \subseteq Rows
  PROVE  /\ Touched(rows) \subseteq Tables
         /\ \A r \in rows : \E t \in Touched(rows) : r \in t
BY DEF Touched, Tables, Rows

\* The rows of an existing seller do not change under a run.
LEMMA BatchKept ==
  ASSUME TypeOK, BatchInv, NEW i \in Instances, read'[i] = read[i], seller'[i] = seller[i],
         \A r \in Rows : owner[r] # Null => owner'[r] = owner[r]
  PROVE  Batch(i)' = Batch(i)
BY DEF TypeOK, RunTypes, BatchInv, Batch, RowsOf

\* What happens around the runs leaves them alone.
LEMMA AroundStep ==
  ASSUME IInv,
         \/ \E r \in Rows, s \in Sellers, a \in Amounts : Earn(r, s, a)
         \/ \E s \in Sellers : AddBankDetails(s)
         \/ HourBegins \/ HourEnds
  PROVE  IInv'
<1>. USE DEF Earn, AddBankDetails, HourBegins, HourEnds, rowVars, runVars, boundVars
<1>1. TypeOK'
  <2>1. RowTypes'
    <3>1. UNCHANGED <<settled, cut, paid, loose>> /\ bank' \subseteq Sellers
      BY DEF IInv, TypeOK, RowTypes
    <3>2. owner' \in [Rows -> Sellers \cup {Null}]
      BY DEF IInv, TypeOK, RowTypes
    <3>3. amount' \in [Rows -> Amounts \cup {0}]
      BY DEF IInv, TypeOK, RowTypes
    <3>. QED  BY <3>1, <3>2, <3>3 DEF IInv, TypeOK, RowTypes
  <2>2. RunTypes'
    BY DEF IInv, TypeOK, RunTypes
  <2>. QED  BY <2>1, <2>2 DEF TypeOK
<1>2. /\ UNCHANGED <<settled, pc, runVars, paid, cut>>
      /\ \A r \in Rows : owner[r] # Null => owner'[r] = owner[r]
  BY DEF IInv, TypeOK, RowTypes
<1>3. BatchInv'
  <2>1. \A i \in Instances : Batch(i)' = Batch(i)
    BY <1>2, BatchKept DEF IInv
  <2>2. \A i \in Instances : \A r \in read[i] : owner'[r] # Null
    BY <1>2 DEF IInv, TypeOK, RunTypes, BatchInv
  <2>. QED  BY <1>2, <2>1, <2>2 DEF IInv, BatchInv
<1>4. OwnedInv'
  BY <1>2 DEF IInv, OwnedInv, Owns
<1>. QED  BY <1>1, <1>3, <1>4 DEF IInv

\* A step of instance i that keeps the rows keeps what the others rely on.
LEMMA OthersKept ==
  ASSUME TypeOK, BatchInv, NEW i \in Instances, owner' = owner,
         \A k \in Instances \ {i} :
           /\ pc'[k] = pc[k] /\ read'[k] = read[k] /\ seller'[k] = seller[k]
           /\ held'[k] = held[k] /\ left'[k] = left[k]
  PROVE  \A k \in Instances \ {i} :
           /\ Batch(k)' = Batch(k)
           /\ \A r \in read'[k] : owner'[r] # Null
           /\ pc'[k] \in {"idle", "loop"} => held'[k] = {}
           /\ held'[k] \subseteq Batch(k)'
           /\ pc'[k] = "pay" => held'[k] = Batch(k)'
           /\ \A r : Owns(k, r)' <=> Owns(k, r)
<1>. SUFFICES ASSUME NEW k \in Instances \ {i}
              PROVE  /\ Batch(k)' = Batch(k)
                     /\ \A r \in read'[k] : owner'[r] # Null
                     /\ pc'[k] \in {"idle", "loop"} => held'[k] = {}
                     /\ held'[k] \subseteq Batch(k)'
                     /\ pc'[k] = "pay" => held'[k] = Batch(k)'
                     /\ \A r : Owns(k, r)' <=> Owns(k, r)
  OBVIOUS
<1>1. Batch(k)' = Batch(k)
  BY BatchKept
<1>. QED  BY <1>1 DEF BatchInv, Owns

\* The start of a run, its walk over the sellers and its end.
LEMMA LoopStep ==
  ASSUME IInv, NEW i \in Instances, Tick(i) \/ Look(i) \/ EndRun(i)
  PROVE  IInv'
<1>. USE DEF Tick, Look, Skip, Take, EndRun, Goto, Running, rowVars, runVars, boundVars
<1>1. TypeOK'
  <2>1. RowTypes'
    BY DEF IInv, TypeOK, RowTypes
  <2>2. CASE Tick(i)
    BY <2>1, <2>2, BoundAssumption DEF IInv, TypeOK, RowTypes, RunTypes, Unsettled
  <2>3. ASSUME NEW s \in Sellers, Skip(i, s)  PROVE TypeOK'
    BY <2>1, <2>3 DEF IInv, TypeOK, RunTypes
  <2>4. ASSUME NEW s \in Sellers, Take(i, s)  PROVE TypeOK'
    <3>1. Touched(RowsOf(i, s)) \subseteq Tables
      BY DEF Touched
    <3>. QED  BY <2>1, <2>4, <3>1 DEF IInv, TypeOK, RunTypes
  <2>5. CASE EndRun(i)
    BY <2>1, <2>5 DEF IInv, TypeOK, RunTypes
  <2>. QED  BY <2>2, <2>3, <2>4, <2>5
<1>2. /\ UNCHANGED <<owner, settled, held, paid, cut>>
      /\ held[i] = {}
      /\ pc'[i] \in {"idle", "loop", "claim"}
      /\ \A k \in Instances \ {i} :
           /\ pc'[k] = pc[k] /\ read'[k] = read[k] /\ seller'[k] = seller[k] /\ left'[k] = left[k]
  BY DEF IInv, TypeOK, RunTypes, BatchInv
<1>3. \A r \in read'[i] : owner[r] # Null
  BY DEF IInv, TypeOK, RunTypes, BatchInv, Unsettled
<1>4. BatchInv'
  BY <1>2, <1>3, OthersKept DEF IInv, BatchInv
<1>5. OwnedInv'
  BY <1>2, OthersKept DEF IInv, OwnedInv, Owns
<1>. QED  BY <1>1, <1>4, <1>5 DEF IInv

\* One claiming statement: what it settles, the instance holds.
LEMMA ClaimStep ==
  ASSUME IInv, NEW i \in Instances, NEW t \in Tables, ClaimTable(i, t)
  PROVE  IInv'
<1>. DEFINE taken == held[i] \cup ((Batch(i) \cap t) \ settled)
            more == left[i] \ {t}
            whole == taken = Batch(i)
<1>1. /\ pc[i] = "claim"
      /\ settled' = settled \cup (Batch(i) \cap t)
      /\ held' = [held EXCEPT ![i] = taken]
      /\ left' = [left EXCEPT ![i] = IF more = {} /\ ~whole THEN Touched(Batch(i)) ELSE more]
      /\ pc' = [pc EXCEPT ![i] = IF more # {} THEN "claim" ELSE IF whole THEN "pay" ELSE "release"]
      /\ UNCHANGED <<owner, amount, bank, hour, ran, read, todo, seller, paid, loose, cut, boundVars>>
  BY DEF ClaimTable, Goto
<1>2. Batch(i) \subseteq Rows
  BY DEF IInv, TypeOK, RunTypes, Batch, RowsOf
<1>3. held[i] \subseteq Batch(i)
  BY DEF IInv, BatchInv
<1>4. taken \subseteq Batch(i)
  BY <1>3
<1>5. TypeOK'
  <2>1. Touched(Batch(i)) \subseteq Tables
    BY DEF Touched
  <2>2. RowTypes'
    BY <1>1, <1>2 DEF IInv, TypeOK, RowTypes
  <2>3. taken \in SUBSET Rows
    BY <1>2, <1>4
  <2>4. more \in SUBSET Tables
    BY DEF IInv, TypeOK, RunTypes
  <2>. HIDE DEF taken, more, whole
  <2>5. RunTypes'
    BY <1>1, <2>1, <2>3, <2>4 DEF IInv, TypeOK, RunTypes, boundVars
  <2>. QED  BY <2>2, <2>5 DEF TypeOK
<1>6. /\ pc'[i] \in {"claim", "pay", "release"}
      /\ pc'[i] = "pay" => whole
      /\ pc'[i] = "release" => left'[i] = Touched(Batch(i))
      /\ held'[i] = taken
      /\ \A k \in Instances \ {i} :
           /\ pc'[k] = pc[k] /\ read'[k] = read[k] /\ seller'[k] = seller[k]
           /\ held'[k] = held[k] /\ left'[k] = left[k]
  <2>. HIDE DEF taken, more, whole
  <2>. QED  BY <1>1 DEF IInv, TypeOK, RunTypes
<1>7. Batch(i)' = Batch(i)
  BY <1>1 DEF Batch, RowsOf
<1>8. BatchInv'
  <2>1. \A r \in read'[i] : owner'[r] # Null
    BY <1>1 DEF IInv, BatchInv
  <2>. HIDE DEF taken, more
  <2>. QED  BY <1>1, <1>4, <1>6, <1>7, <2>1, OthersKept DEF IInv, BatchInv
<1>9. OwnedInv'
  <2>1. \A r \in taken : Owns(i, r)'
    BY <1>2, <1>4, <1>6, TouchedCovers DEF Owns
  <2>2. \A r \in settled' : r \notin settled => r \in taken
    BY <1>1
  <2>3. \A r \in held[i] : r \in taken
    OBVIOUS
  <2>. HIDE DEF taken, more, whole
  <2>4. \A k \in Instances \ {i} : \A r : Owns(k, r) => Owns(k, r)'
    BY <1>1, <1>6, OthersKept DEF IInv
  <2>5. SUFFICES ASSUME NEW r \in settled'
                 PROVE  paid'[r] > 0 \/ r \in cut' \/ \E k \in Instances : Owns(k, r)'
    BY DEF OwnedInv
  <2>6. CASE r \notin settled
    BY <2>1, <2>2, <2>6
  <2>7. CASE r \in settled
    <3>1. paid[r] > 0 \/ r \in cut \/ \E k \in Instances : Owns(k, r)
      BY <2>7 DEF IInv, OwnedInv
    <3>2. Owns(i, r) => Owns(i, r)'
      BY <2>1, <2>3 DEF Owns
    <3>. QED  BY <1>1, <2>4, <3>1, <3>2
  <2>. QED  BY <2>6, <2>7
<1>. QED  BY <1>5, <1>8, <1>9 DEF IInv

\* The answer of RazorpayX, or none in time.
LEMMA CallStep ==
  ASSUME IInv, NEW i \in Instances, Call(i)
  PROVE  IInv'
<1>. USE DEF Goto, PayBatch, rowVars, boundVars
<1>1. /\ UNCHANGED <<owner, settled, cut, read>>
      /\ held[i] = Batch(i) /\ Batch(i) \subseteq Rows
  BY DEF IInv, TypeOK, RunTypes, BatchInv, Batch, RowsOf,
         Call, PayoutAccepted, PayoutRefused, PayoutTimesOut
<1>2. /\ paid' \in [Rows -> Nat] /\ loose' \in [Rows -> Nat]
      /\ \A r \in Rows : paid'[r] >= paid[r]
      /\ PayoutAccepted(i) => \A r \in Batch(i) : paid'[r] > 0
  BY <1>1 DEF IInv, TypeOK, RowTypes, Call, PayoutAccepted, PayoutRefused, PayoutTimesOut
<1>3. Touched(Batch(i)) \subseteq Tables
  BY DEF Touched
<1>4. TypeOK'
  <2>1. RowTypes'
    BY <1>2 DEF IInv, TypeOK, RowTypes, Call, PayoutAccepted, PayoutRefused, PayoutTimesOut
  <2>2. CASE PayoutAccepted(i)
    BY <2>1, <2>2 DEF IInv, TypeOK, RunTypes, PayoutAccepted
  <2>3. CASE PayoutRefused(i)
    BY <2>1, <2>3, <1>3 DEF IInv, TypeOK, RunTypes, PayoutRefused
  <2>4. CASE PayoutTimesOut(i)
    BY <2>1, <2>4, <1>3, BoundAssumption DEF IInv, TypeOK, RunTypes, PayoutTimesOut
  <2>. QED  BY <2>2, <2>3, <2>4 DEF Call
<1>5. \A k \in Instances \ {i} :
        /\ pc'[k] = pc[k] /\ read'[k] = read[k] /\ seller'[k] = seller[k]
        /\ held'[k] = held[k] /\ left'[k] = left[k]
  BY DEF IInv, TypeOK, RunTypes, Call, PayoutAccepted, PayoutRefused, PayoutTimesOut
<1>6. \/ PayoutAccepted(i) /\ pc'[i] = "loop" /\ held'[i] = {}
      \/ /\ pc'[i] = "release" /\ held'[i] = held[i] /\ seller'[i] = seller[i]
         /\ left'[i] = Touched(Batch(i))
  BY DEF IInv, TypeOK, RunTypes, Call, PayoutAccepted, PayoutRefused, PayoutTimesOut
<1>7. seller'[i] = seller[i] => Batch(i)' = Batch(i)
  BY <1>1 DEF Batch, RowsOf
<1>8. BatchInv'
  <2>1. \A r \in read'[i] : owner'[r] # Null
    BY <1>1 DEF IInv, BatchInv
  <2>. QED  BY <1>1, <1>5, <1>6, <1>7, <2>1, OthersKept DEF IInv, BatchInv
<1>9. OwnedInv'
  <2>1. SUFFICES ASSUME NEW r \in settled
                 PROVE  paid'[r] > 0 \/ r \in cut' \/ \E k \in Instances : Owns(k, r)'
    BY <1>1 DEF OwnedInv
  <2>2. r \in Rows /\ paid[r] \in Nat /\ paid'[r] \in Nat
    BY <1>2 DEF IInv, TypeOK, RowTypes
  <2>3. CASE paid[r] > 0 \/ r \in cut
    BY <1>1, <1>2, <2>2, <2>3
  <2>4. CASE Owns(i, r)
    <3>1. r \in Batch(i)
      BY <1>1, <2>4 DEF Owns
    <3>. QED  BY <1>1, <1>2, <1>6, <3>1, TouchedCovers DEF Owns
  <2>5. ASSUME NEW k \in Instances \ {i}, Owns(k, r)  PROVE Owns(k, r)'
    BY <1>1, <1>5, <2>5, OthersKept DEF IInv
  <2>. QED  BY <2>3, <2>4, <2>5 DEF IInv, OwnedInv
<1>. QED  BY <1>4, <1>8, <1>9 DEF IInv

\* One releasing statement: what it frees nobody needs to answer for.
LEMMA ReleaseStep ==
  ASSUME IInv, NEW i \in Instances, NEW t \in Tables, ReleaseTable(i, t)
  PROVE  IInv'
<1>. DEFINE freed == Batch(i) \cap t
<1>1. /\ pc[i] = "release" /\ t \in left[i]
      /\ settled' = settled \ freed
      /\ left' = [left EXCEPT ![i] = @ \ {t}]
      /\ UNCHANGED <<owner, amount, bank, hour, ran, read, todo, paid, cut, boundVars>>
      /\ \/ left'[i] # {} /\ UNCHANGED <<pc, seller, held>>
         \/ /\ left'[i] = {}
            /\ pc' = [pc EXCEPT ![i] = "loop"]
            /\ seller' = [seller EXCEPT ![i] = Null]
            /\ held' = [held EXCEPT ![i] = {}]
  BY DEF ReleaseTable, Goto
<1>2. loose' \in [Rows -> Nat]
  BY DEF ReleaseTable, IInv, TypeOK, RowTypes
<1>3. TypeOK'
  <2>1. RowTypes'
    BY <1>1, <1>2 DEF IInv, TypeOK, RowTypes
  <2>2. RunTypes'
    BY <1>1 DEF IInv, TypeOK, RunTypes, boundVars
  <2>. QED  BY <2>1, <2>2 DEF TypeOK
<1>4. \A k \in Instances \ {i} :
        /\ pc'[k] = pc[k] /\ read'[k] = read[k] /\ seller'[k] = seller[k]
        /\ held'[k] = held[k] /\ left'[k] = left[k]
  BY <1>1 DEF IInv, TypeOK, RunTypes
<1>5. \/ pc'[i] = "loop" /\ held'[i] = {} /\ left'[i] = {}
      \/ /\ pc'[i] = "release" /\ held'[i] = held[i] /\ seller'[i] = seller[i]
         /\ left'[i] # {}
  BY <1>1 DEF IInv, TypeOK, RunTypes
<1>6. seller'[i] = seller[i] => Batch(i)' = Batch(i)
  BY <1>1 DEF Batch, RowsOf
<1>7. BatchInv'
  <2>1. \A r \in read'[i] : owner'[r] # Null
    BY <1>1 DEF IInv, BatchInv
  <2>. QED  BY <1>1, <1>4, <1>5, <1>6, <2>1, OthersKept DEF IInv, BatchInv
<1>8. OwnedInv'
  <2>1. SUFFICES ASSUME NEW r \in settled, r \notin freed
                 PROVE  paid[r] > 0 \/ r \in cut \/ \E k \in Instances : Owns(k, r)'
    BY <1>1 DEF OwnedInv
  <2>2. CASE Owns(i, r)
    <3>1. r \in Batch(i)
      BY <2>2 DEF IInv, BatchInv, Owns
    <3>2. PICK u \in left[i] : r \in u
      BY <1>1, <2>2 DEF Owns
    <3>3. u \in left'[i]
      BY <1>1, <2>1, <3>1, <3>2 DEF IInv, TypeOK, RunTypes
    <3>. QED  BY <1>5, <2>2, <3>2, <3>3 DEF Owns
  <2>3. ASSUME NEW k \in Instances \ {i}, Owns(k, r)  PROVE Owns(k, r)'
    BY <1>1, <1>4, <2>3, OthersKept DEF IInv
  <2>. QED  BY <2>2, <2>3 DEF IInv, OwnedInv
<1>. QED  BY <1>3, <1>7, <1>8 DEF IInv

\* A run that is cut short leaves what it held to be looked at by hand.
LEMMA StopStep ==
  ASSUME IInv, NEW i \in Instances, Stop(i)
  PROVE  IInv'
<1>. USE DEF Stop, Goto, rowVars
<1>1. TypeOK'
  <2>1. RowTypes'
    BY DEF IInv, TypeOK, RowTypes, RunTypes
  <2>2. RunTypes'
    BY BoundAssumption DEF IInv, TypeOK, RunTypes
  <2>. QED  BY <2>1, <2>2 DEF TypeOK
<1>2. /\ UNCHANGED <<owner, settled, paid>>
      /\ cut' = cut \cup held[i]
      /\ pc'[i] = "idle" /\ held'[i] = {} /\ read'[i] = {}
      /\ \A k \in Instances \ {i} :
           /\ pc'[k] = pc[k] /\ read'[k] = read[k] /\ seller'[k] = seller[k]
           /\ held'[k] = held[k] /\ left'[k] = left[k]
  BY DEF IInv, TypeOK, RunTypes
<1>3. BatchInv'
  BY <1>2, OthersKept DEF IInv, BatchInv
<1>4. OwnedInv'
  <2>1. \A r : Owns(i, r) => r \in cut'
    BY <1>2 DEF Owns
  <2>. QED  BY <1>2, <2>1, OthersKept DEF IInv, OwnedInv
<1>. QED  BY <1>1, <1>3, <1>4 DEF IInv

\* Every step keeps the invariant.
LEMMA NextInv == IInv /\ [Next]_vars => IInv'
<1>. SUFFICES ASSUME IInv, [Next]_vars  PROVE IInv'
  OBVIOUS
<1>1. CASE UNCHANGED vars
  BY <1>1 DEF IInv, TypeOK, RowTypes, RunTypes, BatchInv, OwnedInv, Owns, Batch, RowsOf,
              vars, rowVars, runVars, boundVars
<1>2. CASE \/ \E r \in Rows, s \in Sellers, a \in Amounts : Earn(r, s, a)
           \/ \E s \in Sellers : AddBankDetails(s)
           \/ HourBegins \/ HourEnds
  BY <1>2, AroundStep
<1>3. ASSUME NEW i \in Instances, Tick(i) \/ Run(i) \/ Call(i) \/ Stop(i)  PROVE IInv'
  BY <1>3, LoopStep, ClaimStep, ReleaseStep, CallStep, StopStep DEF Run, Claim, Release
<1>. QED  BY <1>1, <1>2, <1>3 DEF Next

-----------------------------------------------------------------------------
(***************************************************************************)
(* Theorems                                                                *)
(***************************************************************************)

\* Every reachable state has the inductive invariant of the settlement.
THEOREM SettlementInvariant == Spec => []IInv
<1>. QED  BY InitInv, NextInv, PTL DEF Spec

\* Rows and runs keep to their values.
THEOREM SettlementTypes == Spec => []TypeOK
<1>1. IInv => TypeOK
  BY DEF IInv
<1>. QED  BY <1>1, SettlementInvariant, PTL

\* However many instances run, no row stays settled with no money moved,
\* unless the run that held it was cut short.
THEOREM SettledRowsArePaid == Spec => []SettledIsPaid
<1>. QED  BY OwnedIsPaid, SettlementInvariant, PTL

-----------------------------------------------------------------------------
(***************************************************************************)
(* A row is paid once: the balance of a row                                *)
(*                                                                         *)
(* Being settled is a token.  A payment spends one, an instance that owns  *)
(* the row holds one, and loose counts the tokens made by giving a row     *)
(* back that was paid, or that the run had not taken.  The tokens spent    *)
(* and held never outnumber those made.                                    *)
(***************************************************************************)
Owners(r) == {i \in Instances : Owns(i, r)}
Token(r) == IF r \in settled THEN 1 ELSE 0

Balanced == \A r \in Rows : paid[r] + Cardinality(Owners(r)) <= loose[r] + Token(r)

LEMMA OwnersAreFinite == \A r : IsFiniteSet(Owners(r)) /\ Cardinality(Owners(r)) \in Nat
BY InstancesAssumption, FS_Subset, FS_CardinalityType DEF Owners

LEMMA BalancedIsPaidOnce == TypeOK /\ Balanced => PaidOnce
<1>. SUFFICES ASSUME TypeOK, Balanced, NEW r \in Rows  PROVE paid[r] <= 1 + loose[r]
  BY DEF PaidOnce
<1>1. paid[r] \in Nat /\ loose[r] \in Nat
  BY DEF TypeOK, RowTypes
<1>2. Cardinality(Owners(r)) \in Nat
  BY OwnersAreFinite
<1>. QED  BY <1>1, <1>2 DEF Balanced, Token

LEMMA BalancedInit == Init => Balanced
<1>. SUFFICES ASSUME Init, NEW r \in Rows
              PROVE  paid[r] + Cardinality(Owners(r)) <= loose[r] + Token(r)
  BY DEF Balanced
<1>1. Owners(r) = {}
  BY DEF Init, Owners, Owns
<1>2. Cardinality(Owners(r)) = 0
  BY <1>1, FS_EmptySet
<1>. QED  BY <1>2 DEF Init, Token

\* A step of instance i changes at most its own claim to a row.
LEMMA OwnersOfAStep ==
  ASSUME NEW i \in Instances, NEW r, \A k \in Instances \ {i} : Owns(k, r)' <=> Owns(k, r)
  PROVE  /\ (Owns(i, r)' <=> Owns(i, r)) => Cardinality(Owners(r))' = Cardinality(Owners(r))
         /\ Owns(i, r) /\ ~Owns(i, r)' => Cardinality(Owners(r))' = Cardinality(Owners(r)) - 1
         /\ ~Owns(i, r) /\ Owns(i, r)' => Cardinality(Owners(r))' = Cardinality(Owners(r)) + 1
<1>1. IsFiniteSet(Owners(r))
  BY OwnersAreFinite
<1>2. CASE (Owns(i, r)' <=> Owns(i, r))
  <2>1. Owners(r)' = Owners(r)
    BY <1>2 DEF Owners
  <2>. QED  BY <1>2, <2>1
<1>3. CASE Owns(i, r) /\ ~Owns(i, r)'
  <2>1. Owners(r)' = Owners(r) \ {i} /\ i \in Owners(r)
    BY <1>3 DEF Owners
  <2>2. Cardinality(Owners(r) \ {i}) = Cardinality(Owners(r)) - 1
    BY <1>1, <2>1, FS_RemoveElement
  <2>. QED  BY <1>3, <2>1, <2>2
<1>4. CASE ~Owns(i, r) /\ Owns(i, r)'
  <2>1. Owners(r)' = Owners(r) \cup {i} /\ i \notin Owners(r)
    BY <1>4 DEF Owners
  <2>2. Cardinality(Owners(r) \cup {i}) = Cardinality(Owners(r)) + 1
    BY <1>1, <2>1, FS_AddElement
  <2>. QED  BY <1>4, <2>1, <2>2
<1>. QED  BY <1>2, <1>3, <1>4

\* The balance of a row is kept when its four parts move together.
LEMMA BalanceOfAStep ==
  ASSUME IInv, IInv', Balanced, NEW i \in Instances, NEW r \in Rows,
         \A k \in Instances \ {i} : Owns(k, r)' <=> Owns(k, r),
         LET before == IF Owns(i, r) THEN 1 ELSE 0
             after == IF Owns(i, r)' THEN 1 ELSE 0
         IN  paid'[r] + after + loose[r] + Token(r) <= paid[r] + before + loose'[r] + Token(r)'
  PROVE  paid'[r] + Cardinality(Owners(r))' <= loose'[r] + Token(r)'
<1>1. paid[r] \in Nat /\ loose[r] \in Nat /\ paid'[r] \in Nat /\ loose'[r] \in Nat
  BY DEF IInv, TypeOK, RowTypes
<1>2. Cardinality(Owners(r)) \in Nat
  BY OwnersAreFinite
<1>3. paid[r] + Cardinality(Owners(r)) <= loose[r] + Token(r)
  BY DEF Balanced
<1>4. Token(r) \in Nat /\ Token(r)' \in Nat
  BY DEF Token
<1>. DEFINE n == Cardinality(Owners(r))
            m == Cardinality(Owners(r))'
<1>5. CASE (Owns(i, r)' <=> Owns(i, r))
  <2>1. m = n
    BY <1>5, OwnersOfAStep
  <2>2. paid'[r] + loose[r] + Token(r) <= paid[r] + loose'[r] + Token(r)'
    BY <1>1, <1>4, <1>5
  <2>. HIDE DEF n, m
  <2>3. paid'[r] + m <= loose'[r] + Token(r)'
    BY <1>1, <1>2, <1>3, <1>4, <2>1, <2>2 DEF n
  <2>. QED  BY <2>3 DEF m
<1>6. CASE Owns(i, r) /\ ~Owns(i, r)'
  <2>1. m = n - 1
    BY <1>6, OwnersOfAStep
  <2>2. paid'[r] + loose[r] + Token(r) <= paid[r] + 1 + loose'[r] + Token(r)'
    BY <1>1, <1>4, <1>6
  <2>. HIDE DEF n, m
  <2>3. paid'[r] + m <= loose'[r] + Token(r)'
    BY <1>1, <1>2, <1>3, <1>4, <2>1, <2>2 DEF n
  <2>. QED  BY <2>3 DEF m
<1>7. CASE ~Owns(i, r) /\ Owns(i, r)'
  <2>1. m = n + 1
    BY <1>7, OwnersOfAStep
  <2>2. paid'[r] + 1 + loose[r] + Token(r) <= paid[r] + loose'[r] + Token(r)'
    BY <1>1, <1>4, <1>7
  <2>. HIDE DEF n, m
  <2>3. paid'[r] + m <= loose'[r] + Token(r)'
    BY <1>1, <1>2, <1>3, <1>4, <2>1, <2>2 DEF n
  <2>. QED  BY <2>3 DEF m
<1>. QED  BY <1>5, <1>6, <1>7

\* Steps that neither pay nor settle: nobody gets to own a row.
LEMMA QuietBalance ==
  ASSUME IInv, IInv', Balanced, UNCHANGED <<settled, paid, loose>>,
         \A k \in Instances, r \in Rows : Owns(k, r)' => Owns(k, r)
  PROVE  Balanced'
<1>. SUFFICES ASSUME NEW r \in Rows
              PROVE  paid'[r] + Cardinality(Owners(r))' <= loose'[r] + Token(r)'
  BY DEF Balanced
<1>1. paid[r] \in Nat /\ loose[r] \in Nat /\ Token(r) \in Nat
  BY DEF IInv, TypeOK, RowTypes, Token
<1>2. paid'[r] = paid[r] /\ loose'[r] = loose[r] /\ Token(r)' = Token(r)
  BY DEF Token
<1>3. Owners(r)' \subseteq Owners(r)
  BY DEF Owners
<1>4. Cardinality(Owners(r)') <= Cardinality(Owners(r))
  BY <1>3, OwnersAreFinite, FS_Subset
<1>5. IsFiniteSet(Owners(r)')
  BY <1>3, OwnersAreFinite, FS_Subset
<1>6. Cardinality(Owners(r)') \in Nat /\ Cardinality(Owners(r)) \in Nat
  BY <1>5, OwnersAreFinite, FS_CardinalityType
<1>7. paid[r] + Cardinality(Owners(r)) <= loose[r] + Token(r)
  BY DEF Balanced
<1>8. paid[r] + Cardinality(Owners(r)') <= loose[r] + Token(r)
  BY <1>1, <1>4, <1>6, <1>7
<1>. QED  BY <1>2, <1>8

LEMMA ClaimBalance ==
  ASSUME IInv, IInv', Balanced, NEW i \in Instances, NEW t \in Tables, ClaimTable(i, t)
  PROVE  Balanced'
<1>1. /\ pc[i] = "claim"
      /\ settled' = settled \cup (Batch(i) \cap t)
      /\ held'[i] = held[i] \cup ((Batch(i) \cap t) \ settled)
      /\ UNCHANGED <<owner, paid, loose>>
      /\ pc'[i] \in {"claim", "pay", "release"}
      /\ pc'[i] = "release" => left'[i] = Touched(Batch(i))
  BY DEF ClaimTable, Goto, IInv, TypeOK, RunTypes
<1>2. \A k \in Instances \ {i} :
        /\ pc'[k] = pc[k] /\ read'[k] = read[k] /\ seller'[k] = seller[k]
        /\ held'[k] = held[k] /\ left'[k] = left[k]
  BY DEF ClaimTable, Goto, IInv, TypeOK, RunTypes
<1>3. held'[i] \subseteq Batch(i) /\ Batch(i) \subseteq Rows
  BY <1>1 DEF IInv, TypeOK, RunTypes, BatchInv, Batch, RowsOf
<1>4. \A r : Owns(i, r)' <=> r \in held'[i]
  BY <1>1, <1>3, TouchedCovers DEF Owns
<1>5. \A r : Owns(i, r) <=> r \in held[i]
  BY <1>1 DEF Owns
<1>. SUFFICES ASSUME NEW r \in Rows
              PROVE  paid'[r] + Cardinality(Owners(r))' <= loose'[r] + Token(r)'
  BY DEF Balanced
<1>6. paid[r] \in Nat /\ loose[r] \in Nat
  BY DEF IInv, TypeOK, RowTypes
<1>7. \A k \in Instances \ {i} : Owns(k, r)' <=> Owns(k, r)
  BY <1>1, <1>2, OthersKept DEF IInv
<1>. DEFINE before == IF Owns(i, r) THEN 1 ELSE 0
            after == IF Owns(i, r)' THEN 1 ELSE 0
<1>8. after + Token(r) <= before + Token(r)'
  <2>1. CASE r \in settled \/ r \in held[i] \/ r \notin Batch(i) \cap t
    BY <1>1, <1>4, <1>5, <2>1 DEF Token
  <2>2. CASE r \notin settled /\ r \notin held[i] /\ r \in Batch(i) \cap t
    BY <1>1, <1>4, <1>5, <2>2 DEF Token
  <2>. QED  BY <2>1, <2>2
<1>9. paid'[r] + after + loose[r] + Token(r) <= paid[r] + before + loose'[r] + Token(r)'
  <2>1. /\ before \in Nat /\ after \in Nat /\ Token(r) \in Nat /\ Token(r)' \in Nat
        /\ paid'[r] = paid[r] /\ loose'[r] = loose[r]
    BY <1>1 DEF Token
  <2>. HIDE DEF before, after
  <2>. QED  BY <1>6, <1>8, <2>1
<1>. QED  BY <1>7, <1>9, BalanceOfAStep

LEMMA CallBalance ==
  ASSUME IInv, IInv', Balanced, NEW i \in Instances, Call(i)
  PROVE  Balanced'
<1>. USE DEF Goto, PayBatch
<1>1. /\ pc[i] = "pay" /\ held[i] = Batch(i) /\ Batch(i) \subseteq Rows
      /\ UNCHANGED <<owner, settled>>
  BY DEF IInv, TypeOK, RunTypes, BatchInv, Batch, RowsOf, rowVars,
         Call, PayoutAccepted, PayoutRefused, PayoutTimesOut
<1>2. \A k \in Instances \ {i} :
        /\ pc'[k] = pc[k] /\ read'[k] = read[k] /\ seller'[k] = seller[k]
        /\ held'[k] = held[k] /\ left'[k] = left[k]
  BY DEF IInv, TypeOK, RunTypes, Call, PayoutAccepted, PayoutRefused, PayoutTimesOut
<1>3. \A r : Owns(i, r) <=> r \in Batch(i)
  BY <1>1 DEF Owns
<1>4. CASE PayoutAccepted(i)
  <2>1. /\ held'[i] = {} /\ loose' = loose
        /\ \A r \in Rows : paid'[r] = IF r \in Batch(i) THEN paid[r] + 1 ELSE paid[r]
    BY <1>4 DEF PayoutAccepted, IInv, TypeOK, RunTypes
  <2>2. \A r : ~Owns(i, r)'
    BY <2>1 DEF Owns
  <2>3. SUFFICES ASSUME NEW r \in Rows
                 PROVE  paid'[r] + Cardinality(Owners(r))' <= loose'[r] + Token(r)'
    BY DEF Balanced
  <2>4. paid[r] \in Nat /\ loose[r] \in Nat /\ Token(r) \in Nat /\ Token(r)' = Token(r)
    BY <1>1 DEF IInv, TypeOK, RowTypes, Token
  <2>5. \A k \in Instances \ {i} : Owns(k, r)' <=> Owns(k, r)
    BY <1>1, <1>2, OthersKept DEF IInv
  <2>6. paid'[r] + (IF Owns(i, r)' THEN 1 ELSE 0) + loose[r] + Token(r)
          <= paid[r] + (IF Owns(i, r) THEN 1 ELSE 0) + loose'[r] + Token(r)'
    BY <1>3, <2>1, <2>2, <2>4
  <2>. QED  BY <2>5, <2>6, BalanceOfAStep
<1>5. CASE PayoutRefused(i)
  <2>1. /\ UNCHANGED <<settled, paid, loose, held>>
    BY <1>5 DEF PayoutRefused, rowVars
  <2>2. \A k \in Instances, r \in Rows : Owns(k, r)' => Owns(k, r)
    BY <1>1, <1>2, <2>1, OthersKept DEF IInv, Owns
  <2>. QED  BY <2>1, <2>2, QuietBalance
<1>6. CASE PayoutTimesOut(i)
  <2>1. /\ held' = held /\ pc'[i] = "release" /\ left'[i] = Touched(Batch(i))
        /\ \A r \in Rows : /\ paid'[r] = IF r \in Batch(i) THEN paid[r] + 1 ELSE paid[r]
                           /\ loose'[r] = IF r \in Batch(i) THEN loose[r] + 1 ELSE loose[r]
    BY <1>6 DEF PayoutTimesOut, IInv, TypeOK, RunTypes
  <2>2. \A r : Owns(i, r)' => Owns(i, r)
    BY <1>1, <2>1 DEF Owns
  <2>3. SUFFICES ASSUME NEW r \in Rows
                 PROVE  paid'[r] + Cardinality(Owners(r))' <= loose'[r] + Token(r)'
    BY DEF Balanced
  <2>4. paid[r] \in Nat /\ loose[r] \in Nat /\ Token(r) \in Nat /\ Token(r)' = Token(r)
    BY <1>1 DEF IInv, TypeOK, RowTypes, Token
  <2>5. \A k \in Instances \ {i} : Owns(k, r)' <=> Owns(k, r)
    BY <1>1, <1>2, OthersKept DEF IInv
  <2>6. paid'[r] + (IF Owns(i, r)' THEN 1 ELSE 0) + loose[r] + Token(r)
          <= paid[r] + (IF Owns(i, r) THEN 1 ELSE 0) + loose'[r] + Token(r)'
    BY <2>1, <2>2, <2>4
  <2>. QED  BY <2>5, <2>6, BalanceOfAStep
<1>. QED  BY <1>4, <1>5, <1>6 DEF Call

\* The row given back is the row no longer owned, its token included; a row
\* the run had not taken makes loose grow.
LEMMA ReleaseBalance ==
  ASSUME IInv, IInv', Balanced, NEW i \in Instances, NEW t \in Tables, ReleaseTable(i, t)
  PROVE  Balanced'
<1>1. /\ pc[i] = "release" /\ t \in left[i]
      /\ settled' = settled \ (Batch(i) \cap t)
      /\ left'[i] = left[i] \ {t}
      /\ UNCHANGED <<owner, paid>>
      /\ \A r \in Rows :
           loose'[r] = IF r \in ((Batch(i) \cap t) \cap settled) \ held[i]
                       THEN loose[r] + 1 ELSE loose[r]
      /\ held'[i] \in {{}, held[i]}
      /\ pc'[i] = "release" \/ held'[i] = {}
  BY DEF ReleaseTable, Goto, IInv, TypeOK, RunTypes
<1>2. \A k \in Instances \ {i} :
        /\ pc'[k] = pc[k] /\ read'[k] = read[k] /\ seller'[k] = seller[k]
        /\ held'[k] = held[k] /\ left'[k] = left[k]
  BY DEF ReleaseTable, Goto, IInv, TypeOK, RunTypes
<1>. SUFFICES ASSUME NEW r \in Rows
              PROVE  paid'[r] + Cardinality(Owners(r))' <= loose'[r] + Token(r)'
  BY DEF Balanced
<1>3. paid[r] \in Nat /\ loose[r] \in Nat
  BY DEF IInv, TypeOK, RowTypes
<1>4. \A k \in Instances \ {i} : Owns(k, r)' <=> Owns(k, r)
  BY <1>1, <1>2, OthersKept DEF IInv
<1>5. Owns(i, r)' => Owns(i, r)
  BY <1>1 DEF Owns, IInv, TypeOK, RunTypes
<1>6. r \in t => ~Owns(i, r)'
  <2>1. \A u \in Tables : r \in t /\ r \in u => u = t
    BY RowAssumption DEF Tables
  <2>2. left[i] \subseteq Tables
    BY DEF IInv, TypeOK, RunTypes
  <2>. QED  BY <1>1, <2>1, <2>2 DEF Owns
<1>7. r \in t /\ r \in held[i] => Owns(i, r)
  BY <1>1 DEF Owns
<1>8. paid'[r] + (IF Owns(i, r)' THEN 1 ELSE 0) + loose[r] + Token(r)
        <= paid[r] + (IF Owns(i, r) THEN 1 ELSE 0) + loose'[r] + Token(r)'
  <2>1. CASE r \in Batch(i) \cap t /\ r \in settled
    <3>1. Token(r) = 1 /\ Token(r)' = 0 /\ ~Owns(i, r)'
      BY <1>1, <1>6, <2>1 DEF Token
    <3>2. (Owns(i, r) /\ loose'[r] = loose[r]) \/ loose'[r] = loose[r] + 1
      BY <1>1, <1>7, <2>1
    <3>. QED  BY <1>1, <1>3, <3>1, <3>2
  <2>2. CASE ~(r \in Batch(i) \cap t /\ r \in settled)
    <3>1. Token(r) \in Nat /\ Token(r)' = Token(r) /\ loose'[r] = loose[r]
      BY <1>1, <2>2 DEF Token
    <3>. QED  BY <1>1, <1>3, <1>5, <3>1
  <2>. QED  BY <2>1, <2>2
<1>. QED  BY <1>4, <1>8, BalanceOfAStep

LEMMA BalancedStep == IInv /\ IInv' /\ Balanced /\ [Next]_vars => Balanced'
<1>. SUFFICES ASSUME IInv, IInv', Balanced, [Next]_vars  PROVE Balanced'
  OBVIOUS
<1>. USE DEF Goto, rowVars, runVars, boundVars
<1>1. CASE UNCHANGED vars
  BY <1>1, QuietBalance DEF vars, Owns
<1>2. CASE \/ \E r \in Rows, s \in Sellers, a \in Amounts : Earn(r, s, a)
           \/ \E s \in Sellers : AddBankDetails(s)
           \/ HourBegins \/ HourEnds
  <2>1. UNCHANGED <<settled, paid, loose, held, left, pc>>
    BY <1>2 DEF Earn, AddBankDetails, HourBegins, HourEnds
  <2>. QED  BY <2>1, QuietBalance DEF Owns
<1>3. ASSUME NEW i \in Instances, Tick(i) \/ Look(i) \/ EndRun(i)  PROVE Balanced'
  <2>1. /\ UNCHANGED <<settled, paid, loose, held>> /\ held[i] = {}
        /\ \A k \in Instances \ {i} : pc'[k] = pc[k] /\ left'[k] = left[k]
    BY <1>3 DEF Tick, Look, Skip, Take, EndRun, Running, IInv, TypeOK, RunTypes, BatchInv
  <2>. QED  BY <2>1, QuietBalance DEF Owns
<1>4. ASSUME NEW i \in Instances, Stop(i)  PROVE Balanced'
  <2>1. /\ UNCHANGED <<settled, paid, loose>> /\ held'[i] = {}
        /\ \A k \in Instances \ {i} : held'[k] = held[k] /\ pc'[k] = pc[k] /\ left'[k] = left[k]
    BY <1>4 DEF Stop, IInv, TypeOK, RunTypes
  <2>. QED  BY <2>1, QuietBalance DEF Owns
<1>. QED
  BY <1>1, <1>2, <1>3, <1>4, ClaimBalance, CallBalance, ReleaseBalance
     DEF Next, Run, Claim, Release

\* However many instances run, a row is paid again only as often as it was
\* given back after a payment whose answer was late, or by a run that had not
\* taken it: two claims never come by the same row between them.
THEOREM RowsArePaidOnce == Spec => []PaidOnce
<1>1. Init => IInv /\ Balanced
  BY InitInv, BalancedInit
<1>2. IInv /\ Balanced /\ [Next]_vars => (IInv /\ Balanced)'
  BY NextInv, BalancedStep
<1>3. IInv /\ Balanced => PaidOnce
  BY BalancedIsPaidOnce DEF IInv
<1>. QED  BY <1>1, <1>2, <1>3, PTL DEF Spec

-----------------------------------------------------------------------------
(***************************************************************************)
(* What is paid is what was weighed                                        *)
(*                                                                         *)
(* A run compares the batch of a seller with the minimum, and pays it      *)
(* several statements later, while rows are earned and other instances     *)
(* claim.  The sum of the batch is the same by then.                       *)
(***************************************************************************)
Due(i) == seller[i] \in bank /\ Gross(i, seller[i]) >= MinSettlement

\* No payout below the minimum, and none without bank details to pay to.
PayoutIsDue == \A i \in Instances : pc[i] \in {"claim", "pay"} => Due(i)

Picked(S) == CHOOSE x \in S : TRUE

\* One unfolding of the sum over the subsets of D.
Adds(D, f, sum) ==
  [S \in SUBSET D |-> IF S = {} THEN 0 ELSE f[Picked(S)] + sum[S \ {Picked(S)}]]

Total(f, D) == MapThenSumSet(LAMBDA r : f[r], D)

LEMMA GrossIsTotal ==
  \A i, s : /\ Gross(i, s) = Total(amount, RowsOf(i, s))
            /\ Gross(i, s)' = Total(amount', RowsOf(i, s)')
BY DEF Gross, Total, MapThenSumSet, MapThenFoldSet

\* The sum over a set only looks at its elements.
LEMMA SameAmounts ==
  ASSUME NEW D, NEW f, NEW g, \A r \in D : f[r] = g[r]
  PROVE  Total(f, D) = Total(g, D)
<1>1. \A S \in SUBSET D : S # {} => Picked(S) \in D
  BY DEF Picked
<1>2. ASSUME NEW sum  PROVE Adds(D, f, sum) = Adds(D, g, sum)
  BY <1>1 DEF Adds
<1>3. (CHOOSE sum : sum = Adds(D, f, sum)) = (CHOOSE sum : sum = Adds(D, g, sum))
  BY <1>2, Zenon
<1>. QED  BY <1>3 DEF Total, MapThenSumSet, MapThenFoldSet, Picked, Adds

\* Rows keep their seller and their amount; a run that stays where it is with
\* its batch stays with the sum of it.
LEMMA DueKept ==
  ASSUME TypeOK, BatchInv, NEW i \in Instances, Due(i),
         read'[i] = read[i], seller'[i] = seller[i], bank \subseteq bank',
         \A r \in Rows : owner[r] # Null => owner'[r] = owner[r] /\ amount'[r] = amount[r]
  PROVE  Due(i)'
<1>1. Batch(i) \subseteq Rows /\ \A r \in Batch(i) : owner[r] # Null
  BY DEF TypeOK, RunTypes, BatchInv, Batch, RowsOf
<1>2. Batch(i)' = Batch(i)
  BY BatchKept
<1>3. \A r \in Batch(i) : amount'[r] = amount[r]
  BY <1>1
<1>4. Total(amount', Batch(i)) = Total(amount, Batch(i))
  BY <1>3, SameAmounts
<1>5. Gross(i, seller[i]) = Total(amount, Batch(i)) /\ Gross(i, seller[i])' = Total(amount', Batch(i)')
  BY GrossIsTotal DEF Batch
<1>. QED  BY <1>2, <1>4, <1>5 DEF Due

LEMMA DueStep == IInv /\ PayoutIsDue /\ [Next]_vars => PayoutIsDue'
<1>. SUFFICES ASSUME IInv, PayoutIsDue, [Next]_vars, NEW i \in Instances, pc'[i] \in {"claim", "pay"}
              PROVE  Due(i)'
  BY DEF PayoutIsDue
<1>1. /\ bank \subseteq bank'
      /\ \A r \in Rows : owner[r] # Null => owner'[r] = owner[r] /\ amount'[r] = amount[r]
  <2>1. ASSUME NEW r \in Rows, NEW s \in Sellers, NEW a \in Amounts, Earn(r, s, a)
        PROVE  bank \subseteq bank' /\ \A x \in Rows : owner[x] # Null => owner'[x] = owner[x] /\ amount'[x] = amount[x]
    BY <2>1 DEF Earn, IInv, TypeOK, RowTypes
  <2>2. CASE bank \subseteq bank' /\ UNCHANGED <<owner, amount>>
    BY <2>2
  <2>. QED
    BY <2>1, <2>2
       DEF Next, Run, Look, Claim, Release, Call, vars, rowVars, AddBankDetails, HourBegins, HourEnds,
           Tick, Skip, Take, EndRun, ClaimTable, PayoutAccepted, PayoutRefused, PayoutTimesOut,
           ReleaseTable, Stop
<1>2. CASE pc[i] \in {"claim", "pay"} /\ read'[i] = read[i] /\ seller'[i] = seller[i]
  BY <1>1, <1>2, DueKept DEF IInv, PayoutIsDue
<1>3. ASSUME NEW s \in Sellers, Take(i, s)  PROVE Due(i)'
  <2>1. /\ Gross(i, s) >= MinSettlement /\ s \in bank
        /\ seller'[i] = s /\ UNCHANGED <<owner, amount, bank, read>>
    BY <1>3 DEF Take, rowVars, IInv, TypeOK, RunTypes
  <2>2. Total(amount', RowsOf(i, s)') = Total(amount, RowsOf(i, s))
    BY <2>1 DEF RowsOf
  <2>. QED  BY <2>1, <2>2, GrossIsTotal DEF Due
<1>. QED
  <2>. USE DEF Goto, runVars
  <2>1. ASSUME NEW k \in Instances, k # i, Tick(k) \/ Run(k) \/ Call(k) \/ Stop(k)
        PROVE  pc'[i] = pc[i] /\ read'[i] = read[i] /\ seller'[i] = seller[i]
    BY <2>1 DEF Run, Look, Claim, Release, Call, Tick, Skip, Take, EndRun, ClaimTable, PayoutAccepted,
                PayoutRefused, PayoutTimesOut, ReleaseTable, Stop, IInv, TypeOK, RunTypes
  <2>2. ASSUME NEW t \in Tables, ClaimTable(i, t)
        PROVE  pc[i] = "claim" /\ read'[i] = read[i] /\ seller'[i] = seller[i]
    BY <2>2 DEF ClaimTable
  <2>3. ASSUME \/ Tick(i) \/ EndRun(i) \/ Call(i) \/ Release(i) \/ Stop(i)
               \/ \E s \in Sellers : Skip(i, s)
        PROVE  FALSE
    BY <2>3 DEF Release, Call, Tick, Skip, EndRun, PayoutAccepted,
                PayoutRefused, PayoutTimesOut, ReleaseTable, Stop, IInv, TypeOK, RunTypes
  <2>4. CASE UNCHANGED vars \/ HourBegins \/ HourEnds \/ (\E s \in Sellers : AddBankDetails(s))
             \/ \E r \in Rows, s \in Sellers, a \in Amounts : Earn(r, s, a)
    BY <1>2, <2>4 DEF vars, HourBegins, HourEnds, AddBankDetails, Earn
  <2>. QED
    BY <1>2, <1>3, <2>1, <2>2, <2>3, <2>4 DEF Next, Run, Look, Claim

\* RazorpayX is only asked to pay a seller with bank details, and for rows of
\* the minimum or more, although both were looked up before the claims.
THEOREM PayoutsAreDue == Spec => []PayoutIsDue
<1>1. Init => PayoutIsDue
  BY DEF Init, PayoutIsDue
<1>. QED  BY <1>1, DueStep, SettlementInvariant, PTL DEF Spec
=============================================================================
