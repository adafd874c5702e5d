---------------------------- MODULE WeeklySettlement ----------------------------
(***************************************************************************)
(* The weekly payout of what sellers earned with report sales and special  *)
(* requests (settlement.service.ts), started by the in-process scheduler.  *)
(*                                                                         *)
(* A run reads the unsettled rows once, and then, seller by seller, claims *)
(* them, calls RazorpayX and, when that fails, gives the claim back.  Rows *)
(* live in two tables, claimed by two statements issued together and given *)
(* back one after the other.  An instance never overlaps its own run; two  *)
(* instances of the API, as while a deployment rolls over, may overlap.    *)
(*                                                                         *)
(* The tax withheld and the rounding are left out: both are functions of   *)
(* the gross amount.  The two reads that open a run are one step.          *)
(***************************************************************************)
EXTENDS Naturals, FiniteSets, FiniteSetsExt

CONSTANTS
  Purchases,       \* ids of Purchase rows
  Payouts,         \* ids of SpecialRequestPayout rows
  Sellers,
  Instances,       \* processes of the API
  Null,
  Amounts,         \* what a row may owe its seller, in rupees
  MinSettlement,   \* 500 in the code
  MaxLate,         \* bound on the payout calls answered too late
  MaxStops,        \* bound on restarts and database errors
  MaxOverlaps      \* bound on runs begun while another instance runs

Rows == Purchases \cup Payouts
Tables == {Purchases, Payouts}

ASSUME AmountAssumption == Amounts \subseteq Nat /\ MinSettlement \in Nat
ASSUME BoundAssumption == MaxLate \in Nat /\ MaxStops \in Nat /\ MaxOverlaps \in Nat
ASSUME InstancesAssumption == IsFiniteSet(Instances)
ASSUME RowAssumption == Purchases \cap Payouts = {} /\ Null \notin Sellers

VARIABLES
  owner,     \* seller a row is owed to, Null before the row exists
  amount,    \* sellerCut or amount of a row
  settled,   \* rows with settled = true
  bank,      \* sellers with bank details on file
  hour,      \* it is Monday, between 10:00 and 11:00
  ran,       \* instances whose lastRunWeekKey is this week's
  pc,        \* where the run of an instance is, "idle" without one
  read,      \* the rows a run read
  todo,      \* sellers a run has yet to look at
  seller,    \* the seller it looks at
  left,      \* tables it has yet to claim or give back
  held,      \* rows its claims took
  paid,      \* how often RazorpayX paid a row
  loose,     \* how often a row was given back after it was paid, or by a
             \* run that had not taken it
  cut,       \* rows held by a run that was cut short
  late, stops, overlaps

rowVars == <<owner, amount, settled, bank>>
runVars == <<read, todo, seller, left, held>>
boundVars == <<late, stops, overlaps>>
vars == <<rowVars, hour, ran, pc, runVars, paid, loose, cut, boundVars>>

Init ==
  /\ owner = [r \in Rows |-> Null]
  /\ amount = [r \in Rows |-> 0]
  /\ settled = {} /\ bank = {}
  /\ hour = FALSE
  /\ ran = {}
  /\ pc = [i \in Instances |-> "idle"]
  /\ read = [i \in Instances |-> {}]
  /\ todo = [i \in Instances |-> {}]
  /\ seller = [i \in Instances |-> Null]
  /\ left = [i \in Instances |-> {}]
  /\ held = [i \in Instances |-> {}]
  /\ paid = [r \in Rows |-> 0]
  /\ loose = [r \in Rows |-> 0]
  /\ cut = {}
  /\ late = 0 /\ stops = 0 /\ overlaps = 0

Goto(i, point) == pc' = [pc EXCEPT ![i] = point]

(***************************************************************************)
(* Around the run                                                          *)
(***************************************************************************)

\* A purchase, or the payout row of an approved special request.
Earn(r, s, a) ==
  /\ owner[r] = Null
  /\ owner' = [owner EXCEPT ![r] = s]
  /\ amount' = [amount EXCEPT ![r] = a]
  /\ UNCHANGED <<settled, bank, hour, ran, pc, runVars, paid, loose, cut, boundVars>>

AddBankDetails(s) ==
  /\ s \notin bank
  /\ bank' = bank \cup {s}
  /\ UNCHANGED <<owner, amount, settled, hour, ran, pc, runVars, paid, loose, cut, boundVars>>

HourBegins ==
  /\ ~hour
  /\ hour' = TRUE
  /\ UNCHANGED <<rowVars, ran, pc, runVars, paid, loose, cut, boundVars>>

\* Next Monday has another week key.
HourEndsSameKey ==
  /\ hour
  /\ hour' = FALSE
  /\ UNCHANGED <<rowVars, ran, pc, runVars, paid, loose, cut, boundVars>>
HourEnds ==
  /\ hour
  /\ hour' = FALSE
  /\ ran' = {}
  /\ UNCHANGED <<rowVars, pc, runVars, paid, loose, cut, boundVars>>

(***************************************************************************)
(* One run                                                                 *)
(***************************************************************************)
NotSettled == Rows \ settled
Unsettled == {r \in Rows : owner[r] # Null /\ r \notin settled}
Running(i) == pc[i] # "idle"

\* weeklySettlementTick, and the reads of runWeeklySettlement.
Tick(i) ==
  /\ hour /\ i \notin ran
  /\ ~Running(i)
  /\ \/ (\A j \in Instances : ~Running(j)) /\ UNCHANGED overlaps
     \/ /\ \E j \in Instances : Running(j)
        /\ overlaps < MaxOverlaps
        /\ overlaps' = overlaps + 1
  /\ ran' = ran \cup {i}
  /\ read' = [read EXCEPT ![i] = Unsettled]
  /\ todo' = [todo EXCEPT ![i] = {owner[r] : r \in Unsettled}]
  /\ Goto(i, "loop")
  /\ UNCHANGED <<rowVars, hour, seller, left, held, paid, loose, cut, late, stops>>

RowsOf(i, s) == {r \in read[i] : owner[r] = s}
Batch(i) == RowsOf(i, seller[i])
Gross(i, s) == MapThenSumSet(LAMBDA r : amount[r], RowsOf(i, s))
Touched(rows) == {t \in Tables : rows \cap t # {}}

\* Below the threshold, or nowhere to pay to: carried forward.
Skip(i, s) ==
  /\ pc[i] = "loop" /\ s \in todo[i]
  /\ Gross(i, s) < MinSettlement \/ s \notin bank
  /\ todo' = [todo EXCEPT ![i] = @ \ {s}]
  /\ UNCHANGED <<rowVars, hour, ran, pc, read, seller, left, held, paid, loose, cut, boundVars>>

Take(i, s) ==
  /\ pc[i] = "loop" /\ s \in todo[i]
  /\ Gross(i, s) >= MinSettlement /\ s \in bank
  /\ todo' = [todo EXCEPT ![i] = @ \ {s}]
  /\ seller' = [seller EXCEPT ![i] = s]
  /\ left' = [left EXCEPT ![i] = Touched(RowsOf(i, s))]
  /\ Goto(i, "claim")
  /\ UNCHANGED <<rowVars, hour, ran, read, held, paid, loose, cut, boundVars>>

EndRun(i) ==
  /\ pc[i] = "loop" /\ todo[i] = {}
  /\ Goto(i, "idle")
  /\ read' = [read EXCEPT ![i] = {}]
  /\ UNCHANGED <<rowVars, hour, ran, todo, seller, left, held, paid, loose, cut, boundVars>>

\* After both statements the counts are compared with what was read.
ClaimWholeTable(i, t) ==
  LET more == left[i] \ {t} IN
  /\ pc[i] = "claim" /\ t \in left[i]
  /\ settled' = settled \cup (Batch(i) \cap t)
  /\ held' = [held EXCEPT ![i] = @ \cup (Batch(i) \cap t)]
  /\ left' = [left EXCEPT ![i] = more]
  /\ Goto(i, IF more # {} THEN "claim" ELSE "pay")
  /\ UNCHANGED <<owner, amount, bank, hour, ran, read, todo, seller, paid, loose, cut, boundVars>>
ClaimTable(i, t) ==
  LET taken == held[i] \cup ((Batch(i) \cap t) \ settled)
      more == left[i] \ {t}
      whole == taken = Batch(i)
  IN
  /\ pc[i] = "claim" /\ t \in left[i]
  /\ settled' = settled \cup (Batch(i) \cap t)
  /\ held' = [held EXCEPT ![i] = taken]
  /\ left' = [left EXCEPT ![i] = IF more = {} /\ ~whole THEN Touched(Batch(i)) ELSE more]
  /\ Goto(i, IF more # {} THEN "claim" ELSE IF whole THEN "pay" ELSE "release")
  /\ UNCHANGED <<owner, amount, bank, hour, ran, read, todo, seller, paid, loose, cut, boundVars>>

PayBatch(i) == paid' = [r \in Rows |-> IF r \in Batch(i) THEN paid[r] + 1 ELSE paid[r]]

\* RazorpayX answered with a payout id: the rows stay settled.
PayoutAccepted(i) ==
  /\ pc[i] = "pay"
  /\ PayBatch(i)
  /\ seller' = [seller EXCEPT ![i] = Null]
  /\ held' = [held EXCEPT ![i] = {}]
  /\ Goto(i, "loop")
  /\ UNCHANGED <<rowVars, hour, ran, read, todo, left, loose, cut, boundVars>>

PayoutRefused(i) ==
  /\ pc[i] = "pay"
  /\ left' = [left EXCEPT ![i] = Touched(Batch(i))]
  /\ Goto(i, "release")
  /\ UNCHANGED <<rowVars, hour, ran, read, todo, seller, held, paid, loose, cut, boundVars>>

\* RazorpayX paid, and its answer did not arrive in time.
PayoutTimesOut(i) ==
  /\ pc[i] = "pay" /\ late < MaxLate
  /\ late' = late + 1
  /\ PayBatch(i)
  /\ loose' = [r \in Rows |-> IF r \in Batch(i) THEN loose[r] + 1 ELSE loose[r]]
  /\ left' = [left EXCEPT ![i] = Touched(Batch(i))]
  /\ Goto(i, "release")
  /\ UNCHANGED <<rowVars, hour, ran, read, todo, seller, held, cut, stops, overlaps>>

\* The ids that were read are given back, whoever took them.
ReleaseOnlyPurchases(i, t) ==
  /\ pc[i] = "release" /\ t \in left[i]
  /\ settled' = settled \ (Batch(i) \cap Purchases)
  /\ seller' = [seller EXCEPT ![i] = Null]
  /\ held' = [held EXCEPT ![i] = {}]
  /\ left' = [left EXCEPT ![i] = {}]
  /\ Goto(i, "loop")
  /\ UNCHANGED <<owner, amount, bank, hour, ran, read, todo, paid, loose, cut, boundVars>>
ReleaseTable(i, t) ==
  LET freed == Batch(i) \cap t IN
  /\ pc[i] = "release" /\ t \in left[i]
  /\ t = Purchases \/ Purchases \notin left[i]
  /\ settled' = settled \ freed
  /\ loose' = [r \in Rows |->
                 IF r \in (freed \cap settled) \ held[i] THEN loose[r] + 1 ELSE loose[r]]
  /\ left' = [left EXCEPT ![i] = @ \ {t}]
  /\ IF left'[i] # {} THEN UNCHANGED <<pc, seller, held>>
     ELSE /\ Goto(i, "loop")
          /\ seller' = [seller EXCEPT ![i] = Null]
          /\ held' = [held EXCEPT ![i] = {}]
  /\ UNCHANGED <<owner, amount, bank, hour, ran, read, todo, paid, cut, boundVars>>

\* A restart, or a database error that ends the run; the error leaves the key
\* of the week in memory.
Stop(i) ==
  /\ Running(i)
  /\ stops < MaxStops
  /\ stops' = stops + 1
  /\ ran' \in {ran, ran \ {i}}
  /\ cut' = cut \cup held[i]
  /\ Goto(i, "idle")
  /\ read' = [read EXCEPT ![i] = {}]
  /\ todo' = [todo EXCEPT ![i] = {}]
  /\ seller' = [seller EXCEPT ![i] = Null]
  /\ left' = [left EXCEPT ![i] = {}]
  /\ held' = [held EXCEPT ![i] = {}]
  /\ UNCHANGED <<rowVars, hour, paid, loose, late, overlaps>>

Look(i) == \E s \in Sellers : Skip(i, s) \/ Take(i, s)
Claim(i) == \E t \in Tables : ClaimTable(i, t)
Release(i) == \E t \in Tables : ReleaseTable(i, t)
Run(i) == Look(i) \/ EndRun(i) \/ Claim(i) \/ Release(i)
Call(i) == PayoutAccepted(i) \/ PayoutRefused(i) \/ PayoutTimesOut(i)

Next ==
  \/ \E r \in Rows, s \in Sellers, a \in Amounts : Earn(r, s, a)
  \/ \E s \in Sellers : AddBankDetails(s)
  \/ HourBegins \/ HourEnds
  \/ \E i \in Instances : Tick(i) \/ Run(i) \/ Call(i) \/ Stop(i)

Spec == Init /\ [][Next]_vars

\* Mondays come; an instance that is up ticks every 30 minutes, so within the
\* hour; its run goes on; and RazorpayX does not refuse a batch for ever.
Fairness ==
  /\ WF_vars(HourBegins) /\ WF_vars(HourEnds)
  /\ \A i \in Instances :
       /\ SF_vars(Tick(i))
       /\ WF_vars(Run(i)) /\ WF_vars(Call(i))
       /\ SF_vars(PayoutAccepted(i))

FairSpec == Spec /\ Fairness

(***************************************************************************)
(* Properties                                                              *)
(***************************************************************************)
RowTypes ==
  /\ owner \in [Rows -> Sellers \cup {Null}]
  /\ amount \in [Rows -> Amounts \cup {0}]
  /\ settled \subseteq Rows /\ cut \subseteq Rows
  /\ bank \subseteq Sellers
  /\ paid \in [Rows -> Nat] /\ loose \in [Rows -> Nat]

RunTypes ==
  /\ hour \in BOOLEAN /\ ran \subseteq Instances
  /\ pc \in [Instances -> {"idle", "loop", "claim", "pay", "release"}]
  /\ read \in [Instances -> SUBSET Rows]
  /\ todo \in [Instances -> SUBSET Sellers]
  /\ seller \in [Instances -> Sellers \cup {Null}]
  /\ left \in [Instances -> SUBSET Tables]
  /\ held \in [Instances -> SUBSET Rows]
  /\ late \in 0..MaxLate /\ stops \in 0..MaxStops /\ overlaps \in 0..MaxOverlaps

TypeOK == RowTypes /\ RunTypes

\* "instead of silently staying 'settled' with no money moved": a settled row
\* was paid, or a run still holds it, or the run that held it was cut short.
SettledIsPaid ==
  \A r \in settled : paid[r] > 0 \/ r \in cut \/ \E i \in Instances : r \in held[i]

\* A row is paid again only as often as it was given back after a payment
\* whose answer was late, or by a run that had not taken it.
PaidOnce == \A r \in Rows : paid[r] <= 1 + loose[r]

OwedTo(s) == {r \in Unsettled : owner[r] = s}
SumOf(rows) == MapThenSumSet(LAMBDA r : amount[r], rows)
NoRun == \A i \in Instances : ~Running(i)

\* A seller who is owed the threshold, with bank details, when no run is in
\* progress is paid some of it in the end, or a cut run left it settled.
OwedIsPaid ==
  \A s \in Sellers, rows \in SUBSET Rows :
    (NoRun /\ s \in bank /\ OwedTo(s) = rows /\ SumOf(rows) >= MinSettlement)
      ~> (\E r \in rows : paid[r] > 0 \/ r \in cut)
=============================================================================
