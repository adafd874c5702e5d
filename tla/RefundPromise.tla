----------------------------- MODULE RefundPromise -----------------------------
(***************************************************************************)
(* What every caller of executeRefund may rely on, whatever the refund is  *)
(* for: its row is opened once, money leaves for it only while exactly one *)
(* claim of it is held, a claim is given back only by its holder, and a    *)
(* row that was rejected, or left behind by its holder, is final.          *)
(*                                                                         *)
(* A row is "left" when its holder got an answer from Razorpay, and also   *)
(* when a restart ended the holder: then nobody pays it any more.  A row   *)
(* given back after a payment whose answer was lost may be paid again.     *)
(***************************************************************************)
CONSTANT Refunds

VARIABLES
  row,    \* "none" before the row exists
  sent    \* refunds that were paid out, once or more

States == {"none", "pending", "held", "left", "rejected"}

Init ==
  /\ row = [r \in Refunds |-> "none"]
  /\ sent = {}

Move(r, from, to) ==
  /\ row[r] = from
  /\ row' = [row EXCEPT ![r] = to]
  /\ UNCHANGED sent

Open(r) == Move(r, "none", "pending")
Reject(r) == Move(r, "pending", "rejected")
Claim(r) == Move(r, "pending", "held")
GiveBack(r) == Move(r, "held", "pending")
Abandon(r) == Move(r, "held", "left")

\* The answer arrives, or is lost and leaves the holder where it was.
Pay(r) ==
  /\ row[r] = "held"
  /\ sent' = sent \cup {r}
  /\ \E to \in {"left", "held"} : row' = [row EXCEPT ![r] = to]

Next ==
  \E r \in Refunds :
    Open(r) \/ Reject(r) \/ Claim(r) \/ GiveBack(r) \/ Abandon(r) \/ Pay(r)

Spec == Init /\ [][Next]_<<row, sent>>
=============================================================================
