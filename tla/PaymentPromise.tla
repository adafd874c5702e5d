---------------------------- MODULE PaymentPromise ----------------------------
(***************************************************************************)
(* What the payment code promises about one captured payment, whatever the *)
(* request it belongs to does meanwhile: it is claimed once, and a claimed *)
(* payment is either recorded in the ledger or flagged for a refund, never *)
(* both, never neither for good.                                           *)
(***************************************************************************)
CONSTANT Orders

VARIABLE money

States == {"open", "claimed", "recorded", "flagged"}

Init == money = [o \in Orders |-> "open"]

Claim(o) ==
  /\ money[o] = "open"
  /\ money' = [money EXCEPT ![o] = "claimed"]

Account(o) ==
  /\ money[o] = "claimed"
  /\ money' \in {[money EXCEPT ![o] = "recorded"], [money EXCEPT ![o] = "flagged"]}

Next == \E o \in Orders : Claim(o) \/ Account(o)

Safe == Init /\ [][Next]_money

Live == Safe /\ \A o \in Orders : WF_money(Account(o))
=============================================================================
