----------------------------- MODULE ClaimSettlement -----------------------------
(***************************************************************************)
(* The seven-day review window of one delivered verification request: the  *)
(* buyer accepts the report or raises a claim, or the hourly sweep lets    *)
(* the window lapse; an admin decides claims; the decision releases or     *)
(* freezes the Expert's earnings.                                          *)
(*                                                                         *)
(*   verificationSettlement.service.ts  acceptReport, createClaimWithFreeze,*)
(*                                      expireClaimWindowIfEligible        *)
(*   verificationExpiry.service.ts       the sweep                         *)
(*   admin.controller.ts                 resolveClaim, rejectRefund        *)
(*   refund.service.ts, ledger.service.ts  executeRefund and its reversal  *)
(*   payout.service.ts                   requestPayout                     *)
(*                                                                         *)
(* The first three run in a transaction that holds the row lock of the     *)
(* request: at most one of them is between its checks and its commit.      *)
(* resolveClaim and executeRefund take no lock, so they interleave with    *)
(* it and with each other.  A session s is one running handler.            *)
(*                                                                         *)
(* The module starts where VerificationPayment ends: the report is         *)
(* delivered and every earning of the request is on hold.                  *)
(***************************************************************************)
EXTENDS Naturals, FiniteSets

CONSTANTS
  Earnings,   \* ProfessionalEarning rows of the request
  Claims,     \* ids of the claims that may be raised
  Sessions,   \* slots for concurrently running handlers
  NoClaim     \* "no claim": what an idle session works on

ASSUME NoClaimAssumption == NoClaim \notin Claims

VARIABLES
  clock,      \* now, relative to claimDeadline: "before", "at" or "after" it
  accepted,   \* buyerAcceptanceStatus = ACCEPTED
  claim,      \* Claim.status, "NONE" before the row exists
  refund,     \* Refund.status of the refund linked to the claim
  minted,     \* how many Refund rows were created for the claim
  earning,    \* ProfessionalEarning.status
  reason,     \* ProfessionalEarning.releaseReason
  reversed,   \* the GROSS_PAYMENT entries of the request are REVERSED
  pc, on, seen, verdict   \* the session: next step, its claim, what it read

requestVars == <<clock, accepted>>
claimVars   == <<claim, refund, minted>>
moneyVars   == <<earning, reason, reversed>>
sessionVars == <<pc, on, seen, verdict>>
vars == <<requestVars, claimVars, moneyVars, sessionVars>>

Active == {"OPEN", "UNDER_REVIEW"}
Final  == {"RESOLVED", "REJECTED", "REFUND_PROCESSED"}
Verdicts == {"UNDER_REVIEW", "RESOLVED", "REJECTED", "REFUND_APPROVED",
             "REFUND_PROCESSED"}
ClaimStatuses == {"NONE", "OPEN"} \cup Verdicts

Held == {"EARNED", "PENDING_SETTLEMENT"}
EarningStatuses == Held \cup {"FROZEN", "AVAILABLE_FOR_PAYOUT",
                              "PAYOUT_REQUESTED", "REVERSED"}
Reasons == {"NONE", "BUYER_ACCEPTED", "CLAIM_WINDOW_EXPIRED", "CLAIM_REJECTED"}

\* The transactions that hold the row lock of the request.
LockedPoints == {"accept", "claim", "expire"}
Points == LockedPoints \cup {"idle", "resolve", "reverse"}
ClaimPoints == {"claim", "resolve", "reverse"}

Init ==
  /\ clock = "before"
  /\ accepted = FALSE
  /\ claim = [c \in Claims |-> "NONE"]
  /\ refund = [c \in Claims |-> "NONE"]
  /\ minted = [c \in Claims |-> 0]
  /\ earning = [e \in Earnings |-> "PENDING_SETTLEMENT"]
  /\ reason = [e \in Earnings |-> "NONE"]
  /\ reversed = FALSE
  /\ pc = [s \in Sessions |-> "idle"]
  /\ on = [s \in Sessions |-> NoClaim]
  /\ seen = [s \in Sessions |-> "NONE"]
  /\ verdict = [s \in Sessions |-> "NONE"]

NoLock == TRUE
LockFree == \A s \in Sessions : pc[s] \notin LockedPoints

HasActiveClaim == \E c \in Claims : claim[c] \in Active

Begin(s, point) == pc[s] = "idle" /\ pc' = [pc EXCEPT ![s] = point]

End(s) ==
  /\ pc' = [pc EXCEPT ![s] = "idle"]
  /\ on' = [on EXCEPT ![s] = NoClaim]
  /\ seen' = [seen EXCEPT ![s] = "NONE"]
  /\ verdict' = [verdict EXCEPT ![s] = "NONE"]

ReleaseToProvider(statuses, why) ==
  /\ earning' = [e \in Earnings |->
       IF earning[e] \in statuses THEN "PROCESSING" ELSE earning[e]]
  /\ reason' = [e \in Earnings |->
       IF earning[e] \in statuses THEN why ELSE reason[e]]

\* releaseEarnings: the rows in one of the statuses become available.
ReleaseFrom(statuses, why) ==
  /\ earning' = [e \in Earnings |->
       IF earning[e] \in statuses THEN "AVAILABLE_FOR_PAYOUT" ELSE earning[e]]
  /\ reason' = [e \in Earnings |->
       IF earning[e] \in statuses THEN why ELSE reason[e]]

(***************************************************************************)
(* The window                                                              *)
(***************************************************************************)
Tick ==
  /\ clock # "after"
  /\ clock' = IF clock = "before" THEN "at" ELSE "after"
  /\ UNCHANGED <<accepted, claimVars, moneyVars, sessionVars>>

\* acceptReport: lock, checks ...
Accept(s) ==
  /\ LockFree
  /\ ~accepted
  /\ clock # "after"
  /\ ~HasActiveClaim
  /\ Begin(s, "accept")
  /\ UNCHANGED <<requestVars, claimVars, moneyVars, on, seen, verdict>>

\* ... writes, commit.
CommitAccept(s) ==
  /\ pc[s] = "accept"
  /\ accepted' = TRUE
  /\ ReleaseFrom(Held, "BUYER_ACCEPTED")
  /\ End(s)
  /\ UNCHANGED <<clock, claimVars, reversed>>

\* createClaimWithFreeze
RaiseClaim(s, c) ==
  /\ LockFree
  /\ clock # "after"
  /\ ~accepted
  /\ ~HasActiveClaim
  /\ claim[c] = "NONE"
  /\ Begin(s, "claim")
  /\ on' = [on EXCEPT ![s] = c]
  /\ UNCHANGED <<requestVars, claimVars, moneyVars, seen, verdict>>

\* Only what is on hold is frozen.
FreezableEarned == {"EARNED"}
Freezable == Held

CommitClaim(s) ==
  /\ pc[s] = "claim"
  /\ ~HasActiveClaim             \* Claim_active_unique_per_request
  /\ claim' = [claim EXCEPT ![on[s]] = "OPEN"]
  /\ earning' = [e \in Earnings |->
       IF earning[e] \in Freezable THEN "FROZEN" ELSE earning[e]]
  /\ End(s)
  /\ UNCHANGED <<requestVars, refund, minted, reason, reversed>>

\* An admin re-opened another claim meanwhile: the index rejects the insert.
ClaimRefused(s) ==
  /\ pc[s] = "claim"
  /\ HasActiveClaim
  /\ End(s)
  /\ UNCHANGED <<requestVars, claimVars, moneyVars>>

\* The sweep's candidate query, then expireClaimWindowIfEligible.
LapsedOnTheDot == clock = "at"
Lapsed == clock \in {"at", "after"}

Expire(s) ==
  /\ \E e \in Earnings : earning[e] \in Held
  /\ LockFree
  /\ Lapsed
  /\ ~accepted
  /\ ~HasActiveClaim
  /\ Begin(s, "expire")
  /\ UNCHANGED <<requestVars, claimVars, moneyVars, on, seen, verdict>>

CommitExpire(s) ==
  /\ pc[s] = "expire"
  /\ ReleaseFrom(Held, "CLAIM_WINDOW_EXPIRED")
  /\ End(s)
  /\ UNCHANGED <<requestVars, claimVars, reversed>>

(***************************************************************************)
(* resolveClaim: the claim is read, the request is refused if it is final, *)
(* and a transaction writes the new status without looking again.          *)
(***************************************************************************)
ReadClaim(s, c, v) ==
  /\ claim[c] \notin Final \cup {"NONE"}
  /\ Begin(s, "resolve")
  /\ on' = [on EXCEPT ![s] = c]
  /\ seen' = [seen EXCEPT ![s] = claim[c]]
  /\ verdict' = [verdict EXCEPT ![s] = v]
  /\ UNCHANGED <<requestVars, claimVars, moneyVars>>

\* shouldCreateRefund
CreatesRefund(s) == verdict[s] = "REFUND_APPROVED" /\ seen[s] # "REFUND_APPROVED"

\* The two unique indexes the transaction can run into.
ReopensBeside(s) ==
  verdict[s] \in Active /\ \E c \in Claims \ {on[s]} : claim[c] \in Active

CommittableWithoutKeys(s) == ~ReopensBeside(s)
Committable(s) == ~ReopensBeside(s) /\ ~(CreatesRefund(s) /\ minted[on[s]] > 0)

CommitVerdict(s) ==
  /\ pc[s] = "resolve"
  /\ Committable(s)
  /\ claim' = [claim EXCEPT ![on[s]] = verdict[s]]
  /\ IF CreatesRefund(s)
     THEN /\ refund' = [refund EXCEPT ![on[s]] = "PENDING"]
          /\ minted' = [minted EXCEPT ![on[s]] = @ + 1]
     ELSE UNCHANGED <<refund, minted>>
  /\ IF verdict[s] = "REJECTED"
     THEN ReleaseFrom({"FROZEN"}, "CLAIM_REJECTED")
     ELSE UNCHANGED <<earning, reason>>
  /\ End(s)
  /\ UNCHANGED <<requestVars, reversed>>

\* 409: the transaction rolled back.
VerdictRefused(s) ==
  /\ pc[s] = "resolve"
  /\ ~Committable(s)
  /\ End(s)
  /\ UNCHANGED <<requestVars, claimVars, moneyVars>>

(***************************************************************************)
(* What happens to released earnings and to approved refunds               *)
(***************************************************************************)

\* requestPayout claims every available earning of the Expert.
RequestPayout ==
  /\ \E e \in Earnings : earning[e] = "AVAILABLE_FOR_PAYOUT"
  /\ earning' = [e \in Earnings |->
       IF earning[e] = "AVAILABLE_FOR_PAYOUT" THEN "PAYOUT_REQUESTED" ELSE earning[e]]
  /\ UNCHANGED <<requestVars, claimVars, reason, reversed, sessionVars>>

\* executeRefund claims the row before it calls Razorpay ...
ExecuteRefund(s, c) ==
  /\ refund[c] = "PENDING"
  /\ refund' = [refund EXCEPT ![c] = "PROCESSED"]
  /\ Begin(s, "reverse")
  /\ on' = [on EXCEPT ![s] = c]
  /\ UNCHANGED <<requestVars, claim, minted, moneyVars, seen, verdict>>

\* ... gives it back when the call fails ...
RefundFailed(s) ==
  /\ pc[s] = "reverse"
  /\ refund' = [refund EXCEPT ![on[s]] = "PENDING"]
  /\ End(s)
  /\ UNCHANGED <<requestVars, claim, minted, moneyVars>>

\* ... and otherwise reverses the captures of the request, oldest first: the
\* agreed fee covers both legs. An earning in a payout is left alone.
CommitReversal(s) ==
  /\ pc[s] = "reverse"
  /\ earning' = [e \in Earnings |->
       IF ~reversed /\ earning[e] # "PAYOUT_REQUESTED" THEN "REVERSED" ELSE earning[e]]
  /\ reversed' = TRUE
  /\ End(s)
  /\ UNCHANGED <<requestVars, claimVars, reason>>

RejectRefund(c) ==
  /\ refund[c] = "PENDING"
  /\ refund' = [refund EXCEPT ![c] = "REJECTED"]
  /\ UNCHANGED <<requestVars, claim, minted, moneyVars, sessionVars>>

Step(s) ==
  \/ CommitAccept(s) \/ CommitExpire(s) \/ CommitClaim(s) \/ ClaimRefused(s)
  \/ CommitVerdict(s) \/ VerdictRefused(s)
  \/ RefundFailed(s) \/ CommitReversal(s)

Next ==
  \/ Tick \/ RequestPayout
  \/ \E c \in Claims : RejectRefund(c)
  \/ \E s \in Sessions :
       \/ Accept(s) \/ Expire(s) \/ Step(s)
       \/ \E c \in Claims : \/ RaiseClaim(s, c) \/ ExecuteRefund(s, c)
                            \/ \E v \in Verdicts : ReadClaim(s, c, v)

Spec == Init /\ [][Next]_vars

\* Time passes, a started handler runs to its end, and the hourly sweep comes
\* back; the row lock is granted in the order it is asked for.
FairSpec ==
  /\ Spec
  /\ WF_vars(Tick)
  /\ \A s \in Sessions : WF_vars(Step(s))
  /\ SF_vars(\E s \in Sessions : Expire(s))

(***************************************************************************)
(* Properties                                                              *)
(***************************************************************************)
TypeOK ==
  /\ clock \in {"before", "at", "after"}
  /\ accepted \in BOOLEAN
  /\ claim \in [Claims -> ClaimStatuses]
  /\ refund \in [Claims -> {"NONE", "PENDING", "PROCESSED", "REJECTED"}]
  /\ minted \in [Claims -> Nat]
  /\ earning \in [Earnings -> EarningStatuses]
  /\ reason \in [Earnings -> Reasons]
  /\ reversed \in BOOLEAN
  /\ pc \in [Sessions -> Points]
  /\ on \in [Sessions -> Claims \cup {NoClaim}]
  /\ seen \in [Sessions -> ClaimStatuses]
  /\ verdict \in [Sessions -> ClaimStatuses]
  /\ \A s \in Sessions : pc[s] \in ClaimPoints => on[s] \in Claims

\* Once a claim was raised no earning of the request is on hold any more: a
\* window that lapses later, or a buyer who accepts later, releases nothing.
ClaimEndsHold ==
  (\E c \in Claims : claim[c] # "NONE") => \A e \in Earnings : earning[e] \notin Held

\* At most one claim of the request is being worked on, although decisions
\* take no lock and an approved claim can be put back under review.
OneActiveClaim ==
  \A c, d \in Claims : claim[c] \in Active /\ claim[d] \in Active => c = d

\* Two admins who approve the same claim create one refund.
RefundOncePerClaim == \A c \in Claims : minted[c] <= 1

\* Acceptance and a new claim exclude each other.
OpenExcludesAcceptance == accepted => \A c \in Claims : claim[c] # "OPEN"

\* What the buyer's acceptance released is never in dispute: no claim came
\* before it, not even a decided one, and none can come after it.
AcceptedIsUndisputed ==
  (\E e \in Earnings : reason[e] = "BUYER_ACCEPTED")
    => accepted /\ \A c \in Claims : claim[c] = "NONE"

\* The sweep, and the buyer's acceptance, release earnings only of a request
\* nobody ever raised a claim on.
SilenceMeansNoClaim ==
  [][ \A e \in Earnings :
        earning[e] \in Held /\ earning'[e] = "AVAILABLE_FOR_PAYOUT"
          => \A c \in Claims : claim[c] = "NONE" ]_vars

\* schema.prisma: releaseReason is "never overwritten".
ReasonWrittenOnce ==
  [][ \A e \in Earnings : reason[e] # "NONE" => reason'[e] = reason[e] ]_vars

\* No earning stays on hold for ever: the sweep gets to it if nobody else did.
HoldEnds == \A e \in Earnings : earning[e] \in Held ~> earning[e] \notin Held
=============================================================================
