------------------------------ MODULE ReviewTxn -------------------------------
(***************************************************************************)
(* One opportunity in review, when requests and passes of the review sweep *)
(* cross.  Pipeline has them one at a time; here each reads the row and    *)
(* its flush writes the columns it changed later, over what is there.      *)
(*                                                                         *)
(* No row is locked.  Ages are left out: a claim may be old enough to be   *)
(* chased at any moment, and what matters is which claim was chased.       *)
(***************************************************************************)
EXTENDS Rows, Integers

CONSTANTS
    Reviewer,     \* administrators in scope
    ReviewClerk,  \* database sessions: requests and passes of the sweep
    MaxClaim      \* how many claims are explored

ASSUME ReviewTxnAssumption ==
    MaxClaim \in Nat /\ None \notin Reviewer /\ None \notin 1 .. MaxClaim

VARIABLES
    review,    \* the row of opportunities
    turn,      \* what each session read and is about to write
    claims,    \* how many claims were made; each has a time of its own
    undercut   \* a session wrote although what it had checked was gone

reviewVars == <<review, turn, claims, undercut>>

ReviewStatus == {"draft", "pending_review", "under_review", "approved",
                 "rejected", "removed", "won", "lost"}

Reviewable == {"pending_review", "under_review"}

Claim == 1 .. MaxClaim

\* claimed, reminded, escalated: the claim timed, reminded of, escalated
\* reason, loss: rejection_reason and loss_reason are set
ReviewRow == [status : ReviewStatus, reviewer : Reviewer \cup {None},
              claimed : Claim \cup {None}, reminded : Claim \cup {None},
              escalated : Claim \cup {None}, reason : BOOLEAN, loss : BOOLEAN,
              closed : BOOLEAN, deleted : BOOLEAN]

NewReview == [status |-> "draft", reviewer |-> None, claimed |-> None,
              reminded |-> None, escalated |-> None, reason |-> FALSE,
              loss |-> FALSE, closed |-> FALSE, deleted |-> FALSE]

NoTurn == [kind |-> "none", seen |-> NewReview, new |-> NewReview]

-----------------------------------------------------------------------------
(* get_opportunity_or_404, then what the request makes of the row.         *)
Reads(k, kind, statuses, new) ==
    /\ turn[k] = NoTurn
    /\ ~review.deleted /\ review.status \in statuses
    /\ turn' = [turn EXCEPT ![k] = [kind |-> kind, seen |-> review, new |-> new]]
    /\ UNCHANGED <<review, undercut>>

SubmitAgain(k) ==
    /\ Reads(k, "submit", {"draft", "rejected"},
             [review EXCEPT !.status = "pending_review", !.reason = FALSE])
    /\ UNCHANGED claims

MutantTaken(row, a, claim) ==
    [row EXCEPT !.status = "under_review", !.reviewer = a, !.claimed = claim]

(* A claim starts a clock of its own.                                      *)
Taken(row, a, claim) ==
    [row EXCEPT !.status = "under_review", !.reviewer = a, !.claimed = claim,
                !.reminded = None, !.escalated = None]

(* mark_under_review, or the claim of whoever opens the page.              *)
TakeReview(k, a) ==
    /\ claims < MaxClaim /\ claims' = claims + 1
    /\ Reads(k, "claim", {"pending_review"}, Taken(review, a, claims'))

HandBack(k) ==
    /\ Reads(k, "release", {"under_review"},
             [review EXCEPT !.status = "pending_review", !.reviewer = None,
                            !.claimed = None, !.reminded = None, !.escalated = None])
    /\ UNCHANGED claims

Approve(k, a) ==
    /\ Reads(k, "decide", Reviewable,
             [review EXCEPT !.status = "approved", !.reviewer = a])
    /\ UNCHANGED claims

Reject(k, a) ==
    /\ Reads(k, "decide", Reviewable,
             [review EXCEPT !.status = "rejected", !.reviewer = a, !.reason = TRUE])
    /\ UNCHANGED claims

Remove(k) ==
    /\ Reads(k, "remove", ReviewStatus,
             [review EXCEPT !.status = "removed", !.deleted = TRUE])
    /\ UNCHANGED claims

(* A loss has a reason, a win has none.                                    *)
CloseAs(k, outcome) ==
    /\ Reads(k, "close", {"approved"},
             [review EXCEPT !.status = outcome, !.loss = (outcome = "lost"),
                            !.closed = TRUE])
    /\ UNCHANGED claims

(* A pass of sweep_stale_reviews finds the claim due for one stage.        *)
Chase(k, stage) ==
    /\ review.claimed # None /\ review[stage] = None
    /\ Reads(k, "chase", {"under_review"},
             [review EXCEPT ![stage] = review.claimed])
    /\ UNCHANGED claims

-----------------------------------------------------------------------------
(* What a session relied on when it read is still so when it writes.  A    *)
(* claim relies on the whole row, for it clears only what it saw; a        *)
(* decision does not ask whose claim it ends, nor a removal anything.      *)
StillSo(r) ==
    CASE r.kind = "claim"  -> review = r.seen
      [] r.kind = "chase"  -> /\ review.status = "under_review"
                              /\ review.claimed = r.seen.claimed
      [] r.kind = "decide" -> review.status \in Reviewable
      [] r.kind = "remove" -> TRUE
      [] OTHER             -> review.status = r.seen.status

CommitTurn(k) ==
    LET r == turn[k] IN
    /\ r # NoTurn
    /\ review' = Overlay(review, r.seen, r.new)
    /\ undercut' = (undercut \/ ~StillSo(r))
    /\ turn' = [turn EXCEPT ![k] = NoTurn]
    /\ UNCHANGED claims

ReviewInit ==
    /\ review = NewReview
    /\ turn = [k \in ReviewClerk |-> NoTurn]
    /\ claims = 0 /\ undercut = FALSE

ReviewRequest(k) ==
    \/ SubmitAgain(k) \/ HandBack(k) \/ Remove(k)
    \/ \E a \in Reviewer : TakeReview(k, a) \/ Approve(k, a) \/ Reject(k, a)
    \/ \E outcome \in {"won", "lost"} : CloseAs(k, outcome)

ReviewSweep(k) == \E stage \in {"reminded", "escalated"} : Chase(k, stage)

ReviewNext ==
    \E k \in ReviewClerk : ReviewRequest(k) \/ ReviewSweep(k) \/ CommitTurn(k)

ReviewSpec == ReviewInit /\ [][ReviewNext]_reviewVars

-----------------------------------------------------------------------------
ReviewTypeOK ==
    /\ review \in ReviewRow
    /\ turn \in [ReviewClerk ->
          [kind : {"none", "submit", "claim", "release", "decide", "remove",
                   "close", "chase"},
           seen : ReviewRow, new : ReviewRow]]
    /\ claims \in 0 .. MaxClaim /\ undercut \in BOOLEAN

(* Whatever crosses without writing over a status it had not seen, rounds  *)
(* of rejection and release included: a review under way has a holder and  *)
(* a clock, and was chased for this claim and for no earlier one, so that  *)
(* its holder gets every stage; a reason stands beside a rejection and     *)
(* beside a loss, and nowhere else that is shown; an outcome beside what   *)
(* was closed; and what was removed is gone (opportunity_service 955-961,  *)
(* 996-1001, 1145-1153, review_sla_service 73-77).                         *)
ReviewStands ==
    undercut \/
    /\ review.status = "under_review" =>
          /\ review.reviewer # None /\ review.claimed # None
          /\ review.reminded \in {None, review.claimed}
          /\ review.escalated \in {None, review.claimed}
    /\ review.deleted <=> review.status = "removed"
    /\ review.deleted \/
          /\ review.reason <=> review.status = "rejected"
          /\ review.loss <=> review.status = "lost"
          /\ review.closed <=> review.status \in {"won", "lost"}
=============================================================================
