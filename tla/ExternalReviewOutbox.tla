------------------------ MODULE ExternalReviewOutbox ------------------------
(***************************************************************************)
(* The review implements the outbox of comments: the refinement mapping.   *)
(* What is known of a row in the worker's hands depends on where it is.    *)
(***************************************************************************)
EXTENDS ExternalReview

Shown(state, place) ==
  IF state = "absent" THEN "none"
  ELSE IF state = "confirmed" THEN "sent"
  ELSE IF state = "uncertain" \/ (state = "processing" /\ place = "observe") THEN "doubt"
  ELSE IF state = "processing" /\ place = "sent" THEN "trying"
  ELSE "unsent"

Says(e) == Shown(eff[e].state, at)

Outbox == INSTANCE CommentOutbox WITH
  Comment <- Effect, Limit <- PostLimit,
  says <- [e \in Effect |-> Says(e)], tries <- [e \in Effect |-> eff[e].attempts],
  flying <- wire

\* Every behaviour of the review, whatever is pushed, lost, cancelled, restarted or retried, is
\* a behaviour of the outbox of comments.
ImplementsOutbox == Outbox!Spec
=============================================================================
