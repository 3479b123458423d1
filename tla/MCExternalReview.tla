-------------------------- MODULE MCExternalReview --------------------------
(***************************************************************************)
(* A small pull request for TLC: two commits, one declaration.             *)
(***************************************************************************)
EXTENDS ExternalReviewOutbox

CONSTANTS h1, h2, k, none
=============================================================================
