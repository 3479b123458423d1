----------------------------- MODULE MCIssueSync -----------------------------
EXTENDS IssueSync, TLC
CONSTANTS c1, c2, w1, w2

\* Each conversation is refreshed by one caller at a time, and both at once.
MCServes == w1 :> {c1} @@ w2 :> {c2}
==============================================================================
