---------------------------- MODULE CommentOutbox ----------------------------
(***************************************************************************)
(* What the outbox of an external pull request promises about each of its  *)
(* comments, without saying how: who asked for it, what is known of it and *)
(* what GitHub holds.  It is sent only while it is known not to be there,  *)
(* one request at a time and so many times at most; once that is in doubt  *)
(* it is never sent again, only read; and what was sent stays sent.        *)
(***************************************************************************)
EXTENDS Naturals

CONSTANTS Comment,         \* the comments that may be asked for
          Limit            \* requests that one of them may spend

VARIABLES says,            \* what is known of each: none, unsent, trying, doubt, sent
          tries,           \* requests spent
          flying,          \* requests that GitHub has neither accepted nor refused
          comments         \* comments GitHub has accepted

outbox == <<says, tries, flying, comments>>

Init ==
  /\ says = [c \in Comment |-> "none"] /\ tries = [c \in Comment |-> 0]
  /\ flying = {} /\ comments = [c \in Comment |-> 0]

Ask(c) ==
  /\ says[c] = "none" /\ says' = [says EXCEPT ![c] = "unsent"]
  /\ UNCHANGED <<tries, flying, comments>>

Send(c) ==
  /\ says[c] = "unsent" /\ tries[c] < Limit /\ \A d \in Comment : says[d] # "trying"
  /\ says' = [says EXCEPT ![c] = "trying"] /\ tries' = [tries EXCEPT ![c] = @ + 1]
  /\ flying' = flying \union {c}
  /\ UNCHANGED comments

\* GitHub accepts it; that it did may be hard to see.
Accept(c) ==
  /\ says[c] = "trying" /\ \E s \in {"sent", "doubt"} : says' = [says EXCEPT ![c] = s]
  /\ flying' = flying \ {c} /\ comments' = [comments EXCEPT ![c] = @ + 1]
  /\ UNCHANGED tries

Refuse(c) ==
  /\ says[c] = "trying" /\ says' = [says EXCEPT ![c] = "unsent"]
  /\ flying' = flying \ {c}
  /\ UNCHANGED <<tries, comments>>

\* No answer, or nobody is there to hear it: the request goes on without us.
Lose(c) ==
  /\ says[c] = "trying" /\ says' = [says EXCEPT ![c] = "doubt"]
  /\ UNCHANGED <<tries, flying, comments>>

\* A restart cannot tell a comment about to be sent again from one that was.
Forget(c) ==
  /\ says[c] = "unsent" /\ tries[c] > 0 /\ says' = [says EXCEPT ![c] = "doubt"]
  /\ UNCHANGED <<tries, flying, comments>>

Arrive(c) ==
  /\ says[c] = "doubt" /\ c \in flying
  /\ flying' = flying \ {c}
  /\ comments' = [comments EXCEPT ![c] = @ + 1] \/ UNCHANGED comments
  /\ UNCHANGED <<says, tries>>

Read(c) ==
  /\ says[c] = "doubt" /\ comments[c] = 1 /\ says' = [says EXCEPT ![c] = "sent"]
  /\ UNCHANGED <<tries, flying, comments>>

Next ==
  \E c \in Comment :
    Ask(c) \/ Send(c) \/ Accept(c) \/ Refuse(c) \/ Lose(c) \/ Forget(c) \/ Arrive(c) \/ Read(c)

Spec == Init /\ [][Next]_outbox
=============================================================================
