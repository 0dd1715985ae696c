---------------------------- MODULE MailPromise ----------------------------
(***************************************************************************)
(* What the outbound queue promises about the copies of a message that its *)
(* environment relay accepts: one per review round at most, the first      *)
(* round being the sender's own request and each later one an explicit     *)
(* decision to send again; and none of a message its sender withdrew.      *)
(* Only a copy whose connection the relay closed in an orderly way, before *)
(* it answered, may be followed by another one of its round.               *)
(***************************************************************************)
EXTENDS Naturals

CONSTANT Message

VARIABLES
  copies,     \* the copies accepted: message, review round, lease that sent it,
              \* and whether the relay closed the connection instead of answering
  review,     \* review[m]: how often a person asked to send m again
  withdrawn   \* messages undone by their sender

vars == <<copies, review, withdrawn>>

Copy == [msg : Message, review : Nat, token : Nat, closed : BOOLEAN]

Init ==
  /\ copies = {}
  /\ review = [m \in Message |-> 0]
  /\ withdrawn = {}

\* A copy may arrive in an older round than the current one: a worker that lost
\* its lease is still talking to the relay when the review puts m back.
Deliver(copy) ==
  /\ copy \in Copy
  /\ copy.msg \notin withdrawn
  /\ copy.review <= review[copy.msg]
  /\ \A c \in copies : c.msg = copy.msg /\ c.review = copy.review => c.closed
  /\ copies' = copies \cup {copy}
  /\ UNCHANGED <<review, withdrawn>>

Withdraw(m) ==
  /\ \A c \in copies : c.msg # m
  /\ withdrawn' = withdrawn \cup {m}
  /\ UNCHANGED <<copies, review>>

PutBack(m) ==
  /\ m \notin withdrawn
  /\ review' = [review EXCEPT ![m] = @ + 1]
  /\ UNCHANGED <<copies, withdrawn>>

\* The new copy is looked for among those of the next state: a specification to
\* be implemented, not run.
Next ==
  \/ \E copy \in copies' : Deliver(copy)
  \/ \E m \in Message : Withdraw(m) \/ PutBack(m)

Spec == Init /\ [][Next]_vars
=============================================================================
