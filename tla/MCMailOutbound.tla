--------------------------- MODULE MCMailOutbound ---------------------------
(* Small instances of MailOutbound for TLC. *)
EXTENDS MailOutbound, TLC

CONSTANTS m1, w1, w2, relay, esp, a1, u1

OneMessage == {m1}
SharedAddress == [m \in Message |-> a1]
OneSender == [m \in Message |-> u1]

\* Workers are interchangeable.
Workers == Permutations(Worker)
=============================================================================
