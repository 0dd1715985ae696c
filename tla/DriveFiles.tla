------------------------------ MODULE DriveFiles ------------------------------
(***************************************************************************)
(* What Drive promises about a file: nobody reads it before a verdict,     *)
(* only contents found clean enter its history, the history grows by one   *)
(* version at a time and is never rewritten, a finalization that is undone *)
(* brings back what was shown, and quarantine ends only by removal or by a *)
(* return to an earlier version.                                           *)
(***************************************************************************)
EXTENDS Naturals, Sequences

CONSTANTS Object, Content, Infected

VARIABLES
  shown,    \* shown[o]: what its readers see of file o
  history   \* history[o]: the contents of its versions, oldest first

vars == <<shown, history>>

Shown == {"absent", "waiting", "available", "quarantined", "removed"}

Init ==
  /\ shown = [o \in Object |-> "absent"]
  /\ history = [o \in Object |-> <<>>]

Moves(o, from, to) ==
  /\ shown[o] \in from
  /\ shown' = [shown EXCEPT ![o] = to]

Prepare(o) == Moves(o, {"absent"}, "waiting") /\ UNCHANGED history

\* A finalization begins on a file that has versions, and may be undone.
Hide(o) == Moves(o, {"available"}, "waiting") /\ UNCHANGED history
Return(o) ==
  /\ history[o] # <<>>
  /\ Moves(o, {"waiting"}, "available")
  /\ UNCHANGED history

Publish(o, c) ==
  /\ c \notin Infected
  /\ Moves(o, {"waiting"}, "available")
  /\ history' = [history EXCEPT ![o] = Append(@, c)]

\* Whatever the file shows: it was available when the revert looked.
Revert(o, n) ==
  /\ Moves(o, {"waiting", "available", "quarantined"}, "available")
  /\ history' = [history EXCEPT ![o] = Append(@, @[n])]

Quarantine(o) == Moves(o, {"waiting"}, "quarantined") /\ UNCHANGED history

Remove(o) ==
  /\ Moves(o, {"waiting", "available", "quarantined"}, "removed")
  /\ history' = [history EXCEPT ![o] = <<>>]

Next == \E o \in Object :
  \/ Prepare(o) \/ Hide(o) \/ Return(o) \/ Quarantine(o) \/ Remove(o)
  \/ \E c \in Content : Publish(o, c)
  \/ \E n \in DOMAIN history[o] : Revert(o, n)

Spec == Init /\ [][Next]_vars
=============================================================================
