----------------------------- MODULE BoundedLog -----------------------------
(***************************************************************************)
(* What the circular buffer promises: the last Cap items, oldest first.    *)
(* Pushing an item on a full log drops the oldest one and hands it back.   *)
(***************************************************************************)
EXTENDS Integers, Sequences

CONSTANTS Cap,    \* number of items kept
          Item,   \* what can be pushed
          None    \* handed back when nothing was dropped

VARIABLES log,      \* the items kept, oldest first
          dropped   \* what the last push handed back

vars == <<log, dropped>>

Init == log = << >> /\ dropped = None

Push(e) ==
  \/ /\ Len(log) < Cap
     /\ log' = Append(log, e)
     /\ dropped' = None
  \/ /\ Len(log) = Cap
     /\ log' = Append(Tail(log), e)
     /\ dropped' = Head(log)

Next == \E e \in Item : Push(e)

Spec == Init /\ [][Next]_vars
=============================================================================
