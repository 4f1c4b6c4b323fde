------------------------------ MODULE EventFeed ------------------------------
(***************************************************************************)
(* What the ETI client promises about the ev messages the broker takes for *)
(* it: each is handled at most once, in the order of their publication,    *)
(* and in the end unless a fault loses it on the way.                      *)
(***************************************************************************)
EXTENDS Sequences, Naturals

CONSTANT Id            \* the messages, numbered as they are published

VARIABLES
  pending,             \* on their way
  handled              \* handled, in the order of their handling

vars == <<pending, handled>>

Init == pending = {} /\ handled = <<>>

Accept(i) ==
  /\ \A j \in pending : j < i
  /\ \A k \in DOMAIN handled : handled[k] < i
  /\ pending' = pending \cup {i}
  /\ UNCHANGED handled

Handle(i) ==
  /\ i \in pending /\ \A j \in pending : i <= j
  /\ handled' = Append(handled, i)
  /\ pending' = pending \ {i}

Lose == pending' \in SUBSET pending /\ UNCHANGED handled

Next == Lose \/ \E i \in Id : Accept(i) \/ Handle(i)

Safety   == Init /\ [][Next]_vars
Liveness == WF_vars(\E i \in Id : Handle(i))
Spec     == Safety /\ Liveness
=============================================================================
