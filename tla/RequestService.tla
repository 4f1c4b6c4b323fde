--------------------------- MODULE RequestService ---------------------------
(***************************************************************************)
(* What the driver promises the IDL library about the requests it accepts: *)
(* each is answered exactly once, in the order they were accepted.         *)
(***************************************************************************)
EXTENDS Sequences, Naturals

CONSTANT Id            \* the requests, numbered as the library makes them

VARIABLES
  todo,                \* accepted and not yet answered
  done                 \* answered, in the order of their answers

vars == <<todo, done>>

Init == todo = {} /\ done = <<>>

Accept(i) ==
  /\ \A j \in todo : j < i
  /\ \A k \in DOMAIN done : done[k] < i
  /\ todo' = todo \cup {i}
  /\ UNCHANGED done

Answer(i) ==
  /\ i \in todo /\ \A j \in todo : i <= j
  /\ done' = Append(done, i)
  /\ todo' = todo \ {i}

Next == \E i \in Id : Accept(i) \/ Answer(i)

Safety   == Init /\ [][Next]_vars
Liveness == WF_vars(\E i \in Id : Answer(i))
Spec     == Safety /\ Liveness
=============================================================================
