--------------------------- MODULE BoundedQueue ---------------------------
(***************************************************************************)
(* What a clocked FIFO promises: a sequence of at most Depth items, pushed *)
(* at the back and popped at the front, both possibly in one clock.  What  *)
(* a clock does is what its input ports ask for.  The rv_tester_fifo of    *)
(* rv_tester_lib.sv is shown to implement it (RvFifo).                     *)
(***************************************************************************)
EXTENDS Naturals, Sequences

CONSTANTS Depth, Data

VARIABLES items,   \* the oldest first
          ports    \* the inputs sampled at the last clock edge

QInit == items = << >>

\* One clock: an optional pop of the oldest item and an optional push.  A
\* pop needs an item, and a push needs room before this clock's pop.
QClock(push, pop, d) ==
  /\ ports' = [reset |-> FALSE, push |-> push, pop |-> pop, d |-> d]
  /\ pop => items # << >>
  /\ push => Len(items) < Depth
  /\ LET kept == IF pop THEN Tail(items) ELSE items
     IN  items' = IF push THEN Append(kept, d) ELSE kept

QClear(push, pop, d) ==
  /\ ports' = [reset |-> TRUE, push |-> push, pop |-> pop, d |-> d]
  /\ items' = << >>

QNext == \E push, pop \in BOOLEAN, d \in Data :
           QClock(push, pop, d) \/ QClear(push, pop, d)

QSpec == QInit /\ [][QNext]_<<items, ports>>
===========================================================================
