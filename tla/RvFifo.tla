------------------------------ MODULE RvFifo ------------------------------
(***************************************************************************)
(* rv_tester_fifo and the synchronous rv_tester_ram inside it              *)
(* (src/rv_tester_lib.sv).  One step is one rising clock edge.  The        *)
(* pointers are one bit wider than an index, so they count modulo 2*D;     *)
(* the RAM returns the contents from before the edge, so an entry that     *)
(* becomes the head in the clock that pushes it comes from a bypass        *)
(* register instead.                                                       *)
(***************************************************************************)
EXTENDS Naturals, Sequences

CONSTANTS D,      \* depth: a power of two, or the source does not elaborate
          Data,   \* what an entry may hold
          Zero    \* '0

ASSUME DepthAssumption == D \in Nat \ {0}
ASSUME ZeroAssumption == Zero \in Data

VARIABLES rptr, wptr,                \* ptr_t registers
          ram, ram_rd_data,          \* the RAM and its read register
          bypass_enable, q_bypass,   \* the bypass registers
          ports                      \* the inputs at the last clock edge

vars == <<rptr, wptr, ram, ram_rd_data, bypass_enable, q_bypass, ports>>

\* ptr_t is $clog2(D+1) bits wide: for a power of two D it wraps at 2*D.
Ptr == 0 .. 2 * D - 1
PtrAdd(p, n) == IF p + n < 2 * D THEN p + n ELSE p + n - 2 * D
PtrSub(p, r) == IF r <= p THEN p - r ELSE p + 2 * D - r

ptr_to_idx(p) == IF p < D THEN p ELSE p - D

size == PtrSub(wptr, rptr)
full == size = D
empty == size = 0
q == IF bypass_enable THEN q_bypass ELSE ram_rd_data

Bit(b) == IF b THEN 1 ELSE 0

\* RAM contents are arbitrary until written; Init is the state reset leaves.
Init ==
  /\ rptr = 0 /\ wptr = 0
  /\ ram \in [0 .. D - 1 -> Data] /\ ram_rd_data \in Data
  /\ bypass_enable = FALSE /\ q_bypass = Zero
  /\ ports = [reset |-> TRUE, push |-> FALSE, pop |-> FALSE, d |-> Zero]

\* The RAM ports are not gated by reset.
RamPorts(push, d, rptr_nxt) ==
  /\ ram' = IF push THEN [ram EXCEPT ![ptr_to_idx(wptr)] = d] ELSE ram
  /\ ram_rd_data' = ram[ptr_to_idx(rptr_nxt)]

\* MUTANT of Bypass: only a push to an empty FIFO is bypassed, not a push
\* in the clock that pops the only entry.
BypassEmptyOnly(push, d, rptr_nxt) ==
  /\ bypass_enable' = (push /\ wptr = rptr)
  /\ q_bypass' = IF push /\ wptr = rptr THEN d ELSE Zero

Bypass(push, d, rptr_nxt) ==
  /\ bypass_enable' = (push /\ wptr = rptr_nxt)
  /\ q_bypass' = IF push /\ wptr = rptr_nxt THEN d ELSE Zero

\* MUTANT of Clock: a push in the clock of a pop does not advance wptr.
ClockPopFirst(push, pop, d) ==
  LET rptr_nxt == PtrAdd(rptr, Bit(pop)) IN
  /\ ports' = [reset |-> FALSE, push |-> push, pop |-> pop, d |-> d]
  /\ push => ~full
  /\ pop => ~empty
  /\ rptr' = rptr_nxt
  /\ wptr' = PtrAdd(wptr, Bit(push /\ ~pop))
  /\ RamPorts(push, d, rptr_nxt)
  /\ Bypass(push, d, rptr_nxt)

\* A clock out of reset.  The guards are the module's two assertions, which
\* its users must respect: no push when full, no pop when empty.
Clock(push, pop, d) ==
  LET rptr_nxt == PtrAdd(rptr, Bit(pop)) IN
  /\ ports' = [reset |-> FALSE, push |-> push, pop |-> pop, d |-> d]
  /\ push => ~full
  /\ pop => ~empty
  /\ rptr' = rptr_nxt
  /\ wptr' = PtrAdd(wptr, Bit(push))
  /\ RamPorts(push, d, rptr_nxt)
  /\ Bypass(push, d, rptr_nxt)

Reset(push, pop, d) ==
  /\ ports' = [reset |-> TRUE, push |-> push, pop |-> pop, d |-> d]
  /\ rptr' = 0 /\ wptr' = 0
  /\ RamPorts(push, d, PtrAdd(rptr, Bit(pop)))
  /\ bypass_enable' = FALSE /\ q_bypass' = Zero

Next == \E push, pop \in BOOLEAN, d \in Data :
          Clock(push, pop, d) \/ Reset(push, pop, d)

Spec == Init /\ [][Next]_vars
---------------------------------------------------------------------------
TypeOK ==
  /\ rptr \in Ptr /\ wptr \in Ptr
  /\ ram \in [0 .. D - 1 -> Data] /\ ram_rd_data \in Data
  /\ bypass_enable \in BOOLEAN /\ q_bypass \in Data
  /\ ports \in [reset : BOOLEAN, push : BOOLEAN, pop : BOOLEAN, d : Data]

\* The pointers never drift apart by more than the depth, and whenever the
\* FIFO is not empty the output q shows the oldest entry of the RAM: the
\* bypass register stands in exactly when the synchronous read is stale
\* (lines 199-224).
HeadVisible ==
  /\ size <= D
  /\ ~empty => q = ram[ptr_to_idx(rptr)]

\* The entries from the oldest to the newest.
Contents == [i \in 1 .. size |-> ram[ptr_to_idx(PtrAdd(rptr, i - 1))]]

\* The FIFO implements a bounded queue: entries leave in the order they
\* entered, none is lost, duplicated or overwritten, across every wrap of
\* the pointers and in every combination of push and pop.
Queue == INSTANCE BoundedQueue WITH items <- Contents, Depth <- D
ImplementsQueue == Queue!QSpec
===========================================================================
