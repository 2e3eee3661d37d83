--------------------------- MODULE InterfaceProofs ---------------------------
(***************************************************************************)
(* Proofs about the interfaces of the testbench: the FIFO and the pulse    *)
(* between clocks of rv_tester_lib.sv, for every depth D, every set of     *)
(* entries, any set of clocks and any bound on their edges (the ratio of   *)
(* the clocks does not matter for the pulse to be taken once and masked,   *)
(* only for the acknowledge to be seen); and the retire interface of       *)
(* rvfi.cpp, for any number of records and uops.                           *)
(***************************************************************************)
EXTENDS RvFifo, ResetPulse, Rvfi, TLAPS

\* Pointer arithmetic stays in range, and an index is a RAM address.
LEMMA PtrRange ==
  ASSUME NEW p \in Ptr, NEW n \in 0 .. 2 * D - 1
  PROVE  /\ PtrAdd(p, n) \in Ptr
         /\ PtrSub(p, n) \in Ptr
         /\ ptr_to_idx(p) \in 0 .. D - 1
BY DepthAssumption DEF Ptr, PtrAdd, PtrSub, ptr_to_idx

\* Two pointers whose distance is neither 0 nor the depth have different
\* indices: a push never lands on an occupied slot.
LEMMA DistinctSlots ==
  ASSUME NEW rp \in Ptr, NEW w \in Ptr, PtrSub(w, rp) \in 1 .. D - 1
  PROVE  ptr_to_idx(w) # ptr_to_idx(rp)
BY DepthAssumption DEF Ptr, PtrSub, ptr_to_idx

FifoInv == TypeOK /\ HeadVisible

\* The state after reset satisfies the invariant.
LEMMA FifoStart == Init => FifoInv
<1> SUFFICES ASSUME Init PROVE FifoInv
  OBVIOUS
<1>1. rptr \in Ptr /\ wptr \in Ptr /\ size = 0 /\ size <= D
  BY DepthAssumption DEF Init, Ptr, size, PtrSub
<1>2. TypeOK
  BY <1>1, ZeroAssumption, Zenon DEF Init, TypeOK
<1>3. QED
  BY <1>1, <1>2 DEF FifoInv, HeadVisible, empty

\* Every clock keeps the types.
LEMMA TypeStep == TypeOK /\ [Next]_vars => TypeOK'
<1> SUFFICES ASSUME TypeOK, [Next]_vars PROVE TypeOK'
  OBVIOUS
<1>1. CASE UNCHANGED vars
  BY <1>1 DEF TypeOK, vars
<1>2. ASSUME NEW push \in BOOLEAN, NEW pop \in BOOLEAN, NEW d \in Data,
             Clock(push, pop, d) \/ Reset(push, pop, d)
      PROVE  TypeOK'
  <2>1. Bit(pop) \in 0 .. 2 * D - 1 /\ Bit(push) \in 0 .. 2 * D - 1
    BY DepthAssumption DEF Bit
  <2>2. PtrAdd(rptr, Bit(pop)) \in Ptr /\ PtrAdd(wptr, Bit(push)) \in Ptr
    BY <2>1, PtrRange DEF TypeOK
  <2>3. 0 \in Ptr /\ ptr_to_idx(PtrAdd(rptr, Bit(pop))) \in 0 .. D - 1
    BY <2>2, PtrRange, DepthAssumption DEF Ptr
  <2>4. rptr' \in Ptr /\ wptr' \in Ptr
    BY <1>2, <2>2, <2>3 DEF Clock, Reset
  <2>5. ram' \in [0 .. D - 1 -> Data] /\ ram_rd_data' \in Data
    BY <1>2, <2>3 DEF Clock, Reset, RamPorts, TypeOK
  <2>6. bypass_enable' \in BOOLEAN /\ q_bypass' \in Data
    BY <1>2, ZeroAssumption, Zenon DEF Clock, Reset, Bypass, TypeOK
  <2>7. ports' \in [reset : BOOLEAN, push : BOOLEAN, pop : BOOLEAN, d : Data]
    <3>1. PICK rp \in BOOLEAN :
            ports' = [reset |-> rp, push |-> push, pop |-> pop, d |-> d]
      BY <1>2, Zenon DEF Clock, Reset
    <3>2. QED
      BY <3>1
  <2>8. QED
    BY <2>4, <2>5, <2>6, <2>7 DEF TypeOK
<1>3. QED
  BY <1>1, <1>2 DEF Next

\* Every clock keeps the oldest entry visible.
LEMMA HeadStep == FifoInv /\ [Next]_vars => HeadVisible'
<1> SUFFICES ASSUME FifoInv, [Next]_vars PROVE HeadVisible'
  OBVIOUS
<1> USE DepthAssumption
<1>1. CASE UNCHANGED vars
  BY <1>1 DEF FifoInv, HeadVisible, size, empty, q, vars
<1>2. ASSUME NEW push \in BOOLEAN, NEW pop \in BOOLEAN, NEW d \in Data,
             Reset(push, pop, d)
      PROVE  HeadVisible'
  BY <1>2 DEF Reset, HeadVisible, size, empty, PtrSub
<1>3. ASSUME NEW push \in BOOLEAN, NEW pop \in BOOLEAN, NEW d \in Data,
             Clock(push, pop, d)
      PROVE  HeadVisible'
  <2> DEFINE rnxt == PtrAdd(rptr, Bit(pop))
  <2>1. rptr \in Ptr /\ wptr \in Ptr /\ size \in 0 .. D /\ rnxt \in Ptr
    <3>1. rptr \in Ptr /\ wptr \in Ptr /\ size <= D
      BY DEF FifoInv, TypeOK, HeadVisible
    <3>2. Bit(pop) \in 0 .. 2 * D - 1
      BY DEF Bit
    <3>3. QED
      BY <3>1, <3>2, PtrRange DEF size, Ptr
  <2>2. /\ size' = size + Bit(push) - Bit(pop)
        /\ size' \in 0 .. D
        /\ PtrSub(wptr, rnxt) = size - Bit(pop)
    BY <1>3, <2>1 DEF Clock, size, full, empty, PtrSub, PtrAdd, Ptr, Bit
  <2>3. rptr' = rnxt /\ ram_rd_data' = ram[ptr_to_idx(rnxt)]
    BY <1>3 DEF Clock, RamPorts
  <2>4. ptr_to_idx(rnxt) \in 0 .. D - 1 /\ ptr_to_idx(wptr) \in 0 .. D - 1
    BY <2>1, PtrRange, Zenon DEF Ptr
  <2>5. CASE push /\ wptr = rnxt
    <3>1. q' = d
      BY <1>3, <2>5, Zenon DEF Clock, Bypass, q
    <3>2. ram'[ptr_to_idx(rnxt)] = d
      BY <1>3, <2>4, <2>5 DEF Clock, RamPorts, FifoInv, TypeOK
    <3>3. QED
      BY <2>2, <2>3, <3>1, <3>2 DEF HeadVisible
  <2>6. CASE ~(push /\ wptr = rnxt)
    <3>1. q' = ram[ptr_to_idx(rnxt)]
      BY <1>3, <2>3, <2>6, Zenon DEF Clock, Bypass, q
    <3>2. ASSUME ~empty' PROVE ram'[ptr_to_idx(rnxt)] = ram[ptr_to_idx(rnxt)]
      <4>1. CASE ~push
        BY <1>3, <4>1 DEF Clock, RamPorts
      <4>2. CASE push
        <5>1. PtrSub(wptr, rnxt) \in 1 .. D - 1
          BY <1>3, <2>1, <2>2, <2>6, <4>2 DEF Clock, full, Bit, PtrSub, Ptr
        <5>2. ptr_to_idx(wptr) # ptr_to_idx(rnxt)
          BY <2>1, <5>1, DistinctSlots
        <5>3. QED
          BY <1>3, <2>4, <4>2, <5>2 DEF Clock, RamPorts, FifoInv, TypeOK
      <4>3. QED
        BY <4>1, <4>2
    <3>3. QED
      BY <2>2, <2>3, <3>1, <3>2 DEF HeadVisible
  <2>7. QED
    BY <2>5, <2>6
<1>4. QED
  BY <1>1, <1>2, <1>3 DEF Next

\* Type correctness of the FIFO's registers and RAM.
THEOREM TypeCorrect == Spec => []TypeOK
BY FifoStart, TypeStep, PTL DEF Spec, FifoInv

\* For every depth: the occupancy never exceeds D, and q shows the oldest
\* entry whenever there is one (the bypass of lines 199-224 is complete).
THEOREM HeadCorrect == Spec => []HeadVisible
<1>1. FifoInv /\ [Next]_vars => FifoInv'
  BY TypeStep, HeadStep DEF FifoInv
<1>2. QED
  BY FifoStart, <1>1, PTL DEF Spec, FifoInv

\* The j-th oldest of n entries is n - j pointers behind the write pointer,
\* and the pointer n past the oldest is the write pointer itself.
LEMMA Slots ==
  ASSUME NEW rp \in Ptr, NEW w \in Ptr, PtrSub(w, rp) \in 0 .. D
  PROVE  /\ PtrAdd(rp, PtrSub(w, rp)) = w
         /\ \A j \in 0 .. PtrSub(w, rp) - 1 :
              /\ PtrAdd(rp, j) \in Ptr
              /\ PtrSub(w, PtrAdd(rp, j)) = PtrSub(w, rp) - j
         /\ \A k \in 0 .. 1 : \A j \in 0 .. D - 1 :
              PtrAdd(PtrAdd(rp, k), j) = PtrAdd(rp, j + k)
BY DepthAssumption DEF Ptr, PtrAdd, PtrSub

\* Every clock of the FIFO is a step of the bounded queue.
LEMMA QueueStep == FifoInv /\ [Next]_vars => [Queue!QNext]_<<Contents, ports>>
<1> SUFFICES ASSUME FifoInv, [Next]_vars PROVE [Queue!QNext]_<<Contents, ports>>
  OBVIOUS
<1> USE DepthAssumption
<1>1. CASE UNCHANGED vars
  BY <1>1 DEF Contents, size, vars
<1>2. ASSUME NEW push \in BOOLEAN, NEW pop \in BOOLEAN, NEW d \in Data,
             Reset(push, pop, d)
      PROVE  Queue!QNext
  <2>1. size' = 0
    BY <1>2 DEF Reset, size, PtrSub
  <2>2. Contents' = << >>
    BY <2>1 DEF Contents
  <2>3. QED
    BY <1>2, <2>2, Zenon DEF Reset, Queue!QNext, Queue!QClear
<1>3. ASSUME NEW push \in BOOLEAN, NEW pop \in BOOLEAN, NEW d \in Data,
             Clock(push, pop, d)
      PROVE  Queue!QNext
  <2> DEFINE At(j) == ram[ptr_to_idx(PtrAdd(rptr, j))]
             kept == IF pop THEN Tail(Contents) ELSE Contents
             n == size - Bit(pop)
  <2>1. rptr \in Ptr /\ wptr \in Ptr /\ size \in 0 .. D
    BY PtrRange DEF FifoInv, TypeOK, HeadVisible, size, Ptr
  <2>2. /\ push => size < D
        /\ pop => size > 0
        /\ Bit(pop) \in 0 .. 1 /\ Bit(push) \in 0 .. 1
        /\ n \in 0 .. D
        /\ rptr' = PtrAdd(rptr, Bit(pop))
        /\ size' = n + Bit(push)
    BY <1>3, <2>1 DEF Clock, size, full, empty, PtrSub, PtrAdd, Ptr, Bit
  <2>3. \A j \in 0 .. D : At(j) \in Data
    <3> SUFFICES ASSUME NEW j \in 0 .. D PROVE At(j) \in Data
      OBVIOUS
    <3>1. PtrAdd(rptr, j) \in Ptr
      BY <2>1, PtrRange
    <3>2. ptr_to_idx(PtrAdd(rptr, j)) \in 0 .. D - 1
      BY <3>1, PtrRange
    <3>3. QED
      BY <3>2 DEF FifoInv, TypeOK
  <2>4. /\ Contents \in Seq(Data) /\ Len(Contents) = size
        /\ \A i \in 1 .. size : Contents[i] = At(i - 1)
    BY <2>1, <2>3 DEF Contents
  <2>5. /\ kept \in Seq(Data) /\ Len(kept) = n
        /\ \A i \in 1 .. n : kept[i] = At(i - 1 + Bit(pop))
    <3>1. CASE pop
      BY <2>1, <2>2, <2>4, <3>1 DEF Bit
    <3>2. CASE ~pop
      BY <2>1, <2>2, <2>4, <3>2 DEF Bit
    <3>3. QED
      BY <3>1, <3>2
  <2>6. \A i \in 1 .. size' :
          Contents'[i] = ram'[ptr_to_idx(PtrAdd(rptr, i - 1 + Bit(pop)))]
    BY <2>1, <2>2, Slots DEF Contents, size
  <2>7. \A i \in 1 .. n :
          ram'[ptr_to_idx(PtrAdd(rptr, i - 1 + Bit(pop)))] = At(i - 1 + Bit(pop))
    <3> SUFFICES ASSUME NEW i \in 1 .. n
                 PROVE ram'[ptr_to_idx(PtrAdd(rptr, i - 1 + Bit(pop)))]
                         = At(i - 1 + Bit(pop))
      OBVIOUS
    <3> DEFINE j == i - 1 + Bit(pop)
    <3>1. j \in 0 .. size - 1
      BY <2>1, <2>2
    <3>2. PtrAdd(rptr, j) \in Ptr /\ PtrSub(wptr, PtrAdd(rptr, j)) = size - j
      BY <2>1, <3>1, Slots DEF size
    <3>3. CASE ~push
      BY <1>3, <3>3 DEF Clock, RamPorts
    <3>4. CASE push
      <4>1. PtrSub(wptr, PtrAdd(rptr, j)) \in 1 .. D - 1
        BY <2>1, <2>2, <3>1, <3>2, <3>4
      <4>2. ptr_to_idx(wptr) # ptr_to_idx(PtrAdd(rptr, j))
        BY <2>1, <3>2, <4>1, DistinctSlots
      <4>3. ptr_to_idx(PtrAdd(rptr, j)) \in 0 .. D - 1
        BY <3>2, PtrRange DEF Ptr
      <4>4. QED
        BY <1>3, <3>4, <4>2, <4>3 DEF Clock, RamPorts, FifoInv, TypeOK
    <3>5. QED
      BY <3>3, <3>4
  <2>8. push => ram'[ptr_to_idx(PtrAdd(rptr, n + Bit(pop)))] = d
    <3>1. PtrAdd(rptr, n + Bit(pop)) = wptr
      BY <2>1, <2>2, Slots DEF size
    <3>2. ptr_to_idx(wptr) \in 0 .. D - 1
      BY <2>1, PtrRange DEF Ptr
    <3>3. QED
      BY <1>3, <3>1, <3>2 DEF Clock, RamPorts, FifoInv, TypeOK
  <2>9. Contents' = [i \in 1 .. size' |-> Contents'[i]]
    BY DEF Contents
  <2>10. CASE push
    <3>1. size' = n + 1
      BY <2>2, <2>10 DEF Bit
    <3>2. Append(kept, d) = [i \in 1 .. n + 1 |-> IF i = n + 1 THEN d ELSE kept[i]]
      BY <2>2, <2>5
    <3>3. \A i \in 1 .. n + 1 : Contents'[i] = IF i = n + 1 THEN d ELSE kept[i]
      <4>1. \A i \in 1 .. n : Contents'[i] = kept[i]
        BY <2>2, <2>5, <2>6, <2>7, <3>1
      <4>2. Contents'[n + 1] = ram'[ptr_to_idx(PtrAdd(rptr, n + 1 - 1 + Bit(pop)))]
        BY <2>2, <2>6, <3>1
      <4>3. n + 1 - 1 + Bit(pop) = n + Bit(pop)
        BY <2>2
      <4>4. Contents'[n + 1] = d
        BY <2>8, <2>10, <4>2, <4>3
      <4>5. n \in Nat
        BY <2>2
      <4> HIDE DEF n, kept
      <4>6. \A i \in 1 .. n + 1 : i = n + 1 \/ i \in 1 .. n
        BY <4>5
      <4>7. QED
        BY <4>1, <4>4, <4>6
    <3>4. Contents' = Append(kept, d)
      BY <2>9, <3>1, <3>2, <3>3, Zenon
    <3>5. Queue!QClock(push, pop, d)
      BY <1>3, <2>1, <2>2, <2>4, <2>10, <3>4 DEF Clock, Queue!QClock
    <3>6. QED
      BY <3>5 DEF Queue!QNext
  <2>11. CASE ~push
    <3>1. size' = n
      BY <2>2, <2>11 DEF Bit
    <3>2. kept = [i \in 1 .. n |-> kept[i]]
      BY <2>5
    <3>3. \A i \in 1 .. n : Contents'[i] = kept[i]
      BY <2>2, <2>5, <2>6, <2>7, <3>1, Zenon
    <3>4. Contents' = kept
      BY <2>9, <3>1, <3>2, <3>3, Zenon
    <3>5. Queue!QClock(push, pop, d)
      BY <1>3, <2>1, <2>2, <2>4, <2>11, <3>4 DEF Clock, Queue!QClock
    <3>6. QED
      BY <3>5 DEF Queue!QNext
  <2>12. QED
    BY <2>10, <2>11
<1>4. QED
  BY <1>1, <1>2, <1>3 DEF Next

\* For every depth and every set of entries rv_tester_fifo implements the
\* bounded queue: first in, first out, nothing lost or overwritten.
THEOREM FifoImplementsQueue == Spec => ImplementsQueue
<1>1. Init => Queue!QInit
  <2> SUFFICES ASSUME Init PROVE Contents = << >>
    BY DEF Queue!QInit
  <2>1. size = 0
    BY DepthAssumption DEF Init, size, PtrSub
  <2>2. QED
    BY <2>1 DEF Contents
<1>2. FifoInv /\ [Next]_vars => FifoInv'
  BY TypeStep, HeadStep DEF FifoInv
<1>3. QED
  BY FifoStart, QueueStep, <1>1, <1>2, PTL
  DEF Spec, ImplementsQueue, Queue!QSpec
-----------------------------------------------------------------------------
\* Three flops with the values x, y, z: the level they held is running out.
RunsOut(x, y, z) == (x => y) /\ (y => z)

\* The phases of a pulse, for one clock with the pending flag p, the
\* acknowledge flops a1, a2, a3 and the flops s1, s2, s3.  Quiet: nothing is on
\* its way, or the levels of the last pulse run out.
Quiet(p, a1, a2, a3, s1, s2, s3) == ~p /\ RunsOut(a1, a2, a3) /\ RunsOut(s1, s2, s3)

\* The flag is up, and the TB clock has seen nothing of it come back.
PulsesSent(p, a1, a2, a3, s1, s2, s3) == p /\ ~a1 /\ ~a2 /\ ~a3 /\ (s2 => s1) /\ ~s3

\* The TB clock has sampled the pulse before the other clock has.
Seen(p, a1, a2, a3, s1, s2, s3) == p /\ a1 /\ ~a3 /\ s1 /\ s2 /\ ~s3

\* It has even dropped the flag, and the acknowledge flops cover the gap.
Late(p, a1, a2, a3, s1, s2, s3) == ~p /\ a1 /\ a2 /\ a3 /\ s1 /\ s2 /\ ~s3

\* The other clock has taken the pulse, and the flag is still up.
Taken(p, a1, a2, a3, s1, s2, s3) == p /\ ~a3 /\ s1 /\ s2 /\ s3

Owing(p, a1, a2, a3, s1, s2, s3) ==
  \/ PulsesSent(p, a1, a2, a3, s1, s2, s3)
  \/ Seen(p, a1, a2, a3, s1, s2, s3)
  \/ Late(p, a1, a2, a3, s1, s2, s3)

Settled(p, a1, a2, a3, s1, s2, s3) ==
  \/ Quiet(p, a1, a2, a3, s1, s2, s3)
  \/ Taken(p, a1, a2, a3, s1, s2, s3)

NoPulse(p, a1, a2, a3, s1, s2, s3) == ~p /\ ~a1 /\ ~a2 /\ ~a3 /\ ~s1 /\ ~s2 /\ ~s3

\* The same of a clock of the model.
Owes(c) == Owing(pulse_pending_a[c], ack[c][1], ack[c][2], ack[c][3],
                 sync[c][1], sync[c][2], sync[c][3])
Has(c)  == Settled(pulse_pending_a[c], ack[c][1], ack[c][2], ack[c][3],
                   sync[c][1], sync[c][2], sync[c][3])
Rests(c) == NoPulse(pulse_pending_a[c], ack[c][1], ack[c][2], ack[c][3],
                 sync[c][1], sync[c][2], sync[c][3])

Types ==
  /\ pulse_a \in BOOLEAN
  /\ pulse_pending_a \in [Clks -> BOOLEAN]
  /\ ack \in [Clks -> BOOLEAN \X BOOLEAN \X BOOLEAN]
  /\ sync \in [Clks -> BOOLEAN \X BOOLEAN \X BOOLEAN]
  /\ early \in [Clks -> BOOLEAN]
  /\ owed \in [Clks -> Int]

\* A rising edge on its way is owed, and none more.
Rising(p, s1, s2, s3) == Bit(p /\ ~s1) + Bit(s1 /\ ~s2) + Bit(s2 /\ ~s3)
Covered(c) == Rising(pulse_pending_a[c], sync[c][1], sync[c][2], sync[c][3]) <= owed[c]

\* A domain is owed a pulse in the phases before it takes it and in no other,
\* and a new pulse meets flops at rest.
Phased(c) ==
  /\ \/ owed[c] = 1 /\ Owes(c)
     \/ owed[c] = 0 /\ Has(c)
  /\ pulse_a => Rests(c)

PulseInv == Types /\ \A c \in Clks : Covered(c) /\ (~early[c] => Phased(c))

\* All flops come out of reset low.
LEMMA PulseStart == PulseInit => PulseInv
<1> SUFFICES ASSUME PulseInit PROVE PulseInv
  OBVIOUS
<1>1. Types
  <2>1. <<FALSE, FALSE, FALSE>> \in BOOLEAN \X BOOLEAN \X BOOLEAN
    BY Zenon
  <2>2. /\ ack \in [Clks -> BOOLEAN \X BOOLEAN \X BOOLEAN]
        /\ sync \in [Clks -> BOOLEAN \X BOOLEAN \X BOOLEAN]
    BY <2>1, Zenon DEF PulseInit, CdcInit, Low
  <2>3. /\ pulse_a \in BOOLEAN
        /\ pulse_pending_a \in [Clks -> BOOLEAN]
        /\ early \in [Clks -> BOOLEAN]
    BY Zenon DEF PulseInit, CdcInit
  <2>4. owed \in [Clks -> Int]
    BY DEF PulseInit, CdcInit
  <2> QED
    BY <2>2, <2>3, <2>4 DEF Types
<1>2. ASSUME NEW c \in Clks
      PROVE  owed[c] = 0 /\ Has(c) /\ Rests(c) /\ Covered(c)
  BY DEF PulseInit, CdcInit, Low, Has, Settled, Quiet, RunsOut, Rests, NoPulse,
         Covered, Rising, Bit
<1> QED
  BY <1>1, <1>2 DEF PulseInv, Phased

\* The types alone.
LEMMA TypesKept == Types /\ [PulseNext]_pulseVars => Types'
<1> SUFFICES ASSUME Types, [PulseNext]_pulseVars PROVE Types'
  OBVIOUS
<1>1. ASSUME NEW tb \in BOOLEAN, NEW E \in SUBSET Clks, NEW pulse \in BOOLEAN,
             Flops(tb, E, pulse), Count(tb, E)
      PROVE  /\ pulse_pending_a' \in [Clks -> BOOLEAN]
             /\ ack' \in [Clks -> BOOLEAN \X BOOLEAN \X BOOLEAN]
             /\ sync' \in [Clks -> BOOLEAN \X BOOLEAN \X BOOLEAN]
             /\ early' \in [Clks -> BOOLEAN]
             /\ owed' \in [Clks -> Int]
  <2>1. pulse_pending_a' \in [Clks -> BOOLEAN]
    BY <1>1 DEF Types, Flops, Acked
  <2>2. ack' \in [Clks -> BOOLEAN \X BOOLEAN \X BOOLEAN]
    BY <1>1, Zenon DEF Types, Flops, pulse_b
  <2>3. sync' \in [Clks -> BOOLEAN \X BOOLEAN \X BOOLEAN]
    BY <1>1 DEF Types, Flops
  <2>4. early' \in [Clks -> BOOLEAN]
    BY <1>1, Zenon DEF Types, Count, AtRest
  <2>5. owed' \in [Clks -> Int]
    BY <1>1, SMTT(30) DEF Types, Count
  <2> QED
    BY <2>1, <2>2, <2>3, <2>4, <2>5
<1>2. CASE Tb
  BY <1>1, <1>2, ZenonT(40) DEF Types, Tb, TbAnd, TbEdge, DriveA
<1>3. ASSUME NEW c \in Clks, Clk(c) PROVE Types'
  BY <1>1, <1>3, Zenon DEF Types, Clk, ClkEdge
<1>4. CASE UNCHANGED pulseVars
  BY <1>4 DEF Types, pulseVars, cdcVars
<1> QED
  BY <1>2, <1>3, <1>4 DEF PulseNext

\* What the flops of one clock hold after a step.
LEMMA TbValues ==
  ASSUME Types, NEW E \in SUBSET Clks, Flops(TRUE, E, pulse_a), NEW c \in Clks
  PROVE  /\ pulse_pending_a'[c] = (pulse_a \/ (pulse_pending_a[c] /\ ~(ack[c][2] /\ ~ack[c][3])))
         /\ ack'[c][1] = (sync[c][2] /\ ~sync[c][3])
         /\ ack'[c][2] = ack[c][1] /\ ack'[c][3] = ack[c][2]
         /\ c \in E => /\ sync'[c][1] = pulse_pending_a[c]
                       /\ sync'[c][2] = sync[c][1] /\ sync'[c][3] = sync[c][2]
         /\ c \notin E => sync'[c] = sync[c]
  BY DEF Types, Flops, Acked, pulse_b

\* What one clock is owed after an edge of the TB clock.
LEMMA TbDebt ==
  ASSUME Types, NEW E \in SUBSET Clks, Count(TRUE, E), NEW c \in Clks
  PROVE  /\ pulse_a' /\ AtRest(c) => owed'[c] = 0
         /\ ~(pulse_a' /\ AtRest(c)) =>
              owed'[c] = owed[c] + Bit(pulse_a) - Bit(c \in E /\ sync[c][2] /\ ~sync[c][3])
         /\ ~early'[c] => (IF pulse_a' THEN AtRest(c) ELSE ~early[c])
<1>1. /\ pulse_a' /\ AtRest(c) => owed'[c] = 0
      /\ ~(pulse_a' /\ AtRest(c)) =>
              owed'[c] = owed[c] + Bit(pulse_a) - Bit(c \in E /\ sync[c][2] /\ ~sync[c][3])
  BY DEF Types, Count, pulse_b, Bit
<1>2. ~early'[c] => (IF pulse_a' THEN AtRest(c) ELSE ~early[c])
  BY Zenon DEF Types, Count
<1> QED
  BY <1>1, <1>2

\* An edge of the TB clock, with or without one of clock c.
LEMMA TbStep == PulseInv /\ Tb => PulseInv'
<1> SUFFICES ASSUME PulseInv, Tb PROVE PulseInv'
  OBVIOUS
<1>1. PICK E \in SUBSET Clks : TbAnd(E)
  BY DEF Tb
<1>2. Types /\ Types' /\ Flops(TRUE, E, pulse_a) /\ Count(TRUE, E) /\ DriveA
  BY <1>1, TypesKept, ZenonT(40) DEF PulseInv, PulseNext, TbAnd, TbEdge
<1>3. ASSUME NEW c \in Clks PROVE Covered(c)' /\ (~early'[c] => Phased(c)')
  <2> DEFINE p == pulse_pending_a[c]
             a1 == ack[c][1]
             a2 == ack[c][2]
             a3 == ack[c][3]
             s1 == sync[c][1]
             s2 == sync[c][2]
             s3 == sync[c][3]
             pp == pulse_pending_a'[c]
             b1 == ack'[c][1]
             b2 == ack'[c][2]
             b3 == ack'[c][3]
             t1 == sync'[c][1]
             t2 == sync'[c][2]
             t3 == sync'[c][3]
  <2>1. /\ p \in BOOLEAN /\ a1 \in BOOLEAN /\ a2 \in BOOLEAN /\ a3 \in BOOLEAN
        /\ s1 \in BOOLEAN /\ s2 \in BOOLEAN /\ s3 \in BOOLEAN
        /\ pp \in BOOLEAN /\ b1 \in BOOLEAN /\ b2 \in BOOLEAN /\ b3 \in BOOLEAN
        /\ t1 \in BOOLEAN /\ t2 \in BOOLEAN /\ t3 \in BOOLEAN
    BY <1>2, Zenon DEF Types
  <2>2. /\ pp = (pulse_a \/ (p /\ ~(a2 /\ ~a3)))
        /\ b1 = (s2 /\ ~s3) /\ b2 = a1 /\ b3 = a2
        /\ c \in E => t1 = p /\ t2 = s1 /\ t3 = s2
        /\ c \notin E => t1 = s1 /\ t2 = s2 /\ t3 = s3
    BY <1>2, TbValues, ZenonT(40)
  <2>3. /\ pulse_a' /\ AtRest(c) => owed'[c] = 0
        /\ ~(pulse_a' /\ AtRest(c)) =>
             owed'[c] = owed[c] + Bit(pulse_a) - Bit(c \in E /\ s2 /\ ~s3)
        /\ ~early'[c] => (IF pulse_a' THEN AtRest(c) ELSE ~early[c])
    BY <1>2, TbDebt, Zenon
  <2>4. pulse_a \in BOOLEAN /\ (pulse_a' => ~pulse_a) /\ owed[c] \in Int /\ owed'[c] \in Int
    BY <1>2, Zenon DEF Types, DriveA
  <2>5. CASE pulse_a' /\ AtRest(c)
    <3>1. NoPulse(p, a1, a2, a3, s1, s2, s3)
      BY <2>1, <2>5 DEF AtRest, Low, NoPulse
    <3>2. NoPulse(pp, b1, b2, b3, t1, t2, t3)
      BY <2>1, <2>2, <2>4, <2>5, <3>1, ZenonT(40) DEF NoPulse
    <3>3. owed'[c] = 0
      BY <2>3, <2>5
    <3>4. Rests(c)' /\ Has(c)'
      BY <2>1, <3>2, ZenonT(40) DEF Rests, Has, Settled, Quiet, RunsOut, NoPulse
    <3>5. Rising(pp, t1, t2, t3) = 0
      BY <3>2 DEF NoPulse, Rising, Bit
    <3>6. Covered(c)'
      BY <3>3, <3>5 DEF Covered
    <3> QED
      BY <3>3, <3>4, <3>6, Zenon DEF Phased
  <2>6. CASE ~(pulse_a' /\ AtRest(c))
    <3>1. owed'[c] = owed[c] + Bit(pulse_a) - Bit(c \in E /\ s2 /\ ~s3)
      BY <2>3, <2>6
    <3>2. Covered(c)'
      <4>1. Rising(p, s1, s2, s3) <= owed[c]
        BY Zenon DEF PulseInv, Covered
      <4>2. pp => p \/ pulse_a
        BY <2>1, <2>2, Zenon
      <4>3. /\ Rising(pp, s1, s2, s3) <= Rising(p, s1, s2, s3) + Bit(pulse_a)
            /\ Rising(pp, p, s1, s2) <= Rising(p, s1, s2, s3) + Bit(pulse_a) - Bit(s2 /\ ~s3)
        BY <2>1, <2>4, <4>2 DEF Rising, Bit
      <4>4. Rising(pp, t1, t2, t3) <= owed'[c]
        <5>1. CASE c \in E
          <6>1. Rising(pp, t1, t2, t3) = Rising(pp, p, s1, s2)
            BY <2>2, <5>1, Zenon
          <6>2. Rising(p, s1, s2, s3) \in Int /\ Rising(pp, p, s1, s2) \in Int
            BY DEF Rising, Bit
          <6>3. owed'[c] = owed[c] + Bit(pulse_a) - Bit(s2 /\ ~s3)
            BY <3>1, <5>1 DEF Bit
          <6> QED
            BY <2>4, <4>1, <4>3, <6>1, <6>2, <6>3 DEF Bit
        <5>2. CASE c \notin E
          <6>1. Rising(pp, t1, t2, t3) = Rising(pp, s1, s2, s3)
            BY <2>2, <5>2, Zenon
          <6>2. Rising(p, s1, s2, s3) \in Int /\ Rising(pp, s1, s2, s3) \in Int
            BY DEF Rising, Bit
          <6>3. owed'[c] = owed[c] + Bit(pulse_a)
            BY <2>4, <3>1, <5>2 DEF Bit
          <6> QED
            BY <2>4, <4>1, <4>3, <6>1, <6>2, <6>3 DEF Bit
        <5> QED
          BY <5>1, <5>2
      <4> QED
        BY <4>4, Zenon DEF Covered
    <3>3. ASSUME ~early'[c] PROVE Phased(c)'
      <4>1. ~pulse_a' /\ ~early[c]
        BY <2>3, <2>6, <3>3, Zenon
      <4>2. /\ \/ owed[c] = 1 /\ Owing(p, a1, a2, a3, s1, s2, s3)
               \/ owed[c] = 0 /\ Settled(p, a1, a2, a3, s1, s2, s3)
            /\ pulse_a => NoPulse(p, a1, a2, a3, s1, s2, s3)
        BY <4>1, Zenon DEF PulseInv, Phased, Owes, Has, Rests
      <4>3. CASE pulse_a
        <5>1. NoPulse(p, a1, a2, a3, s1, s2, s3)
          BY <4>2, <4>3, Zenon
        <5>2. pp = TRUE
          BY <2>1, <2>2, <4>3, ZenonT(40)
        <5>3. ~(s2 /\ ~s3) /\ ~Owing(p, a1, a2, a3, s1, s2, s3) /\ Owing(pp, b1, b2, b3, t1, t2, t3)
          BY <2>1, <2>2, <5>1, <5>2, ZenonT(40) DEF NoPulse, Owing, PulsesSent, Seen, Late
        <5>4. owed'[c] = 1
          BY <3>1, <4>2, <4>3, <5>3 DEF Bit
        <5> QED
          BY <4>1, <5>3, <5>4, ZenonT(40) DEF Phased, Owes
      <4>4. CASE ~pulse_a
        <5>1. pp = (p /\ ~(a2 /\ ~a3))
          BY <2>2, <4>4, ZenonT(40)
        <5>2. owed'[c] = owed[c] - (IF c \in E /\ s2 /\ ~s3 THEN 1 ELSE 0)
          BY <2>4, <3>1, <4>4 DEF Bit
        <5>3. ASSUME c \in E
              PROVE  \/ owed'[c] = 1 /\ Owing(pp, b1, b2, b3, t1, t2, t3)
                     \/ owed'[c] = 0 /\ Settled(pp, b1, b2, b3, t1, t2, t3)
          BY <2>1, <2>2, <4>2, <5>1, <5>2, <5>3 DEF
             Owing, Settled, Quiet, PulsesSent, Seen, Late, Taken, RunsOut
        <5>4. ASSUME c \notin E
              PROVE  \/ owed'[c] = 1 /\ Owing(pp, b1, b2, b3, t1, t2, t3)
                     \/ owed'[c] = 0 /\ Settled(pp, b1, b2, b3, t1, t2, t3)
          BY <2>1, <2>2, <4>2, <5>1, <5>2, <5>4 DEF
             Owing, Settled, Quiet, PulsesSent, Seen, Late, Taken, RunsOut
        <5> QED
          BY <4>1, <5>3, <5>4, ZenonT(40) DEF Phased, Owes, Has
      <4> QED
        BY <2>4, <4>3, <4>4, Zenon
    <3> QED
      BY <3>2, <3>3
  <2> QED
    BY <2>5, <2>6, Zenon
<1> QED
  BY <1>2, <1>3 DEF PulseInv

\* An edge of one clock that is not an edge of the TB clock.
LEMMA ClkStep == ASSUME PulseInv, NEW d \in Clks, Clk(d) PROVE PulseInv'
<1>1. Types /\ Types' /\ Flops(FALSE, {d}, FALSE) /\ pulse_a' = pulse_a /\ Count(FALSE, {d})
  BY TypesKept, ZenonT(40) DEF PulseInv, PulseNext, Clk, ClkEdge
<1>2. pulse_pending_a' = pulse_pending_a /\ ack' = ack
  BY <1>1, Zenon DEF Flops
<1>3. ASSUME NEW c \in Clks, c # d PROVE sync'[c] = sync[c] /\ owed'[c] = owed[c]
  BY <1>1, <1>3, SMTT(30) DEF Flops, Count, Types
<1>4. /\ sync'[d][1] = pulse_pending_a[d]
      /\ sync'[d][2] = sync[d][1] /\ sync'[d][3] = sync[d][2]
  BY <1>1, Zenon DEF Flops, Types
<1>5. owed'[d] = owed[d] - Bit(sync[d][2] /\ ~sync[d][3])
  BY <1>1, SMTT(30) DEF Count, Types, pulse_b, Bit
<1>6. ASSUME NEW c \in Clks PROVE early'[c] = early[c]
  BY <1>1, <1>6, Zenon DEF Count, Types
<1>7. /\ pulse_pending_a[d] \in BOOLEAN /\ owed[d] \in Int
      /\ ack[d][1] \in BOOLEAN /\ ack[d][2] \in BOOLEAN /\ ack[d][3] \in BOOLEAN
      /\ sync[d][1] \in BOOLEAN /\ sync[d][2] \in BOOLEAN /\ sync[d][3] \in BOOLEAN
      /\ sync'[d][1] \in BOOLEAN /\ sync'[d][2] \in BOOLEAN /\ sync'[d][3] \in BOOLEAN
  BY <1>1, Zenon DEF Types
<1>8. Covered(d)'
  <2> DEFINE p == pulse_pending_a[d]
             s1 == sync[d][1]
             s2 == sync[d][2]
             s3 == sync[d][3]
  <2>1. Rising(p, s1, s2, s3) <= owed[d]
    BY Zenon DEF PulseInv, Covered
  <2>2. Rising(p, p, s1, s2) <= Rising(p, s1, s2, s3) - Bit(s2 /\ ~s3)
    BY <1>7 DEF Rising, Bit
  <2>3. Rising(p, s1, s2, s3) \in Int /\ Rising(p, p, s1, s2) \in Int
    BY DEF Rising, Bit
  <2>4. Rising(p, p, s1, s2) <= owed'[d]
    BY <1>5, <1>7, <2>1, <2>2, <2>3 DEF Bit
  <2> QED
    BY <1>2, <1>4, <2>4, Zenon DEF Covered
<1>9. ASSUME NEW c \in Clks PROVE Rests(c) => Rests(c)'
  <2>1. CASE c = d
    BY <1>2, <1>4, <2>1, ZenonT(40) DEF Rests, NoPulse
  <2>2. CASE c # d
    BY <1>2, <1>3, <2>2, Zenon DEF Rests
  <2> QED
    BY <2>1, <2>2, Zenon
<1>10. ASSUME Phased(d) PROVE Phased(d)'
  <2>1. \/ owed[d] = 1 /\ Owes(d)
        \/ owed[d] = 0 /\ Has(d)
    BY <1>10, Zenon DEF Phased
  <2>2. \/ owed'[d] = 1 /\ Owes(d)'
        \/ owed'[d] = 0 /\ Has(d)'
    BY <1>2, <1>4, <1>5, <1>7, <2>1, SMTT(40) DEF Bit, Owes, Has,
         Owing, Settled, Quiet, PulsesSent, Seen, Late, Taken, RunsOut
  <2> QED
    BY <1>1, <1>9, <1>10, <2>2, Zenon DEF Phased
<1>11. ASSUME NEW c \in Clks, c # d PROVE Covered(c)' /\ (Phased(c) => Phased(c)')
  <2>1. Covered(c)'
    BY <1>2, <1>3, <1>11, ZenonT(40) DEF PulseInv, Covered
  <2>2. ASSUME Phased(c) PROVE Phased(c)'
    BY <1>1, <1>2, <1>3, <1>9, <1>11, <2>2, ZenonT(40) DEF Phased, Owes, Has
  <2> QED
    BY <2>1, <2>2
<1>12. ASSUME NEW c \in Clks PROVE Covered(c)' /\ (~early'[c] => Phased(c)')
  <2>1. ~early'[c] => Phased(c)
    BY <1>6, Zenon DEF PulseInv
  <2> QED
    BY <1>8, <1>10, <1>11, <2>1, Zenon
<1> QED
  BY <1>1, <1>12, Zenon DEF PulseInv

\* The phases are inductive.
LEMMA PulseStep == PulseInv /\ [PulseNext]_pulseVars => PulseInv'
<1> SUFFICES ASSUME PulseInv, [PulseNext]_pulseVars PROVE PulseInv'
  OBVIOUS
<1>1. CASE UNCHANGED pulseVars
  BY <1>1, Zenon DEF PulseInv, Types, Phased, Covered, Owes, Has, Rests, pulseVars, cdcVars
<1> QED
  BY <1>1, TbStep, ClkStep, Zenon DEF PulseNext

\* In every run of rv_tester_cdc_pulse, for every set of clocks, every ratio of
\* their frequencies and every distance between two resets: no domain sees more
\* resets than were sent, and a reset that was raised with the flops of the
\* domain at rest is taken there at most once, masked until it is.
THEOREM PulsesTaken == PulseSpec => []ResetTaken
<1>1. PulseInv => ResetTaken
  <2> SUFFICES ASSUME PulseInv, NEW c \in Clks
               PROVE  /\ owed[c] >= 0
                      /\ ~early[c] => /\ owed[c] <= 1
                                      /\ owed[c] > 0 => pulse_pending_or_asserted_a(c)
    BY Zenon DEF ResetTaken, NoneInvented, OnceAndMasked
  <2>1. owed[c] >= 0
    BY DEF PulseInv, Types, Covered, Rising, Bit
  <2>2. ASSUME ~early[c]
        PROVE  owed[c] <= 1 /\ (owed[c] > 0 => pulse_pending_or_asserted_a(c))
    <3>1. (owed[c] = 1 /\ Owes(c)) \/ owed[c] = 0
      BY <2>2, Zenon DEF PulseInv, Phased
    <3>2. CASE owed[c] = 1 /\ Owes(c)
      BY <3>2 DEF Owes, Owing, PulsesSent, Seen, Late, pulse_pending_or_asserted_a
    <3>3. CASE owed[c] = 0
      BY <3>3
    <3> QED
      BY <3>1, <3>2, <3>3
  <2> QED
    BY <2>1, <2>2
<1> QED
  BY <1>1, PulseStart, PulseStep, PTL DEF PulseSpec

-----------------------------------------------------------------------------
\* The retire interface: the members of rvfi, the core's instruction under
\* way, and the types of the rest.
RvfiMembers ==
  [in_reset_ : BOOLEAN, terminated_ : BOOLEAN,
   trap : {"none", "excp", "intr", "nmi"},
   cause : {"none", "standard", "debug", "patch", "cmode"}, trap_tag_ : Nat,
   error : BOOLEAN, patch_mode_ : BOOLEAN, patch_mode_first_tag_ : Nat,
   bridge_patch : {"NO_PATCH", "ENTER_PATCH", "EXIT_PATCH"},
   vec_cmode_ : BOOLEAN, vec_cmode_first_tag_ : Nat,
   vec_cmode_pc_addr_ : {"none", "pc", "handler"}, vec_cmode_mem_errors_ : SUBSET Nat,
   cracked_gpr_ : BOOLEAN, cracked_vrs_ : Nat, ucode_csrs_ : Nat,
   instrs_ : Nat, hw_csrs_ : Nat, in_debug_mode_ : BOOLEAN]

Underway ==
  [kind : {"idle", "uops", "intr", "excp", "trigger", "patch", "cmode"}, tag : Nat,
   pc : {"pc", "handler"}, uops : Nat, error : BOOLEAN, g : BOOLEAN, v : Nat, c : Nat,
   rec : BOOLEAN, msg : BOOLEAN]

RvfiTypes ==
  /\ r \in RvfiMembers /\ now \in Underway
  /\ ord \in Nat \ {0} /\ dbg \in BOOLEAN
  /\ instr.tag \in Nat
  /\ groups \in [instrs : Nat, csrs : Nat, sent : Nat, updates : Nat]

\* The tag that the core expects: none yet outside of exceptions, patches and
\* repeated vector instructions, and one no earlier instruction had.
TagsAhead ==
  /\ now.kind \in {"idle", "uops", "intr"} => now.tag = OwnOrder
  /\ now.kind \in {"trigger", "patch", "cmode"} => now.tag \in 1 .. ord - 1
  /\ now.kind = "excp" =>
       CASE dbg -> now.tag = OwnOrder
         [] ~dbg /\ now.rec -> now.tag \in 1 .. ord - 1
         [] OTHER -> now.tag = ord
  /\ instr.tag < ord
  /\ now.tag # OwnOrder => IF now.kind = "patch" THEN instr.tag <= now.tag ELSE instr.tag < now.tag

\* The members of rvfi that decide on the tag know what the core is doing.
TagsFollow ==
  /\ r.patch_mode_ <=> now.kind \in {"trigger", "patch"}
  /\ r.patch_mode_first_tag_ = IF now.kind \in {"trigger", "patch"} THEN now.tag ELSE 0
  /\ now.kind = "cmode" => /\ r.vec_cmode_ /\ r.vec_cmode_first_tag_ = now.tag
  /\ r.vec_cmode_ => now.kind \in {"cmode", "intr"} /\ r.vec_cmode_pc_addr_ = "pc"
  /\ now.pc = IF now.kind \in {"intr", "excp"} THEN "handler" ELSE "pc"
  /\ r.trap = "excp" => <<now.kind, r.cause>> \in {<<"excp", "standard">>,
                            <<"trigger", "patch">>, <<"cmode", "cmode">>, <<"intr", "debug">>}
  /\ now.kind = "excp" <=> now.rec \/ now.msg
  /\ now.msg => r.trap = "excp"
  /\ now.rec => r.trap_tag_ # 0 /\ (~dbg => r.trap_tag_ = now.tag)
  /\ r.in_debug_mode_ \/ (r.trap \in {"intr", "excp"} /\ r.cause = "debug") => dbg

\* What was accumulated is what the core's uops have written.
WritesFollow ==
  /\ r.cracked_gpr_ <=> now.g
  /\ r.cracked_vrs_ = now.v /\ r.ucode_csrs_ = now.c
  /\ now.uops = 0 => ~now.g /\ now.v = 0 /\ now.c = 0
  /\ now.kind = "idle" => now.uops = 0
  /\ now.error => r.error

\* The inductive invariant of the retire interface.
RvfiInv ==
  /\ RvfiTypes
  /\ ~r.terminated_ => TagsAhead /\ TagsFollow /\ WritesFollow
  /\ OneTagOwnWrites

\* The records of uops.
Messages ==
  [order : Nat \ {0}, pc : {"pc", "handler"}, last_uop : BOOLEAN, last_insn : BOOLEAN,
   trap : BOOLEAN, set : BOOLEAN, clr : BOOLEAN, dret : BOOLEAN, dbg : BOOLEAN,
   writes : Writes, error : BOOLEAN]

\* A record turns the patch mode on or off and touches nothing else.
LEMMA PatchModeKeeps ==
  ASSUME NEW rv \in RvfiMembers, NEW m \in Messages
  PROVE  LET p == PatchMode(rv, m)
         IN  /\ p \in RvfiMembers
             /\ p.in_reset_ = rv.in_reset_ /\ p.terminated_ = rv.terminated_
             /\ p.trap = rv.trap /\ p.cause = rv.cause /\ p.trap_tag_ = rv.trap_tag_
             /\ p.error = rv.error /\ p.vec_cmode_ = rv.vec_cmode_
             /\ p.vec_cmode_first_tag_ = rv.vec_cmode_first_tag_
             /\ p.vec_cmode_pc_addr_ = rv.vec_cmode_pc_addr_
             /\ p.cracked_gpr_ = rv.cracked_gpr_ /\ p.cracked_vrs_ = rv.cracked_vrs_
             /\ p.ucode_csrs_ = rv.ucode_csrs_ /\ p.instrs_ = rv.instrs_
             /\ p.hw_csrs_ = rv.hw_csrs_ /\ p.in_debug_mode_ = rv.in_debug_mode_
             /\ m.clr => ~p.patch_mode_ /\ p.patch_mode_first_tag_ = 0
             /\ ~m.clr /\ m.set =>
                  /\ p.patch_mode_
                  /\ p.patch_mode_first_tag_ = IF rv.patch_mode_first_tag_ = 0 THEN m.order
                                               ELSE rv.patch_mode_first_tag_
             /\ ~m.clr /\ ~m.set =>
                  p.patch_mode_ = rv.patch_mode_ /\ p.patch_mode_first_tag_ = rv.patch_mode_first_tag_
<1>1. CASE m.clr
  <2> DEFINE p == [rv EXCEPT !.patch_mode_ = FALSE, !.patch_mode_first_tag_ = 0,
                            !.bridge_patch = "EXIT_PATCH"]
  <2>1. PatchMode(rv, m) = p
    BY <1>1, Zenon DEF PatchMode
  <2>2. p \in RvfiMembers /\ p.patch_mode_ = FALSE /\ p.patch_mode_first_tag_ = 0
    BY Zenon DEF RvfiMembers
  <2>3. /\ p.in_reset_ = rv.in_reset_ /\ p.terminated_ = rv.terminated_
        /\ p.trap = rv.trap /\ p.cause = rv.cause /\ p.trap_tag_ = rv.trap_tag_
        /\ p.error = rv.error /\ p.vec_cmode_ = rv.vec_cmode_
        /\ p.vec_cmode_first_tag_ = rv.vec_cmode_first_tag_
        /\ p.vec_cmode_pc_addr_ = rv.vec_cmode_pc_addr_
        /\ p.cracked_gpr_ = rv.cracked_gpr_ /\ p.cracked_vrs_ = rv.cracked_vrs_
        /\ p.ucode_csrs_ = rv.ucode_csrs_ /\ p.instrs_ = rv.instrs_
        /\ p.hw_csrs_ = rv.hw_csrs_ /\ p.in_debug_mode_ = rv.in_debug_mode_
    BY DEF RvfiMembers
  <2> HIDE DEF p
  <2> QED BY <1>1, <2>1, <2>2, <2>3
<1>2. CASE ~m.clr /\ m.set
  BY <1>2, Zenon DEF PatchMode, RvfiMembers, Messages
<1>3. CASE ~m.clr /\ ~m.set
  BY <1>3 DEF PatchMode, RvfiMembers, Messages
<1> QED BY <1>1, <1>2, <1>3

\* What a uop writes is added to what is kept.
LEMMA AccumulateKeeps ==
  ASSUME NEW rv \in RvfiMembers, NEW m \in Messages
  PROVE  LET p == Accumulate(rv, m)
         IN  /\ p \in RvfiMembers
             /\ p.in_reset_ = rv.in_reset_ /\ p.terminated_ = rv.terminated_
             /\ p.trap = rv.trap /\ p.cause = rv.cause /\ p.trap_tag_ = rv.trap_tag_
             /\ p.error = rv.error /\ p.vec_cmode_ = rv.vec_cmode_
             /\ p.vec_cmode_first_tag_ = rv.vec_cmode_first_tag_
             /\ p.vec_cmode_pc_addr_ = rv.vec_cmode_pc_addr_
             /\ p.instrs_ = rv.instrs_
             /\ p.hw_csrs_ = rv.hw_csrs_ /\ p.in_debug_mode_ = rv.in_debug_mode_
             /\ p.patch_mode_ = rv.patch_mode_ /\ p.patch_mode_first_tag_ = rv.patch_mode_first_tag_
             /\ p.cracked_gpr_ <=> rv.cracked_gpr_ \/ (m.writes = "gpr" /\ ~m.last_uop /\ ~m.trap)
             /\ p.cracked_vrs_ = IF m.writes = "vr" /\ ~m.trap THEN rv.cracked_vrs_ + 1
                                 ELSE rv.cracked_vrs_
             /\ p.ucode_csrs_ = IF m.writes = "csr" /\ ~m.last_uop /\ ~m.trap
                                THEN rv.ucode_csrs_ + 1 ELSE rv.ucode_csrs_
<1>1. PICK g \in BOOLEAN : g = (rv.cracked_gpr_ \/ (m.writes = "gpr" /\ ~m.last_uop /\ ~m.trap))
  BY Zenon
<1>2. PICK E \in SUBSET Nat :
        E = IF (m.error \/ rv.error) /\ rv.vec_cmode_
            THEN rv.vec_cmode_mem_errors_ \cup {rv.vec_cmode_first_tag_} ELSE rv.vec_cmode_mem_errors_
  BY Zenon DEF RvfiMembers
<1>3. PICK n \in Nat, c \in Nat :
        /\ n = IF m.writes = "vr" /\ ~m.trap THEN rv.cracked_vrs_ + 1 ELSE rv.cracked_vrs_
        /\ c = IF m.writes = "csr" /\ ~m.last_uop /\ ~m.trap THEN rv.ucode_csrs_ + 1
               ELSE rv.ucode_csrs_
  BY DEF RvfiMembers
<1> DEFINE p == [rv EXCEPT !.cracked_gpr_ = g, !.cracked_vrs_ = n, !.ucode_csrs_ = c,
                          !.vec_cmode_mem_errors_ = E]
<1>4. Accumulate(rv, m) = p
  BY <1>1, <1>2, <1>3, Zenon DEF Accumulate
<1>5. p \in RvfiMembers /\ p.cracked_gpr_ = g /\ p.cracked_vrs_ = n /\ p.ucode_csrs_ = c
  BY Zenon DEF RvfiMembers
<1>6. /\ p.in_reset_ = rv.in_reset_ /\ p.terminated_ = rv.terminated_
      /\ p.trap = rv.trap /\ p.cause = rv.cause /\ p.trap_tag_ = rv.trap_tag_
      /\ p.error = rv.error /\ p.vec_cmode_ = rv.vec_cmode_
      /\ p.vec_cmode_first_tag_ = rv.vec_cmode_first_tag_
      /\ p.vec_cmode_pc_addr_ = rv.vec_cmode_pc_addr_
      /\ p.instrs_ = rv.instrs_
      /\ p.hw_csrs_ = rv.hw_csrs_ /\ p.in_debug_mode_ = rv.in_debug_mode_
      /\ p.patch_mode_ = rv.patch_mode_ /\ p.patch_mode_first_tag_ = rv.patch_mode_first_tag_
  BY DEF RvfiMembers
<1> HIDE DEF p
<1> QED BY <1>1, <1>3, <1>4, <1>5, <1>6, Zenon

\* A record that is not sent: its writes are kept, and the order of a trapping one.
LEMMA KeptRecord ==
  ASSUME NEW m \in Messages, NEW x, r \in RvfiMembers, ~Gated(r), Process(m, x),
         ~m.set, ~m.clr, m.trap \/ ~m.last_uop
  PROVE  /\ r' \in RvfiMembers /\ instr' = instr /\ groups' = groups
         /\ r'.in_reset_ = r.in_reset_ /\ r'.terminated_ = r.terminated_
         /\ r'.trap = r.trap /\ r'.cause = r.cause
         /\ r'.trap_tag_ = IF m.trap THEN m.order ELSE r.trap_tag_
         /\ r'.error <=> r.error \/ m.error
         /\ r'.vec_cmode_ = r.vec_cmode_
         /\ r'.vec_cmode_first_tag_ = r.vec_cmode_first_tag_
         /\ r'.vec_cmode_pc_addr_ = r.vec_cmode_pc_addr_
         /\ r'.instrs_ = r.instrs_ /\ r'.hw_csrs_ = r.hw_csrs_
         /\ r'.in_debug_mode_ = r.in_debug_mode_
         /\ r'.patch_mode_ = r.patch_mode_ /\ r'.patch_mode_first_tag_ = r.patch_mode_first_tag_
         /\ r'.cracked_gpr_ <=> r.cracked_gpr_ \/ (m.writes = "gpr" /\ ~m.trap)
         /\ r'.cracked_vrs_ = IF m.writes = "vr" /\ ~m.trap THEN r.cracked_vrs_ + 1
                              ELSE r.cracked_vrs_
         /\ r'.ucode_csrs_ = IF m.writes = "csr" /\ ~m.trap THEN r.ucode_csrs_ + 1
                             ELSE r.ucode_csrs_
<1> DEFINE rv == make_instr(r, m)
           e == [rv EXCEPT !.error = rv.error \/ m.error]
<1>1. rv = Accumulate(r, m)
  BY Zenon DEF make_instr, PatchMode
<1>2. /\ rv \in RvfiMembers
      /\ rv.in_reset_ = r.in_reset_ /\ rv.terminated_ = r.terminated_
      /\ rv.trap = r.trap /\ rv.cause = r.cause /\ rv.trap_tag_ = r.trap_tag_
      /\ rv.error = r.error /\ rv.vec_cmode_ = r.vec_cmode_
      /\ rv.vec_cmode_first_tag_ = r.vec_cmode_first_tag_
      /\ rv.vec_cmode_pc_addr_ = r.vec_cmode_pc_addr_
      /\ rv.instrs_ = r.instrs_ /\ rv.hw_csrs_ = r.hw_csrs_
      /\ rv.in_debug_mode_ = r.in_debug_mode_
      /\ rv.patch_mode_ = r.patch_mode_ /\ rv.patch_mode_first_tag_ = r.patch_mode_first_tag_
      /\ rv.cracked_gpr_ <=> r.cracked_gpr_ \/ (m.writes = "gpr" /\ ~m.last_uop /\ ~m.trap)
      /\ rv.cracked_vrs_ = IF m.writes = "vr" /\ ~m.trap THEN r.cracked_vrs_ + 1
                          ELSE r.cracked_vrs_
      /\ rv.ucode_csrs_ = IF m.writes = "csr" /\ ~m.last_uop /\ ~m.trap
                         THEN r.ucode_csrs_ + 1 ELSE r.ucode_csrs_
  <2> HIDE DEF rv
  <2> QED BY <1>1, AccumulateKeeps
<1>3. PICK f \in BOOLEAN : f = (rv.error \/ m.error)
  BY Zenon
<1>4. e = [rv EXCEPT !.error = f]
  BY <1>3, Zenon
<1>5. /\ instr' = instr /\ groups' = groups
      /\ r' = IF m.trap THEN [e EXCEPT !.trap_tag_ = m.order] ELSE e
  <2>1. CASE m.trap
    BY <2>1, Zenon DEF Process
  <2>2. CASE ~m.trap /\ ~m.last_uop
    BY <2>2, Zenon DEF Process
  <2> QED BY <2>1, <2>2
<1> HIDE DEF rv, e
<1>6. CASE m.trap
  BY <1>2, <1>3, <1>4, <1>5, <1>6, Zenon DEF RvfiMembers, Messages
<1>7. CASE ~m.trap
  BY <1>2, <1>3, <1>4, <1>5, <1>7 DEF RvfiMembers, Messages
<1> QED BY <1>6, <1>7

\* The last record of an instruction: it is sent, and what was kept for it is
\* forgotten.
LEMMA SentRecord ==
  ASSUME NEW m \in Messages, NEW x, r \in RvfiMembers, ~Gated(r), Process(m, x),
         ~m.trap, m.last_uop, ~Debugrom, groups \in [instrs : Nat, csrs : Nat, sent : Nat, updates : Nat],
         InOneGroup
  PROVE  /\ r' \in RvfiMembers
         /\ r'.in_reset_ = r.in_reset_ /\ r'.terminated_ = r.terminated_
         /\ r'.trap = "none" /\ ~r'.error /\ ~r'.vec_cmode_
         /\ r'.in_debug_mode_ =>
              (r.in_debug_mode_ \/ (r.trap \in {"intr", "excp"} /\ r.cause = "debug")) /\ ~m.dret
         /\ r'.cracked_gpr_ = FALSE /\ r'.cracked_vrs_ = 0 /\ r'.ucode_csrs_ = 0
         /\ m.clr => ~r'.patch_mode_ /\ r'.patch_mode_first_tag_ = 0
         /\ ~m.clr /\ m.set =>
              /\ r'.patch_mode_
              /\ r'.patch_mode_first_tag_ = IF r.patch_mode_first_tag_ = 0 THEN m.order
                                            ELSE r.patch_mode_first_tag_
         /\ ~m.clr /\ ~m.set =>
              r'.patch_mode_ = r.patch_mode_ /\ r'.patch_mode_first_tag_ = r.patch_mode_first_tag_
         /\ InOneGroup' /\ groups' \in [instrs : Nat, csrs : Nat, sent : Nat, updates : Nat]
         /\ instr'.tag = Tag(r, m) /\ instr'.had = x.tag
         /\ instr'.wrote = <<r.cracked_gpr_ \/ m.writes = "gpr",
                             r.cracked_vrs_ + (IF m.writes = "vr" THEN 1 ELSE 0),
                             r.ucode_csrs_ + (IF m.writes = "csr" THEN 1 ELSE 0)>>
         /\ instr'.own = x.own
         /\ r.error => instr'.error
         /\ instr'.erred = x.error /\ instr'.before = instr.tag /\ instr'.session = x.session
<1> DEFINE p == PatchMode(r, m)
           rv == make_instr(r, m)
           e == [rv EXCEPT !.error = rv.error \/ m.error]
<1>0. rv = Accumulate(p, m)
  BY DEF make_instr
<1>1. /\ p \in RvfiMembers
      /\ p.in_reset_ = r.in_reset_ /\ p.terminated_ = r.terminated_
      /\ p.trap = r.trap /\ p.cause = r.cause
      /\ p.cracked_gpr_ = r.cracked_gpr_ /\ p.cracked_vrs_ = r.cracked_vrs_
      /\ p.ucode_csrs_ = r.ucode_csrs_ /\ p.instrs_ = r.instrs_
      /\ p.hw_csrs_ = r.hw_csrs_ /\ p.in_debug_mode_ = r.in_debug_mode_
      /\ m.clr => ~p.patch_mode_ /\ p.patch_mode_first_tag_ = 0
      /\ ~m.clr /\ m.set =>
           /\ p.patch_mode_
           /\ p.patch_mode_first_tag_ = IF r.patch_mode_first_tag_ = 0 THEN m.order
                                        ELSE r.patch_mode_first_tag_
      /\ ~m.clr /\ ~m.set =>
           p.patch_mode_ = r.patch_mode_ /\ p.patch_mode_first_tag_ = r.patch_mode_first_tag_
  BY PatchModeKeeps, Zenon
<1> HIDE DEF p
<1>2. /\ rv \in RvfiMembers
      /\ rv.in_reset_ = p.in_reset_ /\ rv.terminated_ = p.terminated_
      /\ rv.trap = p.trap /\ rv.cause = p.cause
      /\ rv.instrs_ = p.instrs_ /\ rv.hw_csrs_ = p.hw_csrs_
      /\ rv.in_debug_mode_ = p.in_debug_mode_
      /\ rv.patch_mode_ = p.patch_mode_ /\ rv.patch_mode_first_tag_ = p.patch_mode_first_tag_
      /\ rv.cracked_gpr_ <=> p.cracked_gpr_ \/ (m.writes = "gpr" /\ ~m.last_uop /\ ~m.trap)
      /\ rv.cracked_vrs_ = IF m.writes = "vr" /\ ~m.trap THEN p.cracked_vrs_ + 1
                          ELSE p.cracked_vrs_
      /\ rv.ucode_csrs_ = IF m.writes = "csr" /\ ~m.last_uop /\ ~m.trap
                         THEN p.ucode_csrs_ + 1 ELSE p.ucode_csrs_
  <2> HIDE DEF rv
  <2> QED BY <1>0, <1>1, AccumulateKeeps
<1>3. PICK f \in BOOLEAN : f = (rv.error \/ m.error)
  BY Zenon
<1>4. e = [rv EXCEPT !.error = f]
  BY <1>3, Zenon
<1>5. /\ r' = Sent(e, m)
      /\ instr' = [tag |-> Tag(r, m), had |-> x.tag, excp |-> x.excp,
                   wrote |-> Appended(rv, m), own |-> x.own,
                   error |-> m.error \/ r.error \/ Tag(r, m) \in r.vec_cmode_mem_errors_,
                   erred |-> x.error, before |-> instr.tag, session |-> x.session]
      /\ groups' = [groups EXCEPT !.sent = @ + 1,
                      !.instrs = IF m.last_insn THEN @ + rv.instrs_ + 1 ELSE @,
                      !.csrs = IF m.last_insn THEN @ + rv.hw_csrs_ ELSE @]
  BY Zenon DEF Process
<1> HIDE DEF rv, e
<1>6. PICK d \in BOOLEAN :
        d = ((e.in_debug_mode_ \/ (e.trap \in {"intr", "excp"} /\ e.cause = "debug")) /\ ~(m.dret /\ ~Debugrom))
  BY Zenon
<1>7. r' = [e EXCEPT !.trap = "none", !.vec_cmode_ = FALSE, !.vec_cmode_pc_addr_ = "none",
                     !.trap_tag_ = 0, !.error = FALSE, !.vec_cmode_mem_errors_ = {},
                     !.cracked_gpr_ = FALSE, !.cracked_vrs_ = 0, !.ucode_csrs_ = 0,
                     !.in_debug_mode_ = d,
                     !.instrs_ = IF m.last_insn THEN 0 ELSE @ + 1,
                     !.hw_csrs_ = IF m.last_insn THEN 0 ELSE @]
  BY <1>5, <1>6, Zenon DEF Sent
<1>8. e \in RvfiMembers
  BY <1>2, <1>3, <1>4, Zenon DEF RvfiMembers
<1>81. /\ e.in_reset_ = r.in_reset_ /\ e.terminated_ = r.terminated_
      /\ e.trap = r.trap /\ e.cause = r.cause /\ e.in_debug_mode_ = r.in_debug_mode_
      /\ e.instrs_ = r.instrs_ /\ e.hw_csrs_ = r.hw_csrs_
      /\ e.patch_mode_ = p.patch_mode_ /\ e.patch_mode_first_tag_ = p.patch_mode_first_tag_
  BY <1>1, <1>2, <1>3, <1>4 DEF RvfiMembers
<1>82. PICK n \in Nat, c \in Nat : /\ n = IF m.last_insn THEN 0 ELSE e.instrs_ + 1
                                  /\ c = IF m.last_insn THEN 0 ELSE e.hw_csrs_
  BY <1>8 DEF RvfiMembers
<1>83. r' = [e EXCEPT !.trap = "none", !.vec_cmode_ = FALSE, !.vec_cmode_pc_addr_ = "none",
                     !.trap_tag_ = 0, !.error = FALSE, !.vec_cmode_mem_errors_ = {},
                     !.cracked_gpr_ = FALSE, !.cracked_vrs_ = 0, !.ucode_csrs_ = 0,
                     !.in_debug_mode_ = d, !.instrs_ = n, !.hw_csrs_ = c]
  BY <1>7, <1>82, Zenon
<1> DEFINE e1 == [e EXCEPT !.trap = "none", !.vec_cmode_ = FALSE, !.vec_cmode_pc_addr_ = "none",
                           !.trap_tag_ = 0, !.error = FALSE, !.vec_cmode_mem_errors_ = {}]
<1>84. r' = [e1 EXCEPT !.cracked_gpr_ = FALSE, !.cracked_vrs_ = 0, !.ucode_csrs_ = 0,
                       !.in_debug_mode_ = d, !.instrs_ = n, !.hw_csrs_ = c]
  BY <1>83
<1>85. e1 \in RvfiMembers /\ e1.trap = "none" /\ e1.error = FALSE /\ e1.vec_cmode_ = FALSE
  BY <1>8, Zenon DEF RvfiMembers
<1>86. /\ e1.in_reset_ = e.in_reset_ /\ e1.terminated_ = e.terminated_
       /\ e1.patch_mode_ = e.patch_mode_ /\ e1.patch_mode_first_tag_ = e.patch_mode_first_tag_
  BY <1>8 DEF RvfiMembers
<1> HIDE DEF e1
<1>87. r' \in RvfiMembers
  BY <1>84, <1>85, Zenon DEF RvfiMembers
<1>88. /\ r'.trap = e1.trap /\ r'.error = e1.error /\ r'.vec_cmode_ = e1.vec_cmode_
       /\ r'.in_reset_ = e1.in_reset_ /\ r'.terminated_ = e1.terminated_
       /\ r'.patch_mode_ = e1.patch_mode_ /\ r'.patch_mode_first_tag_ = e1.patch_mode_first_tag_
  BY <1>84, <1>85 DEF RvfiMembers
<1>89. /\ r'.cracked_gpr_ = FALSE /\ r'.cracked_vrs_ = 0 /\ r'.ucode_csrs_ = 0
       /\ r'.in_debug_mode_ = d /\ r'.instrs_ = n /\ r'.hw_csrs_ = c
  BY <1>84, <1>85 DEF RvfiMembers
<1>9. /\ r' \in RvfiMembers
      /\ r'.in_reset_ = e.in_reset_ /\ r'.terminated_ = e.terminated_
      /\ r'.trap = "none" /\ r'.error = FALSE /\ r'.vec_cmode_ = FALSE
      /\ r'.in_debug_mode_ = d
      /\ r'.cracked_gpr_ = FALSE /\ r'.cracked_vrs_ = 0 /\ r'.ucode_csrs_ = 0
      /\ r'.patch_mode_ = e.patch_mode_ /\ r'.patch_mode_first_tag_ = e.patch_mode_first_tag_
      /\ r'.instrs_ = (IF m.last_insn THEN 0 ELSE e.instrs_ + 1)
      /\ r'.hw_csrs_ = IF m.last_insn THEN 0 ELSE e.hw_csrs_
  BY <1>82, <1>85, <1>86, <1>87, <1>88, <1>89
<1>10. InOneGroup' /\ groups' \in [instrs : Nat, csrs : Nat, sent : Nat, updates : Nat]
  <2>1. rv.instrs_ = r.instrs_ /\ rv.hw_csrs_ = r.hw_csrs_ /\ r.instrs_ \in Nat /\ r.hw_csrs_ \in Nat
    BY <1>1, <1>2 DEF RvfiMembers
  <2>2. PICK i \in Nat, c2 \in Nat :
          /\ i = IF m.last_insn THEN groups.instrs + rv.instrs_ + 1 ELSE groups.instrs
          /\ c2 = IF m.last_insn THEN groups.csrs + rv.hw_csrs_ ELSE groups.csrs
    BY <2>1
  <2>3. PICK u \in Nat : u = groups.sent + 1
    OBVIOUS
  <2>31. groups' = [groups EXCEPT !.sent = u, !.instrs = i, !.csrs = c2]
    BY <1>5, <2>2, <2>3, Zenon
  <2>4. /\ groups' \in [instrs : Nat, csrs : Nat, sent : Nat, updates : Nat]
        /\ groups'.sent = groups.sent + 1 /\ groups'.instrs = i /\ groups'.csrs = c2
        /\ groups'.updates = groups.updates
    BY <2>3, <2>31, Zenon
  <2>5. InOneGroup'
    BY <1>81, <1>9, <2>1, <2>2, <2>4 DEF InOneGroup
  <2> QED BY <2>4, <2>5
<1>11. Appended(rv, m) = <<r.cracked_gpr_ \/ m.writes = "gpr",
                          r.cracked_vrs_ + (IF m.writes = "vr" THEN 1 ELSE 0),
                          r.ucode_csrs_ + (IF m.writes = "csr" THEN 1 ELSE 0)>>
  <2>1. rv.cracked_gpr_ = r.cracked_gpr_
    BY <1>1, <1>2 DEF RvfiMembers
  <2>2. rv.cracked_vrs_ = r.cracked_vrs_ + (IF m.writes = "vr" THEN 1 ELSE 0)
    BY <1>1, <1>2 DEF RvfiMembers
  <2>3. rv.ucode_csrs_ = r.ucode_csrs_
    BY <1>1, <1>2 DEF RvfiMembers
  <2> QED BY <2>1, <2>2, <2>3, Zenon DEF Appended
<1>12. /\ instr'.tag = Tag(r, m) /\ instr'.had = x.tag /\ instr'.wrote = Appended(rv, m)
       /\ instr'.own = x.own
       /\ instr'.erred = x.error /\ instr'.before = instr.tag /\ instr'.session = x.session
       /\ r.error => instr'.error
  BY <1>5, Zenon
<1> QED BY <1>1, <1>6, <1>81, <1>9, <1>10, <1>11, <1>12, Zenon

LEMMA UopKeeps ==
  ASSUME RvfiInv, ~r.in_reset_, NEW w \in Writes, NEW e \in BOOLEAN, Uop(w, e)
  PROVE  RvfiInv'
<1> DEFINE m == Rec(w, e)
<1>1. PICK err \in BOOLEAN, g \in BOOLEAN :
        err = (now.error \/ e) /\ g = (now.g \/ w = "gpr")
  BY Zenon
<1>10. PICK kind, n, v, c : /\ n = now.uops + 1 /\ kind = (IF now.kind = "idle" THEN "uops" ELSE now.kind)
                          /\ v = (IF w = "vr" THEN now.v + 1 ELSE now.v)
                          /\ c = (IF w = "csr" THEN now.c + 1 ELSE now.c)
  OBVIOUS
<1>2. now' = [now EXCEPT !.uops = n, !.error = err, !.kind = kind, !.g = g, !.v = v, !.c = c]
  BY <1>1, <1>10, Zenon DEF Uop
<1>21. /\ kind \in {"uops", "intr", "excp", "trigger", "patch", "cmode"}
       /\ n \in Nat /\ v \in Nat /\ c \in Nat /\ now \in Underway
  BY <1>10 DEF RvfiInv, RvfiTypes, Underway
<1>22. now' \in Underway
  BY <1>2, <1>21, Zenon DEF Underway
<1>23. /\ now'.tag = now.tag /\ now'.pc = now.pc
       /\ now'.uops = n /\ now'.error = err /\ now'.g = g
       /\ now'.kind = kind /\ now'.v = v /\ now'.c = c
       /\ now'.rec = now.rec /\ now'.msg = now.msg
  BY <1>2, <1>21 DEF Underway
<1>3. /\ now' \in Underway /\ now'.tag = now.tag /\ now'.pc = now.pc
      /\ now'.uops = now.uops + 1 /\ now'.error = err /\ now'.g = g
      /\ now'.kind = IF now.kind = "idle" THEN "uops" ELSE now.kind
      /\ now'.v = IF w = "vr" THEN now.v + 1 ELSE now.v
      /\ now'.c = IF w = "csr" THEN now.c + 1 ELSE now.c
      /\ now'.rec = now.rec /\ now'.msg = now.msg
  BY <1>10, <1>22, <1>23
<1>4. /\ m \in Messages /\ m.order = ord /\ m.last_uop = FALSE /\ m.trap = FALSE
      /\ m.set = FALSE /\ m.clr = FALSE /\ m.writes = w /\ m.error = e
  BY DEF Rec, Messages, RvfiInv, RvfiTypes, Underway
<1>5. ord' = ord + 1 /\ dbg' = dbg /\ Process(m, [tag |-> 0])
  BY DEF Uop
<1> HIDE DEF m
<1>6. CASE r.terminated_
  <2>1. r' = r /\ instr' = instr /\ groups' = groups
    BY <1>5, <1>6, Zenon DEF Process, Gated
  <2> QED BY <1>3, <1>5, <1>6, <2>1 DEF RvfiInv, RvfiTypes, OneTagOwnWrites, TagAndWrites, InOneGroup
<1>7. CASE ~r.terminated_
  <2>1. ~Gated(r) /\ r \in RvfiMembers
    BY <1>7 DEF Gated, RvfiInv, RvfiTypes
  <2>2. /\ r' \in RvfiMembers /\ instr' = instr /\ groups' = groups
        /\ r'.in_reset_ = r.in_reset_ /\ r'.terminated_ = r.terminated_
        /\ r'.trap = r.trap /\ r'.cause = r.cause
        /\ r'.trap_tag_ = r.trap_tag_
        /\ r'.error <=> r.error \/ e
        /\ r'.vec_cmode_ = r.vec_cmode_
        /\ r'.vec_cmode_first_tag_ = r.vec_cmode_first_tag_
        /\ r'.vec_cmode_pc_addr_ = r.vec_cmode_pc_addr_
        /\ r'.instrs_ = r.instrs_ /\ r'.hw_csrs_ = r.hw_csrs_
        /\ r'.in_debug_mode_ = r.in_debug_mode_
        /\ r'.patch_mode_ = r.patch_mode_ /\ r'.patch_mode_first_tag_ = r.patch_mode_first_tag_
        /\ r'.cracked_gpr_ <=> r.cracked_gpr_ \/ w = "gpr"
        /\ r'.cracked_vrs_ = IF w = "vr" THEN r.cracked_vrs_ + 1 ELSE r.cracked_vrs_
        /\ r'.ucode_csrs_ = IF w = "csr" THEN r.ucode_csrs_ + 1 ELSE r.ucode_csrs_
    BY <1>4, <1>5, <2>1, KeptRecord
  <2>3. RvfiTypes'
    BY <1>3, <1>5, <2>2 DEF RvfiTypes, RvfiInv
  <2>4. TagsAhead'
    <3>1. TagsAhead /\ ord \in Nat \ {0} /\ now \in Underway /\ instr.tag \in Nat
      BY <1>7 DEF RvfiInv, RvfiTypes
    <3>2. now.kind = "excp" => now.rec
      BY <1>7, <3>1 DEF Uop, RvfiInv, TagsFollow, Underway
    <3>3. CASE now.kind = "excp"
      BY <1>3, <1>5, <2>2, <3>1, <3>2, <3>3 DEF TagsAhead, OwnOrder, Underway
    <3>4. CASE now.kind # "excp"
      BY <1>3, <1>5, <2>2, <3>1, <3>4 DEF TagsAhead, OwnOrder, Underway
    <3> QED BY <3>3, <3>4
  <2>5. TagsFollow'
    BY <1>3, <1>5, <1>7, <2>2 DEF RvfiInv, RvfiTypes, TagsFollow, Underway, Uop
  <2>6. WritesFollow'
    BY <1>1, <1>3, <1>5, <1>7, <2>2 DEF RvfiInv, RvfiTypes, WritesFollow, Underway
  <2>7. OneTagOwnWrites'
    BY <2>2 DEF RvfiInv, OneTagOwnWrites, TagAndWrites, InOneGroup
  <2> QED BY <2>3, <2>4, <2>5, <2>6, <2>7 DEF RvfiInv
<1> QED BY <1>6, <1>7

LEMMA TrapRecordKeeps ==
  ASSUME RvfiInv, ~r.in_reset_, TrapRecord
  PROVE  RvfiInv'
<1> DEFINE m == [Rec("none", FALSE) EXCEPT !.trap = TRUE]
<1>3. /\ now' \in Underway /\ now'.kind = "excp" /\ now'.pc = "handler"
      /\ now'.tag = (IF dbg THEN OwnOrder ELSE ord) /\ now'.rec = TRUE
      /\ now'.uops = now.uops /\ now'.error = now.error /\ now'.g = now.g
      /\ now'.v = now.v /\ now'.c = now.c /\ now'.msg = now.msg
  BY Zenon DEF TrapRecord, RvfiInv, RvfiTypes, Underway, OwnOrder
<1>4. /\ m \in Messages /\ m.order = ord /\ m.trap = TRUE
      /\ m.set = FALSE /\ m.clr = FALSE /\ m.writes = "none" /\ m.error = FALSE
  BY Zenon DEF Rec, Messages, RvfiInv, RvfiTypes, Underway, Writes
<1>5. /\ ord' = ord + 1 /\ dbg' = dbg /\ Process(m, [tag |-> 0])
      /\ now.kind \in {"idle", "uops"} \/ (now.kind = "excp" /\ ~now.rec)
  BY DEF TrapRecord
<1> HIDE DEF m
<1>6. CASE r.terminated_
  <2>1. r' = r /\ instr' = instr /\ groups' = groups
    BY <1>5, <1>6, Zenon DEF Process, Gated
  <2> QED BY <1>3, <1>5, <1>6, <2>1 DEF RvfiInv, RvfiTypes, OneTagOwnWrites, TagAndWrites, InOneGroup
<1>7. CASE ~r.terminated_
  <2>1. ~Gated(r) /\ r \in RvfiMembers
    BY <1>7 DEF Gated, RvfiInv, RvfiTypes
  <2>2. /\ r' \in RvfiMembers /\ instr' = instr /\ groups' = groups
        /\ r'.in_reset_ = r.in_reset_ /\ r'.terminated_ = r.terminated_
        /\ r'.trap = r.trap /\ r'.cause = r.cause
        /\ r'.trap_tag_ = ord
        /\ r'.error <=> r.error
        /\ r'.vec_cmode_ = r.vec_cmode_
        /\ r'.vec_cmode_first_tag_ = r.vec_cmode_first_tag_
        /\ r'.vec_cmode_pc_addr_ = r.vec_cmode_pc_addr_
        /\ r'.instrs_ = r.instrs_ /\ r'.hw_csrs_ = r.hw_csrs_
        /\ r'.in_debug_mode_ = r.in_debug_mode_
        /\ r'.patch_mode_ = r.patch_mode_ /\ r'.patch_mode_first_tag_ = r.patch_mode_first_tag_
        /\ r'.cracked_gpr_ <=> r.cracked_gpr_
        /\ r'.cracked_vrs_ = r.cracked_vrs_
        /\ r'.ucode_csrs_ = r.ucode_csrs_
    BY <1>4, <1>5, <2>1, KeptRecord
  <2>3. RvfiTypes'
    BY <1>3, <1>5, <2>2 DEF RvfiTypes, RvfiInv
  <2>4. TagsAhead'
    BY <1>3, <1>5, <1>7, <2>2 DEF RvfiInv, RvfiTypes, TagsAhead, OwnOrder, Underway
  <2>5. TagsFollow'
    BY <1>3, <1>5, <1>7, <2>2 DEF RvfiInv, RvfiTypes, TagsFollow, Underway
  <2>6. WritesFollow'
    BY <1>3, <1>5, <1>7, <2>2 DEF RvfiInv, RvfiTypes, WritesFollow, Underway
  <2>7. OneTagOwnWrites'
    BY <2>2 DEF RvfiInv, OneTagOwnWrites, TagAndWrites, InOneGroup
  <2> QED BY <2>3, <2>4, <2>5, <2>6, <2>7 DEF RvfiInv
<1> QED BY <1>6, <1>7

\* The tag that rvfi gives an instruction is the one that the core expects.
LEMMA TagRight ==
  ASSUME RvfiTypes, TagsAhead, TagsFollow, now.rec = now.msg, NEW m \in Messages,
         m.order = ord, m.pc = now.pc, m.dbg = dbg,
         m.clr => now.kind = "patch", m.set => now.kind \in {"idle", "trigger"}
  PROVE  Tag(r, m) = IF now.tag = OwnOrder THEN ord ELSE now.tag
<1> DEFINE p == PatchMode(r, m)
<1>1. /\ p.trap = r.trap /\ p.cause = r.cause /\ p.trap_tag_ = r.trap_tag_
      /\ p.vec_cmode_ = r.vec_cmode_ /\ p.in_debug_mode_ = r.in_debug_mode_
      /\ ~m.clr /\ m.set =>
           /\ p.patch_mode_
           /\ p.patch_mode_first_tag_ = IF r.patch_mode_first_tag_ = 0 THEN m.order
                                        ELSE r.patch_mode_first_tag_
      /\ ~m.clr /\ ~m.set =>
           p.patch_mode_ = r.patch_mode_ /\ p.patch_mode_first_tag_ = r.patch_mode_first_tag_
  BY PatchModeKeeps, Zenon DEF RvfiTypes
<1> HIDE DEF p
<1>2. Tag(r, m) =
        LET tag == CASE r.patch_mode_ -> r.patch_mode_first_tag_
                     [] ~r.patch_mode_ /\ r.vec_cmode_ /\ r.vec_cmode_pc_addr_ = m.pc ->
                          r.vec_cmode_first_tag_
                     [] OTHER -> m.order
        IN  CASE use_excp_trap_tag(p, m) -> r.trap_tag_
              [] ~use_excp_trap_tag(p, m) /\ m.set -> p.patch_mode_first_tag_
              [] OTHER -> tag
  BY DEF Tag, p
<1>3. use_excp_trap_tag(p, m) => now.kind = "excp"
  BY <1>1 DEF use_excp_trap_tag, TagsFollow
<1>4. CASE now.kind \in {"idle", "uops", "intr"}
  BY <1>1, <1>2, <1>3, <1>4 DEF TagsAhead, TagsFollow, RvfiTypes, Underway, OwnOrder
<1>5. CASE now.kind \in {"trigger", "patch"}
  BY <1>1, <1>2, <1>3, <1>5 DEF TagsAhead, TagsFollow, RvfiTypes, Underway, OwnOrder
<1>6. CASE now.kind = "cmode"
  BY <1>1, <1>2, <1>3, <1>6 DEF TagsAhead, TagsFollow, RvfiTypes, Underway, OwnOrder
<1>7. CASE now.kind = "excp"
  <2>1. now.rec /\ now.msg /\ r.trap = "excp" /\ r.cause = "standard" /\ r.trap_tag_ # 0
    BY <1>7 DEF TagsFollow, RvfiTypes, Underway
  <2>2. ~r.patch_mode_ /\ ~r.vec_cmode_ /\ ~m.set /\ ~m.clr
    BY <1>7 DEF TagsFollow
  <2>3. CASE dbg
    BY <1>1, <1>2, <1>7, <2>1, <2>2, <2>3 DEF use_excp_trap_tag, TagsAhead, OwnOrder
  <2>4. CASE ~dbg
    BY <1>1, <1>2, <1>7, <2>1, <2>2, <2>4 DEF use_excp_trap_tag, TagsAhead, TagsFollow, OwnOrder, RvfiTypes
  <2> QED BY <2>3, <2>4
<1> QED BY <1>4, <1>5, <1>6, <1>7 DEF RvfiTypes, Underway

LEMMA LastUopKeeps ==
  ASSUME ~Debugrom, RvfiInv, ~r.in_reset_, NEW w \in Writes,
         NEW mode \in {"none", "set", "clr", "dret"}, NEW l \in BOOLEAN, LastUop(w, mode, l)
  PROVE  RvfiInv'
<1> DEFINE inpatch == now.kind \in {"trigger", "patch"}
           tag == IF now.tag = OwnOrder THEN ord ELSE now.tag
           own == <<now.g \/ w = "gpr", now.v + (IF w = "vr" THEN 1 ELSE 0),
                    now.c + (IF w = "csr" THEN 1 ELSE 0)>>
           x == [tag |-> tag, excp |-> now.kind = "excp" /\ ~dbg, error |-> now.error,
                 session |-> now.kind = "patch", own |-> own]
<1>1. /\ now.rec = now.msg
      /\ mode = "clr" => now.kind = "patch"
      /\ mode = "set" => now.kind \in {"idle", "trigger"}
      /\ now.kind = "trigger" => mode = "set"
      /\ mode = "dret" => dbg /\ now.kind = "idle"
      /\ ord' = ord + 1
      /\ now' = IF (inpatch \/ mode = "set") /\ mode # "clr"
                THEN [Idle EXCEPT !.kind = "patch", !.tag = tag] ELSE Idle
      /\ dbg' = (dbg /\ mode # "dret")
      /\ Process([Rec(w, FALSE) EXCEPT !.last_uop = TRUE, !.last_insn = l,
                                       !.set = mode = "set", !.clr = mode = "clr",
                                       !.dret = mode = "dret"], x)
  BY Zenon DEF LastUop
<1>2. PICK bs \in BOOLEAN, bc \in BOOLEAN, bd \in BOOLEAN :
        bs = (mode = "set") /\ bc = (mode = "clr") /\ bd = (mode = "dret")
  BY Zenon
<1> DEFINE m == [Rec(w, FALSE) EXCEPT !.last_uop = TRUE, !.last_insn = l,
                                      !.set = bs, !.clr = bc, !.dret = bd]
<1>3. Process(m, x)
  BY <1>1, <1>2, Zenon
<1>4. /\ m \in Messages /\ m.order = ord /\ m.pc = now.pc /\ m.dbg = dbg
      /\ m.last_uop = TRUE /\ m.trap = FALSE
      /\ m.set = bs /\ m.clr = bc /\ m.dret = bd /\ m.writes = w /\ m.error = FALSE
  <2> DEFINE R == Rec(w, FALSE)
  <2>1. ord \in Nat \ {0} /\ now.pc \in {"pc", "handler"} /\ dbg \in BOOLEAN
    BY DEF RvfiInv, RvfiTypes, Underway
  <2>2. /\ R \in Messages /\ R.order = ord /\ R.pc = now.pc /\ R.dbg = dbg
        /\ R.trap = FALSE /\ R.writes = w /\ R.error = FALSE
    BY <2>1 DEF Rec, Messages
  <2>3. m = [R EXCEPT !.last_uop = TRUE, !.last_insn = l, !.set = bs, !.clr = bc, !.dret = bd]
    OBVIOUS
  <2> HIDE DEF m, R
  <2> DEFINE s == [R EXCEPT !.last_uop = TRUE, !.last_insn = l, !.set = bs]
  <2>4. /\ s \in Messages /\ s.last_uop = TRUE /\ s.set = bs
        /\ s.order = R.order /\ s.pc = R.pc /\ s.dbg = R.dbg
        /\ s.trap = R.trap /\ s.writes = R.writes /\ s.error = R.error
    BY <2>2, Zenon DEF Messages
  <2>5. m = [s EXCEPT !.clr = bc, !.dret = bd]
    BY <2>2, <2>3 DEF Messages
  <2> HIDE DEF s
  <2> QED BY <2>2, <2>4, <2>5, Zenon DEF Messages
<1>5. /\ x.tag = tag /\ x.error = now.error /\ x.session = (now.kind = "patch") /\ x.own = own
  BY Zenon
<1>6. /\ tag \in Nat \ {0} /\ dbg' \in BOOLEAN
      /\ RvfiTypes /\ ord \in Nat
  BY <1>1 DEF RvfiInv, RvfiTypes, Underway, OwnOrder
<1> HIDE DEF m, x, tag
<1>7. /\ now' \in Underway /\ now'.pc = "pc" /\ now'.uops = 0 /\ now'.error = FALSE
      /\ now'.g = FALSE /\ now'.v = 0 /\ now'.c = 0 /\ now'.rec = FALSE /\ now'.msg = FALSE
      /\ now'.kind = IF (inpatch \/ mode = "set") /\ mode # "clr" THEN "patch" ELSE "idle"
      /\ now'.tag = IF (inpatch \/ mode = "set") /\ mode # "clr" THEN tag ELSE OwnOrder
  BY <1>1, <1>6, Zenon DEF Idle, Underway, OwnOrder
<1>8. CASE r.terminated_
  <2>1. r' = r /\ instr' = instr /\ groups' = groups
    BY <1>3, <1>8, Zenon DEF Process, Gated
  <2> QED BY <1>1, <1>6, <1>7, <1>8, <2>1
             DEF RvfiInv, RvfiTypes, OneTagOwnWrites, TagAndWrites, InOneGroup
<1>9. CASE ~r.terminated_
  <2>1. ~Gated(r) /\ r \in RvfiMembers /\ InOneGroup
        /\ TagsAhead /\ TagsFollow /\ WritesFollow
    BY <1>9 DEF Gated, RvfiInv, RvfiTypes, OneTagOwnWrites
  <2>2. /\ r' \in RvfiMembers
        /\ r'.in_reset_ = r.in_reset_ /\ r'.terminated_ = r.terminated_
        /\ r'.trap = "none" /\ ~r'.error /\ ~r'.vec_cmode_
        /\ r'.in_debug_mode_ =>
             (r.in_debug_mode_ \/ (r.trap \in {"intr", "excp"} /\ r.cause = "debug")) /\ ~bd
        /\ r'.cracked_gpr_ = FALSE /\ r'.cracked_vrs_ = 0 /\ r'.ucode_csrs_ = 0
        /\ bc => ~r'.patch_mode_ /\ r'.patch_mode_first_tag_ = 0
        /\ ~bc /\ bs =>
             /\ r'.patch_mode_
             /\ r'.patch_mode_first_tag_ = IF r.patch_mode_first_tag_ = 0 THEN ord
                                           ELSE r.patch_mode_first_tag_
        /\ ~bc /\ ~bs =>
             r'.patch_mode_ = r.patch_mode_ /\ r'.patch_mode_first_tag_ = r.patch_mode_first_tag_
        /\ InOneGroup' /\ groups' \in [instrs : Nat, csrs : Nat, sent : Nat, updates : Nat]
        /\ instr'.tag = Tag(r, m) /\ instr'.had = x.tag
        /\ instr'.wrote = <<r.cracked_gpr_ \/ w = "gpr",
                            r.cracked_vrs_ + (IF w = "vr" THEN 1 ELSE 0),
                            r.ucode_csrs_ + (IF w = "csr" THEN 1 ELSE 0)>>
        /\ instr'.own = x.own
        /\ r.error => instr'.error
        /\ instr'.erred = x.error /\ instr'.before = instr.tag /\ instr'.session = x.session
    BY <1>3, <1>4, <1>6, <2>1, SentRecord, Zenon DEF RvfiTypes
  <2>3. Tag(r, m) = tag
    BY <1>1, <1>2, <1>4, <1>6, <2>1, TagRight, Zenon DEF tag
  <2>4. RvfiTypes'
    BY <1>1, <1>6, <1>7, <2>2, <2>3 DEF RvfiTypes
  <2>5. tag <= ord /\ instr.tag <= tag /\ (instr.tag = tag => now.kind = "patch")
    BY <1>6, <2>1 DEF TagsAhead, RvfiTypes, Underway, OwnOrder, tag
  <2>6. TagsAhead'
    BY <1>1, <1>6, <1>7, <2>2, <2>3, <2>5 DEF TagsAhead, OwnOrder
  <2>7. TagsFollow'
    <3>1. now'.kind # "patch" => ~r'.patch_mode_ /\ r'.patch_mode_first_tag_ = 0
      BY <1>1, <1>2, <1>7, <2>1, <2>2, Zenon DEF TagsFollow
    <3>2. now'.kind = "patch" => r'.patch_mode_ /\ r'.patch_mode_first_tag_ = tag
      <4>1. CASE mode = "set"
        <5>1. CASE now.kind = "idle"
          BY <1>2, <2>1, <2>2, <4>1, <5>1, Zenon DEF TagsFollow, TagsAhead, OwnOrder, tag
        <5>2. CASE now.kind = "trigger"
          BY <1>2, <1>6, <2>1, <2>2, <4>1, <5>2, Zenon DEF TagsFollow, TagsAhead, OwnOrder, RvfiTypes, tag
        <5> QED BY <1>1, <4>1, <5>1, <5>2
      <4>2. CASE mode # "set" /\ mode # "clr"
        <5> SUFFICES ASSUME now'.kind = "patch" PROVE r'.patch_mode_ /\ r'.patch_mode_first_tag_ = tag
          OBVIOUS
        <5>1. now.kind = "patch"
          BY <1>1, <1>7, <4>2
        <5>2. r'.patch_mode_ = r.patch_mode_ /\ r'.patch_mode_first_tag_ = r.patch_mode_first_tag_
          BY <1>2, <2>2, <4>2, Zenon
        <5> QED BY <1>6, <2>1, <5>1, <5>2 DEF TagsFollow, TagsAhead, OwnOrder, RvfiTypes, tag
      <4> QED BY <1>7, <4>1, <4>2
    <3>3. r'.in_debug_mode_ => dbg'
      BY <1>1, <1>2, <2>1, <2>2, Zenon DEF TagsFollow
    <3> QED BY <1>7, <2>2, <3>1, <3>2, <3>3 DEF TagsFollow, RvfiMembers
  <2>8. WritesFollow'
    BY <1>7, <2>2 DEF WritesFollow
  <2>9. instr'.wrote = instr'.own
    <3>1. r.cracked_gpr_ = now.g
      BY <1>6, <2>1 DEF WritesFollow, RvfiTypes, RvfiMembers, Underway
    <3> QED BY <1>5, <2>1, <2>2, <3>1, Zenon DEF WritesFollow
  <2>10. TagAndWrites'
    <3>1. instr'.tag = tag /\ instr'.had = tag /\ instr'.before = instr.tag
      BY <1>5, <2>2, <2>3, Zenon
    <3>2. instr'.erred => instr'.error
      BY <1>5, <2>1, <2>2, Zenon DEF WritesFollow
    <3>3. instr.tag = tag => instr'.session
      BY <1>5, <2>2, <2>5, Zenon
    <3> QED BY <2>5, <2>9, <3>1, <3>2, <3>3 DEF TagAndWrites
  <2> QED BY <2>2, <2>4, <2>6, <2>7, <2>8, <2>10 DEF RvfiInv, OneTagOwnWrites
<1> QED BY <1>8, <1>9

\* A trap message that is not gated, and one that is.
LEMMA TrapStep ==
  ASSUME RvfiInv, ~r.in_reset_, NEW kind \in {"excp", "intr", "nmi"},
         NEW cause \in {"standard", "debug", "patch", "cmode"}, NEW order \in Nat,
         Trap(kind, cause, order, now.pc)
  PROVE  /\ r.terminated_ => r' = r
         /\ ~r.terminated_ =>
              /\ r' \in RvfiMembers
              /\ r'.in_reset_ = r.in_reset_ /\ r'.terminated_ = r.terminated_
              /\ r'.trap = kind /\ r'.cause = cause /\ r'.trap_tag_ = r.trap_tag_
              /\ r'.error = r.error
              /\ r'.cracked_gpr_ = r.cracked_gpr_ /\ r'.cracked_vrs_ = r.cracked_vrs_
              /\ r'.ucode_csrs_ = r.ucode_csrs_ /\ r'.instrs_ = r.instrs_
              /\ r'.hw_csrs_ = r.hw_csrs_ /\ r'.in_debug_mode_ = r.in_debug_mode_
              /\ IF kind = "excp" /\ cause = "patch"
                 THEN r'.patch_mode_ /\ r'.patch_mode_first_tag_ = order
                 ELSE /\ r'.patch_mode_ = r.patch_mode_
                      /\ r'.patch_mode_first_tag_ = r.patch_mode_first_tag_
              /\ IF kind = "excp" /\ cause = "cmode"
                    /\ ~(r.vec_cmode_ /\ r.vec_cmode_pc_addr_ = now.pc)
                 THEN r'.vec_cmode_ /\ r'.vec_cmode_first_tag_ = order
                      /\ r'.vec_cmode_pc_addr_ = now.pc
                 ELSE /\ r'.vec_cmode_ = r.vec_cmode_
                      /\ r'.vec_cmode_first_tag_ = r.vec_cmode_first_tag_
                      /\ r'.vec_cmode_pc_addr_ = r.vec_cmode_pc_addr_
<1>1. r \in RvfiMembers /\ now.pc \in {"pc", "handler"}
  BY DEF RvfiInv, RvfiTypes, Underway
<1>2. CASE r.terminated_
  BY <1>2, Zenon DEF Trap, Gated
<1>3. CASE ~r.terminated_
  <2>1. r' = Trapped(r, kind, cause, order, now.pc)
    BY <1>3, Zenon DEF Trap, Gated
  <2>2. CASE kind = "excp" /\ cause = "patch"
    BY <1>1, <1>3, <2>1, <2>2, Zenon DEF Trapped, RvfiMembers
  <2>3. CASE kind = "excp" /\ cause = "cmode"
    <3> DEFINE t == [r EXCEPT !.trap = kind, !.cause = cause]
               w == [t EXCEPT !.vec_cmode_ = TRUE, !.vec_cmode_first_tag_ = order,
                              !.vec_cmode_pc_addr_ = now.pc]
               v == IF t.vec_cmode_ /\ t.vec_cmode_pc_addr_ = now.pc THEN t ELSE w
               E == IF v.error THEN v.vec_cmode_mem_errors_ \cup {v.vec_cmode_first_tag_}
                    ELSE v.vec_cmode_mem_errors_
               z == [v EXCEPT !.vec_cmode_mem_errors_ = E]
    <3>1. Trapped(r, kind, cause, order, now.pc) = z
      BY <2>3, Zenon DEF Trapped
    <3>2. t \in RvfiMembers /\ t.trap = kind /\ t.cause = cause
      BY <1>1, Zenon DEF RvfiMembers
    <3>3. /\ t.in_reset_ = r.in_reset_ /\ t.terminated_ = r.terminated_
          /\ t.trap_tag_ = r.trap_tag_ /\ t.error = r.error
          /\ t.cracked_gpr_ = r.cracked_gpr_ /\ t.cracked_vrs_ = r.cracked_vrs_
          /\ t.ucode_csrs_ = r.ucode_csrs_ /\ t.instrs_ = r.instrs_
          /\ t.hw_csrs_ = r.hw_csrs_ /\ t.in_debug_mode_ = r.in_debug_mode_
          /\ t.patch_mode_ = r.patch_mode_ /\ t.patch_mode_first_tag_ = r.patch_mode_first_tag_
          /\ t.vec_cmode_ = r.vec_cmode_ /\ t.vec_cmode_first_tag_ = r.vec_cmode_first_tag_
          /\ t.vec_cmode_pc_addr_ = r.vec_cmode_pc_addr_
      BY <1>1 DEF RvfiMembers
    <3> HIDE DEF t
    <3>4. /\ w \in RvfiMembers /\ w.vec_cmode_ = TRUE /\ w.vec_cmode_first_tag_ = order
          /\ w.vec_cmode_pc_addr_ = now.pc
      BY <1>1, <3>2, Zenon DEF RvfiMembers
    <3>5. /\ w.in_reset_ = t.in_reset_ /\ w.terminated_ = t.terminated_
          /\ w.trap = t.trap /\ w.cause = t.cause /\ w.trap_tag_ = t.trap_tag_
          /\ w.error = t.error
          /\ w.cracked_gpr_ = t.cracked_gpr_ /\ w.cracked_vrs_ = t.cracked_vrs_
          /\ w.ucode_csrs_ = t.ucode_csrs_ /\ w.instrs_ = t.instrs_
          /\ w.hw_csrs_ = t.hw_csrs_ /\ w.in_debug_mode_ = t.in_debug_mode_
          /\ w.patch_mode_ = t.patch_mode_ /\ w.patch_mode_first_tag_ = t.patch_mode_first_tag_
      BY <3>2 DEF RvfiMembers
    <3> HIDE DEF w
    <3>6. v \in RvfiMembers /\ E \in SUBSET Nat
      <4>1. v \in RvfiMembers
        BY <3>2, <3>4
      <4> HIDE DEF v
      <4> QED BY <4>1 DEF RvfiMembers
    <3>7. /\ v.trap = kind /\ v.cause = cause /\ v.trap_tag_ = r.trap_tag_ /\ v.error = r.error
          /\ v.in_reset_ = r.in_reset_ /\ v.terminated_ = r.terminated_
          /\ v.cracked_gpr_ = r.cracked_gpr_ /\ v.cracked_vrs_ = r.cracked_vrs_
          /\ v.ucode_csrs_ = r.ucode_csrs_ /\ v.instrs_ = r.instrs_
          /\ v.hw_csrs_ = r.hw_csrs_ /\ v.in_debug_mode_ = r.in_debug_mode_
          /\ v.patch_mode_ = r.patch_mode_ /\ v.patch_mode_first_tag_ = r.patch_mode_first_tag_
          /\ IF ~(r.vec_cmode_ /\ r.vec_cmode_pc_addr_ = now.pc)
             THEN v.vec_cmode_ /\ v.vec_cmode_first_tag_ = order /\ v.vec_cmode_pc_addr_ = now.pc
             ELSE /\ v.vec_cmode_ = r.vec_cmode_
                  /\ v.vec_cmode_first_tag_ = r.vec_cmode_first_tag_
                  /\ v.vec_cmode_pc_addr_ = r.vec_cmode_pc_addr_
      <4>1. CASE r.vec_cmode_ /\ r.vec_cmode_pc_addr_ = now.pc
        BY <3>2, <3>3, <4>1, Zenon
      <4>2. CASE ~(r.vec_cmode_ /\ r.vec_cmode_pc_addr_ = now.pc)
        BY <3>2, <3>3, <3>4, <3>5, <4>2
      <4> QED BY <4>1, <4>2, Zenon
    <3> HIDE DEF v, E
    <3>8. z \in RvfiMembers
      BY <3>6 DEF RvfiMembers
    <3>9. /\ z.trap = v.trap /\ z.cause = v.cause /\ z.trap_tag_ = v.trap_tag_ /\ z.error = v.error
          /\ z.in_reset_ = v.in_reset_ /\ z.terminated_ = v.terminated_
          /\ z.cracked_gpr_ = v.cracked_gpr_ /\ z.cracked_vrs_ = v.cracked_vrs_
          /\ z.ucode_csrs_ = v.ucode_csrs_ /\ z.instrs_ = v.instrs_
          /\ z.hw_csrs_ = v.hw_csrs_ /\ z.in_debug_mode_ = v.in_debug_mode_
          /\ z.patch_mode_ = v.patch_mode_ /\ z.patch_mode_first_tag_ = v.patch_mode_first_tag_
          /\ z.vec_cmode_ = v.vec_cmode_ /\ z.vec_cmode_first_tag_ = v.vec_cmode_first_tag_
          /\ z.vec_cmode_pc_addr_ = v.vec_cmode_pc_addr_
      BY <3>6 DEF RvfiMembers
    <3> HIDE DEF z
    <3> QED BY <1>3, <2>1, <2>3, <3>1, <3>7, <3>8, <3>9
  <2>4. CASE ~(kind = "excp" /\ cause = "patch") /\ ~(kind = "excp" /\ cause = "cmode")
    BY <1>1, <1>3, <2>1, <2>4, Zenon DEF Trapped, RvfiMembers
  <2> QED BY <2>2, <2>3, <2>4
<1> QED BY <1>2, <1>3

\* The trap messages: an invariant of the terminated interface, and the rest.
LEMMA TrapMsgKeeps ==
  ASSUME RvfiInv, ~r.in_reset_, TrapMsg
  PROVE  RvfiInv'
<1> DEFINE order == IF now.rec THEN now.tag ELSE ord
<1>1. /\ now.kind \in {"idle", "uops"} \/ (now.kind = "excp" /\ ~now.msg)
      /\ Trap("excp", "standard", order, now.pc)
      /\ ord' = ord /\ dbg' = dbg /\ instr' = instr /\ groups' = groups
  BY DEF TrapMsg
<1>2. /\ now' \in Underway /\ now'.kind = "excp" /\ now'.pc = "handler" /\ now'.msg = TRUE
      /\ now'.tag = (IF now.rec \/ dbg THEN now.tag ELSE ord)
      /\ now'.uops = now.uops /\ now'.error = now.error /\ now'.g = now.g
      /\ now'.v = now.v /\ now'.c = now.c /\ now'.rec = now.rec
  BY Zenon DEF TrapMsg, RvfiInv, RvfiTypes, Underway
<1>3. order \in Nat
  BY DEF RvfiInv, RvfiTypes, Underway
<1> HIDE DEF order
<1>4. CASE r.terminated_
  <2>1. r' = r
    BY <1>1, <1>3, <1>4, TrapStep
  <2> QED BY <1>1, <1>2, <1>4, <2>1
             DEF RvfiInv, RvfiTypes, OneTagOwnWrites, TagAndWrites, InOneGroup
<1>5. CASE ~r.terminated_
  <2>1. /\ r' \in RvfiMembers
        /\ r'.in_reset_ = r.in_reset_ /\ r'.terminated_ = r.terminated_
        /\ r'.trap = "excp" /\ r'.cause = "standard" /\ r'.trap_tag_ = r.trap_tag_
        /\ r'.error = r.error
        /\ r'.cracked_gpr_ = r.cracked_gpr_ /\ r'.cracked_vrs_ = r.cracked_vrs_
        /\ r'.ucode_csrs_ = r.ucode_csrs_ /\ r'.instrs_ = r.instrs_
        /\ r'.hw_csrs_ = r.hw_csrs_ /\ r'.in_debug_mode_ = r.in_debug_mode_
        /\ r'.patch_mode_ = r.patch_mode_ /\ r'.patch_mode_first_tag_ = r.patch_mode_first_tag_
        /\ r'.vec_cmode_ = r.vec_cmode_ /\ r'.vec_cmode_first_tag_ = r.vec_cmode_first_tag_
        /\ r'.vec_cmode_pc_addr_ = r.vec_cmode_pc_addr_
    BY <1>1, <1>3, <1>5, TrapStep
  <2>2. RvfiTypes'
    BY <1>1, <1>2, <2>1 DEF RvfiInv, RvfiTypes
  <2>3. TagsAhead'
    BY <1>1, <1>2, <1>5 DEF RvfiInv, RvfiTypes, TagsAhead, TagsFollow, OwnOrder, Underway
  <2>4. TagsFollow'
    BY <1>1, <1>2, <1>5, <2>1 DEF RvfiInv, RvfiTypes, TagsFollow, Underway
  <2>5. WritesFollow'
    BY <1>1, <1>2, <1>5, <2>1 DEF RvfiInv, WritesFollow
  <2>6. OneTagOwnWrites'
    BY <1>1, <2>1 DEF RvfiInv, OneTagOwnWrites, TagAndWrites, InOneGroup
  <2> QED BY <2>2, <2>3, <2>4, <2>5, <2>6 DEF RvfiInv
<1> QED BY <1>4, <1>5

\* An interrupt or an NMI.
LEMMA InterruptKeeps ==
  ASSUME RvfiInv, ~r.in_reset_, NEW k \in {"intr", "nmi"}, Interrupt(k, "standard")
  PROVE  RvfiInv'
<1>1. /\ now.uops = 0 /\ ~dbg
      /\ now.kind \in {"idle", "excp", "trigger", "patch", "cmode"}
      /\ Trap(k, "standard", 0, now.pc)
      /\ ord' = ord /\ dbg' = dbg /\ instr' = instr /\ groups' = groups
  BY DEF Interrupt
<1>2. /\ now' \in Underway
      /\ IF now.kind \in {"trigger", "patch"} THEN now' = now
         ELSE /\ now'.kind = "intr" /\ now'.tag = OwnOrder /\ now'.pc = "handler"
              /\ now'.uops = 0 /\ now'.error = FALSE /\ now'.g = FALSE /\ now'.v = 0
              /\ now'.c = 0 /\ now'.rec = FALSE /\ now'.msg = FALSE
  BY Zenon DEF Interrupt, Idle, OwnOrder, RvfiInv, RvfiTypes, Underway
<1>3. 0 \in Nat
  BY DEF RvfiInv, RvfiTypes
<1>4. CASE r.terminated_
  <2>1. r' = r
    BY <1>1, <1>3, <1>4, TrapStep
  <2> QED BY <1>1, <1>2, <1>4, <2>1
             DEF RvfiInv, RvfiTypes, OneTagOwnWrites, TagAndWrites, InOneGroup
<1>5. CASE ~r.terminated_
  <2>1. /\ r' \in RvfiMembers
        /\ r'.in_reset_ = r.in_reset_ /\ r'.terminated_ = r.terminated_
        /\ r'.trap = k /\ r'.cause = "standard" /\ r'.trap_tag_ = r.trap_tag_
        /\ r'.error = r.error
        /\ r'.cracked_gpr_ = r.cracked_gpr_ /\ r'.cracked_vrs_ = r.cracked_vrs_
        /\ r'.ucode_csrs_ = r.ucode_csrs_ /\ r'.instrs_ = r.instrs_
        /\ r'.hw_csrs_ = r.hw_csrs_ /\ r'.in_debug_mode_ = r.in_debug_mode_
        /\ r'.patch_mode_ = r.patch_mode_ /\ r'.patch_mode_first_tag_ = r.patch_mode_first_tag_
        /\ r'.vec_cmode_ = r.vec_cmode_ /\ r'.vec_cmode_first_tag_ = r.vec_cmode_first_tag_
        /\ r'.vec_cmode_pc_addr_ = r.vec_cmode_pc_addr_
    BY <1>1, <1>3, <1>5, TrapStep
  <2>2. RvfiTypes'
    BY <1>1, <1>2, <2>1 DEF RvfiInv, RvfiTypes
  <2>3. TagsAhead'
    BY <1>1, <1>2, <1>5 DEF RvfiInv, RvfiTypes, TagsAhead, OwnOrder, Underway
  <2>4. TagsFollow'
    BY <1>1, <1>2, <1>5, <2>1 DEF RvfiInv, RvfiTypes, TagsFollow, TagsAhead, OwnOrder, Underway
  <2>5. WritesFollow'
    BY <1>1, <1>2, <1>5, <2>1 DEF RvfiInv, RvfiTypes, Underway, WritesFollow
  <2>6. OneTagOwnWrites'
    BY <1>1, <2>1 DEF RvfiInv, OneTagOwnWrites, TagAndWrites, InOneGroup
  <2> QED BY <2>2, <2>3, <2>4, <2>5, <2>6 DEF RvfiInv
<1> QED BY <1>4, <1>5

\* A halt request or a single step.
LEMMA HaltKeeps ==
  ASSUME RvfiInv, ~r.in_reset_, NEW kind \in {"intr", "excp"}, Halt(kind)
  PROVE  RvfiInv'
<1>1. /\ now = Idle /\ ~dbg
      /\ Trap(kind, "debug", 0, now.pc)
      /\ ord' = ord /\ dbg' = TRUE /\ instr' = instr /\ groups' = groups
  BY DEF Halt
<1>2. /\ now' \in Underway
      /\ now'.kind = "intr" /\ now'.tag = OwnOrder /\ now'.pc = "handler"
      /\ now'.uops = 0 /\ now'.error = FALSE /\ now'.g = FALSE /\ now'.v = 0
      /\ now'.c = 0 /\ now'.rec = FALSE /\ now'.msg = FALSE
      /\ now.kind = "idle" /\ now.uops = 0
  BY Zenon DEF Halt, Idle, OwnOrder, RvfiInv, RvfiTypes, Underway
<1>3. 0 \in Nat
  BY DEF RvfiInv, RvfiTypes
<1>4. CASE r.terminated_
  <2>1. r' = r
    BY <1>1, <1>3, <1>4, TrapStep
  <2> QED BY <1>1, <1>2, <1>4, <2>1
             DEF RvfiInv, RvfiTypes, OneTagOwnWrites, TagAndWrites, InOneGroup
<1>5. CASE ~r.terminated_
  <2>1. /\ r' \in RvfiMembers
        /\ r'.in_reset_ = r.in_reset_ /\ r'.terminated_ = r.terminated_
        /\ r'.trap = kind /\ r'.cause = "debug" /\ r'.trap_tag_ = r.trap_tag_
        /\ r'.error = r.error
        /\ r'.cracked_gpr_ = r.cracked_gpr_ /\ r'.cracked_vrs_ = r.cracked_vrs_
        /\ r'.ucode_csrs_ = r.ucode_csrs_ /\ r'.instrs_ = r.instrs_
        /\ r'.hw_csrs_ = r.hw_csrs_ /\ r'.in_debug_mode_ = r.in_debug_mode_
        /\ r'.patch_mode_ = r.patch_mode_ /\ r'.patch_mode_first_tag_ = r.patch_mode_first_tag_
        /\ r'.vec_cmode_ = r.vec_cmode_ /\ r'.vec_cmode_first_tag_ = r.vec_cmode_first_tag_
        /\ r'.vec_cmode_pc_addr_ = r.vec_cmode_pc_addr_
    BY <1>1, <1>3, <1>5, TrapStep
  <2>2. RvfiTypes'
    BY <1>1, <1>2, <2>1 DEF RvfiInv, RvfiTypes
  <2>3. TagsAhead'
    BY <1>1, <1>2, <1>5 DEF RvfiInv, RvfiTypes, TagsAhead, OwnOrder, Underway
  <2>4. TagsFollow'
    BY <1>1, <1>2, <1>5, <2>1 DEF RvfiInv, RvfiTypes, TagsFollow, TagsAhead, OwnOrder, Underway
  <2>5. WritesFollow'
    BY <1>1, <1>2, <1>5, <2>1 DEF RvfiInv, RvfiTypes, Underway, WritesFollow
  <2>6. OneTagOwnWrites'
    BY <1>1, <2>1 DEF RvfiInv, OneTagOwnWrites, TagAndWrites, InOneGroup
  <2> QED BY <2>2, <2>3, <2>4, <2>5, <2>6 DEF RvfiInv
<1> QED BY <1>4, <1>5

\* The trigger of a patch.
LEMMA PatchTrapKeeps ==
  ASSUME RvfiInv, ~r.in_reset_, PatchTrap
  PROVE  RvfiInv'
<1>1. /\ now.kind = "idle" /\ ~dbg
      /\ Trap("excp", "patch", ord, now.pc)
      /\ ord' = ord + 1 /\ dbg' = dbg /\ instr' = instr /\ groups' = groups
  BY DEF PatchTrap
<1>2. /\ now' \in Underway
      /\ now'.kind = "trigger" /\ now'.tag = ord /\ now'.pc = "pc"
      /\ now'.uops = 0 /\ now'.error = FALSE /\ now'.g = FALSE /\ now'.v = 0
      /\ now'.c = 0 /\ now'.rec = FALSE /\ now'.msg = FALSE
  BY Zenon DEF PatchTrap, Idle, OwnOrder, RvfiInv, RvfiTypes, Underway
<1>3. ord \in Nat
  BY DEF RvfiInv, RvfiTypes
<1>4. CASE r.terminated_
  <2>1. r' = r
    BY <1>1, <1>3, <1>4, TrapStep
  <2> QED BY <1>1, <1>2, <1>4, <2>1
             DEF RvfiInv, RvfiTypes, OneTagOwnWrites, TagAndWrites, InOneGroup
<1>5. CASE ~r.terminated_
  <2>1. /\ r' \in RvfiMembers
        /\ r'.in_reset_ = r.in_reset_ /\ r'.terminated_ = r.terminated_
        /\ r'.trap = "excp" /\ r'.cause = "patch" /\ r'.trap_tag_ = r.trap_tag_
        /\ r'.error = r.error
        /\ r'.cracked_gpr_ = r.cracked_gpr_ /\ r'.cracked_vrs_ = r.cracked_vrs_
        /\ r'.ucode_csrs_ = r.ucode_csrs_ /\ r'.instrs_ = r.instrs_
        /\ r'.hw_csrs_ = r.hw_csrs_ /\ r'.in_debug_mode_ = r.in_debug_mode_
        /\ r'.patch_mode_ /\ r'.patch_mode_first_tag_ = ord
        /\ r'.vec_cmode_ = r.vec_cmode_ /\ r'.vec_cmode_first_tag_ = r.vec_cmode_first_tag_
        /\ r'.vec_cmode_pc_addr_ = r.vec_cmode_pc_addr_
    BY <1>1, <1>3, <1>5, TrapStep
  <2>2. RvfiTypes'
    BY <1>1, <1>2, <2>1 DEF RvfiInv, RvfiTypes
  <2>3. TagsAhead'
    BY <1>1, <1>2, <1>5 DEF RvfiInv, RvfiTypes, TagsAhead, OwnOrder, Underway
  <2>4. TagsFollow'
    BY <1>1, <1>2, <1>5, <2>1 DEF RvfiInv, RvfiTypes, TagsFollow, TagsAhead, OwnOrder, Underway
  <2>5. WritesFollow'
    BY <1>1, <1>2, <1>5, <2>1 DEF RvfiInv, RvfiTypes, Underway, WritesFollow
  <2>6. OneTagOwnWrites'
    BY <1>1, <2>1 DEF RvfiInv, OneTagOwnWrites, TagAndWrites, InOneGroup
  <2> QED BY <2>2, <2>3, <2>4, <2>5, <2>6 DEF RvfiInv
<1> QED BY <1>4, <1>5

\* A vector instruction that is to be repeated.
LEMMA VecTrapKeeps ==
  ASSUME RvfiInv, ~r.in_reset_, VecTrap
  PROVE  RvfiInv'
<1>1. /\ now.kind \in {"idle", "cmode"} /\ now.uops = 0 /\ ~dbg
      /\ Trap("excp", "cmode", ord, now.pc)
      /\ ord' = ord + 1 /\ dbg' = dbg /\ instr' = instr /\ groups' = groups
  BY DEF VecTrap
<1>2. /\ now' \in Underway
      /\ now'.kind = "cmode" /\ now'.tag = (IF now.kind = "cmode" THEN now.tag ELSE ord)
      /\ now'.pc = now.pc /\ now'.uops = now.uops /\ now'.error = now.error /\ now'.g = now.g
      /\ now'.v = now.v /\ now'.c = now.c /\ now'.rec = now.rec /\ now'.msg = now.msg
  BY Zenon DEF VecTrap, Idle, OwnOrder, RvfiInv, RvfiTypes, Underway
<1>3. ord \in Nat
  BY DEF RvfiInv, RvfiTypes
<1>4. CASE r.terminated_
  <2>1. r' = r
    BY <1>1, <1>3, <1>4, TrapStep
  <2> QED BY <1>1, <1>2, <1>4, <2>1
             DEF RvfiInv, RvfiTypes, OneTagOwnWrites, TagAndWrites, InOneGroup
<1>5. CASE ~r.terminated_
  <2>1. /\ r' \in RvfiMembers
        /\ r'.in_reset_ = r.in_reset_ /\ r'.terminated_ = r.terminated_
        /\ r'.trap = "excp" /\ r'.cause = "cmode" /\ r'.trap_tag_ = r.trap_tag_
        /\ r'.error = r.error
        /\ r'.cracked_gpr_ = r.cracked_gpr_ /\ r'.cracked_vrs_ = r.cracked_vrs_
        /\ r'.ucode_csrs_ = r.ucode_csrs_ /\ r'.instrs_ = r.instrs_
        /\ r'.hw_csrs_ = r.hw_csrs_ /\ r'.in_debug_mode_ = r.in_debug_mode_
        /\ r'.patch_mode_ = r.patch_mode_ /\ r'.patch_mode_first_tag_ = r.patch_mode_first_tag_
        /\ IF ~(r.vec_cmode_ /\ r.vec_cmode_pc_addr_ = now.pc)
           THEN r'.vec_cmode_ /\ r'.vec_cmode_first_tag_ = ord /\ r'.vec_cmode_pc_addr_ = now.pc
           ELSE /\ r'.vec_cmode_ = r.vec_cmode_ /\ r'.vec_cmode_first_tag_ = r.vec_cmode_first_tag_
                /\ r'.vec_cmode_pc_addr_ = r.vec_cmode_pc_addr_
    BY <1>1, <1>3, <1>5, TrapStep
  <2>2. RvfiTypes'
    BY <1>1, <1>2, <2>1 DEF RvfiInv, RvfiTypes
  <2>3. TagsAhead'
    BY <1>1, <1>2, <1>5 DEF RvfiInv, RvfiTypes, TagsAhead, OwnOrder, Underway
  <2>4. TagsFollow'
    BY <1>1, <1>2, <1>5, <2>1 DEF RvfiInv, RvfiTypes, TagsFollow, TagsAhead, OwnOrder, Underway
  <2>5. WritesFollow'
    BY <1>1, <1>2, <1>5, <2>1 DEF RvfiInv, RvfiTypes, Underway, WritesFollow
  <2>6. OneTagOwnWrites'
    BY <1>1, <2>1 DEF RvfiInv, OneTagOwnWrites, TagAndWrites, InOneGroup
  <2> QED BY <2>2, <2>3, <2>4, <2>5, <2>6 DEF RvfiInv
<1> QED BY <1>4, <1>5

\* The reset, a CSR update by the hardware, the end of the test.
LEMMA OtherStepsKeep ==
  ASSUME RvfiInv, m_reset \/ (~r.in_reset_ /\ (m_csri \/ Terminate)) \/ UNCHANGED rvfiVars
  PROVE  RvfiInv'
<1>1. CASE m_reset
  <2>1. r' = [r EXCEPT !.in_reset_ = FALSE] /\ UNCHANGED <<ord, now, dbg, instr, groups>>
    BY <1>1 DEF m_reset
  <2>2. r' \in RvfiMembers /\ r' = [r EXCEPT !.in_reset_ = r'.in_reset_]
    BY <2>1, Zenon DEF RvfiInv, RvfiTypes, RvfiMembers
  <2> QED BY <2>1, <2>2 DEF RvfiInv, RvfiTypes, RvfiMembers, TagsAhead, TagsFollow,
             WritesFollow, OneTagOwnWrites, TagAndWrites, InOneGroup, OwnOrder
<1>2. CASE ~r.in_reset_ /\ m_csri
  <2>1. CASE r.terminated_
    <3>1. UNCHANGED rvfiVars
      BY <1>2, <2>1, Zenon DEF m_csri, Gated, rvfiVars
    <3> QED BY <3>1 DEF rvfiVars, RvfiInv, RvfiTypes, RvfiMembers, TagsAhead, TagsFollow,
               WritesFollow, OneTagOwnWrites, TagAndWrites, InOneGroup, OwnOrder
  <2>2. CASE ~r.terminated_
    <3>1. /\ r' = [r EXCEPT !.hw_csrs_ = @ + 1]
          /\ groups' = [groups EXCEPT !.updates = @ + 1]
          /\ UNCHANGED <<ord, now, dbg, instr>>
      BY <1>2, <2>2, Zenon DEF m_csri, Gated
    <3>2. RvfiTypes'
      BY <3>1 DEF RvfiInv, RvfiTypes, RvfiMembers
    <3>3. (TagsAhead /\ TagsFollow /\ WritesFollow)'
      BY <2>2, <3>1 DEF RvfiInv, RvfiTypes, RvfiMembers, TagsAhead, TagsFollow, WritesFollow, OwnOrder
    <3>4. OneTagOwnWrites'
      BY <3>1 DEF RvfiInv, RvfiTypes, RvfiMembers, OneTagOwnWrites, TagAndWrites, InOneGroup
    <3> QED BY <3>2, <3>3, <3>4 DEF RvfiInv
  <2> QED BY <2>1, <2>2
<1>3. CASE ~r.in_reset_ /\ Terminate
  BY <1>3, Zenon DEF Terminate, RvfiInv, RvfiTypes, RvfiMembers, OneTagOwnWrites, TagAndWrites, InOneGroup
<1>4. CASE UNCHANGED rvfiVars
  BY <1>4 DEF rvfiVars, RvfiInv, RvfiTypes, RvfiMembers, TagsAhead, TagsFollow,
              WritesFollow, OneTagOwnWrites, TagAndWrites, InOneGroup, OwnOrder
<1> QED BY <1>1, <1>2, <1>3, <1>4

\* With +debugrom off, its default (with it, rvfi.cpp:1000 never leaves debug
\* mode): however the records and the trap messages of the core interleave,
\* rvfi steps every instruction under the tag of its memory operations, with
\* the writes of its own uops, in one group.
THEOREM TagsRight == ~Debugrom /\ RvfiSpec => []OneTagOwnWrites
<1> SUFFICES ASSUME ~Debugrom PROVE RvfiSpec => []OneTagOwnWrites
  OBVIOUS
<1>1. RvfiInit => RvfiInv
  <2> SUFFICES ASSUME RvfiInit PROVE RvfiInv
    OBVIOUS
  <2>1. r = Start /\ ord = 1 /\ now = Idle /\ dbg = FALSE
    BY DEF RvfiInit
  <2>2. /\ instr.tag = 0 /\ instr.had = 0 /\ instr.wrote = instr.own /\ instr.before = 0
        /\ instr.erred = FALSE
    BY Zenon DEF RvfiInit
  <2>3. groups = [instrs |-> 0, csrs |-> 0, sent |-> 0, updates |-> 0]
    BY DEF RvfiInit
  <2>4. RvfiTypes
    <3>1. r \in RvfiMembers
      BY <2>1 DEF RvfiMembers, Start
    <3>2. now \in Underway
      BY <2>1 DEF Underway, Idle, OwnOrder
    <3>3. groups \in [instrs : Nat, csrs : Nat, sent : Nat, updates : Nat]
      BY <2>3
    <3>4. dbg \in BOOLEAN
      BY <2>1, Zenon
    <3>5. ord \in Nat \ {0} /\ instr.tag \in Nat
      BY <2>1, <2>2
    <3> QED BY <3>1, <3>2, <3>3, <3>4, <3>5, Zenon DEF RvfiTypes
  <2>5. TagsAhead /\ WritesFollow
    BY <2>1, <2>2 DEF TagsAhead, WritesFollow, Start, Idle, OwnOrder
  <2>6. TagsFollow
    BY <2>1 DEF TagsFollow, Start, Idle, OwnOrder
  <2>7. OneTagOwnWrites
    <3>1. TagAndWrites
      BY <2>2 DEF TagAndWrites
    <3>2. InOneGroup
      BY <2>1, <2>3 DEF InOneGroup, Start
    <3> QED BY <3>1, <3>2 DEF OneTagOwnWrites
  <2> QED BY <2>4, <2>5, <2>6, <2>7 DEF RvfiInv
<1>2. RvfiInv /\ [RvfiNext]_rvfiVars => RvfiInv'
  <2> SUFFICES ASSUME RvfiInv, [RvfiNext]_rvfiVars PROVE RvfiInv'
    OBVIOUS
  <2>1. ASSUME NEW w \in Writes, NEW e \in BOOLEAN, ~r.in_reset_, Uop(w, e) PROVE RvfiInv'
    BY <2>1, UopKeeps
  <2>2. ASSUME NEW w \in Writes, NEW mode \in {"none", "set", "clr", "dret"}, NEW l \in BOOLEAN,
               ~r.in_reset_, LastUop(w, mode, l) PROVE RvfiInv'
    BY <2>2, LastUopKeeps
  <2>3. ASSUME NEW k \in {"intr", "nmi"}, ~r.in_reset_, Interrupt(k, "standard") PROVE RvfiInv'
    BY <2>3, InterruptKeeps
  <2> QED BY <2>1, <2>2, <2>3, TrapRecordKeeps, TrapMsgKeeps, PatchTrapKeeps, VecTrapKeeps,
             HaltKeeps, OtherStepsKeep, Zenon DEF RvfiNext
<1>3. RvfiInv => OneTagOwnWrites
  BY DEF RvfiInv
<1> QED BY <1>1, <1>2, <1>3, PTL DEF RvfiSpec
=============================================================================
