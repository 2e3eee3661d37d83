-------------------------- MODULE AxiSwReadProofs -------------------------
(***************************************************************************)
(* The credit protocol of the read-response path is safe for every depth   *)
(* of the FIFO, burst length and number of reads: no push finds the FIFO   *)
(* full, and a flush never meets an update of its own or a later clock.    *)
(***************************************************************************)
EXTENDS AxiSwRead, TLAPS

\* How far the read pointer p lags behind the FIFO's.
Lag(p) == PtrSub(rptr, p)

\* Beats in the FIFO, seen or not yet seen by wptr.
Held == PtrSub(wptr_nxt, rptr)

\* Slots that are taken or promised.
Promised == Held + Len(cb_beat) + Len(r_q)

\* What C++ counts as used is what is promised plus its lag, so it is never
\* too optimistic.
Accounts ==
  /\ Lag(c_rptr) + Promised = PtrSub(c_wptr, c_rptr)
  /\ PtrSub(c_wptr, c_rptr) <= RQMax
  /\ PtrSub(wptr, rptr) <= PtrSub(wptr_nxt, rptr)

\* Stamps order the messages that would still be applied as their pointers.
Stamps ==
  /\ c_time <= clocks
  /\ ~flush_called => c_time < clocks
  /\ \A m \in updates :
       m.clock < clocks /\ (m.clock > c_time => Lag(m.r_ptr) <= Lag(c_rptr))
  /\ \A m1, m2 \in updates :
       m1.clock > c_time /\ m1.clock < m2.clock
         => Lag(m2.r_ptr) <= Lag(m1.r_ptr)

\* What a restart has established so far.
Restarting ==
  /\ phase # "run" => clocks = 1 /\ ~flush_called
  /\ phase \in {"built", "reset"} =>
       /\ c_rptr = 0 /\ c_wptr = 0 /\ c_time = 0
       /\ engine = << >> /\ axi_r = << >> /\ r_q = << >> /\ cb_beat = << >>
       /\ callbacks = 0 /\ updates = {}
  /\ phase = "reset" => wptr_nxt = 0 /\ rptr = 0

IInv == TypeOK /\ (reset_n => Accounts /\ Stamps) /\ Restarting

\* The beats of s are numbered in a row, the first one base + 1.
Numbered(s, base) == \A k \in 1 .. Len(s) : s[k].seq = base + k

\* The beats that were read and not taken are numbered in a row along their
\* way: the slots of the FIFO from rptr on, the beat of a callback, r_q_, the
\* engine's queue.
InOrder ==
  /\ \A k \in 0 .. Held - 1 : q[Idx(PtrAdd(rptr, k))].seq = taken + 1 + k
  /\ Numbered(cb_beat, taken + Held)
  /\ Numbered(r_q, taken + Held + Len(cb_beat))
  /\ Numbered(axi_r, taken + Held + Len(cb_beat) + Len(r_q))
  /\ beats = taken + Held + Len(cb_beat) + Len(r_q) + Len(axi_r)

OInv == /\ IInv
        /\ reset_n => InOrder
        /\ phase \in {"built", "reset"} => beats = 0 /\ taken = 0
---------------------------------------------------------------------------
\* Pointer arithmetic modulo twice the depth.
LEMMA PtrRange ==
  ASSUME NEW p \in Ptr, NEW r \in Ptr, NEW n \in 0 .. RQMax
  PROVE  /\ PtrAdd(p, n) \in Ptr
         /\ PtrSub(p, r) \in 0 .. 2 * RQMax - 1
         /\ PtrSub(p, p) = 0
BY RQMaxAssumption DEF Ptr, PtrAdd, PtrSub

LEMMA SubNat == \A p, r \in Ptr : PtrSub(p, r) \in Nat
BY RQMaxAssumption DEF Ptr, PtrSub

\* Advancing the left pointer increases the distance.
LEMMA SubGrows ==
  ASSUME NEW p \in Ptr, NEW r \in Ptr, NEW n \in 0 .. RQMax,
         PtrSub(p, r) + n < 2 * RQMax
  PROVE  PtrSub(PtrAdd(p, n), r) = PtrSub(p, r) + n
BY RQMaxAssumption DEF Ptr, PtrAdd, PtrSub

\* Advancing the right pointer decreases it.
LEMMA SubShrinks ==
  ASSUME NEW p \in Ptr, NEW r \in Ptr, PtrSub(p, r) > 0
  PROVE  PtrSub(p, PtrAdd(r, 1)) = PtrSub(p, r) - 1
BY RQMaxAssumption DEF Ptr, PtrAdd, PtrSub

\* Distances to two pointers m and c that both lie behind r.
LEMMA Triangle ==
  ASSUME NEW a \in Ptr, NEW r \in Ptr, NEW c \in Ptr, NEW m \in Ptr,
         PtrSub(r, m) <= PtrSub(r, c), PtrSub(r, c) <= PtrSub(a, c)
  PROVE  PtrSub(a, m) = PtrSub(a, c) - PtrSub(r, c) + PtrSub(r, m)
BY RQMaxAssumption DEF Ptr, PtrSub

\* What r_resp() moves fits the free slots as the read pointer rp shows
\* them, and what it reserves it queues.
LEMMA MovableFits ==
  ASSUME TypeOK, NEW rp \in Ptr, NEW ready \in Seq(Beat)
  PROVE  /\ Movable(rp, ready) \in 0 .. RQMax
         /\ Movable(rp, ready) <= Len(ready)
         /\ PtrSub(c_wptr, rp) <= RQMax
              => PtrSub(c_wptr, rp) + Movable(rp, ready) <= RQMax
<1>1. PtrSub(c_wptr, rp) \in 0 .. 2 * RQMax - 1
  BY PtrRange, RQMaxAssumption DEF TypeOK
<1>2. Len(ready) \in Nat
  OBVIOUS
<1> QED
  BY <1>1, <1>2, RQMaxAssumption DEF Movable, Free

\* Numbers and lengths that the steps below calculate with.
LEMMA Lengths ==
  ASSUME TypeOK
  PROVE  /\ Held \in Nat /\ taken \in Nat /\ beats \in Nat
         /\ Len(cb_beat) \in Nat /\ Len(r_q) \in Nat /\ Len(axi_r) \in Nat
         /\ cb_beat \in Seq(Beat) /\ r_q \in Seq(Beat) /\ axi_r \in Seq(Beat)
<1>1. cb_beat \in Seq(Beat) /\ r_q \in Seq(Beat) /\ axi_r \in Seq(Beat)
  BY DEF TypeOK
<1>2. Held \in Nat /\ taken \in Nat /\ beats \in Nat
  BY SubNat DEF TypeOK, Held
<1> QED
  BY <1>1, <1>2

\* Beats promised, and those a flush adds, fit in the FIFO.
LEMMA PromisedFits ==
  ASSUME TypeOK, Accounts
  PROVE  Promised \in Nat /\ Promised <= RQMax
<1>1. Len(cb_beat) \in Nat /\ Len(r_q) \in Nat /\ PtrSub(wptr_nxt, rptr) \in Nat
  BY Lengths DEF Held
<1>2. Lag(c_rptr) \in Nat
  BY SubNat DEF TypeOK, Lag
<1> QED
  BY <1>1, <1>2, RQMaxAssumption DEF Accounts, Promised, Held

LEMMA FlushFits ==
  ASSUME TypeOK, Accounts
  PROVE  /\ Movable(rptr, axi_r) \in 0 .. Len(axi_r)
         /\ Movable(rptr, axi_r) \in Nat
         /\ Promised + Movable(rptr, axi_r) <= RQMax
         /\ PtrSub(c_wptr, rptr) = Promised
<1>1. /\ rptr \in Ptr /\ c_rptr \in Ptr /\ c_wptr \in Ptr
      /\ axi_r \in Seq(Beat) /\ Len(axi_r) \in Nat
  BY Lengths DEF TypeOK
<1>2. Lag(c_rptr) \in Nat /\ PtrSub(rptr, rptr) = 0
  BY <1>1, SubNat DEF Lag, PtrSub, Ptr
<1>3. Promised \in Nat /\ Promised <= RQMax
  BY PromisedFits
<1>4. PtrSub(rptr, c_rptr) <= PtrSub(c_wptr, c_rptr)
  BY <1>2, <1>3 DEF Accounts, Lag
<1>5. PtrSub(c_wptr, rptr)
        = PtrSub(c_wptr, c_rptr) - PtrSub(rptr, c_rptr) + PtrSub(rptr, rptr)
  BY <1>1, <1>2, <1>4, Triangle DEF Lag
<1>6. PtrSub(c_wptr, rptr) = Promised
  BY <1>2, <1>3, <1>5 DEF Accounts, Lag
<1> QED
  BY <1>1, <1>3, <1>6, MovableFits, RQMaxAssumption

LEMMA ReserveType ==
  ASSUME TypeOK, NEW n \in 0 .. RQMax, NEW ready \in Seq(Beat),
         n <= Len(ready), Reserve(n, ready)
  PROVE  /\ axi_r' \in Seq(Beat)
         /\ c_wptr' \in Ptr
         /\ pending_reads' \in Int
         /\ callbacks' \in Nat
         /\ SubSeq(ready, 1, n) \in Seq(Beat)
         /\ Len(SubSeq(ready, 1, n)) = n
<1>1. n \in Nat
  BY RQMaxAssumption
<1>2. axi_r' \in Seq(Beat)
  BY <1>1 DEF Reserve
<1>3. c_wptr' \in Ptr
  BY PtrRange DEF Reserve, TypeOK
<1>4. pending_reads' \in Int
  BY <1>1 DEF Reserve, TypeOK
<1>5. callbacks' \in Nat
  <2>1. CASE NoCallbacks
    BY <2>1 DEF Reserve, TypeOK
  <2>2. CASE ~NoCallbacks
    BY <2>2, <1>1 DEF Reserve, TypeOK
  <2> QED
    BY <2>1, <2>2
<1>6. SubSeq(ready, 1, n) \in Seq(Beat) /\ Len(SubSeq(ready, 1, n)) = n
  BY <1>1
<1> QED
  BY <1>2, <1>3, <1>4, <1>5, <1>6

LEMMA RRespType ==
  ASSUME TypeOK, NEW rp \in Ptr, NEW ready \in Seq(Beat), r_resp(rp, ready)
  PROVE  /\ axi_r' \in Seq(Beat) /\ r_q' \in Seq(Beat)
         /\ c_wptr' \in Ptr
         /\ pending_reads' \in Int /\ callbacks' \in Nat
         /\ Len(r_q') = Len(r_q) + Movable(rp, ready)
         /\ c_wptr' = PtrAdd(c_wptr, Movable(rp, ready))
<1> DEFINE n == Movable(rp, ready)
<1>1. n \in 0 .. RQMax /\ n <= Len(ready)
  BY MovableFits
<1>2. Reserve(n, ready) /\ r_q' = r_q \o SubSeq(ready, 1, n)
  BY DEF r_resp
<1> HIDE DEF n
<1>3. /\ axi_r' \in Seq(Beat) /\ c_wptr' \in Ptr
      /\ pending_reads' \in Int /\ callbacks' \in Nat
      /\ SubSeq(ready, 1, n) \in Seq(Beat) /\ Len(SubSeq(ready, 1, n)) = n
  BY <1>1, <1>2, ReserveType
<1>4. r_q' \in Seq(Beat) /\ Len(r_q') = Len(r_q) + n
  BY <1>2, <1>3 DEF TypeOK
<1>5. c_wptr' = PtrAdd(c_wptr, n)
  BY <1>2 DEF Reserve
<1> QED
  BY <1>3, <1>4, <1>5 DEF n

\* The beats of one read are beats.
LEMMA ReadBeats ==
  ASSUME TypeOK, NEW n \in Nat
  PROVE  axi_r \o [i \in 1 .. n |-> [seq |-> beats + i, last |-> i = n]]
           \in Seq(Beat)
<1> DEFINE s == [i \in 1 .. n |-> [seq |-> beats + i, last |-> i = n]]
<1>1. \A i \in 1 .. n : [seq |-> beats + i, last |-> i = n] \in Beat
  BY DEF TypeOK, Beat
<1>2. s \in [1 .. n -> Beat]
  BY <1>1
<1>3. s \in Seq(Beat)
  BY <1>2
<1> QED
  BY <1>3 DEF TypeOK

\* A push of beats that fit keeps the types.
LEMMA PushType ==
  ASSUME TypeOK, NEW s \in Seq(Beat), Len(s) <= RQMax, Push(s)
  PROVE  /\ q' \in [0 .. RQMax - 1 -> Beat]
         /\ wptr_nxt' \in Ptr
         /\ wptr_nxt' = IF reset_n THEN PtrAdd(wptr_nxt, Len(s)) ELSE wptr_nxt
<1>1. CASE reset_n
  <2> DEFINE slot(k) == Idx(PtrAdd(wptr_nxt, k - 1))
             written == {slot(k) : k \in 1 .. Len(s)}
             pick(i) == CHOOSE k \in 1 .. Len(s) : slot(k) = i
  <2>1. q' = [i \in 0 .. RQMax - 1 |->
                IF i \in written THEN s[pick(i)] ELSE q[i]]
    BY <1>1, Zenon DEF Push
  <2>2. ASSUME NEW i \in written
        PROVE  s[pick(i)] \in Beat
    <3>1. PICK k \in 1 .. Len(s) : slot(k) = i
      BY <2>2
    <3>2. pick(i) \in 1 .. Len(s)
      BY <3>1
    <3> HIDE DEF pick
    <3> QED
      BY <3>2
  <2>3. \A i \in 0 .. RQMax - 1 : q[i] \in Beat
    BY Zenon DEF TypeOK
  <2> HIDE DEF pick, written, slot
  <2>4. q' \in [0 .. RQMax - 1 -> Beat]
    BY <2>1, <2>2, <2>3
  <2>5. wptr_nxt' = PtrAdd(wptr_nxt, Len(s))
    BY <1>1 DEF Push
  <2>6. Len(s) \in 0 .. RQMax
    BY RQMaxAssumption
  <2>7. wptr_nxt' \in Ptr
    BY <2>5, <2>6, PtrRange DEF TypeOK
  <2> QED
    BY <1>1, <2>4, <2>5, <2>7
<1>2. CASE ~reset_n
  BY <1>2 DEF Push, TypeOK
<1> QED
  BY <1>1, <1>2

LEMMA InitInv == Init => IInv
<1> SUFFICES ASSUME Init PROVE IInv
  OBVIOUS
<1>1. 0 \in Ptr /\ PtrSub(0, 0) = 0
  BY RQMaxAssumption DEF Ptr, PtrSub
<1>2. NoBeat \in Beat
  BY DEF NoBeat, Beat
<1>3. Len(<< >>) = 0
  OBVIOUS
<1>4. TypeOK
  <2>1. \A S : << >> \in Seq(S)
    OBVIOUS
  <2>2. q \in [0 .. RQMax - 1 -> Beat]
    BY <1>2 DEF Init
  <2>3. updates \subseteq [r_ptr : Ptr, clock : Nat]
    BY DEF Init
  <2>4. /\ engine \in Seq([len : Nat, dev : BOOLEAN])
        /\ axi_r \in Seq(Beat) /\ r_q \in Seq(Beat) /\ cb_beat \in Seq(Beat)
        /\ Len(cb_beat) <= 1
    BY <2>1, <1>3 DEF Init, CppInit
  <2>5. /\ clocks \in Nat /\ ar_history \in Int /\ c_time \in Nat
        /\ callbacks \in Nat /\ pending_reads \in Int
        /\ reads \in Nat /\ beats \in Nat /\ taken \in Nat
    BY DEF Init, CppInit
  <2>6. /\ phase \in {"run", "held", "built", "reset"}
        /\ incremented \in BOOLEAN /\ flushed \in BOOLEAN
        /\ flush_called \in BOOLEAN
    BY Zenon DEF Init
  <2> QED
    BY <1>1, <2>2, <2>3, <2>4, <2>5, <2>6 DEF Init, CppInit, TypeOK
<1>5. Accounts
  BY <1>1, <1>3, RQMaxAssumption DEF Init, CppInit, Accounts, Lag, Promised, Held
<1>6. Stamps
  BY DEF Init, CppInit, Stamps
<1>7. Restarting
  BY DEF Init, CppInit, Restarting
<1> QED
  BY <1>4, <1>5, <1>6, <1>7 DEF IInv
---------------------------------------------------------------------------
(* Every step keeps IInv: one lemma per action.                            *)

LEMMA ARStep ==
  ASSUME IInv, NEW n \in BurstLens, NEW dev \in Devices, ProcessAR(n, dev)
  PROVE  IInv'
<1> USE DEF ProcessAR, fifo, flush, mirror
<1>1. [len |-> n, dev |-> dev] \in [len : Nat, dev : BOOLEAN]
  BY BurstAssumption, FlagAssumption
<1>2. engine' \in Seq([len : Nat, dev : BOOLEAN])
  BY <1>1 DEF IInv, TypeOK
<1>3. reads' \in Nat /\ ar_history' \in Int /\ pending_reads' \in Int
  BY DEF IInv, TypeOK
<1>4. TypeOK'
  BY <1>2, <1>3 DEF IInv, TypeOK
<1>5. Accounts' /\ Stamps'
  BY DEF IInv, Accounts, Stamps, Lag, Promised, Held, reset_n
<1>6. Restarting'
  BY DEF IInv, Restarting, reset_n
<1> QED
  BY <1>4, <1>5, <1>6 DEF IInv

\* r_resp() with the read pointer rp: what it reserves it also queues.
LEMMA RRespAccounts ==
  ASSUME IInv, NEW rp \in Ptr, NEW ready \in Seq(Beat), r_resp(rp, ready),
         PtrSub(rptr, rp) + Promised = PtrSub(c_wptr, rp),
         PtrSub(c_wptr, rp) <= RQMax,
         UNCHANGED <<wptr_nxt, rptr, cb_beat>>
  PROVE  /\ PtrSub(rptr', rp) + Promised' = PtrSub(c_wptr', rp)
         /\ PtrSub(c_wptr', rp) <= RQMax
<1> DEFINE n == Movable(rp, ready)
<1>1. /\ n \in 0 .. RQMax
      /\ PtrSub(c_wptr, rp) + n <= RQMax
  BY MovableFits DEF IInv
<1>2. Len(r_q') = Len(r_q) + n /\ c_wptr' = PtrAdd(c_wptr, n)
  BY RRespType DEF IInv
<1> HIDE DEF n
<1>3. c_wptr \in Ptr /\ PtrSub(c_wptr, rp) \in Nat
  BY PtrRange, RQMaxAssumption DEF IInv, TypeOK
<1>4. PtrSub(c_wptr', rp) = PtrSub(c_wptr, rp) + n
  BY <1>1, <1>2, <1>3, SubGrows, RQMaxAssumption
<1>5. /\ PtrSub(rptr', rp) = PtrSub(rptr, rp)
      /\ PtrSub(wptr_nxt', rptr') = PtrSub(wptr_nxt, rptr)
  OBVIOUS
<1>6. PtrSub(rptr, rp) \in Nat /\ PtrSub(wptr_nxt, rptr) \in Nat
  BY PtrRange, RQMaxAssumption DEF IInv, TypeOK
<1>7. Len(r_q) \in Nat /\ Len(cb_beat) \in Nat
  BY DEF IInv, TypeOK
<1>8. Promised' = Promised + n
  BY <1>1, <1>2, <1>5, <1>6, <1>7 DEF Promised, Held
<1> QED
  BY <1>1, <1>3, <1>4, <1>5, <1>6, <1>7, <1>8 DEF Promised, Held

LEMMA EngineStep == ASSUME IInv, EngineRead PROVE IInv'
<1> DEFINE n == Head(engine).len
           ready == axi_r \o [i \in 1 .. n |->
                                [seq |-> beats + i, last |-> i = n]]
<1>1. Head(engine) \in [len : Nat, dev : BOOLEAN]
      /\ Tail(engine) \in Seq([len : Nat, dev : BOOLEAN])
  <2> DEFINE R == [len : Nat, dev : BOOLEAN]
  <2>1. engine \in Seq(R) /\ engine # << >>
    BY DEF IInv, TypeOK, EngineRead
  <2> HIDE DEF R
  <2>2. Head(engine) \in R /\ Tail(engine) \in Seq(R)
    BY <2>1
  <2> QED
    BY <2>2 DEF R
<1>2. n \in Nat
  BY <1>1
<1>3. ready \in Seq(Beat)
  BY <1>2, ReadBeats, Zenon DEF IInv
<1>4. r_resp(c_rptr, ready) /\ beats' = beats + n
  BY DEF EngineRead
<1> HIDE DEF n, ready
<1> USE DEF fifo, flush
<1>5. /\ axi_r' \in Seq(Beat) /\ r_q' \in Seq(Beat) /\ c_wptr' \in Ptr
      /\ pending_reads' \in Int /\ callbacks' \in Nat
  BY <1>3, <1>4, RRespType DEF IInv, TypeOK
<1>6. TypeOK'
  <2>1. beats' \in Nat /\ engine' \in Seq([len : Nat, dev : BOOLEAN])
    BY <1>1, <1>2, <1>4 DEF EngineRead, IInv, TypeOK
  <2> QED
    BY <2>1, <1>5, Zenon DEF EngineRead, IInv, TypeOK
<1>7. ASSUME reset_n PROVE Accounts' /\ Stamps'
  <2>1. Accounts /\ c_rptr \in Ptr
    BY <1>7 DEF IInv, TypeOK
  <2>2. UNCHANGED <<wptr_nxt, rptr, cb_beat>>
    BY DEF EngineRead
  <2>3. /\ PtrSub(rptr', c_rptr) + Promised' = PtrSub(c_wptr', c_rptr)
        /\ PtrSub(c_wptr', c_rptr) <= RQMax
    BY <1>3, <1>4, <2>1, <2>2, RRespAccounts DEF Accounts, Lag
  <2>4. Accounts'
    BY <2>1, <2>3 DEF Accounts, EngineRead, Lag
  <2>5. Stamps'
    BY <1>7 DEF IInv, Stamps, EngineRead, Lag
  <2> QED
    BY <2>4, <2>5
<1>8. Restarting'
  BY DEF IInv, Restarting, EngineRead
<1> QED
  BY <1>6, <1>7, <1>8 DEF IInv, EngineRead, reset_n

LEMMA RQStep == ASSUME IInv, NEW m \in updates, ProcessRQ(m) PROVE IInv'
<1> USE DEF fifo, flush, mirror, history
<1>1. m \in [r_ptr : Ptr, clock : Nat]
  BY DEF IInv, TypeOK
<1>2. m.r_ptr \in Ptr /\ m.clock \in Nat
  BY <1>1
<1>3. CASE m.clock > c_time
  <2>1. r_resp(m.r_ptr, axi_r) /\ c_time' = m.clock /\ c_rptr' = m.r_ptr
    BY <1>3 DEF ProcessRQ
  <2>2. axi_r \in Seq(Beat)
    BY DEF IInv, TypeOK
  <2>3. /\ axi_r' \in Seq(Beat) /\ r_q' \in Seq(Beat) /\ c_wptr' \in Ptr
        /\ pending_reads' \in Int /\ callbacks' \in Nat
    BY <1>2, <2>1, <2>2, RRespType DEF IInv
  <2>4. TypeOK'
    BY <1>2, <2>1, <2>3 DEF ProcessRQ, IInv, TypeOK
  <2>5. ASSUME reset_n PROVE Accounts' /\ Stamps'
    <3>1. Accounts /\ Stamps
      BY <2>5 DEF IInv
    <3>2. c_wptr \in Ptr /\ rptr \in Ptr /\ c_rptr \in Ptr /\ wptr_nxt \in Ptr
      BY DEF IInv, TypeOK
    <3>3. Lag(m.r_ptr) <= Lag(c_rptr)
      BY <1>3, <3>1 DEF Stamps
    <3>4. Lag(c_rptr) \in Nat /\ Lag(m.r_ptr) \in Nat
      BY <1>2, <3>2, PtrRange, RQMaxAssumption DEF Lag
    <3>5. Promised \in Nat
      <4>1. PtrSub(wptr_nxt, rptr) \in Nat
        BY <3>2, PtrRange, RQMaxAssumption
      <4>2. Len(r_q) \in Nat /\ Len(cb_beat) \in Nat
        BY DEF IInv, TypeOK
      <4> QED
        BY <4>1, <4>2 DEF Promised, Held
    <3>6. Lag(c_rptr) <= PtrSub(c_wptr, c_rptr)
      BY <3>1, <3>4, <3>5 DEF Accounts
    <3>7. PtrSub(c_wptr, m.r_ptr)
            = PtrSub(c_wptr, c_rptr) - Lag(c_rptr) + Lag(m.r_ptr)
      BY <1>2, <3>2, <3>3, <3>6, Triangle DEF Lag
    <3>8. /\ PtrSub(rptr, m.r_ptr) + Promised = PtrSub(c_wptr, m.r_ptr)
          /\ PtrSub(c_wptr, m.r_ptr) <= RQMax
      BY <3>1, <3>3, <3>4, <3>5, <3>7, RQMaxAssumption DEF Accounts, Lag
    <3>9. UNCHANGED <<wptr_nxt, wptr, rptr, cb_beat, clocks, flush_called>>
      BY DEF ProcessRQ
    <3>10. /\ PtrSub(rptr', m.r_ptr) + Promised' = PtrSub(c_wptr', m.r_ptr)
           /\ PtrSub(c_wptr', m.r_ptr) <= RQMax
      BY <1>2, <2>1, <2>2, <3>8, <3>9, RRespAccounts
    <3>11. Accounts'
      BY <2>1, <3>1, <3>9, <3>10 DEF Accounts, Lag
    <3>12. updates' \subseteq updates
      BY DEF ProcessRQ
    <3>13. \A u \in updates : u.clock \in Nat
      BY DEF IInv, TypeOK
    <3>14. \A p : Lag(p)' = PtrSub(rptr, p')
      BY <3>9 DEF Lag
    <3>15. m.clock < clocks
      BY <3>1 DEF Stamps
    <3>16. c_time' <= clocks' /\ (~flush_called' => c_time' < clocks')
      BY <1>2, <2>1, <3>9, <3>15 DEF IInv, TypeOK
    <3>17. \A u \in updates' : u.clock < clocks'
      BY <3>1, <3>9, <3>12 DEF Stamps
    <3>18. \A u \in updates' : u.clock > m.clock
             => PtrSub(rptr, u.r_ptr) <= PtrSub(rptr, m.r_ptr)
      BY <1>3, <3>1, <3>12 DEF Stamps, Lag
    <3>19. \A u1, u2 \in updates' : u1.clock > m.clock /\ u1.clock < u2.clock
             => PtrSub(rptr, u2.r_ptr) <= PtrSub(rptr, u1.r_ptr)
      <4> SUFFICES ASSUME NEW u1 \in updates', NEW u2 \in updates',
                          u1.clock > m.clock, u1.clock < u2.clock
                   PROVE  PtrSub(rptr, u2.r_ptr) <= PtrSub(rptr, u1.r_ptr)
        OBVIOUS
      <4>1. u1.clock > c_time
        BY <1>2, <1>3, <3>12, <3>13 DEF IInv, TypeOK
      <4> QED
        BY <4>1, <3>1, <3>12 DEF Stamps, Lag
    <3>20. Stamps'
      BY <2>1, <3>9, <3>16, <3>17, <3>18, <3>19 DEF Stamps, Lag
    <3> QED
      BY <3>11, <3>20
  <2>6. Restarting'
    BY DEF IInv, Restarting, ProcessRQ
  <2> QED
    BY <2>4, <2>5, <2>6 DEF IInv, ProcessRQ, reset_n
<1>4. CASE ~(m.clock > c_time)
  <2>1. /\ UNCHANGED <<c_rptr, c_wptr, c_time, axi_r, r_q, callbacks,
                       pending_reads>>
        /\ updates' \subseteq updates
    BY <1>4 DEF ProcessRQ
  <2>2. TypeOK'
    BY <2>1 DEF ProcessRQ, IInv, TypeOK
  <2>3. reset_n => Accounts' /\ Stamps'
    BY <2>1 DEF ProcessRQ, IInv, Accounts, Stamps, Lag, Promised, Held
  <2>4. Restarting'
    BY <2>1 DEF IInv, Restarting, ProcessRQ
  <2> QED
    BY <2>2, <2>3, <2>4 DEF IInv, ProcessRQ, reset_n
<1> QED
  BY <1>3, <1>4

\* The parts of IInv an action keeps that touches none of their variables.
LEMMA KeepAccounts ==
  ASSUME Accounts,
         UNCHANGED <<wptr_nxt, wptr, rptr, cb_beat, r_q, c_rptr, c_wptr>>
  PROVE  Accounts'
BY DEF Accounts, Lag, Promised, Held

LEMMA KeepStamps ==
  ASSUME Stamps,
         UNCHANGED <<clocks, rptr, flush_called, updates, c_rptr, c_time>>
  PROVE  Stamps'
BY DEF Stamps, Lag

LEMMA PopStep == ASSUME IInv, CallbackPop PROVE IInv'
<1> USE DEF fifo, flush, mirror, history
<1>1. r_q \in Seq(Beat) /\ cb_beat = << >> /\ callbacks \in Nat
  BY DEF IInv, TypeOK, CallbackPop
<1>2. /\ r_q' \in Seq(Beat) /\ cb_beat' \in Seq(Beat)
      /\ Len(cb_beat') <= 1
      /\ Len(cb_beat') + Len(r_q') = Len(cb_beat) + Len(r_q)
  <2>1. CASE r_q = << >>
    BY <1>1, <2>1 DEF CallbackPop
  <2>2. CASE r_q # << >>
    <3>1. Head(r_q) \in Beat /\ Tail(r_q) \in Seq(Beat)
          /\ Len(Tail(r_q)) = Len(r_q) - 1 /\ Len(r_q) \in Nat
      BY <1>1, <2>2
    <3>2. r_q' = Tail(r_q) /\ cb_beat' = <<Head(r_q)>>
      BY <2>2 DEF CallbackPop
    <3> QED
      BY <1>1, <3>1, <3>2
  <2> QED
    BY <2>1, <2>2
<1>3. callbacks' \in Nat
  BY <1>1 DEF CallbackPop
<1>4. TypeOK'
  BY <1>2, <1>3 DEF CallbackPop, IInv, TypeOK
<1>5. ASSUME reset_n PROVE Accounts' /\ Stamps'
  <2>1. PtrSub(wptr_nxt, rptr) \in Nat
    BY PtrRange, RQMaxAssumption DEF IInv, TypeOK
  <2>2. Len(r_q) \in Nat /\ Len(cb_beat) \in Nat
        /\ Len(r_q') \in Nat /\ Len(cb_beat') \in Nat
    BY <1>1, <1>2
  <2>3. UNCHANGED <<wptr_nxt, wptr, rptr, c_rptr, c_wptr>>
    BY DEF CallbackPop
  <2>4. Promised' = Promised
    <3>1. PtrSub(wptr_nxt', rptr') = PtrSub(wptr_nxt, rptr)
      BY <2>3
    <3>2. Len(cb_beat') + Len(r_q') = Len(cb_beat) + Len(r_q)
      BY <1>2
    <3>3. Promised' = PtrSub(wptr_nxt', rptr') + Len(cb_beat') + Len(r_q')
      BY DEF Promised, Held
    <3> QED
      BY <2>1, <2>2, <3>1, <3>2, <3>3, SMTT(30) DEF Promised, Held
  <2>5. Accounts'
    BY <1>5, <2>3, <2>4 DEF IInv, Accounts, Lag
  <2>6. Stamps'
    BY <1>5, KeepStamps DEF IInv, CallbackPop
  <2> QED
    BY <2>5, <2>6
<1>6. Restarting'
  BY <1>1 DEF IInv, Restarting, CallbackPop
<1> QED
  BY <1>4, <1>5, <1>6 DEF IInv, CallbackPop, reset_n

\* A push of n promised beats turns the promise into taken slots.
LEMMA PushGrows ==
  ASSUME IInv, reset_n, NEW n \in 0 .. RQMax,
         PtrSub(wptr_nxt, rptr) + n <= RQMax,
         wptr_nxt' = PtrAdd(wptr_nxt, n), rptr' = rptr
  PROVE  PtrSub(wptr_nxt', rptr') = PtrSub(wptr_nxt, rptr) + n
<1>1. wptr_nxt \in Ptr /\ rptr \in Ptr
  BY DEF IInv, TypeOK
<1>2. PtrSub(wptr_nxt, rptr) \in Nat
  BY <1>1, PtrRange, RQMaxAssumption
<1> QED
  BY <1>1, <1>2, SubGrows, RQMaxAssumption

LEMMA PushStep == ASSUME IInv, CallbackPush PROVE IInv'
<1> USE DEF fifo, flush, mirror, history
<1>1. cb_beat \in Seq(Beat) /\ Len(cb_beat) <= 1 /\ Len(cb_beat) \in Nat
  BY DEF IInv, TypeOK
<1>2. Len(cb_beat) <= RQMax /\ Len(cb_beat) \in 0 .. RQMax
  BY <1>1, RQMaxAssumption
<1>3. /\ q' \in [0 .. RQMax - 1 -> Beat] /\ wptr_nxt' \in Ptr
      /\ wptr_nxt' = IF reset_n THEN PtrAdd(wptr_nxt, Len(cb_beat))
                     ELSE wptr_nxt
  BY <1>1, <1>2, PushType, Zenon DEF IInv, CallbackPush
<1>4. cb_beat' = << >> /\ cb_beat' \in Seq(Beat) /\ Len(cb_beat') = 0
  BY SMTT(30) DEF CallbackPush
<1>5. TypeOK'
  BY <1>3, <1>4 DEF CallbackPush, IInv, TypeOK
<1>6. ASSUME reset_n PROVE Accounts' /\ Stamps'
  <2>1. /\ PtrSub(wptr_nxt, rptr) \in Nat /\ Lag(c_rptr) \in Nat
        /\ PtrSub(wptr, rptr) \in Nat
    BY PtrRange, RQMaxAssumption DEF IInv, TypeOK, Lag
  <2>2. Len(r_q) \in Nat
    BY DEF IInv, TypeOK
  <2>3. Accounts
    BY <1>6 DEF IInv
  <2>4. Lag(c_rptr) + Promised <= RQMax
    BY <2>3 DEF Accounts
  <2>5. PtrSub(wptr_nxt, rptr) + Len(cb_beat) <= RQMax
    BY <1>1, <2>1, <2>2, <2>4, RQMaxAssumption DEF Promised, Held
  <2>6. UNCHANGED <<wptr, rptr, c_rptr, c_wptr, r_q>>
    BY DEF CallbackPush
  <2>7. PtrSub(wptr_nxt', rptr') = PtrSub(wptr_nxt, rptr) + Len(cb_beat)
    BY <1>2, <1>3, <1>6, <2>5, <2>6, PushGrows
  <2>8. Promised' = Promised
    BY <1>1, <1>4, <2>1, <2>2, <2>6, <2>7 DEF Promised, Held
  <2>9. PtrSub(wptr', rptr') <= PtrSub(wptr_nxt', rptr')
    BY <1>1, <2>1, <2>3, <2>6, <2>7 DEF Accounts
  <2>10. Accounts'
    BY <2>3, <2>6, <2>8, <2>9 DEF Accounts, Lag
  <2>11. Stamps'
    BY <1>6, KeepStamps DEF IInv, CallbackPush
  <2> QED
    BY <2>10, <2>11
<1>7. Restarting'
  BY DEF IInv, Restarting, CallbackPush
<1> QED
  BY <1>5, <1>6, <1>7 DEF IInv, CallbackPush, reset_n

LEMMA FlushStep == ASSUME IInv, Flush PROVE IInv'
<1> USE DEF fifo, flush, mirror, history
<1>1. /\ reset_n /\ ~flush_called /\ flush_called'
      /\ Accounts /\ Stamps /\ TypeOK /\ c_time < clocks
  BY DEF Flush, IInv, Stamps
<1>2. UNCHANGED <<phase, clocks, wptr, rptr, incremented, ar_history, updates,
                  engine, cb_beat, reads, beats, taken>>
      /\ wptr_prev' = wptr
  BY DEF Flush
<1>3. Restarting'
  BY <1>1, <1>2, Zenon DEF Restarting, reset_n
<1>4. CASE pending_reads = 0 /\ ~CbAsync
  <2>1. UNCHANGED <<q, wptr_nxt, c_rptr, c_wptr, c_time, axi_r, r_q,
                    callbacks, pending_reads>>
        /\ flushed' = TRUE
    BY <1>4 DEF Flush
  <2>2. TypeOK'
    BY <1>1, <1>2, <2>1, Zenon DEF TypeOK
  <2>3. Accounts'
    BY <1>1, <1>2, <2>1, KeepAccounts, Zenon
  <2>4. Stamps'
    BY <1>1, <1>2, <2>1 DEF Stamps, Lag
  <2> QED
    BY <1>3, <2>2, <2>3, <2>4, Zenon DEF IInv
<1>5. CASE ~(pending_reads = 0 /\ ~CbAsync)
  <2> DEFINE n == Movable(rptr, axi_r)
             s == r_q \o SubSeq(axi_r, 1, n)
  <2>1. /\ c_time' = clocks /\ c_rptr' = rptr
        /\ Reserve(n, axi_r)
    BY <1>5 DEF Flush
  <2>2. \/ /\ cb_beat # << >>
           /\ r_q' = s /\ flushed' = FALSE /\ UNCHANGED <<q, wptr_nxt>>
        \/ /\ cb_beat = << >> /\ Push(s) /\ r_q' = << >>
           /\ flushed' \in BOOLEAN
    BY <1>5, Zenon DEF Flush
  <2>3. axi_r \in Seq(Beat) /\ r_q \in Seq(Beat) /\ cb_beat \in Seq(Beat)
        /\ rptr \in Ptr /\ c_rptr \in Ptr /\ c_wptr \in Ptr
        /\ wptr_nxt \in Ptr /\ wptr \in Ptr
    BY <1>1 DEF TypeOK
  <2>4. n \in 0 .. RQMax /\ n <= Len(axi_r)
        /\ (PtrSub(c_wptr, rptr) <= RQMax
             => PtrSub(c_wptr, rptr) + n <= RQMax)
    BY <1>1, <2>3, MovableFits
  <2> HIDE DEF n
  <2>5. /\ axi_r' \in Seq(Beat) /\ c_wptr' \in Ptr
        /\ pending_reads' \in Int /\ callbacks' \in Nat
        /\ SubSeq(axi_r, 1, n) \in Seq(Beat)
        /\ Len(SubSeq(axi_r, 1, n)) = n
    BY <1>1, <2>1, <2>3, <2>4, ReserveType
  <2>6. s \in Seq(Beat) /\ Len(s) = Len(r_q) + n /\ Len(s) \in Nat
    BY <2>3, <2>5
  <2>7. Len(r_q) \in Nat /\ Len(cb_beat) \in Nat
    BY <2>3
  <2>8. /\ PtrSub(wptr_nxt, rptr) \in Nat /\ Lag(c_rptr) \in Nat
        /\ PtrSub(wptr, rptr) \in Nat /\ PtrSub(c_wptr, rptr) \in Nat
        /\ PtrSub(rptr, rptr) = 0
    BY <2>3, PtrRange, RQMaxAssumption DEF Lag
  <2>9. Promised \in Nat
    BY <2>7, <2>8, SMTT(30) DEF Promised, Held
  <2>10. PtrSub(c_wptr, rptr) = Promised
    <3>1. PtrSub(rptr, rptr) <= PtrSub(rptr, c_rptr)
      BY <2>8 DEF Lag
    <3>2. PtrSub(rptr, c_rptr) <= PtrSub(c_wptr, c_rptr)
      BY <1>1, <2>8, <2>9, SMTT(30) DEF Accounts, Lag
    <3>3. PtrSub(c_wptr, rptr)
            = PtrSub(c_wptr, c_rptr) - PtrSub(rptr, c_rptr)
                + PtrSub(rptr, rptr)
      BY <2>3, <3>1, <3>2, Triangle
    <3> QED
      BY <1>1, <2>8, <2>9, <3>3 DEF Accounts, Lag
  <2>11. Promised + n <= RQMax
    <3>1. Promised <= RQMax
      BY <1>1, <2>8, <2>9, RQMaxAssumption DEF Accounts
    <3> QED
      BY <2>4, <2>10, <3>1
  <2>12. PtrSub(c_wptr', rptr) = Promised + n
    <3>1. c_wptr' = PtrAdd(c_wptr, n)
      BY <2>1 DEF Reserve
    <3> QED
      BY <3>1, <2>3, <2>4, <2>9, <2>10, <2>11, SubGrows, RQMaxAssumption, SMTT(30)
  <2> HIDE DEF s
  <2>13. PtrSub(wptr_nxt, rptr) + Len(cb_beat) + Len(s) <= RQMax
    BY <2>4, <2>6, <2>7, <2>8, <2>11, RQMaxAssumption DEF Promised, Held
  <2>14. /\ q' \in [0 .. RQMax - 1 -> Beat] /\ wptr_nxt' \in Ptr
         /\ r_q' \in Seq(Beat) /\ flushed' \in BOOLEAN
         /\ Promised' = Promised + n
         /\ PtrSub(wptr, rptr) <= PtrSub(wptr_nxt', rptr)
    <3>1. CASE cb_beat # << >>
      <4>1. r_q' = s /\ flushed' = FALSE /\ UNCHANGED <<q, wptr_nxt>>
        BY <2>2, <3>1
      <4>2. PtrSub(wptr_nxt', rptr') = PtrSub(wptr_nxt, rptr)
        BY <1>2, <4>1, Zenon
      <4>3. Promised' = Promised + n
        BY <1>2, <2>4, <2>6, <2>7, <2>8, <4>1, <4>2, SMTT(30) DEF Promised, Held
      <4>4. PtrSub(wptr, rptr) <= PtrSub(wptr_nxt', rptr)
        BY <1>1, <4>1 DEF Accounts
      <4> QED
        BY <1>1, <2>6, <4>1, <4>3, <4>4, Zenon DEF TypeOK
    <3>2. CASE cb_beat = << >>
      <4>1. Push(s) /\ r_q' = << >> /\ flushed' \in BOOLEAN
        BY <2>2, <3>2
      <4>2. Len(cb_beat) = 0 /\ Len(r_q') = 0 /\ r_q' \in Seq(Beat)
        BY <3>2, <4>1
      <4>3. Len(s) <= RQMax /\ Len(s) \in 0 .. RQMax
            /\ PtrSub(wptr_nxt, rptr) + Len(s) <= RQMax
        BY <2>6, <2>8, <2>13, <4>2, RQMaxAssumption
      <4>4. /\ q' \in [0 .. RQMax - 1 -> Beat] /\ wptr_nxt' \in Ptr
            /\ wptr_nxt' = PtrAdd(wptr_nxt, Len(s))
        BY <1>1, <2>6, <4>1, <4>3, PushType
      <4>5. PtrSub(wptr_nxt', rptr') = PtrSub(wptr_nxt, rptr) + Len(s)
        BY <1>1, <1>2, <4>3, <4>4, PushGrows
      <4>6. Len(cb_beat') = 0
        BY <1>2, <4>2
      <4>7. Promised' = Promised + n
        BY <2>4, <2>6, <2>7, <2>8, <4>2, <4>5, <4>6, SMTT(30) DEF Promised, Held
      <4>8. PtrSub(wptr, rptr) <= PtrSub(wptr_nxt', rptr)
        BY <1>1, <1>2, <2>6, <2>8, <4>5, SMTT(30) DEF Accounts
      <4> QED
        BY <4>1, <4>2, <4>4, <4>7, <4>8
    <3> QED
      BY <3>1, <3>2
  <2>15. TypeOK'
    BY <1>1, <1>2, <2>1, <2>3, <2>5, <2>14 DEF TypeOK
  <2>16. Accounts'
    <3>1. Lag(c_rptr)' = 0
      BY <1>2, <2>1, <2>8 DEF Lag
    <3>2. PtrSub(c_wptr', c_rptr') = Promised + n
      BY <2>1, <2>12
    <3> QED
      BY <1>2, <2>4, <2>9, <2>11, <2>14, <3>1, <3>2, SMTT(30) DEF Accounts
  <2>17. Stamps'
    <3>1. c_time' <= clocks'
      BY <1>1, <1>2, <2>1 DEF TypeOK
    <3>2. \A m \in updates : m.clock < clocks /\ m.clock \in Nat
      BY <1>1 DEF Stamps, TypeOK
    <3>3. \A m \in updates : ~(m.clock > clocks)
      BY <1>1, <3>2, SMTT(30) DEF TypeOK
    <3> QED
      BY <1>1, <1>2, <2>1, <3>1, <3>2, <3>3, Zenon DEF Stamps
  <2> QED
    BY <1>3, <2>15, <2>16, <2>17 DEF IInv
<1> QED
  BY <1>4, <1>5, Zenon

LEMMA ClockStep ==
  ASSUME IInv, NEW take \in BOOLEAN, Clock(take)
  PROVE  IInv'
<1>1. reset_n /\ Accounts /\ Stamps /\ TypeOK
  BY DEF Clock, IInv
<1>2. /\ UNCHANGED <<phase, q, wptr_nxt, wptr_prev, c_rptr, c_wptr, c_time,
                     engine, axi_r, r_q, callbacks, cb_beat, pending_reads,
                     reads, beats>>
      /\ clocks' = clocks + 1 /\ flush_called' = FALSE
      /\ incremented' = take /\ flushed' = StillFlushed
      /\ rptr' = IF take THEN PtrAdd(rptr, 1) ELSE rptr
      /\ wptr' = wptr_nxt \/ wptr' = wptr
      /\ taken' = IF take THEN taken + 1 ELSE taken
      /\ take => wptr # rptr
      /\ updates' = IF incremented THEN updates \cup {PtrMessage} ELSE updates
  BY Zenon DEF Clock, cpp, mirror, r_queue_empty
<1>3. Restarting'
  BY <1>1, <1>2 DEF Restarting, reset_n
<1>4. /\ rptr \in Ptr /\ wptr \in Ptr /\ wptr_nxt \in Ptr /\ c_rptr \in Ptr
      /\ c_wptr \in Ptr /\ clocks \in Nat /\ c_time \in Nat
      /\ cb_beat \in Seq(Beat) /\ r_q \in Seq(Beat)
  BY <1>1 DEF TypeOK
<1>5. /\ PtrSub(wptr_nxt, rptr) \in Nat /\ PtrSub(wptr, rptr) \in Nat
      /\ Lag(c_rptr) \in Nat /\ Len(cb_beat) \in Nat /\ Len(r_q) \in Nat
  <2>1. Len(cb_beat) \in Nat /\ Len(r_q) \in Nat
    BY <1>4, SMTT(30)
  <2> QED
    BY <1>4, <2>1, SubNat, Zenon DEF Lag
<1>6. rptr' \in Ptr
  BY <1>2, <1>4, PtrRange, RQMaxAssumption
<1>7. PtrMessage \in [r_ptr : Ptr, clock : Nat]
  BY <1>4, Zenon DEF PtrMessage
<1>8. TypeOK'
  <2>1. updates' \subseteq [r_ptr : Ptr, clock : Nat]
    BY <1>1, <1>2, <1>7 DEF TypeOK
  <2>2. clocks' \in Nat /\ taken' \in Nat
    BY <1>1, <1>2, SMTT(30) DEF TypeOK
  <2>3. ar_history' \in Int
    BY <1>1 DEF Clock, TypeOK
  <2>4. flushed' \in BOOLEAN /\ incremented' \in BOOLEAN
        /\ flush_called' \in BOOLEAN
    BY <1>1, <1>2, Zenon DEF TypeOK, StillFlushed
  <2>5. wptr' \in Ptr
    BY <1>2, <1>4, Zenon
  <2> QED
    BY <1>1, <1>2, <1>6, <2>1, <2>2, <2>3, <2>4, <2>5, ZenonT(40) DEF TypeOK
\* A beat that is taken leaves the FIFO: the lag of every pointer grows by
\* one and what is promised shrinks by one.
<1>9. ASSUME take
      PROVE  /\ PtrSub(wptr_nxt, rptr) > 0
             /\ PtrSub(wptr_nxt, rptr') = PtrSub(wptr_nxt, rptr) - 1
             /\ PtrSub(wptr, rptr') = PtrSub(wptr, rptr) - 1
             /\ Lag(c_rptr) + 1 <= RQMax
             /\ \A p \in Ptr : Lag(p) <= Lag(c_rptr)
                   => PtrSub(rptr', p) = Lag(p) + 1
  <2>1. PtrSub(wptr, rptr) > 0
    BY <1>2, <1>4, <1>9, RQMaxAssumption DEF Ptr, PtrSub
  <2>2. PtrSub(wptr_nxt, rptr) > 0
    BY <1>1, <1>5, <2>1, SMTT(30) DEF Accounts
  <2>3. rptr' = PtrAdd(rptr, 1)
    BY <1>2, <1>9
  <2>4. Lag(c_rptr) + 1 <= RQMax
    <3>1. Promised >= 1
      BY <1>5, <2>2 DEF Promised, Held
    <3>2. Promised \in Nat
      BY <1>5 DEF Promised, Held
    <3> QED
      BY <1>1, <1>5, <3>1, <3>2, RQMaxAssumption DEF Accounts
  <2>5. ASSUME NEW p \in Ptr, Lag(p) <= Lag(c_rptr)
        PROVE  PtrSub(rptr', p) = Lag(p) + 1
    <3>1. Lag(p) \in Nat
      BY <1>4, PtrRange, RQMaxAssumption DEF Lag
    <3>2. PtrSub(rptr, p) + 1 < 2 * RQMax
      BY <1>5, <2>4, <2>5, <3>1, RQMaxAssumption DEF Lag
    <3>3. 1 \in 0 .. RQMax
      BY RQMaxAssumption
    <3>4. PtrSub(PtrAdd(rptr, 1), p) = PtrSub(rptr, p) + 1
      BY <1>4, <3>2, <3>3, SubGrows, Zenon
    <3> QED
      BY <2>3, <3>4 DEF Lag
  <2> QED
    BY <1>4, <2>1, <2>2, <2>3, <2>4, <2>5, SubShrinks
\* In either case., Zenon
<1> DEFINE t == IF take THEN 1 ELSE 0
<1>10. /\ t \in {0, 1}
       /\ PtrSub(wptr_nxt, rptr') = PtrSub(wptr_nxt, rptr) - t
       /\ PtrSub(wptr, rptr') = PtrSub(wptr, rptr) - t
       /\ \A p \in Ptr : Lag(p) <= Lag(c_rptr)
             => PtrSub(rptr', p) = Lag(p) + t
  <2>1. CASE take
    BY <1>9, <2>1
  <2>2. CASE ~take
    <3>1. rptr' = rptr /\ t = 0
      BY <1>2, <2>2
    <3>2. \A p \in Ptr : PtrSub(rptr, p) \in Nat
      BY <1>4, PtrRange, RQMaxAssumption
    <3> QED
      BY <1>5, <3>1, <3>2, SMTT(30) DEF Lag
  <2> QED
    BY <2>1, <2>2, Zenon
<1> HIDE DEF t
<1>11. PtrSub(rptr', c_rptr) = Lag(c_rptr) + t
  BY <1>4, <1>5, <1>10, SMTT(30)
<1>12. Accounts'
  <2>1. Promised' = Promised - t
    <3>1. Promised' = PtrSub(wptr_nxt, rptr') + Len(cb_beat) + Len(r_q)
      BY <1>2, Zenon DEF Promised, Held
    <3> QED
      BY <1>5, <1>10, <3>1 DEF Promised, Held
  <2>2. Promised \in Int
    BY <1>5, SMTT(30) DEF Promised, Held
  <2>3. Lag(c_rptr)' = Lag(c_rptr) + t
    BY <1>2, <1>11 DEF Lag
  <2>4. PtrSub(c_wptr', c_rptr') = PtrSub(c_wptr, c_rptr)
    BY <1>2, Zenon
  <2>5. Lag(c_rptr)' + Promised' = PtrSub(c_wptr', c_rptr')
    BY <1>1, <1>5, <1>10, <2>1, <2>2, <2>3, <2>4, SMTT(30) DEF Accounts
  <2>6. PtrSub(wptr', rptr') <= PtrSub(wptr_nxt', rptr')
    <3>1. CASE wptr' = wptr_nxt
      <4>1. PtrSub(wptr', rptr') = PtrSub(wptr_nxt', rptr')
            /\ PtrSub(wptr_nxt', rptr') = PtrSub(wptr_nxt, rptr) - t
        BY <1>2, <1>10, <3>1, Zenon
      <4> QED
        BY <1>5, <1>10, <4>1, SMTT(30)
    <3>2. CASE wptr' = wptr
      <4>1. PtrSub(wptr', rptr') = PtrSub(wptr, rptr) - t
            /\ PtrSub(wptr_nxt', rptr') = PtrSub(wptr_nxt, rptr) - t
        BY <1>2, <1>10, <3>2, ZenonT(40)
      <4> QED
        BY <1>1, <1>5, <1>10, <4>1 DEF Accounts
    <3> QED
      BY <1>2, <3>1, <3>2
  <2> QED
    BY <1>1, <2>4, <2>5, <2>6, Zenon DEF Accounts
<1>13. Stamps'
  <2>1. c_time' < clocks'
    BY <1>1, <1>2, <1>4, SMTT(30) DEF Stamps
  <2>2. ASSUME NEW m \in updates'
        PROVE  \/ m \in updates
               \/ m.clock = clocks /\ m.r_ptr = rptr
    BY <1>2, <2>2, SMTT(30) DEF PtrMessage
  <2>3. \A m \in updates : /\ m.clock \in Nat /\ m.r_ptr \in Ptr
                           /\ m.clock < clocks
    BY <1>1 DEF Stamps, TypeOK
  <2>4. \A m \in updates' : m.clock \in Nat /\ m.clock < clocks'
    BY <1>2, <1>4, <2>2, <2>3
  \* Every message that would be applied lags no more than C++., Zenon
  <2>5. ASSUME NEW m \in updates', m.clock > c_time
        PROVE  Lag(m.r_ptr) <= Lag(c_rptr) /\ m.r_ptr \in Ptr
    <3>1. CASE m \in updates
      BY <1>1, <2>3, <2>5, <3>1 DEF Stamps
    <3>2. CASE m.r_ptr = rptr
      <4>1. Lag(rptr) = 0
        BY <1>4, PtrRange, RQMaxAssumption DEF Lag
      <4> QED
        BY <1>4, <1>5, <3>2, <4>1, SMTT(30)
    <3> QED
      BY <2>2, <3>1, <3>2
  <2>6. ASSUME NEW m \in updates', m.clock > c_time
        PROVE  /\ PtrSub(rptr', m.r_ptr) = Lag(m.r_ptr) + t
               /\ Lag(m.r_ptr) \in Nat
    <3>1. Lag(m.r_ptr) <= Lag(c_rptr) /\ m.r_ptr \in Ptr
      BY <2>5, <2>6, Zenon
    <3>2. Lag(m.r_ptr) \in Nat
      BY <1>4, <3>1, SubNat, Zenon DEF Lag
    <3> QED
      BY <1>10, <3>1, <3>2
  <2>7. \A m \in updates' : m.clock > c_time
          => PtrSub(rptr', m.r_ptr) <= PtrSub(rptr', c_rptr)
    BY <1>5, <1>10, <1>11, <2>5, <2>6
  <2>8. ASSUME NEW m1 \in updates', NEW m2 \in updates',
               m1.clock > c_time, m1.clock < m2.clock
        PROVE  PtrSub(rptr', m2.r_ptr) <= PtrSub(rptr', m1.r_ptr)
    <3>1. m2.clock > c_time
      BY <1>4, <2>4, <2>8
    <3>2. Lag(m2.r_ptr) <= Lag(m1.r_ptr)
      <4>1. CASE m1 \in updates /\ m2 \in updates
        BY <1>1, <2>8, <4>1, Zenon DEF Stamps
      <4>2. CASE m2.r_ptr = rptr
        <5>1. Lag(rptr) = 0
          BY <1>4, PtrRange, RQMaxAssumption DEF Lag
        <5> QED
          BY <2>6, <2>8, <4>2, <5>1
      <4>3. CASE m1.clock = clocks
        <5>1. m2.clock <= clocks
          BY <1>2, <1>4, <2>4
        <5> QED
          BY <1>4, <2>4, <2>8, <4>3, <5>1, SMTT(30)
      <4> QED
        BY <2>2, <4>1, <4>2, <4>3
    <3> QED
      BY <1>10, <2>6, <2>8, <3>1, <3>2
  <2> QED
    BY <1>2, <1>4, <2>1, <2>4, <2>7, <2>8, SMTT(30) DEF Stamps, Lag
<1> QED
  BY <1>3, <1>8, <1>12, <1>13, Zenon DEF IInv

LEMMA ResetStep ==
  ASSUME IInv, AssertReset \/ BuildRegistry \/ SysReset \/ ReleaseReset
  PROVE  IInv'
<1> USE DEF fifo, flush, mirror, history, cpp
<1>1. 0 \in Ptr /\ PtrSub(0, 0) = 0 /\ Len(<< >>) = 0
  BY RQMaxAssumption DEF Ptr, PtrSub
<1>2. \A S : << >> \in Seq(S)
  OBVIOUS
<1>3. CASE AssertReset
  <2>1. phase' = "held" /\ ~reset_n'
    BY <1>3, ZenonT(40) DEF AssertReset, reset_n
  <2>2. TypeOK'
    <3>1. clocks' \in Nat /\ ar_history' \in Int
      BY <1>3, SMTT(30) DEF AssertReset
    <3>2. /\ incremented' \in BOOLEAN /\ flushed' \in BOOLEAN
          /\ flush_called' \in BOOLEAN
      BY <1>3, Zenon DEF AssertReset
    <3>3. wptr' \in Ptr
      BY <1>3 DEF AssertReset, IInv, TypeOK
    <3> QED
      BY <1>3, <2>1, <3>1, <3>2, <3>3 DEF AssertReset, IInv, TypeOK
  <2>3. Restarting'
    BY <1>3, <2>1, Zenon DEF AssertReset, Restarting
  <2> QED
    BY <2>1, <2>2, <2>3 DEF IInv
<1>4. CASE BuildRegistry
  <2>1. phase' = "built" /\ ~reset_n'
    BY <1>4, Zenon DEF BuildRegistry, reset_n
  <2>2. TypeOK'
    <3>1. NoBeat \in Beat
      BY Zenon DEF NoBeat, Beat
    <3>2. q' \in [0 .. RQMax - 1 -> Beat]
      BY <1>4, <3>1 DEF BuildRegistry
    <3>3. /\ engine' \in Seq([len : Nat, dev : BOOLEAN])
          /\ axi_r' \in Seq(Beat) /\ r_q' \in Seq(Beat)
          /\ cb_beat' \in Seq(Beat) /\ Len(cb_beat') <= 1
      BY <1>1, <1>2, <1>4, SMTT(30) DEF BuildRegistry
    <3>4. /\ c_rptr' \in Ptr /\ c_wptr' \in Ptr
          /\ c_time' \in Nat /\ callbacks' \in Nat /\ pending_reads' \in Int
          /\ reads' \in Nat /\ beats' \in Nat /\ taken' \in Nat
      BY <1>1, <1>4, SMTT(30) DEF BuildRegistry
    <3>5. updates' \subseteq [r_ptr : Ptr, clock : Nat]
      BY <1>4 DEF BuildRegistry
    <3> QED
      BY <1>4, <2>1, <3>2, <3>3, <3>4, <3>5, Zenon DEF BuildRegistry, IInv, TypeOK
  <2>3. Restarting'
    BY <1>4, <2>1, Zenon DEF BuildRegistry, Restarting, IInv
  <2> QED
    BY <2>1, <2>2, <2>3, Zenon DEF IInv
<1>5. CASE SysReset
  <2>1. phase' = "reset" /\ ~reset_n'
    BY <1>5 DEF SysReset, reset_n
  <2>2. TypeOK'
    <3>1. engine' \in Seq([len : Nat, dev : BOOLEAN]) /\ axi_r' \in Seq(Beat)
      BY <1>2, <1>5, Zenon DEF SysReset
    <3>2. c_rptr' \in Ptr /\ c_wptr' \in Ptr /\ c_time' \in Nat
          /\ wptr_nxt' \in Ptr /\ rptr' \in Ptr
      BY <1>1, <1>5 DEF SysReset
    <3> QED
      BY <1>5, <2>1, <3>1, <3>2, Zenon DEF SysReset, IInv, TypeOK
  <2>3. Restarting'
    BY <1>5, <2>1, Zenon DEF SysReset, Restarting, IInv
  <2> QED
    BY <2>1, <2>2, <2>3, Zenon DEF IInv
<1>6. CASE ReleaseReset
  <2>1. phase' = "run" /\ phase = "reset"
    BY <1>6 DEF ReleaseReset
  <2>2. /\ wptr' = 0 /\ wptr_nxt' = 0 /\ rptr' = 0
        /\ c_rptr' = 0 /\ c_wptr' = 0 /\ c_time' = 0 /\ clocks' = 1
        /\ r_q' = << >> /\ cb_beat' = << >> /\ updates' = {}
    BY <1>6, <2>1, Zenon DEF ReleaseReset, IInv, Restarting
  <2>3. TypeOK'
    BY <1>6 DEF ReleaseReset, IInv, TypeOK
  <2>4. Accounts'
    BY <1>1, <2>2, RQMaxAssumption DEF Accounts, Lag, Promised, Held
  <2>5. Stamps'
    BY <2>2 DEF Stamps
  <2>6. Restarting'
    BY <2>1 DEF Restarting
  <2> QED
    BY <2>3, <2>4, <2>5, <2>6, Zenon DEF IInv
<1> QED
  BY <1>3, <1>4, <1>5, <1>6

LEMMA NextInv == IInv /\ [Next]_vars => IInv'
<1> SUFFICES ASSUME IInv, [Next]_vars PROVE IInv'
  BY ZenonT(40)
<1>1. CASE UNCHANGED vars
  BY <1>1 DEF vars, fifo, flush, cpp, mirror, history, IInv, TypeOK, Accounts,
              Stamps, Restarting, Lag, Promised, Held, reset_n
<1>2. ASSUME NEW n \in BurstLens, NEW dev \in Devices, ProcessAR(n, dev)
      PROVE  IInv'
  BY <1>2, ARStep
<1>3. CASE EngineRead
  BY <1>3, EngineStep
<1>4. CASE Deliver
  BY <1>4, RQStep DEF Deliver
<1>5. CASE CallbackPop
  BY <1>5, PopStep
<1>6. CASE CallbackPush
  BY <1>6, PushStep
<1>7. CASE Flush
  BY <1>7, FlushStep
<1>8. ASSUME NEW take \in BOOLEAN, Clock(take) PROVE IInv'
  BY <1>8, ClockStep
<1>9. CASE AssertReset \/ BuildRegistry \/ SysReset \/ ReleaseReset
  BY <1>9, ResetStep
<1> QED
  BY <1>1, <1>2, <1>3, <1>4, <1>5, <1>6, <1>7, <1>8, <1>9 DEF Next

LEMMA Inductive == Spec => []IInv
BY InitInv, NextInv, PTL DEF Spec

\* The types hold, for every depth of the FIFO and every use of it.
THEOREM TypeCorrect == Spec => []TypeOK
<1>1. IInv => TypeOK
  BY DEF IInv
<1> QED
  BY <1>1, Inductive, PTL

\* A push never finds the FIFO full (the assertion of axi_sw.sv 11): the
\* lag of C++ makes it count too many slots as used, never too few.
THEOREM NeverFull == Spec => []NotFull
<1>1. IInv => NotFull
  BY PromisedFits DEF IInv, NotFull, Promised, Held
<1> QED
  BY <1>1, Inductive, PTL

\* The assertion of axi_sw.h 281 never fails.
THEOREM FlushNewest == Spec => []FlushIsNewest
<1>1. IInv => FlushIsNewest
  BY DEF IInv, FlushIsNewest, Stamps, TypeOK
<1> QED
  BY <1>1, Inductive, PTL
---------------------------------------------------------------------------
LEMMA ConcatNumbered ==
  ASSUME NEW s \in Seq(Beat), NEW t \in Seq(Beat), NEW base \in Nat,
         Numbered(s, base), Numbered(t, base + Len(s))
  PROVE  Numbered(s \o t, base)
BY DEF Numbered, Beat

LEMMA SplitNumbered ==
  ASSUME NEW s \in Seq(Beat), NEW n \in 0 .. Len(s), NEW base \in Nat,
         Numbered(s, base)
  PROVE  /\ Numbered(SubSeq(s, 1, n), base)
         /\ Numbered(SubSeq(s, n + 1, Len(s)), base + n)
         /\ Len(SubSeq(s, 1, n)) = n
         /\ Len(SubSeq(s, n + 1, Len(s))) = Len(s) - n
<1> DEFINE a == SubSeq(s, 1, n)
           b == SubSeq(s, n + 1, Len(s))
<1>1. n \in Nat /\ Len(s) \in Nat /\ n <= Len(s)
  OBVIOUS
<1>2. Len(a) = n
  BY <1>1
<1>3. Len(b) = Len(s) - n
  BY <1>1
<1>4. ASSUME NEW k \in 1 .. n PROVE a[k].seq = base + k
  <2>1. a[k] = s[k]
    BY <1>1
  <2>2. k \in 1 .. Len(s)
    BY <1>1
  <2> HIDE DEF a
  <2> QED
    BY <2>1, <2>2 DEF Numbered
<1>5. ASSUME NEW k \in 1 .. Len(s) - n PROVE b[k].seq = base + n + k
  <2>1. b[k] = s[n + k]
    BY <1>1, SMTT(30)
  <2>2. n + k \in 1 .. Len(s)
    BY <1>1, SMTT(30)
  <2>3. s[n + k].seq = base + (n + k)
    BY <2>2, Zenon DEF Numbered
  <2> HIDE DEF b
  <2> QED
    BY <1>1, <2>1, <2>3
<1> HIDE DEF a, b
<1>6. Numbered(a, base) /\ Numbered(b, base + n)
  BY <1>2, <1>3, <1>4, <1>5, Zenon DEF Numbered
<1> QED
  BY <1>2, <1>3, <1>6, Zenon DEF a, b

\* A pushed beat goes to the slot behind those that are held, and none of them
\* is overwritten.
LEMMA PushOrder ==
  ASSUME TypeOK, reset_n, NEW s \in Seq(Beat), Held + Len(s) <= RQMax, Push(s),
         \A k \in 0 .. Held - 1 : q[Idx(PtrAdd(rptr, k))].seq = taken + 1 + k,
         Numbered(s, taken + Held), UNCHANGED <<rptr, taken>>
  PROVE  /\ Held' = Held + Len(s)
         /\ \A k \in 0 .. Held' - 1 : q'[Idx(PtrAdd(rptr', k))].seq = taken' + 1 + k
<1> DEFINE slot(k) == Idx(PtrAdd(wptr_nxt, k - 1))
           written == {slot(k) : k \in 1 .. Len(s)}
           pick(i) == CHOOSE k \in 1 .. Len(s) : slot(k) = i
<1>1. /\ Len(s) \in Nat /\ Held \in Nat /\ taken \in Nat
      /\ wptr_nxt \in Ptr /\ rptr \in Ptr
  BY SubNat DEF TypeOK, Held
<1>2. q' = [i \in 0 .. RQMax - 1 |-> IF i \in written THEN s[pick(i)] ELSE q[i]]
  BY Zenon DEF Push
<1>3. Held' = Held + Len(s)
  <2>1. wptr_nxt' = PtrAdd(wptr_nxt, Len(s))
    BY Zenon DEF Push
  <2> QED
    BY <1>1, <2>1, SubGrows, RQMaxAssumption DEF Held
<1>4. \A k \in 1 .. Len(s) : slot(k) = Idx(PtrAdd(rptr, Held + k - 1))
  BY <1>1, RQMaxAssumption DEF Held, PtrSub, PtrAdd, Idx, Ptr
<1>5. \A k \in 0 .. RQMax - 1 : Idx(PtrAdd(rptr, k)) \in 0 .. RQMax - 1
  BY <1>1, RQMaxAssumption, SMTT(30) DEF PtrAdd, Idx, Ptr
<1>6. \A k, l \in 0 .. RQMax - 1 :
        Idx(PtrAdd(rptr, k)) = Idx(PtrAdd(rptr, l)) => k = l
  BY <1>1, RQMaxAssumption, SMTT(30) DEF PtrAdd, Idx, Ptr
<1> HIDE DEF slot
<1>7. ASSUME NEW k \in 0 .. Held - 1
      PROVE  q'[Idx(PtrAdd(rptr, k))] = q[Idx(PtrAdd(rptr, k))]
  <2>1. Idx(PtrAdd(rptr, k)) \notin written
    <3> SUFFICES ASSUME NEW j \in 1 .. Len(s), slot(j) = Idx(PtrAdd(rptr, k))
                 PROVE  FALSE
      BY Zenon
    <3>1. k \in 0 .. RQMax - 1 /\ Held + j - 1 \in 0 .. RQMax - 1
      BY <1>1, RQMaxAssumption, SMTT(30)
    <3>2. k = Held + j - 1
      BY <1>4, <1>6, <3>1, Zenon
    <3> QED
      BY <1>1, <3>2, SMTT(30)
  <2>2. k \in 0 .. RQMax - 1
    BY <1>1, RQMaxAssumption, SMTT(30)
  <2> HIDE DEF written
  <2> QED
    BY <1>2, <1>5, <2>1, <2>2, Zenon
<1>8. ASSUME NEW j \in 1 .. Len(s)
      PROVE  q'[Idx(PtrAdd(rptr, Held + j - 1))] = s[j]
  <2>1. Held + j - 1 \in 0 .. RQMax - 1
    BY <1>1, RQMaxAssumption, SMTT(30)
  <2>2. slot(j) \in written /\ slot(j) \in 0 .. RQMax - 1
    BY <1>4, <1>5, <2>1
  <2>3. pick(slot(j)) = j
    <3>1. \A i \in 1 .. Len(s) : slot(i) = slot(j) => i = j
      <4> SUFFICES ASSUME NEW i \in 1 .. Len(s), slot(i) = slot(j) PROVE i = j
        BY Zenon
      <4>1. Held + i - 1 \in 0 .. RQMax - 1
        BY <1>1, RQMaxAssumption, SMTT(30)
      <4>2. Held + i - 1 = Held + j - 1
        BY <1>4, <1>6, <2>1, <4>1
      <4> QED
        BY <1>1, <4>2, SMTT(30)
    <3>2. pick(slot(j)) \in 1 .. Len(s) /\ slot(pick(slot(j))) = slot(j)
      BY ZenonT(40)
    <3> QED
      BY <3>1, <3>2, Zenon
  <2> HIDE DEF pick, written
  <2> QED
    BY <1>2, <1>4, <2>2, <2>3, Zenon
<1>9. ASSUME NEW k \in 0 .. Held' - 1
      PROVE  q'[Idx(PtrAdd(rptr, k))].seq = taken + 1 + k
  <2>1. CASE k < Held
    BY <1>1, <1>7, <2>1, SMTT(30)
  <2>2. CASE k >= Held
    <3>1. k - Held + 1 \in 1 .. Len(s)
      BY <1>1, <1>3, <2>2
    <3>2. Held + (k - Held + 1) - 1 = k
      BY <1>1, SMTT(30)
    <3>3. q'[Idx(PtrAdd(rptr, k))] = s[k - Held + 1]
      BY <1>8, <3>1, <3>2
    <3>4. s[k - Held + 1].seq = taken + Held + (k - Held + 1)
      BY <3>1, Zenon DEF Numbered
    <3> QED
      BY <1>1, <3>3, <3>4, SMTT(30)
  <2> QED
    BY <1>1, <1>3, <2>1, <2>2
<1> QED
  BY <1>3, <1>9, Zenon

\* r_resp() moves beats from the engine's queue to the end of r_q_.
LEMMA RRespOrder ==
  ASSUME TypeOK, NEW rp \in Ptr, NEW ready \in Seq(Beat), r_resp(rp, ready),
         NEW base \in Nat, Numbered(r_q, base), Numbered(ready, base + Len(r_q))
  PROVE  /\ Numbered(r_q', base)
         /\ Numbered(axi_r', base + Len(r_q'))
         /\ Len(r_q') + Len(axi_r') = Len(r_q) + Len(ready)
<1> DEFINE n == Movable(rp, ready)
<1>1. n \in 0 .. Len(ready) /\ n \in Nat
  BY MovableFits, RQMaxAssumption
<1>2. /\ axi_r' = SubSeq(ready, n + 1, Len(ready))
      /\ r_q' = r_q \o SubSeq(ready, 1, n)
  BY Zenon DEF r_resp, Reserve
<1> HIDE DEF n
<1>3. r_q \in Seq(Beat) /\ Len(r_q) \in Nat /\ Len(ready) \in Nat
  BY Lengths
<1>4. /\ Numbered(SubSeq(ready, 1, n), base + Len(r_q))
      /\ Numbered(axi_r', base + Len(r_q) + n)
      /\ Len(SubSeq(ready, 1, n)) = n
      /\ Len(axi_r') = Len(ready) - n
  BY <1>1, <1>2, <1>3, SplitNumbered
<1>5. SubSeq(ready, 1, n) \in Seq(Beat)
  BY <1>1
<1>6. Numbered(r_q', base)
  BY <1>2, <1>3, <1>4, <1>5, ConcatNumbered, Zenon
<1>7. Len(r_q') = Len(r_q) + n
  BY <1>2, <1>3, <1>4, <1>5, SMTT(30)
<1>8. base + Len(r_q') = base + Len(r_q) + n
  BY <1>1, <1>3, <1>7, SMTT(30)
<1> QED
  BY <1>1, <1>3, <1>4, <1>6, <1>7, <1>8, SMTT(30)

LEMMA EngineOrder == ASSUME OInv, reset_n, EngineRead PROVE InOrder'
<1> DEFINE n == Head(engine).len
           new == [i \in 1 .. n |-> [seq |-> beats + i, last |-> i = n]]
           ready == axi_r \o new
<1>1. n \in Nat
  <2> DEFINE Reads == [len : Nat, dev : BOOLEAN]
  <2>1. engine \in Seq(Reads) /\ engine # << >>
    BY DEF OInv, IInv, TypeOK, EngineRead
  <2> HIDE DEF Reads
  <2>2. Head(engine) \in Reads
    BY <2>1, SMTT(30)
  <2> QED
    BY <2>2, Zenon DEF Reads
<1>2. TypeOK /\ InOrder /\ c_rptr \in Ptr
  BY DEF OInv, IInv, TypeOK
<1>3. /\ r_resp(c_rptr, ready) /\ beats' = beats + n
      /\ UNCHANGED <<q, wptr_nxt, rptr, cb_beat, taken>>
  BY DEF EngineRead, fifo
<1> HIDE DEF n
<1>4. new \in Seq(Beat) /\ Len(new) = n
  <2>1. \A i \in 1 .. n : [seq |-> beats + i, last |-> i = n] \in Beat
    BY <1>1, <1>2 DEF TypeOK, Beat
  <2>2. new \in [1 .. n -> Beat]
    BY <2>1
  <2> HIDE DEF new
  <2> QED
    BY <1>1, <2>2, SMTT(30)
<1>5. Numbered(new, beats)
  BY <1>1, <1>4, Zenon DEF Numbered
<1> HIDE DEF new
<1> DEFINE base == taken + Held + Len(cb_beat)
<1>6. /\ base \in Nat /\ base + Len(r_q) \in Nat /\ axi_r \in Seq(Beat)
      /\ Len(axi_r) \in Nat /\ Len(r_q) \in Nat
  BY <1>2, Lengths, SMTT(30)
<1>7. /\ Numbered(r_q, base) /\ Numbered(axi_r, base + Len(r_q))
      /\ beats = base + Len(r_q) + Len(axi_r)
  BY <1>2 DEF InOrder
<1>8. base' = base /\ Held' = Held
  BY <1>3 DEF Held
<1> HIDE DEF base
<1>9. ready \in Seq(Beat) /\ Len(ready) = Len(axi_r) + n
  BY <1>4, <1>6
<1>10. Numbered(ready, base + Len(r_q))
  BY <1>4, <1>5, <1>6, <1>7, ConcatNumbered
<1> HIDE DEF ready
<1>11. /\ Numbered(r_q', base)
       /\ Numbered(axi_r', base + Len(r_q'))
       /\ Len(r_q') + Len(axi_r') = Len(r_q) + Len(ready)
  BY <1>2, <1>3, <1>6, <1>7, <1>9, <1>10, RRespOrder, Zenon
<1>12. Len(r_q') \in Nat /\ Len(axi_r') \in Nat
  BY <1>2, <1>3, <1>9, RRespType, SMTT(30)
<1>13. beats' = base + Len(r_q') + Len(axi_r')
  BY <1>1, <1>3, <1>6, <1>7, <1>9, <1>11, <1>12, SMTT(30)
<1> QED
  BY <1>2, <1>3, <1>8, <1>11, <1>13, Zenon DEF InOrder, base

LEMMA RQOrder ==
  ASSUME OInv, reset_n, NEW m \in updates, ProcessRQ(m) PROVE InOrder'
<1>1. TypeOK /\ InOrder /\ m.r_ptr \in Ptr
  BY DEF OInv, IInv, TypeOK
<1>2. UNCHANGED <<q, wptr_nxt, rptr, cb_beat, taken, beats>>
  BY Zenon DEF ProcessRQ, fifo, history
<1>3. CASE UNCHANGED <<axi_r, r_q>>
  BY <1>1, <1>2, <1>3, Zenon DEF InOrder, Held
<1>4. CASE r_resp(m.r_ptr, axi_r)
  <2> DEFINE base == taken + Held + Len(cb_beat)
  <2>1. /\ base \in Nat /\ axi_r \in Seq(Beat)
        /\ Len(axi_r) \in Nat /\ Len(r_q) \in Nat
    BY <1>1, Lengths, SMTT(30)
  <2>2. /\ Numbered(r_q, base) /\ Numbered(axi_r, base + Len(r_q))
        /\ beats = base + Len(r_q) + Len(axi_r)
    BY <1>1, Zenon DEF InOrder
  <2>3. base' = base /\ Held' = Held
    BY <1>2 DEF Held
  <2> HIDE DEF base
  <2>4. /\ Numbered(r_q', base)
        /\ Numbered(axi_r', base + Len(r_q'))
        /\ Len(r_q') + Len(axi_r') = Len(r_q) + Len(axi_r)
    BY <1>1, <1>4, <2>1, <2>2, RRespOrder
  <2>5. Len(r_q') \in Nat /\ Len(axi_r') \in Nat
    BY <1>1, <1>4, <2>1, RRespType
  <2>6. beats' = base + Len(r_q') + Len(axi_r')
    BY <1>2, <2>1, <2>2, <2>4, <2>5, SMTT(30)
  <2> QED
    BY <1>1, <1>2, <2>3, <2>4, <2>6, Zenon DEF InOrder, base
<1> QED
  BY <1>3, <1>4, Zenon DEF ProcessRQ

LEMMA PopOrder == ASSUME OInv, reset_n, CallbackPop PROVE InOrder'
<1>1. TypeOK /\ InOrder /\ cb_beat = << >> /\ Len(cb_beat) = 0
  BY Zenon DEF OInv, IInv, CallbackPop
<1>2. UNCHANGED <<q, wptr_nxt, rptr, taken, beats, axi_r>> /\ Held' = Held
  BY Zenon DEF CallbackPop, fifo, history, Held
<1>3. CASE r_q = << >>
  BY <1>1, <1>2, <1>3, Zenon DEF InOrder, CallbackPop
<1>4. CASE r_q # << >>
  <2>1. cb_beat' = <<Head(r_q)>> /\ r_q' = Tail(r_q)
    BY <1>4 DEF CallbackPop
  <2>2. /\ r_q \in Seq(Beat) /\ Len(r_q) \in Nat /\ Held \in Nat /\ taken \in Nat
        /\ Len(axi_r) \in Nat
    BY <1>1, Lengths, Zenon
  <2>3. Len(cb_beat') = 1 /\ cb_beat'[1] = r_q[1]
    BY <1>4, <2>1, <2>2, SMTT(30)
  <2>4. Len(r_q') = Len(r_q) - 1 /\ Len(r_q) >= 1
        /\ \A k \in 1 .. Len(r_q) - 1 : r_q'[k] = r_q[k + 1]
    BY <1>4, <2>1, <2>2
  <2>5. Numbered(r_q, taken + Held)
    BY <1>1, <2>2, SMTT(30) DEF InOrder
  <2>6. Numbered(cb_beat', taken + Held)
    BY <2>2, <2>3, <2>4, <2>5 DEF Numbered
  <2>7. Numbered(r_q', taken + Held + 1)
    BY <2>2, <2>4, <2>5, SMTT(30) DEF Numbered
  <2>8. Len(cb_beat') + Len(r_q') = Len(cb_beat) + Len(r_q)
    BY <1>1, <2>2, <2>3, <2>4
  <2>9. /\ taken + Held + Len(cb_beat') = taken + Held + 1
        /\ taken + Held + Len(cb_beat') + Len(r_q') = taken + Held + Len(cb_beat) + Len(r_q)
    BY <1>1, <2>2, <2>3, <2>4
  <2> QED
    BY <1>1, <1>2, <2>6, <2>7, <2>9 DEF InOrder
<1> QED
  BY <1>3, <1>4

\* What wptr shows is in the FIFO.
LEMMA SomeHeld == ASSUME TypeOK, Accounts, wptr # rptr PROVE Held > 0
<1>1. wptr \in Ptr /\ rptr \in Ptr /\ Held \in Nat
  BY Lengths, Zenon DEF TypeOK
<1>2. PtrSub(wptr, rptr) > 0 /\ PtrSub(wptr, rptr) \in Nat
  BY <1>1, RQMaxAssumption, SMTT(30) DEF PtrSub, Ptr
<1> QED
  BY <1>1, <1>2, SMTT(30) DEF Accounts, Held

LEMMA PushInOrder == ASSUME OInv, reset_n, CallbackPush PROVE InOrder'
<1>1. TypeOK /\ InOrder /\ Accounts
  BY DEF OInv, IInv
<1>2. /\ UNCHANGED <<rptr, taken, beats, axi_r, r_q>>
      /\ Push(cb_beat) /\ cb_beat' = << >>
  BY DEF CallbackPush, history
<1>3. /\ Held \in Nat /\ taken \in Nat /\ beats \in Nat /\ Len(cb_beat) \in Nat
      /\ Len(r_q) \in Nat /\ Len(axi_r) \in Nat /\ cb_beat \in Seq(Beat)
  BY <1>1, Lengths, Zenon
<1>4. Held + Len(cb_beat) <= RQMax
  BY <1>1, <1>3, PromisedFits, RQMaxAssumption, SMTT(30) DEF Promised, Held
<1>5. /\ Held' = Held + Len(cb_beat)
      /\ \A k \in 0 .. Held' - 1 : q'[Idx(PtrAdd(rptr', k))].seq = taken' + 1 + k
  BY <1>1, <1>2, <1>3, <1>4, PushOrder DEF InOrder
<1>6. Len(cb_beat') = 0
  BY <1>2, Zenon
<1>7. /\ taken' + Held' + Len(cb_beat') = taken + Held + Len(cb_beat)
      /\ Len(r_q') = Len(r_q) /\ Len(axi_r') = Len(axi_r)
  BY <1>2, <1>3, <1>5, <1>6, SMTT(30)
<1>8. Numbered(cb_beat', taken' + Held')
  BY <1>6 DEF Numbered
<1> QED
  BY <1>1, <1>2, <1>5, <1>7, <1>8 DEF InOrder

LEMMA FlushInOrder == ASSUME OInv, Flush PROVE InOrder'
<1>1. TypeOK /\ InOrder /\ Accounts /\ reset_n
  BY Zenon DEF OInv, IInv, Flush
<1>2. UNCHANGED <<rptr, taken, beats, cb_beat>>
  BY Zenon DEF Flush, history
<1>3. CASE UNCHANGED <<q, wptr_nxt, axi_r, r_q>>
  BY <1>1, <1>2, <1>3 DEF InOrder, Held
<1>4. CASE ~UNCHANGED <<q, wptr_nxt, axi_r, r_q>>
  <2> DEFINE n == Movable(rptr, axi_r)
             front == SubSeq(axi_r, 1, n)
             s == r_q \o front
             base == taken + Held + Len(cb_beat)
  <2>1. /\ axi_r' = SubSeq(axi_r, n + 1, Len(axi_r))
        /\ \/ r_q' = s /\ UNCHANGED <<q, wptr_nxt>>
           \/ cb_beat = << >> /\ Push(s) /\ r_q' = << >>
    BY <1>4, Zenon DEF Flush, Reserve, mirror
  <2>2. /\ Held \in Nat /\ taken \in Nat /\ Len(cb_beat) \in Nat
        /\ Len(r_q) \in Nat /\ Len(axi_r) \in Nat
        /\ r_q \in Seq(Beat) /\ axi_r \in Seq(Beat)
    BY <1>1, Lengths
  <2>3. n \in 0 .. Len(axi_r) /\ n \in Nat /\ Promised + n <= RQMax
    BY <1>1, <2>2, FlushFits
  <2> HIDE DEF n
  <2>4. front \in Seq(Beat)
    BY <2>2, <2>3
  <2>5. base \in Nat /\ base + Len(r_q) \in Nat
    BY <2>2, SMTT(30)
  <2>6. /\ Numbered(r_q, base) /\ Numbered(axi_r, base + Len(r_q))
        /\ beats = base + Len(r_q) + Len(axi_r)
    BY <1>1 DEF InOrder
  <2>7. /\ Numbered(front, base + Len(r_q))
        /\ Numbered(axi_r', base + Len(r_q) + n)
        /\ Len(front) = n /\ Len(axi_r') = Len(axi_r) - n
    BY <2>1, <2>2, <2>3, <2>5, <2>6, SplitNumbered
  <2> HIDE DEF front
  <2> HIDE DEF base
  <2>8. s \in Seq(Beat) /\ Len(s) = Len(r_q) + n /\ Numbered(s, base)
    <3>1. s \in Seq(Beat) /\ Len(s) = Len(r_q) + n
      BY <2>2, <2>4, <2>7, SMTT(30)
    <3>2. Numbered(s, base)
      BY <2>2, <2>4, <2>5, <2>6, <2>7, ConcatNumbered, Zenon
    <3> QED
      BY <3>1, <3>2, Zenon
  <2> HIDE DEF s
  <2>9. CASE r_q' = s /\ UNCHANGED <<q, wptr_nxt>>
    <3>1. Held' = Held /\ base' = base
      BY <1>2, <2>9 DEF Held, base
    <3>2. Len(r_q') = Len(r_q) + n /\ base + Len(r_q') = base + Len(r_q) + n
      <4>1. Len(r_q') = Len(r_q) + n
        BY <2>8, <2>9, Zenon
      <4> QED
        BY <2>2, <2>3, <2>5, <4>1
    <3>3. beats' = base + Len(r_q') + Len(axi_r')
      BY <1>2, <2>2, <2>3, <2>5, <2>6, <2>7, <3>2, SMTT(30)
    <3> QED
      BY <1>1, <1>2, <2>7, <2>8, <2>9, <3>1, <3>2, <3>3 DEF InOrder, base
  <2>10. CASE cb_beat = << >> /\ Push(s) /\ r_q' = << >>
    <3>1. Len(cb_beat) = 0 /\ Len(cb_beat') = 0 /\ Len(r_q') = 0
      BY <1>2, <2>10
    <3>2. base = taken + Held
      BY <2>2, <3>1 DEF base
    <3>3. Held + Len(s) <= RQMax
      BY <2>2, <2>3, <2>8, <3>1, RQMaxAssumption, SMTT(30) DEF Promised, Held
    <3>4. /\ Held' = Held + Len(s)
          /\ \A k \in 0 .. Held' - 1 :
               q'[Idx(PtrAdd(rptr', k))].seq = taken' + 1 + k
      BY <1>1, <1>2, <2>8, <2>10, <3>2, <3>3, PushOrder DEF InOrder
    <3>5. base + Len(r_q) + n = taken' + Held' + Len(cb_beat') + Len(r_q')
      BY <1>2, <2>2, <2>3, <2>8, <3>1, <3>2, <3>4, SMTT(30)
    <3>6. Numbered(cb_beat', taken' + Held')
      BY <3>1, SMTT(30) DEF Numbered
    <3>7. Numbered(r_q', taken' + Held' + Len(cb_beat'))
      BY <3>1 DEF Numbered
    <3>8. beats' = taken' + Held' + Len(cb_beat') + Len(r_q') + Len(axi_r')
      BY <1>2, <2>2, <2>3, <2>5, <2>6, <2>7, <3>5, SMTT(30)
    <3> QED
      BY <2>7, <3>4, <3>5, <3>6, <3>7, <3>8, Zenon DEF InOrder
  <2> QED
    BY <2>1, <2>9, <2>10
<1> QED
  BY <1>3, <1>4

LEMMA ClockInOrder ==
  ASSUME OInv, NEW take \in BOOLEAN, Clock(take)
  PROVE  InOrder'
<1>1. TypeOK /\ InOrder /\ Accounts /\ reset_n
  BY Zenon DEF OInv, IInv, Clock
<1>2. /\ UNCHANGED <<q, wptr_nxt, beats, cb_beat, r_q, axi_r>>
      /\ rptr' = IF take THEN PtrAdd(rptr, 1) ELSE rptr
      /\ taken' = IF take THEN taken + 1 ELSE taken
      /\ take => wptr # rptr
  BY Zenon DEF Clock, cpp, r_queue_empty
<1>3. CASE ~take
  <2>1. UNCHANGED <<rptr, taken>> /\ Held' = Held
    BY <1>2, <1>3, Zenon DEF Held
  <2> QED
    BY <1>1, <1>2, <2>1, Zenon DEF InOrder
<1>4. CASE take
  <2>1. /\ Held \in Nat /\ taken \in Nat /\ Len(cb_beat) \in Nat
        /\ Len(r_q) \in Nat /\ Len(axi_r) \in Nat
        /\ wptr \in Ptr /\ wptr_nxt \in Ptr /\ rptr \in Ptr
    BY <1>1, Lengths, Zenon DEF TypeOK
  <2>2. Held > 0
    BY <1>1, <1>2, <1>4, <2>1, SomeHeld
  <2>3. Held' = Held - 1
    BY <1>2, <1>4, <2>1, <2>2, SubShrinks, Zenon DEF Held
  <2>4. taken' = taken + 1 /\ taken' + Held' = taken + Held
    BY <1>2, <1>4, <2>1, <2>3, SMTT(30)
  <2>5. ASSUME NEW k \in 0 .. Held' - 1
        PROVE  q'[Idx(PtrAdd(rptr', k))].seq = taken' + 1 + k
    <3>1. k + 1 \in 0 .. Held - 1 /\ k \in Nat
      BY <2>1, <2>3, SMTT(30)
    <3>2. PtrAdd(rptr', k) = PtrAdd(rptr, k + 1)
      <4>1. Held < 2 * RQMax
        BY <2>1, RQMaxAssumption, SMTT(30) DEF Held, PtrSub, Ptr
      <4> QED
        BY <1>2, <1>4, <2>1, <3>1, <4>1, RQMaxAssumption DEF PtrAdd, Ptr
    <3>3. q[Idx(PtrAdd(rptr, k + 1))].seq = taken + 1 + (k + 1)
      BY <1>1, <3>1, Zenon DEF InOrder
    <3> QED
      BY <1>2, <2>1, <2>4, <3>1, <3>2, <3>3, SMTT(30)
  <2> QED
    BY <1>1, <1>2, <2>4, <2>5, Zenon DEF InOrder
<1> QED
  BY <1>3, <1>4, Zenon

LEMMA ReleaseInOrder == ASSUME OInv, ReleaseReset PROVE InOrder'
<1>1. /\ wptr_nxt' = 0 /\ rptr' = 0 /\ beats' = 0 /\ taken' = 0
      /\ cb_beat' = << >> /\ r_q' = << >> /\ axi_r' = << >>
  BY DEF OInv, IInv, Restarting, ReleaseReset, cpp, history
<1>2. Held' = 0
  BY <1>1 DEF Held, PtrSub
<1> QED
  BY <1>1, <1>2 DEF InOrder, Numbered

LEMMA NextOInv == OInv /\ [Next]_vars => OInv'
<1> SUFFICES ASSUME OInv, [Next]_vars PROVE OInv'
  OBVIOUS
<1>1. IInv'
  BY NextInv, Zenon DEF OInv
<1>2. phase' \in {"built", "reset"} => beats' = 0 /\ taken' = 0
  <2> USE DEF OInv
  <2>1. CASE BuildRegistry
    BY <2>1 DEF BuildRegistry
  <2>2. CASE SysReset
    BY <2>2, Zenon DEF SysReset, history
  <2>3. CASE EngineRead
    BY <2>3 DEF EngineRead, IInv, Restarting
  <2>4. CASE AssertReset \/ ReleaseReset
    BY <2>4 DEF AssertReset, ReleaseReset
  <2>5. CASE UNCHANGED <<phase, beats, taken>>
    BY <2>5, Zenon
  <2>6. ASSUME NEW take \in BOOLEAN, Clock(take)
        PROVE  phase' = "run"
    BY <2>6, Zenon DEF Clock, reset_n
  <2>7. UNCHANGED vars \/ CallbackPop \/ CallbackPush \/ Flush \/ Deliver
          => UNCHANGED <<phase, beats, taken>>
    BY DEF vars, history, CallbackPop, CallbackPush, Flush, Deliver, ProcessRQ
  <2>8. \A n \in BurstLens, dev \in Devices :
          ProcessAR(n, dev) => UNCHANGED <<phase, beats, taken>>
    BY DEF ProcessAR
  <2> QED
    BY <2>1, <2>2, <2>3, <2>4, <2>5, <2>6, <2>7, <2>8 DEF Next
<1>3. ASSUME reset_n' PROVE InOrder'
  <2>1. CASE ReleaseReset
    BY <2>1, ReleaseInOrder, Zenon
  <2>2. CASE ~ReleaseReset
    <3>1. reset_n
      <4>1. CASE UNCHANGED phase
        BY <1>3, <4>1, Zenon DEF reset_n
      <4>2. CASE AssertReset \/ BuildRegistry \/ SysReset
        BY <1>3, <4>2, Zenon DEF AssertReset, BuildRegistry, SysReset, reset_n
      <4>3. CASE EngineRead
        BY <4>1, <4>3 DEF EngineRead
      <4>4. CASE Deliver
        BY <4>1, <4>4, Zenon DEF Deliver, ProcessRQ
      <4>5. CASE CallbackPop \/ CallbackPush \/ Flush
        BY <4>1, <4>5, Zenon DEF CallbackPop, CallbackPush, Flush
      <4>6. \A take \in BOOLEAN : Clock(take) => reset_n
        BY DEF Clock
      <4>7. \A n \in BurstLens, dev \in Devices : ProcessAR(n, dev) => reset_n
        BY DEF ProcessAR
      <4>8. CASE UNCHANGED vars
        BY <4>1, <4>8 DEF vars
      <4> QED
        BY <2>2, <4>2, <4>3, <4>4, <4>5, <4>6, <4>7, <4>8 DEF Next
    <3>2. InOrder /\ reset_n
      BY <3>1 DEF OInv
    <3>3. CASE UNCHANGED <<q, wptr_nxt, rptr, cb_beat, r_q, axi_r, beats, taken>>
      BY <3>2, <3>3, Zenon DEF InOrder, Held
    <3>4. \A n \in BurstLens, dev \in Devices : ProcessAR(n, dev) =>
            UNCHANGED <<q, wptr_nxt, rptr, cb_beat, r_q, axi_r, beats, taken>>
      BY DEF ProcessAR, fifo
    <3>5. UNCHANGED vars =>
            UNCHANGED <<q, wptr_nxt, rptr, cb_beat, r_q, axi_r, beats, taken>>
      BY DEF vars, fifo, cpp, history
    <3>6. CASE EngineRead
      BY <3>2, <3>6, EngineOrder
    <3>7. CASE Deliver
      BY <3>2, <3>7, RQOrder DEF Deliver
    <3>8. CASE CallbackPop
      BY <3>2, <3>8, PopOrder
    <3>9. CASE CallbackPush
      BY <3>2, <3>9, PushInOrder, Zenon
    <3>10. CASE Flush
      BY <3>10, FlushInOrder
    <3>11. ASSUME NEW take \in BOOLEAN, Clock(take) PROVE InOrder'
      BY <3>11, ClockInOrder
    <3>12. ~AssertReset /\ ~BuildRegistry /\ ~SysReset
      BY <1>3 DEF AssertReset, BuildRegistry, SysReset, reset_n
    <3> QED
      BY <2>2, <3>3, <3>4, <3>5, <3>6, <3>7, <3>8, <3>9, <3>10, <3>11, <3>12
         DEF Next
  <2> QED
    BY <2>1, <2>2
<1> QED
  BY <1>1, <1>2, <1>3 DEF OInv

LEMMA InitOInv == Init => OInv
<1> SUFFICES ASSUME Init PROVE OInv
  OBVIOUS
<1>1. IInv
  BY InitInv
<1>2. /\ wptr_nxt = 0 /\ rptr = 0 /\ beats = 0 /\ taken = 0
      /\ cb_beat = << >> /\ r_q = << >> /\ axi_r = << >>
  BY DEF Init, CppInit
<1>3. Held = 0
  BY <1>2, SMTT(30) DEF Held, PtrSub
<1>4. InOrder
  BY <1>2, <1>3 DEF InOrder, Numbered
<1> QED
  BY <1>1, <1>2, <1>4 DEF OInv

\* The master is offered the beats in the order in which the engine produced
\* them, none twice and none left out, whoever pushed them and however the
\* flushes overtook the callbacks.
THEOREM OffersInOrder == Spec => []NextInOrder
<1>1. OInv => NextInOrder
  <2> SUFFICES ASSUME OInv, reset_n, ~r_queue_empty
               PROVE  q[Idx(rptr)].seq = taken + 1
    BY Zenon DEF NextInOrder
  <2>1. InOrder /\ TypeOK /\ Accounts /\ wptr # rptr
    BY Zenon DEF OInv, IInv, r_queue_empty
  <2>2. Held > 0 /\ Held \in Nat /\ taken \in Nat /\ rptr \in Ptr
    BY <2>1, SomeHeld, Lengths, Zenon DEF TypeOK
  <2>3. 0 \in 0 .. Held - 1 /\ PtrAdd(rptr, 0) = rptr
    BY <2>2, RQMaxAssumption, SMTT(30) DEF PtrAdd, Ptr
  <2>4. q[Idx(PtrAdd(rptr, 0))].seq = taken + 1 + 0
    BY <2>1, <2>3 DEF InOrder
  <2> QED
    BY <2>2, <2>3, <2>4, SMTT(30)
<1> QED
  BY <1>1, InitOInv, NextOInv, PTL DEF Spec
===========================================================================
