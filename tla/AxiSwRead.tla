---------------------------- MODULE AxiSwRead -----------------------------
(***************************************************************************)
(* The read-response path of the AXI software transactor                   *)
(* (src/transactors/axi_sw/axi_sw.{sv,h,cpp}).                             *)
(*                                                                         *)
(* The C++ side reserves a slot of the SystemVerilog response FIFO by      *)
(* advancing its own copy of the write pointer, and later pushes the beat  *)
(* through a DPI call.  It learns that slots became free from pointer      *)
(* messages that arrive late and may be overtaken by a blocking flush, so  *)
(* its copy of the read pointer lags behind.  A flush (axi_sw_flush) is    *)
(* called at a clock edge when a read waited too long.                     *)
(*                                                                         *)
(* Clocks in which nothing happens are not counted: only the order of      *)
(* clock stamps matters to the code.                                       *)
(***************************************************************************)
EXTENDS Integers, Sequences, FiniteSets

CONSTANTS RQMax,        \* R_Q_MAX, a power of two: slots of the FIFO
          BurstLens,    \* beats a read may ask for (ARLEN + 1)
          Devices,      \* whether a read may have device attributes
          NoCallbacks,  \* FLAGS_axi_sw_read_no_callbacks
          CbAsync,      \* FLAGS_cb_async: callbacks run on another thread
          MaxReads,     \* bound: reads issued between two resets
          MaxUpdates    \* bound: pointer messages on their way at a time

ASSUME RQMaxAssumption == RQMax \in Nat \ {0}
ASSUME BurstAssumption == BurstLens \subseteq Nat \ {0}
ASSUME FlagAssumption ==
  /\ Devices \subseteq BOOLEAN
  /\ NoCallbacks \in BOOLEAN /\ CbAsync \in BOOLEAN

VARIABLES
  \* SystemVerilog
  phase,             \* "run" is reset_n; the others are steps of a restart
  clocks,
  q, wptr_nxt, wptr, rptr,
  incremented,       \* r_queue_rptr_incremented
  ar_history,        \* number of reads whose last beat was not taken yet
  flushed, wptr_prev,
  flush_called,      \* axi_sw_flush was called at this clock edge
  \* pointer messages on their way to C++
  updates,
  \* C++
  c_rptr, c_wptr, c_time,  \* r_dpi_fifo_: rptr_, wptr_, rptr_update_time_
  engine,            \* reads inside axi_, oldest first
  axi_r,             \* the R queue of axi_
  r_q,               \* r_q_: beats with a reserved slot, not pushed yet
  callbacks,         \* queued r_dpi callbacks
  cb_beat,           \* the beat of the callback that holds r_dpi_mutex_
  pending_reads,     \* pending_reads_; -1 stands for 2^64 - 1
  \* history: reads issued, beats read, beats taken since the last reset
  reads, beats, taken

fifo == <<q, wptr_nxt, wptr, rptr, incremented>>
flush == <<flushed, wptr_prev, flush_called>>
mirror == <<c_rptr, c_wptr, c_time>>
cpp == <<mirror, engine, axi_r, r_q, callbacks, cb_beat, pending_reads>>
history == <<reads, beats, taken>>
vars == <<phase, clocks, fifo, ar_history, flush, updates, cpp, history>>

reset_n == phase = "run"

\* Pointers count modulo twice the depth.
Ptr == 0 .. 2 * RQMax - 1
PtrAdd(p, n) == IF p + n < 2 * RQMax THEN p + n ELSE p + n - 2 * RQMax
PtrSub(p, r) == IF r <= p THEN p - r ELSE p + 2 * RQMax - r
Idx(p) == IF p < RQMax THEN p ELSE p - RQMax

Beat == [seq : Nat, last : BOOLEAN]
NoBeat == [seq |-> 0, last |-> FALSE]

\* A new object of class axi_sw.
CppInit ==
  /\ c_rptr = 0 /\ c_wptr = 0 /\ c_time = 0
  /\ engine = << >> /\ axi_r = << >> /\ r_q = << >>
  /\ callbacks = 0 /\ cb_beat = << >> /\ pending_reads = 0

Init ==
  /\ phase = "run" /\ clocks = 1
  /\ q = [i \in 0 .. RQMax - 1 |-> NoBeat]
  /\ wptr_nxt = 0 /\ wptr = 0 /\ rptr = 0 /\ incremented = FALSE
  /\ ar_history = 0
  /\ flushed = FALSE /\ wptr_prev = 0 /\ flush_called = FALSE
  /\ updates = {}
  /\ CppInit
  /\ reads = 0 /\ beats = 0 /\ taken = 0

r_queue_full == PtrSub(wptr, rptr) = RQMax
r_queue_empty == wptr = rptr
---------------------------------------------------------------------------
(* The C++ side.                                                           *)

\* Slots that are free according to the read pointer rp (ptr_t::full).
Free(rp) ==
  IF PtrSub(c_wptr, rp) >= RQMax THEN 0 ELSE RQMax - PtrSub(c_wptr, rp)

\* How many of the beats `ready' the loop of r_resp() moves to r_q_.
Movable(rp, ready) == IF Len(ready) < Free(rp) THEN Len(ready) ELSE Free(rp)

\* r_resp() but for r_q_: the first n of the beats `ready' get a slot.
Reserve(n, ready) ==
  /\ axi_r' = SubSeq(ready, n + 1, Len(ready))
  /\ c_wptr' = PtrAdd(c_wptr, n)
  /\ pending_reads' = pending_reads - n
  /\ callbacks' = IF NoCallbacks THEN callbacks ELSE callbacks + n

r_resp(rp, ready) ==
  LET n == Movable(rp, ready)
  IN  Reserve(n, ready) /\ r_q' = r_q \o SubSeq(ready, 1, n)

\* process(AR): the read enters the engine.  SystemVerilog recorded it in
\* ar_history at the handshake.
ProcessAR(n, dev) ==
  /\ reset_n /\ reads < MaxReads
  /\ reads' = reads + 1
  /\ ar_history' = ar_history + 1
  /\ engine' = Append(engine, [len |-> n, dev |-> dev])
  /\ pending_reads' = pending_reads + 1
  /\ UNCHANGED <<phase, clocks, fifo, flush, updates, mirror, axi_r, r_q,
                 callbacks, cb_beat, beats, taken>>

\* The engine finishes its oldest read: the beats enter the R queue of axi_
\* and the coroutine that awaited the read calls all_resp().
EngineRead ==
  /\ engine # << >>
  /\ LET n == Head(engine).len
     IN  /\ r_resp(c_rptr, axi_r \o [i \in 1 .. n |->
                              [seq |-> beats + i, last |-> i = n]])
         /\ beats' = beats + n
  /\ engine' = Tail(engine)
  /\ UNCHANGED <<phase, clocks, fifo, ar_history, flush, updates, c_rptr,
                 c_time, cb_beat, reads, taken>>

\* MUTANT of ProcessRQ: the message is applied whatever its clock.
ProcessRQAnyOrder(m) ==
  /\ updates' = updates \ {m}
  /\ c_time' = m.clock /\ c_rptr' = m.r_ptr
  /\ r_resp(m.r_ptr, axi_r)
  /\ UNCHANGED <<phase, clocks, fifo, ar_history, flush, engine, cb_beat,
                 history>>

\* process(RQ): a message older than what is known is dropped.
ProcessRQ(m) ==
  /\ updates' = updates \ {m}
  /\ IF m.clock > c_time
     THEN /\ c_time' = m.clock /\ c_rptr' = m.r_ptr
          /\ r_resp(m.r_ptr, axi_r)
     ELSE UNCHANGED <<mirror, axi_r, r_q, callbacks, pending_reads>>
  /\ UNCHANGED <<phase, clocks, fifo, ar_history, flush, engine, cb_beat,
                 history>>

\* axi_sw_r_N for each beat of s in turn; ignored in reset.
Push(s) ==
  LET slot(k) == Idx(PtrAdd(wptr_nxt, k - 1))
      written == {slot(k) : k \in 1 .. Len(s)}
  IN  IF reset_n
      THEN /\ q' = [i \in 0 .. RQMax - 1 |->
                      IF i \in written
                      THEN s[CHOOSE k \in 1 .. Len(s) : slot(k) = i]
                      ELSE q[i]]
           /\ wptr_nxt' = PtrAdd(wptr_nxt, Len(s))
      ELSE UNCHANGED <<q, wptr_nxt>>

\* A callback locks r_dpi_mutex_ and takes a beat, if there is one ...
CallbackPop ==
  /\ callbacks > 0 /\ cb_beat = << >>
  /\ callbacks' = callbacks - 1
  /\ cb_beat' = IF r_q = << >> THEN << >> ELSE <<Head(r_q)>>
  /\ r_q' = IF r_q = << >> THEN << >> ELSE Tail(r_q)
  /\ UNCHANGED <<phase, clocks, fifo, ar_history, flush, updates, mirror,
                 engine, axi_r, pending_reads, history>>

\* ... and pushes it to the FIFO.
CallbackPush ==
  /\ cb_beat # << >>
  /\ Push(cb_beat)
  /\ cb_beat' = << >>
  /\ UNCHANGED <<phase, clocks, wptr, rptr, incremented, ar_history, flush,
                 updates, mirror, engine, axi_r, r_q, callbacks,
                 pending_reads, history>>

\* process(r_q_ptr_blocking_update_t), called from axi_sw_flush at a clock
\* edge in which a read is due.  Calls that would change nothing but the
\* clock stamp are left out: the code calls again at every clock.
Flush ==
  LET n == Movable(rptr, axi_r)
      s == r_q \o SubSeq(axi_r, 1, n)
      device_access_pending == \E i \in 1 .. Len(engine) : engine[i].dev
  IN
  /\ reset_n /\ ~flushed /\ ~flush_called
  /\ ar_history > 0 /\ ~r_queue_full
  /\ CbAsync \/ cb_beat = << >>
  /\ IF pending_reads = 0 /\ ~CbAsync
     THEN /\ flushed' = TRUE
          /\ UNCHANGED <<q, wptr_nxt, mirror, axi_r, r_q, callbacks,
                         pending_reads>>
     ELSE /\ c_time' = clocks /\ c_rptr' = rptr
          /\ Reserve(n, axi_r)
          /\ IF cb_beat # << >>    \* try_lock fails
             THEN /\ r_q' = s /\ flushed' = FALSE
                  /\ UNCHANGED <<q, wptr_nxt>>
             ELSE /\ Push(s) /\ r_q' = << >>
                  /\ flushed' = (s # << >> \/ device_access_pending)
          /\ \/ c_rptr # rptr \/ n > 0 \/ flushed'
  /\ flush_called' = TRUE /\ wptr_prev' = wptr
  /\ UNCHANGED <<phase, clocks, wptr, rptr, incremented, ar_history, updates,
                 engine, cb_beat, history>>
---------------------------------------------------------------------------
(* The SystemVerilog side.                                                 *)

\* MUTANT of PtrMessage: stamped with the clock in which it is sent.
PtrMessageLate == [r_ptr |-> rptr, clock |-> clocks + 1]

PtrMessage == [r_ptr |-> rptr, clock |-> clocks]

\* MUTANT of StillFlushed: a successful flush is never forgotten.
StillFlushedForever == flushed

\* After a flush that succeeded the next one waits until wptr moved.
StillFlushed == flushed /\ (flush_called \/ wptr_prev = wptr)

\* A clock edge out of reset; `take' is axi_slv_r_valid && axi_mst_r_ready.
\* A push made by a flush at this very edge races with wptr <= wptr_nxt.
Clock(take) ==
  /\ reset_n
  /\ take => ~r_queue_empty
  /\ \/ take \/ incremented \/ flush_called \/ wptr # wptr_nxt
     \/ flushed # StillFlushed
  /\ incremented => Cardinality(updates) < MaxUpdates
  /\ clocks' = clocks + 1
  /\ rptr' = IF take THEN PtrAdd(rptr, 1) ELSE rptr
  /\ incremented' = take
  /\ updates' = IF incremented
                THEN updates \cup {PtrMessage} ELSE updates
  /\ wptr' = wptr_nxt \/ (flush_called /\ wptr' = wptr)
  /\ flush_called' = FALSE
  /\ flushed' = StillFlushed
  /\ taken' = IF take THEN taken + 1 ELSE taken
  /\ ar_history' = IF take /\ q[Idx(rptr)].last THEN ar_history - 1
                   ELSE ar_history
  /\ UNCHANGED <<phase, q, wptr_nxt, wptr_prev, cpp, reads, beats>>

\* A restart.  reset_n falls at any time; the objects of C++ are built anew;
\* sys_reset pulses, which resets the pointers of both sides; reset_n rises.
AssertReset ==
  /\ phase = "run" /\ phase' = "held"
  /\ clocks' = 1 /\ incremented' = FALSE /\ ar_history' = 0
  /\ flushed' = FALSE /\ flush_called' = FALSE
  /\ wptr' = wptr_nxt
  /\ UNCHANGED <<q, wptr_nxt, rptr, wptr_prev, updates, cpp, history>>

BuildRegistry ==
  /\ phase = "held" /\ phase' = "built"
  /\ c_rptr' = 0 /\ c_wptr' = 0 /\ c_time' = 0
  /\ engine' = << >> /\ axi_r' = << >> /\ r_q' = << >>
  /\ callbacks' = 0 /\ cb_beat' = << >> /\ pending_reads' = 0
  /\ updates' = {}
  /\ reads' = 0 /\ beats' = 0 /\ taken' = 0
  /\ q' = [i \in 0 .. RQMax - 1 |-> NoBeat]  \* beats of the earlier run
  /\ UNCHANGED <<clocks, wptr_nxt, wptr, rptr, incremented, ar_history, flush>>

\* MUTANT of SysReset: the exported resets of wptr_nxt are not called.
SysResetOneSide ==
  /\ phase = "built" /\ phase' = "reset"
  /\ rptr' = 0
  /\ c_rptr' = 0 /\ c_wptr' = 0 /\ c_time' = 0
  /\ engine' = << >> /\ axi_r' = << >>
  /\ UNCHANGED <<clocks, q, wptr_nxt, wptr, incremented, ar_history, flush,
                 updates, r_q, callbacks, cb_beat, pending_reads, history>>

\* axi_sw_reset_ptrs: the exported resets, then reset_ptrs() on C++.
SysReset ==
  /\ phase = "built" /\ phase' = "reset"
  /\ wptr_nxt' = 0 /\ rptr' = 0
  /\ c_rptr' = 0 /\ c_wptr' = 0 /\ c_time' = 0
  /\ engine' = << >> /\ axi_r' = << >>
  /\ UNCHANGED <<clocks, q, wptr, incremented, ar_history, flush, updates,
                 r_q, callbacks, cb_beat, pending_reads, history>>

ReleaseReset ==
  /\ phase = "reset" /\ phase' = "run"
  /\ wptr' = wptr_nxt
  /\ UNCHANGED <<clocks, q, wptr_nxt, rptr, incremented, ar_history, flush,
                 updates, cpp, history>>

Deliver == \E m \in updates : ProcessRQ(m)

Next ==
  \/ \E n \in BurstLens, dev \in Devices : ProcessAR(n, dev)
  \/ EngineRead \/ Deliver \/ CallbackPop \/ CallbackPush \/ Flush
  \/ \E take \in BOOLEAN : Clock(take)
  \/ AssertReset \/ BuildRegistry \/ SysReset \/ ReleaseReset

Spec == Init /\ [][Next]_vars

\* The master takes what is offered, clocks run, messages and callbacks are
\* processed and devices answer.
Fairness ==
  /\ WF_vars(Clock(TRUE)) /\ WF_vars(Clock(FALSE))
  /\ WF_vars(EngineRead) /\ WF_vars(Deliver)
  /\ WF_vars(CallbackPop) /\ WF_vars(CallbackPush)

FairSpec == Spec /\ Fairness

\* With a read latency configured (read_latency # 0) a due read is flushed
\* at every clock until a flush succeeds.
FlushSpec == FairSpec /\ WF_vars(Flush)
---------------------------------------------------------------------------
TypeOK ==
  /\ phase \in {"run", "held", "built", "reset"}
  /\ clocks \in Nat
  /\ q \in [0 .. RQMax - 1 -> Beat]
  /\ wptr_nxt \in Ptr /\ wptr \in Ptr /\ rptr \in Ptr
  /\ incremented \in BOOLEAN /\ ar_history \in Int
  /\ flushed \in BOOLEAN /\ wptr_prev \in Ptr /\ flush_called \in BOOLEAN
  /\ updates \subseteq [r_ptr : Ptr, clock : Nat]
  /\ c_rptr \in Ptr /\ c_wptr \in Ptr /\ c_time \in Nat
  /\ engine \in Seq([len : Nat, dev : BOOLEAN])
  /\ axi_r \in Seq(Beat) /\ r_q \in Seq(Beat)
  /\ callbacks \in Nat
  /\ cb_beat \in Seq(Beat) /\ Len(cb_beat) <= 1
  /\ pending_reads \in Int
  /\ reads \in Nat /\ beats \in Nat /\ taken \in Nat

\* The assertion name_not_full of AXI_SW_DPI_FIFO_PUSH (axi_sw.sv 11): every
\* beat C++ moved to r_q_ has a slot in the FIFO, however late the pointer
\* messages are and however flushes overtake them.
NotFull ==
  reset_n => PtrSub(wptr_nxt, rptr) + Len(cb_beat) + Len(r_q) <= RQMax

\* The assertion of process(r_q_ptr_blocking_update_t) (axi_sw.h 281): when
\* a flush is called no update of this or a later clock was applied.
FlushIsNewest == reset_n /\ ~flush_called => clocks > c_time

\* The R channel offers every beat exactly once and in the order the engine
\* read them, across flushes, late callbacks and restarts (axi_sw.sv 46).
NextInOrder ==
  reset_n /\ ~r_queue_empty => q[Idx(rptr)].seq = taken + 1

\* Without cb_async and with the callbacks off, flushes alone serve every
\* read, as the flag promises: "Plusarg to test synchronous read flushes are
\* working by turning off asynchronous callbacks" (axi_sw.cpp 10).
FlushServesSim == NoCallbacks /\ ~CbAsync => []<>(ar_history = 0)
===========================================================================
