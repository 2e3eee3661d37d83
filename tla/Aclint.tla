------------------------------- MODULE Aclint -------------------------------
(***************************************************************************)
(* The ACLINT timer: the MMRs in C++ (src/sysmod/aclint/aclint.cpp) over   *)
(* the counter and the compares in SystemVerilog (aclint.sv).  A write is  *)
(* staged by a DPI call and committed at the next reference-clock edge;    *)
(* the C++ side keeps a mirror of the compares for reads and for merging   *)
(* half-register writes, and broadcasts the time to the cores' CTIME.      *)
(*                                                                         *)
(* A 64-bit register is a pair of words of WordSize values, hi * WordSize  *)
(* + lo.  The broadcast has an address (ctimeAddr_).                       *)
(***************************************************************************)
EXTENDS Integers

CONSTANTS
  NUM_MTIMECMP,
  WordSize,       \* bound: values of a 32-bit word
  Step,           \* what mtime gains per reference edge (10 in the code)
  MaxBroadcasts   \* bound: time broadcasts in a behaviour

Size == WordSize * WordSize
MTIMECMP_RESET == WordSize - 1
Cmps == 0 .. NUM_MTIMECMP - 1

Hi(v) == v \div WordSize
Lo(v) == v % WordSize
Reg(hi, lo) == hi * WordSize + lo

VARIABLES
  timeCompare_,                     \* the C++ mirror
  mtime_q, mtime_dpi, mtime_wr,     \* SV: counter, staged value, req # ack
  mtimecmp, mtimecmp_dpi, mtimecmp_wr,
  ctime,                            \* CTIME writes to the ring master: how many, the last
  written,                          \* software's view of the registers (history)
  behind                            \* compares that SV has at their reset value and
                                    \* the mirror has not (history)

vars == <<timeCompare_, mtime_q, mtime_dpi, mtime_wr, mtimecmp, mtimecmp_dpi,
          mtimecmp_wr, ctime, written, behind>>

\* A register as a pair of words.
Halves(v) == <<Lo(v), Hi(v)>>

\* The compares whose mirror is not at the reset value.
Off == {i \in Cmps : timeCompare_[i] # MTIMECMP_RESET}

\* The constructor loads a snapshot into the mirror alone.
Init ==
  /\ timeCompare_ \in [Cmps -> 0 .. Size - 1]
  /\ mtime_q = 0 /\ mtime_dpi = 0 /\ mtime_wr = FALSE
  /\ mtimecmp = [i \in Cmps |-> MTIMECMP_RESET] /\ mtimecmp_dpi = mtimecmp
  /\ mtimecmp_wr = [i \in Cmps |-> FALSE]
  /\ ctime = [n |-> 0, time |-> 0]
  /\ written = [cmp |-> [i \in Cmps |-> Halves(timeCompare_[i])], mtime |-> <<0, 0>>]
  /\ behind = Off

\* sysmod_aclint_get_mtime: the staged value while one is staged.
get_mtime == IF mtime_wr THEN mtime_dpi ELSE mtime_q

\* The bug of merging a half-register write into the wrong half.
merge_swapped(old, length, hi, w) ==
  IF length = 8 THEN w ELSE IF hi THEN Reg(Hi(old), Lo(w)) ELSE Reg(Lo(w), Lo(old))

\* The register after a write of `length' bytes, 4-byte ones to one half.
merge(old, length, hi, w) ==
  IF length = 8 THEN w ELSE IF hi THEN Reg(Lo(w), Lo(old)) ELSE Reg(Hi(old), Lo(w))

\* The same in software's view of a register.
Store(pair, length, hi, w) ==
  IF length = 8 THEN Halves(w) ELSE [pair EXCEPT ![IF hi THEN 2 ELSE 1] = Lo(w)]

\* broadcastTime: the CTIME write carries get_mtime at that moment.
broadcastTime(t) ==
  /\ ctime.n < MaxBroadcasts
  /\ ctime' = [n |-> ctime.n + 1, time |-> t]

\* A write of mtime is staged and then broadcast.
WriteMtime(length, hi, w) ==
  LET v == merge(get_mtime, length, hi, w)
  IN /\ mtime_dpi' = v
     /\ mtime_wr' = TRUE
     /\ broadcastTime(v)
     /\ written' = [written EXCEPT !.mtime = Store(@, length, hi, w)]
     /\ UNCHANGED <<timeCompare_, mtime_q, mtimecmp, mtimecmp_dpi, mtimecmp_wr, behind>>

\* A write of timesync, which needs a low byte other than zero; the broadcast
\* changes nothing else.
WriteTimesync(w) ==
  /\ w % WordSize # 0
  /\ broadcastTime(get_mtime)
  /\ UNCHANGED <<timeCompare_, mtime_q, mtime_dpi, mtime_wr, mtimecmp, mtimecmp_dpi,
                 mtimecmp_wr, written, behind>>

\* A write of a compare goes to the mirror and is staged for the SV compare.
WriteMtimecmp(i, length, hi, w) ==
  LET v == merge(timeCompare_[i], length, hi, w)
  IN /\ timeCompare_' = [timeCompare_ EXCEPT ![i] = v]
     /\ mtimecmp_dpi' = [mtimecmp_dpi EXCEPT ![i] = v]
     /\ mtimecmp_wr' = [mtimecmp_wr EXCEPT ![i] = TRUE]
     /\ written' = [written EXCEPT !.cmp[i] = Store(@, length, hi, w)]
     /\ behind' = behind \ {i}
     /\ UNCHANGED <<mtime_q, mtime_dpi, mtime_wr, mtimecmp, ctime>>

\* Lengths other than 4 and 8, and unmatched offsets, change nothing.
write(length, hi, w) ==
  \/ WriteMtime(length, hi, w)
  \/ WriteTimesync(w)
  \/ \E i \in Cmps : WriteMtimecmp(i, length, hi, w)

\* A reference edge: staged values are committed, or the counter advances; a
\* reset drops what is staged and does not reach the mirror.
RefEdge(aclint_ref_reset) ==
  /\ mtime_q' = IF aclint_ref_reset THEN 0
                ELSE IF mtime_wr THEN mtime_dpi ELSE (mtime_q + Step) % Size
  /\ mtime_wr' = FALSE
  /\ mtimecmp' = [i \in Cmps |-> IF aclint_ref_reset THEN MTIMECMP_RESET
                                  ELSE IF mtimecmp_wr[i] THEN mtimecmp_dpi[i] ELSE mtimecmp[i]]
  /\ mtimecmp_wr' = [i \in Cmps |-> FALSE]
  /\ behind' = IF aclint_ref_reset THEN Off ELSE behind
  /\ written' = [written EXCEPT !.mtime = Halves(mtime_q')]
  /\ UNCHANGED <<timeCompare_, mtime_dpi, mtimecmp_dpi, ctime>>

Next ==
  \/ \E w \in 0 .. Size - 1 : write(8, FALSE, w)
  \/ \E hi \in BOOLEAN, w \in 0 .. WordSize - 1 : write(4, hi, w)
  \/ \E reset \in BOOLEAN : RefEdge(reset)

Spec == Init /\ [][Next]_vars

----------------------------------------------------------------------------
\* What software wrote is what the timer has, whole registers and halves, at
\* any distance from the reference edge: a compare reads back as written and is
\* the one MTIP is computed from once it is committed, unless a snapshot or a
\* reset of the reference clock came after the last write of it, and two half
\* writes of mtime between the same two edges make one value (aclint::write,
\* merge, the req/ack staging).
RegistersAsWritten ==
  /\ \A i \in Cmps : Halves(timeCompare_[i]) = written.cmp[i]
  /\ \A i \in Cmps \ behind :
       timeCompare_[i] = IF mtimecmp_wr[i] THEN mtimecmp_dpi[i] ELSE mtimecmp[i]
  /\ Halves(get_mtime) = written.mtime

\* A time broadcast carries the mtime software would read at that moment.
BroadcastsCurrent ==
  [][ctime' # ctime => Halves(ctime'.time) = written'.mtime]_vars
=============================================================================
