----------------------------- MODULE AxiBurst -----------------------------
(***************************************************************************)
(* The addresses of a burst: the loop over the beats in axi::operator()    *)
(* (src/transactors/axi_sw/axi.cpp) and the byte span that the exclusive   *)
(* access monitor computes for the same transaction (eam::span).           *)
(***************************************************************************)
EXTENDS Integers

CONSTANTS BusBytes,   \* data_width() / 8
          Sizes,      \* values of AxSIZE
          Lens,       \* values of AxLEN
          MaxAddr     \* bound: largest start address

VARIABLES a,         \* the transaction
          n,         \* the beat, from 1
          addr, aligned,
          touched    \* history: bytes read or written so far

vars == <<a, n, addr, aligned, touched>>

num_bytes == 2 ^ a.size
burst_len == a.len + 1
dtsize == num_bytes * burst_len
aligned_addr == (a.addr \div num_bytes) * num_bytes
lower_wrap_boundary == (a.addr \div dtsize) * dtsize
upper_wrap_boundary == lower_wrap_boundary + dtsize

\* Wrapping bursts start aligned and have 2, 4, 8 or 16 beats.
Transactions ==
  {t \in [addr : 0 .. MaxAddr, size : Sizes, len : Lens,
          burst : {"FIXED", "INCR", "WRAP"}] :
     t.burst = "WRAP" => t.len + 1 \in {2, 4, 8, 16} /\ t.addr % 2 ^ t.size = 0}

Init ==
  /\ a \in Transactions
  /\ n = 1 /\ addr = a.addr
  /\ aligned = (addr = aligned_addr)
  /\ touched = {}

Word(x) == (x \div BusBytes) * BusBytes
lower_byte_lane == addr - Word(addr)

upper_byte_lane ==
  IF aligned THEN lower_byte_lane + num_bytes - 1
  ELSE aligned_addr + num_bytes - 1 - Word(addr)

\* The access of a beat: `start' and `len' of the call of transactor::read
\* or transactor::write.
start == Word(addr) + lower_byte_lane
Access == start .. (start + (upper_byte_lane - lower_byte_lane + 1) - 1)

\* MUTANT of NextAddr: the address passes the wrap boundary.
NextAddrNoWrap ==
  IF a.burst = "FIXED" THEN addr
  ELSE IF ~aligned THEN aligned_addr + num_bytes
  ELSE addr + num_bytes

NextAddr ==
  IF a.burst = "FIXED" THEN addr
  ELSE IF ~aligned THEN aligned_addr + num_bytes
  ELSE IF a.burst = "WRAP" /\ addr + num_bytes >= upper_wrap_boundary
  THEN lower_wrap_boundary
  ELSE addr + num_bytes

Beat ==
  /\ n <= burst_len
  /\ touched' = touched \cup Access
  /\ n' = n + 1
  /\ addr' = NextAddr
  /\ aligned' = (aligned \/ a.burst # "FIXED")
  /\ UNCHANGED a

Next == Beat

Spec == Init /\ [][Next]_vars
---------------------------------------------------------------------------
\* eam::span.
Span ==
  IF a.burst = "FIXED" THEN aligned_addr .. (aligned_addr + num_bytes - 1)
  ELSE IF a.burst = "WRAP"
  THEN lower_wrap_boundary .. (lower_wrap_boundary + dtsize - 1)
  ELSE aligned_addr .. (aligned_addr + dtsize - 1)

\* A beat stays inside one word of the bus, so that the rotations of data
\* and strobes by lower_byte_lane move every byte to its lane.
OneWord ==
  n <= burst_len =>
    /\ 0 <= lower_byte_lane /\ lower_byte_lane <= upper_byte_lane
    /\ upper_byte_lane < BusBytes

\* The monitor's span covers every byte that the engine accesses ("Byte span
\* touched by the transaction, conservatively computed", eam.hpp): no write
\* slips past a reservation it overlaps.
SpanCovers == touched \subseteq Span

\* When the loop of axi::operator() ends it has accessed exactly the bytes
\* of the burst: from the start address to the end of the last transfer, or
\* the whole container of a wrapping burst.
WholeBurst ==
  n = burst_len + 1 =>
    touched = IF a.burst = "WRAP"
              THEN lower_wrap_boundary .. (upper_wrap_boundary - 1)
              ELSE IF a.burst = "INCR"
              THEN a.addr .. (aligned_addr + dtsize - 1)
              ELSE a.addr .. (aligned_addr + num_bytes - 1)
===========================================================================
