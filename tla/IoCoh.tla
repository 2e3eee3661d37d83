------------------------------- MODULE IoCoh -------------------------------
(***************************************************************************)
(* The I/O coherency trickbox (src/sysmod/trickbox/io_coh_helper.cpp):     *)
(* software programs an address, a size and data bytes, and starts a       *)
(* write, a read or a list of reads on an AXI port; a forked coroutine     *)
(* finishes each when its response arrives.  The in-flight registers tell  *)
(* software when to go on, a data register returns what was read byte by   *)
(* byte, and a write is repeated in Whisper's memory.  The coroutines      *)
(* share the device's members and use them again after they resume.        *)
(*                                                                         *)
(* Memory is two lines of LineBytes bytes (64 in the code), which is the   *)
(* width of the data bus.  A latched transfer of a list is always a read:  *)
(* its write flag is taken from bits above the eight that are kept.        *)
(***************************************************************************)
EXTENDS Integers, Sequences, FiniteSets

CONSTANTS Addrs, Sizes, Values, LineBytes,
          Narrow,     \* addresses at which an error response is tolerated
          MaxStarts,  \* bound: transfers started in a behaviour
          MaxBytes    \* bound: data bytes and latched transfers

VARIABLES
  tx_addr, tx_type, tx_size, wdata_vec, txns_vec,   \* what is programmed
  rdata_byte_vec, read_counter,
  write_in_flight, read_in_flight, burst_in_flight,
  writes, reads,   \* coroutines that wait: [addr, vec, allow], [addr, burst]
  mem, whisper, error, starts,
  want             \* the bytes of the last read that completed (history)

regs == <<tx_addr, tx_type, tx_size, wdata_vec, txns_vec>>
flight == <<write_in_flight, read_in_flight, burst_in_flight>>
vars == <<tx_addr, tx_type, tx_size, wdata_vec, txns_vec, rdata_byte_vec,
          read_counter, write_in_flight, read_in_flight, burst_in_flight,
          writes, reads, mem, whisper, error, starts, want>>

Cells == 0 .. 2 * LineBytes - 1
Blank == -1

Init ==
  /\ tx_addr = 0 /\ tx_type = 0 /\ tx_size = 0 /\ wdata_vec = <<>> /\ txns_vec = <<>>
  /\ rdata_byte_vec = <<>> /\ read_counter = 0
  /\ write_in_flight = FALSE /\ read_in_flight = FALSE /\ burst_in_flight = FALSE
  /\ writes = {} /\ reads = {}
  /\ mem = [a \in Cells |-> Blank] /\ whisper = mem
  /\ error = FALSE /\ starts = 0 /\ want = <<>>

----------------------------------------------------------------------------
(* The registers.  tx_addr_burst is always tx_addr.                        *)

Idle == <<rdata_byte_vec, read_counter, flight, writes, reads, mem, whisper,
          starts, want>>

\* Status: clears the data bytes; writing anything but 0 is an error.
StatusRegister(v) ==
  /\ wdata_vec' = <<>> /\ error' = (v > 0)
  /\ UNCHANGED <<tx_addr, tx_type, tx_size, txns_vec, Idle>>

AddressRegister(a) ==
  /\ tx_addr' = a
  /\ UNCHANGED <<tx_type, tx_size, wdata_vec, txns_vec, error, Idle>>

\* Type 2 also empties the list of transfers.
TypeRegister(t) ==
  /\ tx_type' = t
  /\ txns_vec' = IF t = 2 THEN <<>> ELSE txns_vec
  /\ UNCHANGED <<tx_addr, tx_size, wdata_vec, error, Idle>>

SizeRegister(n) ==
  /\ tx_size' = n
  /\ UNCHANGED <<tx_addr, tx_type, wdata_vec, txns_vec, error, Idle>>

DataRegister(v) ==
  /\ Len(wdata_vec) < MaxBytes
  /\ wdata_vec' = Append(wdata_vec, v)
  /\ UNCHANGED <<tx_addr, tx_type, tx_size, txns_vec, error, Idle>>

LatchRegister ==
  /\ Len(txns_vec) < MaxBytes
  /\ txns_vec' = Append(txns_vec, tx_addr)
  /\ UNCHANGED <<tx_addr, tx_type, tx_size, wdata_vec, error, Idle>>

\* read_dev of the read-data register, once software saw the read complete.
ReadData ==
  /\ ~read_in_flight /\ ~burst_in_flight
  /\ IF read_counter < tx_size /\ read_counter < Len(rdata_byte_vec)
     THEN read_counter' = read_counter + 1 /\ UNCHANGED error
     ELSE error' = TRUE /\ UNCHANGED read_counter
  /\ UNCHANGED <<regs, rdata_byte_vec, flight, writes, reads, mem, whisper,
                 starts, want>>

----------------------------------------------------------------------------
(* Starting a transfer.  Software has given a size, and polls the          *)
(* in-flight register of the kind of transfer it is about to start.        *)

\* gen_data_strb: the bus lanes of a write, -1 where there is no strobe.  The
\* last lane is never driven.
gen_data_strb(addr) ==
  [b \in 0 .. LineBytes - 1 |->
     LET i == b - (addr % LineBytes)
     IN IF i \in 0 .. tx_size - 1 /\ b < LineBytes - 1 THEN wdata_vec[i + 1] ELSE Blank]

StartWrite ==
  /\ tx_type = 0 /\ ~write_in_flight
  /\ IF Len(wdata_vec) # tx_size
     THEN error' = TRUE /\ UNCHANGED <<write_in_flight, writes>>
     ELSE /\ write_in_flight' = TRUE
          /\ writes' = writes \cup
               {[addr |-> tx_addr, vec |-> gen_data_strb(tx_addr), allow |-> tx_addr \in Narrow]}
          /\ UNCHANGED error
  /\ UNCHANGED <<regs, rdata_byte_vec, read_counter, read_in_flight,
                 burst_in_flight, reads, mem, whisper, want>>

\* rdata_byte_vec = {}
NoBytes(v) == <<>>

\* blocking_read, and blocking_burst_thread up to its first response.
StartRead ==
  /\ tx_type \in {1, 2} /\ ~read_in_flight /\ ~burst_in_flight
  /\ IF tx_type = 2 /\ txns_vec = <<>>
     THEN UNCHANGED <<reads, read_in_flight, burst_in_flight, rdata_byte_vec>>
     ELSE /\ reads' = reads \cup
               {[addr  |-> IF tx_type = 1 THEN tx_addr ELSE txns_vec[1],
                 burst |-> IF tx_type = 1 THEN 0 ELSE 1]}
          /\ read_in_flight' = TRUE /\ burst_in_flight' = (tx_type = 2)
          /\ rdata_byte_vec' = NoBytes(rdata_byte_vec)
  /\ UNCHANGED <<regs, read_counter, write_in_flight, writes, mem, whisper,
                 error, want>>

Trigger == /\ tx_size > 0 /\ starts < MaxStarts /\ starts' = starts + 1
           /\ StartWrite \/ StartRead

----------------------------------------------------------------------------
(* The responses.                                                          *)

\* wresp.resp == RESP_OKAY
Pokes(okay) == okay

\* Byte i of the poke is lane i, as many as tx_size is by now.
Poked(w) ==
  [a \in Cells |->
     LET i == a - w.addr
     IN IF i \notin 0 .. tx_size - 1 THEN whisper[a]
        ELSE IF w.vec[i] = Blank THEN 0 ELSE w.vec[i]]

\* blocking_write resumes.  An error response is tolerated where the
\* write is narrow or misaligned; otherwise the coroutine ends with the flag still set.
WriteResponse(w, okay) ==
  /\ writes' = writes \ {w}
  /\ mem' = IF ~okay THEN mem
            ELSE [a \in Cells |->
                    LET l == w.vec[a % LineBytes]
                    IN IF a \div LineBytes = w.addr \div LineBytes /\ l # Blank
                       THEN l ELSE mem[a]]
  /\ IF ~okay /\ ~w.allow
     THEN error' = TRUE /\ UNCHANGED <<write_in_flight, whisper>>
     ELSE /\ write_in_flight' = FALSE
          /\ whisper' = IF Pokes(okay) THEN Poked(w) ELSE whisper
          /\ UNCHANGED error
  /\ UNCHANGED <<regs, rdata_byte_vec, read_counter, read_in_flight,
                 burst_in_flight, reads, starts, want>>

\* The first tx_size bytes of the bus.
Fetched(addr) ==
  [i \in 1 .. tx_size |-> mem[(addr \div LineBytes) * LineBytes + i - 1]]

\* blocking_read resumes and is done; blocking_burst_thread goes on with the
\* next transfer of the list as it is by now.
ReadResponse(r) ==
  LET more == r.burst > 0 /\ r.burst < Len(txns_vec)
  IN /\ read_counter' = 0
     /\ want' = [i \in 1 .. tx_size |-> mem[r.addr + i - 1]]
     /\ rdata_byte_vec' = IF more THEN NoBytes(rdata_byte_vec)
                          ELSE rdata_byte_vec \o Fetched(r.addr)
     /\ read_in_flight' = more
     /\ burst_in_flight' = IF r.burst > 0 THEN more ELSE burst_in_flight
     /\ reads' = (reads \ {r}) \cup
          (IF more THEN {[addr |-> txns_vec[r.burst + 1], burst |-> r.burst + 1]} ELSE {})
     /\ UNCHANGED <<regs, write_in_flight, writes, mem, whisper, error, starts>>

----------------------------------------------------------------------------
\* Nothing is said of a test after an error.
Next == ~error /\
  \/ \E v \in {0, 1} : StatusRegister(v)
  \/ \E a \in Addrs : AddressRegister(a)
  \/ \E t \in 0 .. 2 : TypeRegister(t)
  \/ \E n \in Sizes : SizeRegister(n)
  \/ \E v \in Values : DataRegister(v)
  \/ LatchRegister
  \/ ReadData
  \/ Trigger
  \/ \E w \in writes, okay \in BOOLEAN : WriteResponse(w, okay)
  \/ \E r \in reads : ReadResponse(r)

Spec == Init /\ [][Next]_vars

----------------------------------------------------------------------------
\* "Poke same data to whisper memory" (blocking_write): once no write is under
\* way, Whisper's memory is the system's.
WhisperSameData == ~error /\ writes = {} => whisper = mem

\* The in-flight registers say what is under way, and once they say nothing is,
\* the data register returns the bytes of the last read and no older ones
\* (blocking_read, blocking_burst_thread, read_dev).
FlagsAndBytes ==
  ~error =>
    /\ write_in_flight = (writes # {})
    /\ (read_in_flight \/ burst_in_flight) = (reads # {})
    /\ reads = {} => rdata_byte_vec = want
=============================================================================
