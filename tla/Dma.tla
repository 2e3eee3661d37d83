-------------------------------- MODULE Dma --------------------------------
(***************************************************************************)
(* The DMA trickbox (src/sysmod/trickbox/dma.cpp).  Software fills the     *)
(* registers of a slot (address, data, size, command) and starts it by     *)
(* writing 1 to its status; the device issues an AXI read or write and a   *)
(* forked coroutine finishes the request when the response arrives.        *)
(* Several slots can be under way, and the coroutines share the members    *)
(* dma_read_addr_ and dma_write_size_, which they use again after they     *)
(* resume.  A write keeps Whisper's memory in step by poking the bytes it  *)
(* wrote, whatever the response says.  A read takes its bytes from the     *)
(* offset of the read that was started last.                               *)
(*                                                                         *)
(* Memory is two lines of LineBytes bytes.  A data word has WordBytes bytes*)
(* (8 in the code); the sizes are 1, a word and two words, which stand for *)
(* 1, 2 to 8 and 16 to 64.  The slots' own copies of the data registers in *)
(* Whisper are not part of the model.                                      *)
(***************************************************************************)
EXTENDS Integers, Sequences, FiniteSets

CONSTANTS
  Slots,       \* keys of dma_txn_map_
  Addrs,       \* bound: addresses software uses
  Sizes,       \* bound: sizes software uses
  Values,      \* bound: words software writes to the data registers
  Words,       \* bound: the data registers it writes
  WordBytes,
  LineBytes,   \* bound
  Narrow,      \* address and size of the transfers that set allow_decerr_resp
  MaxStarts    \* bound: requests started in a behaviour; nothing is
               \* programmed after the last

VARIABLES
  dma_txn_map_,
  dma_read_addr_, dma_write_size_,   \* members the coroutines share
  reads, writes,                     \* coroutines waiting for a response
  mem, whisper,                      \* memory in the system and in Whisper
  error,                             \* an error has been logged
  starts,                            \* bound
  got,                               \* what slot k's first word should be (history)
  apart                              \* bytes that a write was refused, or poked with
                                     \* the size of another one (history)

vars == <<dma_txn_map_, dma_read_addr_, dma_write_size_, reads, writes, mem,
          whisper, error, starts, got, apart>>

ByteAddrs == 0 .. 2 * LineBytes - 1

\* A word of software's: its bytes are told apart by value and position.
Word(v) == [i \in 1 .. WordBytes |-> <<v, i>>]

\* Memory before any write, and a byte read past the end of a vector.
Blank == <<-1, 0>>
Junk == <<-2, 0>>

Txn == [addr |-> 0, data |-> <<Word(0), Word(0)>>, size |-> 0, cmd |-> 0,
        status |-> 0, in_flight |-> FALSE]

Init ==
  /\ dma_txn_map_ = [k \in Slots |-> Txn]
  /\ dma_read_addr_ = 0 /\ dma_write_size_ = 0
  /\ reads = {} /\ writes = {}
  /\ mem = [a \in ByteAddrs |-> Blank] /\ whisper = mem
  /\ error = FALSE
  /\ starts = 0
  /\ got = [k \in Slots |-> Word(0)]
  /\ apart = {}

----------------------------------------------------------------------------
(* The registers.                                                          *)

\* A register of slot k is stored unless the slot is in flight, which is an
\* error.
Register(k, field, v, g) ==
  /\ starts < MaxStarts
  /\ got' = IF dma_txn_map_[k].in_flight THEN got ELSE [got EXCEPT ![k] = g]
  /\ IF dma_txn_map_[k].in_flight
     THEN error' = TRUE /\ UNCHANGED dma_txn_map_
     ELSE dma_txn_map_' = [dma_txn_map_ EXCEPT ![k][field] = v] /\ UNCHANGED error
  /\ UNCHANGED <<dma_read_addr_, dma_write_size_, reads, writes, mem, whisper, starts,
                 apart>>

\* The data register of slot 0, word i.  The index of a later slot's register
\* passes the end of the slot's own array, so only slot 0 has usable ones.
DataRegister(i, v) ==
  Register(0, "data", [dma_txn_map_[0].data EXCEPT ![i] = Word(v)],
           IF i = 1 THEN Word(v) ELSE got[0])

----------------------------------------------------------------------------
(* Starting a slot.                                                        *)

\* The bytes of a write: the low bytes of the first word, or the words from the
\* last to the first.
WriteBytes(t) ==
  IF t.size <= WordBytes THEN SubSeq(t.data[1], 1, t.size) ELSE t.data[2] \o t.data[1]

ValidSize(n) == n \in {1, WordBytes, 2 * WordBytes}

\* Command 1: the read is issued and its coroutine waits.  mixed: a read at
\* another offset was started meanwhile.
StartRead(k, m) ==
  /\ dma_txn_map_' = m
  /\ dma_read_addr_' = m[k].addr
  /\ reads' = {[r EXCEPT !.mixed = @ \/ r.addr % LineBytes # m[k].addr % LineBytes] : r \in reads}
              \cup {[key |-> k, addr |-> m[k].addr, n |-> starts, mixed |-> FALSE]}
  /\ UNCHANGED <<dma_write_size_, writes>>

\* Command 2, overlay_write: the write is issued, its coroutine waits, and the
\* slot is complete at once.  mixed: a write of another size was started
\* meanwhile.
StartWrite(k, m) ==
  /\ dma_txn_map_' = [m EXCEPT ![k].in_flight = FALSE, ![k].status = 2]
  /\ dma_write_size_' = m[k].size
  /\ writes' = {[w EXCEPT !.mixed = @ \/ Len(w.bytes) # m[k].size] : w \in writes}
               \cup {[addr |-> m[k].addr, bytes |-> WriteBytes(m[k]), n |-> starts,
                      mixed |-> FALSE]}
  /\ UNCHANGED <<dma_read_addr_, reads>>

\* A write of v to slot k's status.  The error of a slot in flight does not
\* keep the slot from being started again.
StatusRegister(k, v) ==
  LET inFlight == dma_txn_map_[k].in_flight
      status == IF inFlight THEN dma_txn_map_[k].status ELSE v
      m == [dma_txn_map_ EXCEPT ![k].status = status,
                                ![k].in_flight = inFlight \/ status = 1]
      bad == m[k].cmd = 2 /\ ~ValidSize(m[k].size)
  IN /\ UNCHANGED <<mem, whisper, got, apart>>
     /\ \/ /\ status # 1 \/ m[k].cmd = 0 \/ bad
           /\ dma_txn_map_' = m
           /\ error' = (error \/ inFlight \/ (status = 1 /\ bad))
           /\ UNCHANGED <<dma_read_addr_, dma_write_size_, reads, writes, starts>>
        \/ /\ status = 1 /\ m[k].cmd # 0 /\ ~bad
           /\ starts < MaxStarts /\ starts' = starts + 1
           /\ error' = (error \/ inFlight)
           /\ IF m[k].cmd = 1 THEN StartRead(k, m) ELSE StartWrite(k, m)

----------------------------------------------------------------------------
(* The responses.                                                          *)

\* An error response, which the master hands on only where the request allows
\* it: otherwise it logs the error and the coroutine waits on.
Refused(a, n) ==
  /\ <<a, n>> \notin Narrow
  /\ error' = TRUE
  /\ UNCHANGED <<dma_txn_map_, dma_read_addr_, dma_write_size_, reads, writes, mem,
                 whisper, starts, got, apart>>

\* The bug of a loop that leaves out the last byte.
PokedShort(w) ==
  [a \in ByteAddrs |-> IF a - w.addr + 1 \in 1 .. dma_write_size_ - 1
                   THEN w.bytes[a - w.addr + 1] ELSE whisper[a]]

\* As many bytes as the last write started has are poked.
Poked(w) ==
  [a \in ByteAddrs |->
     LET i == a - w.addr + 1
     IN IF i \notin 1 .. dma_write_size_ THEN whisper[a]
        ELSE IF i > Len(w.bytes) THEN Junk ELSE w.bytes[i]]

\* The system takes or refuses a write and the response resumes blocking_write,
\* which does not look at it.
blocking_write(w, okay) ==
  LET own == {a \in ByteAddrs : a - w.addr + 1 \in 1 .. Len(w.bytes)}
      touched == {a \in ByteAddrs : a - w.addr + 1 \in 1 .. dma_write_size_} \cup own
  IN /\ okay \/ <<w.addr, Len(w.bytes)>> \in Narrow
     /\ writes' = writes \ {w}
     /\ mem' = [a \in ByteAddrs |-> IF okay /\ a \in own THEN w.bytes[a - w.addr + 1] ELSE mem[a]]
     /\ whisper' = Poked(w)
     /\ apart' = IF okay /\ ~w.mixed THEN apart \ own ELSE apart \cup touched
     /\ UNCHANGED <<dma_txn_map_, dma_read_addr_, dma_write_size_, reads, error, starts, got>>

\* The bytes of one word of a response, which is a whole line: in order for a
\* request of up to a word, the last byte first for a longer one.
ReadWord(r, size, j, line) ==
  LET data_offset == dma_read_addr_ % LineBytes
  IN [i \in 1 .. WordBytes |->
        LET b == data_offset + (IF size <= WordBytes THEN i - 1 ELSE j * WordBytes - i)
        IN IF i > size THEN Word(0)[i] ELSE IF b < LineBytes THEN line[b] ELSE Junk]

\* overlay_read and handle_dma_read_request resume: the slot is complete and
\* its data is taken from the offset of dma_read_addr_.
Fetched(r, line) ==
  LET t == dma_txn_map_[r.key]
      words == IF t.size <= WordBytes THEN {1} ELSE {1, 2}
  IN [t EXCEPT !.in_flight = FALSE, !.status = 2,
               !.data = [j \in {1, 2} |-> IF j \in words /\ ValidSize(t.size)
                                          THEN ReadWord(r, t.size, j, line)
                                          ELSE t.data[j]]]

\* The line that is read, or anything when the read is refused.
handle_dma_read_request(r, okay) ==
  LET base == (r.addr \div LineBytes) * LineBytes
      line == [i \in 0 .. LineBytes - 1 |-> IF okay THEN mem[base + i] ELSE Junk]
      size == dma_txn_map_[r.key].size
  IN /\ okay \/ <<r.addr, size>> \in Narrow
     /\ reads' = reads \ {r}
     /\ dma_txn_map_' = [dma_txn_map_ EXCEPT ![r.key] = Fetched(r, line)]
     /\ error' = (error \/ ~ValidSize(size))
     /\ got' = [got EXCEPT ![r.key] =
                  IF r.mixed \/ ~okay THEN Fetched(r, line).data[1]
                  ELSE [i \in 1 .. WordBytes |->
                          IF i <= size THEN mem[r.addr + i - 1] ELSE <<0, i>>]]
     /\ UNCHANGED <<dma_read_addr_, dma_write_size_, writes, mem, whisper, starts, apart>>

----------------------------------------------------------------------------
\* Nothing is said of a test after an error.
Next == ~error /\
  \/ \E k \in Slots, a \in Addrs : Register(k, "addr", a, got[k])
  \/ \E k \in Slots, n \in Sizes : Register(k, "size", n, got[k])
  \/ \E k \in Slots, c \in {1, 2} : Register(k, "cmd", c, got[k])
  \/ \E i \in Words, v \in Values : DataRegister(i, v)
  \/ \E k \in Slots, s \in {0, 1} : StatusRegister(k, s)
  \/ \E w \in writes, okay \in BOOLEAN : blocking_write(w, okay)
  \/ \E r \in reads, okay \in BOOLEAN : handle_dma_read_request(r, okay)
  \/ \E w \in writes : Refused(w.addr, Len(w.bytes))
  \/ \E r \in reads : Refused(r.addr, dma_txn_map_[r.key].size)

Spec == Init /\ [][Next]_vars

----------------------------------------------------------------------------
\* "Poke same data to whisper memory" (blocking_write): once no write is under
\* way, Whisper's memory is the system's, but for the bytes of a write that was
\* refused or during which a write of another size was started.
WhisperSameData ==
  ~error /\ writes = {} => \A a \in ByteAddrs \ apart : whisper[a] = mem[a]

\* The data register of a slot holds what software last wrote to it or the bytes
\* at the slot's own address, whatever the other slots did while the read was
\* under way, unless a read at another offset of a line was started or the read
\* was refused; and a slot in flight has a coroutine that will complete it
\* (overlay_read, handle_dma_read_request, the in-flight check of the registers).
ReadsOwn ==
  ~error =>
    \A k \in Slots :
      LET t == dma_txn_map_[k]
      IN /\ t.data[1] = got[k]
         /\ t.in_flight /\ t.cmd = 1 => \E r \in reads : r.key = k /\ r.addr = t.addr
=============================================================================
