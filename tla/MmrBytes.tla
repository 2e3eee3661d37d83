----------------------------- MODULE MmrBytes -----------------------------
(***************************************************************************)
(* The bytes of a rerouted MMR access (src/sysmod/mmr_txn_router/          *)
(* mmr_txn_router.cpp, with a_wrapper and push_write_request of            *)
(* axi_sw_mst.h): how an access of the bus engine becomes AXI beats of a   *)
(* narrower master bus, and how the beats become the access's data again.  *)
(* One step is one AXI transaction with its response.                      *)
(*                                                                         *)
(* The byte at address a holds the value a; the device behind the master   *)
(* drives whole bus words.                                                 *)
(***************************************************************************)
EXTENDS Integers, Sequences, FiniteSetsExt

CONSTANTS Bus,        \* axi_mst_data_bytes_
          Container,  \* widest beat of the bus that the access came from
          MaxAddr,        \* addresses are below MaxAddr
          Cap         \* axi_mst_max_beats_, 0 when uncapped

Pow2(k) == \E e \in 0 .. 6 : k = 2 ^ e
Word(a) == a - (a % Bus)

\* What one beat of the burst engine can ask for: from any byte of an
\* aligned container of 2^size bytes to its end.
Extents == {[addr |-> a, length |-> l] : a \in 0 .. MaxAddr - 1, l \in 1 .. Container}
Access == {x \in Extents :
             \E s \in 0 .. 6 : /\ 2 ^ s <= Container /\ x.length <= 2 ^ s
                               /\ (x.addr + x.length) % (2 ^ s) = 0}

VARIABLES acc,     \* the access: kind, hw (hardware source), addr, length, strb
          at,      \* beat_addr of a split, or the access's address
          out,     \* reads: the data so far; a split's bytes not yet read are -1
          mem,     \* writes: the addresses written
          lens,    \* beats of each transaction issued
          done

vars == <<acc, at, out, mem, lens, done>>

\* make_ar: an access that is no whole number of power-of-two beats becomes
\* a stream of bytes.
make_ar(length, upsize) ==
  LET l == IF upsize /\ length < 4 THEN 4 ELSE length
      beat == IF l > Bus THEN Bus ELSE l
  IN  IF Pow2(beat) /\ l % beat = 0
      THEN [size |-> beat, beats |-> l \div beat]
      ELSE [size |-> 1, beats |-> l]

\* Where beat i of an incrementing burst starts.
BeatAddr(a, size, i) == IF i = 0 THEN a ELSE a - (a % size) + i * size

\* The transactor hands over one whole bus word per beat.
RespData(a, ar) ==
  [k \in 1 .. ar.beats * Bus |->
     Word(BeatAddr(a, ar.size, (k - 1) \div Bus)) + ((k - 1) % Bus)]

\* MUTANT of Extract: the first bytes of the beat.
ExtractFirst(resp, a, length) == IF Len(resp) > length THEN SubSeq(resp, 1, length) ELSE resp

\* The part of the response that read() returns.
Extract(resp, a, length) ==
  IF length < Len(resp)
  THEN LET lane == a % Len(resp)
           k == Min({length, Len(resp) - lane})
       IN  SubSeq(resp, lane + 1, lane + k)
  ELSE resp

Split(beats) == Cap # 0 /\ beats > Cap

WriteBeats(length) == IF Pow2(length) /\ length <= Bus THEN 1 ELSE length

BusStart(a) == Word(a)

Init ==
  /\ \E x \in Access, k \in {"read", "write"}, h \in BOOLEAN :
       \E s \in (IF k = "read" THEN {1 .. x.length} ELSE SUBSET (1 .. x.length)) :
         acc = [kind |-> k, hw |-> h, addr |-> x.addr, length |-> x.length, strb |-> s]
  /\ at = BusStart(acc.addr)
  /\ out = [k \in 1 .. acc.length |-> -1]
  /\ mem = {} /\ lens = << >> /\ done = FALSE

Read ==
  LET ar == make_ar(acc.length, ~acc.hw) IN
  /\ ~done /\ acc.kind = "read" /\ ~Split(ar.beats)
  /\ out' = Extract(RespData(acc.addr, ar), acc.addr, acc.length)
  /\ lens' = Append(lens, ar.beats)
  /\ done' = TRUE
  /\ UNCHANGED <<acc, at, mem>>

\* read_split: one bus word, of which the overlap with the access is kept.
ReadPart ==
  /\ ~done /\ acc.kind = "read" /\ Split(make_ar(acc.length, ~acc.hw).beats)
  /\ out' = [k \in DOMAIN out |->
               IF acc.addr + k - 1 \in at .. at + Bus - 1 THEN RespData(at, [size |-> Bus, beats |-> 1])[acc.addr + k - at] ELSE out[k]]
  /\ lens' = Append(lens, 1)
  /\ at' = at + Bus
  /\ done' = (at' >= acc.addr + acc.length)
  /\ UNCHANGED <<acc, mem>>

\* The bytes that a beat of size bytes from payload byte src on strobes.
Strobed(a, src, size) ==
  LET lane == (a + src) % Bus
  IN  {Word(BeatAddr(a, size, src \div size)) + lane + b : b \in {c \in 0 .. size - 1 : src + c + 1 \in acc.strb}}

\* write and push_write_request: one beat, or a stream of bytes.
Write ==
  LET beats == WriteBeats(acc.length)
      size == IF beats = 1 THEN acc.length ELSE 1
  IN  /\ ~done /\ acc.kind = "write" /\ ~Split(beats)
      /\ mem' = UNION {Strobed(acc.addr, size * i, size) : i \in 0 .. beats - 1}
      /\ lens' = Append(lens, beats)
      /\ done' = TRUE
      /\ UNCHANGED <<acc, at, out>>

\* write_split: one bus word with the strobes of the overlap.
WritePart ==
  /\ ~done /\ acc.kind = "write" /\ Split(WriteBeats(acc.length))
  /\ mem' = mem \cup {a \in at .. at + Bus - 1 : a - acc.addr + 1 \in acc.strb}
  /\ lens' = Append(lens, 1)
  /\ at' = at + Bus
  /\ done' = (at' >= acc.addr + acc.length)
  /\ UNCHANGED <<acc, out>>

Next == Read \/ ReadPart \/ Write \/ WritePart

Spec == Init /\ [][Next]_vars

-----------------------------------------------------------------------------
\* The device read contract: the addressed bytes, least significant first,
\* whatever way the access was cut up.
AddressedBytes ==
  done /\ acc.kind = "read" => out = [k \in 1 .. acc.length |-> acc.addr + k - 1]

\* A write changes exactly the bytes it strobes, whatever the lanes and
\* beats they travel in.
StrobedBytes ==
  done /\ acc.kind = "write" => mem = {acc.addr + k - 1 : k \in acc.strb}

\* No transaction is longer than the fabric's cap.
WithinCap == Cap # 0 => \A i \in DOMAIN lens : lens[i] <= Cap
=============================================================================
