------------------------------ MODULE SysmodMem -----------------------------
(***************************************************************************)
(* How sysmod keeps Whisper's memory in step with the memory device where  *)
(* no instruction does: backdoor writes, reads of memory nobody wrote, and *)
(* cbo.inval, which throws away stores Whisper has performed               *)
(* (src/sysmod/sysmod.cpp, mem/sysmod_mem.cpp).                            *)
(*                                                                         *)
(* An address is a line with the STEE bit (FLAGS_pa_mask) beside it; a     *)
(* line is its bytes.  The core is the environment: it stores into its     *)
(* cache (Whisper performs the same store), writes lines back, invalidates *)
(* them, and reports with inval_load_s what loads between the cbo.inval    *)
(* and its response returned.  A core orders its stores to the line behind *)
(* that response, and fills a line before it stores to it.                 *)
(***************************************************************************)
EXTENDS Naturals, FiniteSets

CONSTANTS Lines, Bytes, Values, FLAGS_mcm

ASSUME McmAssumption == FLAGS_mcm \in BOOLEAN

VARIABLES mem, whisper,  \* what an address holds; NoLine: never written
          cache,         \* the dirty lines of the core; NoLine: none
          inval,         \* a cbo.inval: "no", "old" (not performed yet), "new"
          agree          \* every reported load returned what Whisper holds

memVars == <<mem, whisper, cache, inval, agree>>

Data == [Bytes -> Values]
NoLine == [b \in {} |-> 0]
PhysAddrs == Lines \X BOOLEAN

MemInit ==
  /\ mem = [a \in PhysAddrs |-> NoLine]
  /\ whisper = [a \in PhysAddrs |-> [b \in Bytes |-> 0]]
  /\ cache = [l \in Lines |-> NoLine]
  /\ inval = [l \in Lines |-> "no"] /\ agree = TRUE

\* Mutant: the STEE bit stays in the address that is poked.
unmasked(a) == a

\* addr & ~FLAGS_pa_mask
clear_pa_mask(a) == <<a[1], FALSE>>

LineAddr(l) == <<l, FALSE>>
Filled(l) == mem[LineAddr(l)] # NoLine

UninitPoked(l, d) == whisper' = [whisper EXCEPT ![LineAddr(l)] = d]

\* The callback of configure_uninit_read_callbacks, on the first read of a line
\* nobody wrote; the memory keeps what it returned.
uninitialized_read(l, d) ==
  /\ ~Filled(l)
  /\ mem' = [mem EXCEPT ![LineAddr(l)] = d]
  /\ UninitPoked(l, d)
  /\ UNCHANGED <<cache, inval, agree>>

\* The C function backdoor_write: eight bytes into Whisper, then into memory.
\* The test bench uses it on lines the core does not hold.
backdoor_write(l, d) ==
  /\ cache[l] = NoLine /\ inval[l] = "no"
  /\ whisper' = [whisper EXCEPT ![LineAddr(l)] = d]
  /\ mem' = [mem EXCEPT ![LineAddr(l)] = d]
  /\ UNCHANGED <<cache, inval, agree>>

Store(l, b, v) ==
  /\ Filled(l) /\ inval[l] = "no"
  /\ LET old == IF cache[l] = NoLine THEN mem[LineAddr(l)] ELSE cache[l]
     IN cache' = [cache EXCEPT ![l] = [old EXCEPT ![b] = v]]
  /\ whisper' = [whisper EXCEPT ![LineAddr(l)][b] = v]
  /\ UNCHANGED <<mem, inval, agree>>

\* A write of the transactor (sysmod_mem::write) or the snoop generator's flush
\* (eot_backdoor_write), with the bit cleared on the way.
WriteBack(a) ==
  /\ cache[a[1]] # NoLine /\ inval[a[1]] = "no"
  /\ mem' = [mem EXCEPT ![clear_pa_mask(a)] = cache[a[1]]]
  /\ cache' = [cache EXCEPT ![a[1]] = NoLine]
  /\ UNCHANGED <<whisper, inval, agree>>

-----------------------------------------------------------------------------
store_inval_crsp(a, mcm) ==
  IF mcm # FLAGS_mcm
  THEN UNCHANGED whisper
  ELSE whisper' =
         [whisper EXCEPT ![clear_pa_mask(a)] = mem[clear_pa_mask(a)]]

\* The cbo.inval retires, and the bridge sends cbo_inval_nomcm_s.  Without MCM
\* the line is gone by then.
CboInval(a) ==
  /\ Filled(a[1]) /\ inval[a[1]] = "no"
  /\ store_inval_crsp(a, FALSE)
  /\ IF FLAGS_mcm
     THEN inval' = [inval EXCEPT ![a[1]] = "old"] /\ UNCHANGED cache
     ELSE cache' = [cache EXCEPT ![a[1]] = NoLine] /\ UNCHANGED inval
  /\ UNCHANGED <<mem, agree>>

Drop(l) ==
  /\ inval[l] = "old"
  /\ inval' = [inval EXCEPT ![l] = "new"]
  /\ cache' = [cache EXCEPT ![l] = NoLine]
  /\ UNCHANGED <<mem, whisper, agree>>

\* inval_crsp_s: the invalidation is complete.
Crsp(a) ==
  /\ inval[a[1]] = "new"
  /\ store_inval_crsp(a, TRUE)
  /\ inval' = [inval EXCEPT ![a[1]] = "no"]
  /\ UNCHANGED <<mem, cache, agree>>

\* inval_load_s: bytes bs of the line were loaded as d.  An AMO's data is poked
\* as it is, a load's only where memory has the same: otherwise it read the
\* line that is yet to go.
store_inval_load(a, bs, d, amo) ==
  LET p == clear_pa_mask(a)
      v == IF amo THEN d ELSE mem[p]
  IN IF amo \/ \A b \in bs : d[b] = mem[p][b]
     THEN whisper' = [whisper EXCEPT
            ![p] = [b \in Bytes |-> IF b \in bs THEN v[b] ELSE @[b]]]
     ELSE UNCHANGED whisper

Load(a, bs, amo) ==
  /\ inval[a[1]] # "no"
  /\ LET old == inval[a[1]] = "old" /\ cache[a[1]] # NoLine
         d   == IF old THEN cache[a[1]] ELSE mem[LineAddr(a[1])]
     IN /\ store_inval_load(a, bs, d, amo)
        /\ agree' = (agree /\ \A b \in bs : whisper'[LineAddr(a[1])][b] = d[b])
  /\ UNCHANGED <<mem, cache, inval>>

MemNext ==
  \/ \E l \in Lines, d \in Data : uninitialized_read(l, d) \/ backdoor_write(l, d)
  \/ \E l \in Lines, b \in Bytes, v \in Values : Store(l, b, v)
  \/ \E a \in PhysAddrs : WriteBack(a) \/ CboInval(a) \/ Crsp(a)
  \/ \E l \in Lines : Drop(l)
  \/ \E a \in PhysAddrs, bs \in SUBSET Bytes \ {{}}, amo \in BOOLEAN : Load(a, bs, amo)

MemSpec == MemInit /\ [][MemNext]_memVars

-----------------------------------------------------------------------------
\* Whisper's memory holds what the core would load: its dirty line or else
\* memory's, whatever was invalidated, written by the back door or read before
\* it was written; and while a cbo.inval is under way, each load that is
\* reported returned the bytes Whisper then holds (store_inval_load,
\* store_inval_crsp, backdoor_write, configure_uninit_read_callbacks).
WhisperMemory ==
  /\ agree
  /\ \A l \in Lines : Filled(l) /\ inval[l] = "no" =>
       whisper[LineAddr(l)] =
         IF cache[l] = NoLine THEN mem[LineAddr(l)] ELSE cache[l]
=============================================================================
