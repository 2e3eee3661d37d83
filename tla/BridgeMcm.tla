----------------------------- MODULE BridgeMcm -----------------------------
(***************************************************************************)
(* Periodic state check and memory-model events of one bridge              *)
(* (src/cosim/bridge/bridge.cpp).  With +cosim_period the core reports only *)
(* the retires that Whisper must see one by one; those in between are      *)
(* counted and Whisper catches up with process_steps, under tags that the  *)
(* bridge makes up.  Loads and stores reach Whisper's memory model (MCM)   *)
(* out of order and under their own tags, so a made-up tag must not be one *)
(* of theirs.                                                              *)
(*                                                                         *)
(* The core hands out tags in order, flushes some and retires the rest, up *)
(* to NRET in a clock.  x holds the bridge's members and what Whisper has  *)
(* seen; each handler is one operator on it.                               *)
(***************************************************************************)
EXTENDS Naturals, Sequences, SequencesExt, FiniteSetsExt

CONSTANTS NRET, MaxTag, Window,
          MaxClock    \* clocks in a behaviour

VARIABLES x,          \* bridge and Whisper
          done,       \* rvfi: no more records are processed (terminated_)
          last,       \* the core's last retired tag
          exp,        \* rvfi_exp_order
          steps,      \* rvfi_steps: retires that were not reported
          retired,    \* retires so far
          clock,
          loads, stores,   \* their tags
          faults      \* tags of loads that took an access fault

vars == <<x, done, last, exp, steps, retired, clock, loads, stores, faults>>

Tags == 1 .. MaxTag

Start ==
  [pw |-> [tag |-> 0, time |-> 0],                \* the bridge
   mcm_orders_ |-> {}, mcm_read_by_tag_ |-> {},
   end_mcm_ |-> FALSE, terminated_ |-> FALSE, metrics_reported_ |-> FALSE,
   prev_dut_trap |-> [order |-> 0, load |-> FALSE],
   mcm |-> TRUE,                                  \* Whisper: its model is on,
   reads |-> {},                                  \* has these reads,
   given |-> << >>, made_up |-> {},               \* tags of the last handler's steps
   times |-> << >>, n |-> 0,
   injected |-> << >>, skipped |-> {}]
-----------------------------------------------------------------------------
(* Whisper.                                                                *)

step(y, tag, time) ==
  [y EXCEPT !.given = Append(@, tag), !.times = Append(@, time), !.n = @ + 1]

McmEnd(y) == [y EXCEPT !.mcm = FALSE]
-----------------------------------------------------------------------------
(* Memory-model events.                                                    *)

process_dut_mcm_read(y, tag) ==
  IF y.end_mcm_ THEN y
  ELSE [y EXCEPT !.mcm_read_by_tag_ = @ \cup {tag}, !.mcm_orders_ = @ \cup {tag},
                 !.reads = @ \cup {tag}]

process_dut_mcm_insert(y, tag) ==
  IF y.end_mcm_ THEN y ELSE [y EXCEPT !.mcm_orders_ = @ \cup {tag}]

\* A bypass that writes 1 to tohost is the last event.
process_dut_mcm_bypass(y, tag, tohost) ==
  IF y.end_mcm_ THEN y
  ELSE [y EXCEPT !.mcm_orders_ = @ \cup {tag}, !.end_mcm_ = tohost]

\* What the memory model must not compare: the data of a load that faults, by
\* the address of its read event or else of its record.
skip_mcm_read_data_check_for_fault(y, tag, addressed) ==
  IF tag \in y.mcm_read_by_tag_ \/ addressed
  THEN [y EXCEPT !.skipped = @ \cup {tag}] ELSE y

process_dut_excp(y, tag, load) ==
  LET z == [y EXCEPT !.prev_dut_trap = [order |-> tag, load |-> load]]
  IN  IF load THEN skip_mcm_read_data_check_for_fault(z, tag, FALSE) ELSE z
-----------------------------------------------------------------------------
(* Records.  d: the tag, the clock, excp and the record's bus error.       *)

\* Injected into Whisper: an access fault that only the core's bus can know.
pre_step_exception_poke(y, d) ==
  LET pending_load_fault == y.prev_dut_trap = [order |-> d.tag, load |-> TRUE]
  IN  IF ~d.excp /\ ~d.error /\ ~pending_load_fault THEN y
      ELSE IF ~d.error /\ ~pending_load_fault THEN y
      ELSE LET z == skip_mcm_read_data_check_for_fault(y, d.tag, d.error)
           IN  [z EXCEPT !.injected = Append(@, d.tag)]

process_dut_instr_retire(y, d) ==
  LET z == pre_step_exception_poke([y EXCEPT !.mcm_orders_ = @ \ {d.tag}], d)
  IN  [step(z, d.tag, d.cycle) EXCEPT !.pw = [tag |-> d.tag, time |-> d.cycle]]

\* MUTANT of FreeTag: the tags of memory operations are not passed over.
AnyTag(y, tag) == tag + 1

\* The next tag that no memory operation holds.
FreeTag(y, tag) ==
  Min({t \in tag + 1 .. tag + 1 + Cardinality(y.mcm_orders_) : t \notin y.mcm_orders_})

\* One missing step: time moves on every NRET steps.
MissingStep(a, s) ==
  LET tag == FreeTag(a.y, a.tag)
      passed == tag - a.tag - 1
      time == IF s % NRET = 0 THEN a.time + 1 ELSE a.time
  IN  [a EXCEPT !.y = [step(@, tag, time) EXCEPT !.made_up = @ \cup {tag}],
                !.tag = tag, !.time = time,
                !.skips = IF passed > @ THEN 0 ELSE @ - passed]

\* The final steps of a message that comes without records: tags in a row.
FinalStep(a, s) ==
  LET time == IF s % NRET = 0 THEN a.time + 1 ELSE a.time
  IN  [a EXCEPT !.y = step(@, a.tag + 1, time), !.tag = @ + 1, !.time = time]

process_steps(y, cycle, n, skips, final) ==
  LET Count(m) == [i \in 1 .. m |-> i - 1]
      a == FoldLeft(MissingStep,
                    [y |-> y, tag |-> y.pw.tag, time |-> y.pw.time, skips |-> skips], Count(n))
      f == FoldLeft(FinalStep, [a EXCEPT !.tag = @ + a.skips, !.time = cycle], Count(final))
  IN  [f.y EXCEPT !.pw = [tag |-> f.tag, time |-> f.time]]
-----------------------------------------------------------------------------
(* The end of the test.                                                    *)

\* terminate_called_mem_checks
process(y) ==
  IF y.terminated_ THEN y ELSE McmEnd([y EXCEPT !.terminated_ = TRUE, !.end_mcm_ = TRUE])

\* The final step collects the metrics of the next instruction.
report_metrics(y) ==
  IF y.metrics_reported_ THEN y
  ELSE LET z == [y EXCEPT !.metrics_reported_ = TRUE]
           e == IF z.end_mcm_ THEN z ELSE McmEnd(z)
       IN  [step(e, e.pw.tag + 1, e.pw.time + 1) EXCEPT !.n = @ - 1]
-----------------------------------------------------------------------------
Fresh(y) == [y EXCEPT !.given = << >>, !.times = << >>, !.made_up = {}]

Init ==
  /\ x = Start /\ done = FALSE /\ last = 0 /\ exp = 0 /\ steps = 0 /\ retired = 0
  /\ clock = 0 /\ loads = {} /\ stores = {} /\ faults = {}

\* A load resolves before it retires, a store is inserted or bypasses before or
\* after; either may be flushed later.
McmEvent(tag, kind) ==
  /\ ~done /\ tag <= last + Window
  /\ IF kind = "read"
     THEN tag > last /\ tag \notin stores /\ loads' = loads \cup {tag} /\ UNCHANGED stores
     ELSE /\ tag <= last => tag \in stores
          /\ tag \notin loads /\ stores' = stores \cup {tag} /\ UNCHANGED loads
  /\ x' = CASE kind = "read" -> process_dut_mcm_read(Fresh(x), tag)
            [] kind = "insert" -> process_dut_mcm_insert(Fresh(x), tag)
            [] kind = "bypass" -> process_dut_mcm_bypass(Fresh(x), tag, FALSE)
            [] kind = "tohost" -> process_dut_mcm_bypass(Fresh(x), tag, TRUE)
  /\ UNCHANGED <<done, last, exp, steps, retired, clock, faults>>

\* A clock in which the tags of group retire and all before them that did not
\* are flushed.  fault is a load of the group that the bus refuses, or 0; how
\* says whether the trap message, the record or both tell; other is an
\* exception that Whisper raises by itself.
Retire(group, poke, fault, how, other) ==
  LET d(tag) == [tag |-> tag, cycle |-> clock + 1, excp |-> tag \in {fault, other},
                 error |-> tag = fault /\ how # "trap"]
      y == Fresh(x)
      send == poke \/ group \cap (loads \cup stores) # {} \/ fault # 0 \/ other # 0
      val0 == Min(group)
      skips == IF val0 > exp THEN val0 - exp - 1 ELSE 0
      stepped == IF steps # 0 THEN process_steps(y, clock + 1, steps, skips, 0) ELSE y
      Record(z, tag) ==
        process_dut_instr_retire(
          CASE tag = fault /\ how # "record" -> process_dut_excp(z, tag, TRUE)
            [] tag = other -> process_dut_excp(z, tag, FALSE)
            [] OTHER -> z, d(tag))
  IN  /\ ~done /\ clock < MaxClock
      /\ fault = 0 => how = "trap"
      /\ other # 0 => other # fault
      /\ clock' = clock + 1 /\ last' = Max(group) /\ exp' = Max(group) + 1
      /\ retired' = retired + Cardinality(group)
      /\ steps' = IF send THEN 0 ELSE steps + Cardinality(group)
      /\ x' = IF send THEN FoldLeft(Record, stepped, SetToSortSeq(group, LAMBDA p, q : p < q))
              ELSE y
      /\ faults' = IF fault = 0 THEN faults ELSE faults \cup {fault}
      /\ UNCHANGED <<done, loads, stores>>

\* A clock in which something other than a retire is to be reported (an
\* interrupt, a trap, debug mode): the steps alone are sent.  The order of the
\* first slot is an old one then, so that no tags are skipped.
StepsOnly ==
  /\ ~done /\ clock < MaxClock /\ steps # 0
  /\ x' = process_steps(Fresh(x), clock + 1, steps, 0, 0)
  /\ steps' = 0 /\ clock' = clock + 1
  /\ UNCHANGED <<done, last, exp, retired, loads, stores, faults>>

\* Reported in the clock of the end of the test, with nothing retiring.
Terminate ==
  /\ x' = process(Fresh(x)) /\ done' = TRUE
  /\ UNCHANGED <<last, exp, steps, retired, clock, loads, stores, faults>>

Drain ==
  /\ x' = report_metrics(Fresh(x)) /\ done' = TRUE
  /\ UNCHANGED <<last, exp, steps, retired, clock, loads, stores, faults>>

Next ==
  \/ \E tag \in Tags, kind \in {"read", "insert", "bypass", "tohost"} : McmEvent(tag, kind)
  \/ \E g \in UNION {kSubset(k, last + 1 .. MaxTag) : k \in 1 .. NRET}, poke \in BOOLEAN :
        \E fault \in {0} \cup (g \cap loads), other \in {0} \cup g :
           \E how \in {"trap", "record", "both"} : Retire(g, poke, fault, how, other)
  \/ StepsOnly
  \/ Terminate
  \/ Drain

Spec == Init /\ [][Next]_vars
-----------------------------------------------------------------------------
\* Whisper's steps go forward in tag and in time, one for each retire; a tag
\* that process_steps makes up is held by no memory operation and stays below
\* the tag of the record that follows, in the same clock or in a later one.
StepsInOrder ==
  /\ \A i \in 1 .. Len(x.given) - 1 :
       x.given[i] < x.given[i + 1] /\ x.times[i] <= x.times[i + 1]
  /\ x.made_up \cap x.mcm_orders_ = {}
  /\ x.n + steps = retired
  /\ ~done => x.pw.tag <= last

\* An access fault is injected once, into the load that the bus refused, and
\* the memory model does not compare the data that it read before.
FaultsInjected ==
  /\ ToSet(x.injected) = faults /\ Len(x.injected) = Cardinality(faults)
  /\ faults \cap x.reads \subseteq x.skipped

=============================================================================
