-------------------------------- MODULE Pmu --------------------------------
(***************************************************************************)
(* The performance monitor (src/pmu/pmu.cpp, pmu.hpp): copies of the core's*)
(* event counters, the region between the perf_start and perf_end labels,  *)
(* the check of the hardware counters against them, and the states that    *)
(* hold the shutdown back, once the end of the test has been signalled,    *)
(* until its counters have arrived.  Messages carry the counters as they   *)
(* are when they are sent.                                                 *)
(*                                                                         *)
(* One core and one event CSR; the shared-cache copies behave alike.  The  *)
(* logs are left out, and so are the two ratio checks of the destructor,   *)
(* which look at the same arrays as the report.  A test passes the two     *)
(* labels once, programs an event CSR once and clears its counter with it: *)
(* a second perf_start replaces a finished region, and a second event adds *)
(* its counter to the first's.                                             *)
(***************************************************************************)
EXTENDS Integers, Sequences, SequencesExt

CONSTANTS Events,       \* counters; "cycles" is one of them
          Threshold,    \* the difference that pmc_checker tolerates
          MaxCount,     \* bound: what a counter reaches
          MaxPrograms,  \* bound: writes of the event CSR
          MaxStarts     \* bound: times the perf_start label is passed

VARIABLES
  p,         \* the pmu's members
  dut,       \* the core's event counters
  csr,       \* the core's event CSR: its event, its hpmcounter
  terminate, \* the core's terminate input
  programs, starts,
  open,      \* the counters when the region started, <<>>: none is open
  closed,    \* the region as it should be, <<>>: none
  last,      \* the counters at the end of the test, <<>>: it goes on
  alarm      \* a mismatch was reported

vars == <<p, dut, csr, terminate, programs, starts, open, closed, last, alarm>>

Zero == [e \in Events |-> 0]

Init ==
  /\ p = [core_sm_ |-> "SYNCING", counters_core |-> Zero, perf_region |-> Zero,
          perf_start_cycle |-> 0, perf_end_cycle |-> 0,
          programmed |-> FALSE, event_type |-> <<>>, sideband_count_eventwr |-> 0]
  /\ dut = [Zero EXCEPT !["cycles"] = 1]
  /\ csr = [events |-> {}, hpmcounter |-> 0]
  /\ terminate = FALSE
  /\ programs = 0 /\ starts = 0 /\ open = <<>> /\ closed = <<>>
  /\ last = <<>> /\ alarm = FALSE

----------------------------------------------------------------------------
(* The core.                                                               *)

Count(e) ==
  /\ dut[e] < MaxCount
  /\ dut' = [dut EXCEPT ![e] = @ + 1]
  /\ csr' = IF e \in csr.events THEN [csr EXCEPT !.hpmcounter = @ + 1] ELSE csr
  /\ UNCHANGED <<p, terminate, programs, starts, open, closed, last, alarm>>

----------------------------------------------------------------------------
(* The messages.                                                           *)

Diff(a, b) == [e \in Events |-> a[e] - b[e]]

\* perf_region_start, perf_region_end
Started(q) == [q EXCEPT !.perf_region = q.counters_core,
                        !.perf_start_cycle = q.counters_core["cycles"]]
Ended(q) == [q EXCEPT !.perf_region = Diff(q.counters_core, q.perf_region),
                      !.perf_end_cycle = q.counters_core["cycles"]]

\* Mutant: counters that arrive late are still taken.
SyncedLate(on, start, end) ==
  LET s == [p EXCEPT !.core_sm_ = IF on /\ @ = "SYNC_UNTIL_TERMINATE"
                                  THEN "READY_TO_TERMINATE" ELSE @]
      a == IF start THEN Started(s) ELSE s
      b == IF end THEN Ended(a) ELSE a
  IN [b EXCEPT !.counters_core = dut]

\* process_core(pmcounters_core)
Synced(on, start, end) ==
  IF p.core_sm_ = "READY_TO_TERMINATE" THEN p
  ELSE LET s == [p EXCEPT
                   !.core_sm_ = IF on /\ @ = "SYNC_UNTIL_TERMINATE"
                                THEN "READY_TO_TERMINATE" ELSE @,
                   !.counters_core = dut]
           a == IF start THEN Started(s) ELSE s
       IN IF end THEN Ended(a) ELSE a

\* Without the signal of the end of the test the shutdown is not held back.
shutdown_ready(q) == q.core_sm_ \in {"SYNCING", "READY_TO_TERMINATE"}

\* Where terminate_called_fast leads.
fast_state == "SYNC_UNTIL_TERMINATE"

terminate_called_fast ==
  /\ p.core_sm_ = "SYNCING"
  /\ p' = [p EXCEPT !.core_sm_ = fast_state]
  /\ UNCHANGED <<dut, csr, terminate, programs, starts, open, closed, last, alarm>>

\* A message: a periodic one, one for a label, or the one of every cycle while
\* terminate is on.
pmcounters_core(start, end) ==
  /\ start => starts < MaxStarts
  /\ end => open # <<>>
  /\ p' = Synced(terminate, start, end)
  /\ starts' = IF start THEN starts + 1 ELSE starts
  /\ open' = IF start THEN dut ELSE IF end THEN <<>> ELSE open
  /\ closed' = IF end /\ last = <<>> THEN Diff(dut, open) ELSE closed
  /\ last' = IF last = <<>> /\ terminate /\ p.core_sm_ # "SYNCING" THEN dut ELSE last
  /\ UNCHANGED <<dut, csr, terminate, programs, alarm>>

\* sum_event_vector, get_filter_events_and_sum
Sum(es, c) == FoldLeft(LAMBDA n, e : n + c[e], 0, es)

\* The event CSR is written, with one event or with a filter that lets several
\* through: the counters are synchronised, then the checker notes the events
\* and their count.
mhpm_write(es) ==
  /\ programs < MaxPrograms /\ ~terminate
  /\ programs' = programs + 1
  /\ csr' = [events |-> es, hpmcounter |-> 0]
  /\ LET q == Synced(FALSE, FALSE, FALSE)
         filtering == SetToSeq(es)
     IN p' = [q EXCEPT !.programmed = TRUE, !.event_type = @ \o filtering,
                       !.sideband_count_eventwr = Sum(filtering, q.counters_core)]
  /\ UNCHANGED <<dut, terminate, starts, open, closed, last, alarm>>

expected_count_(q) == Sum(q.event_type, q.counters_core) - q.sideband_count_eventwr

\* The cycle in which the core's terminate input rises: the counters, the
\* hpmcounters, and the check of one against the other.
pmc_checker ==
  /\ ~terminate
  /\ terminate' = TRUE
  /\ p' = Synced(TRUE, FALSE, FALSE)
  /\ last' = IF p.core_sm_ # "SYNCING" THEN dut ELSE last
  /\ LET d == expected_count_(p') - csr.hpmcounter
     IN alarm' = (p.programmed /\ (d > Threshold \/ -d > Threshold))
  /\ UNCHANGED <<dut, csr, programs, starts, open, closed>>

Next == \/ \E e \in Events : Count(e)
        \/ \E es \in SUBSET Events \ {{}} : mhpm_write(es)
        \/ \E s, e \in BOOLEAN : ~(s /\ e) /\ pmcounters_core(s, e)
        \/ terminate_called_fast
        \/ pmc_checker

Spec == Init /\ [][Next]_vars

----------------------------------------------------------------------------
\* Once the end of the test has been signalled, the counters that are reported
\* are those of the first message after it, and the shutdown waits for that
\* message and no longer; a shutdown without the signal waits for nothing.  The
\* region is reported when both labels were passed before the end, and is what
\* was counted between them; a core whose hpmcounter counts right is not accused
\* (process_core, process, shutdown_ready, perf_region_end, pmc_checker).
MetricsRight ==
  /\ shutdown_ready(p) <=> p.core_sm_ = "SYNCING" \/ last # <<>>
  /\ last # <<>> => p.counters_core = last
  /\ (p.perf_start_cycle > 0 /\ p.perf_end_cycle > 0) <=> closed # <<>>
  /\ closed # <<>> => p.perf_region = closed
  /\ ~alarm
=============================================================================
