----------------------------- MODULE Termination -----------------------------
(***************************************************************************)
(* How a test ends and is run again: the terminate, quiesce, shutdown and  *)
(* rerun registers of rv_tester.sv (TB clock), the component registry that *)
(* rv_tester.cpp builds and shuts down (its domain 0, and the domains that *)
(* persist across warm resets), the terminate flag of sysmod.sv (AXI       *)
(* clock) and the reset pulse between the two clocks (CdcPulse).           *)
(*                                                                         *)
(* A terminate flag holds the number of the run that raised it, 0 when it  *)
(* is low.  sysmod_terminate stands for the three flags that the pending   *)
(* resets mask: sysmod's, the one of cosim and the DMI poll timeout.  The  *)
(* delays of the code are scaled to the constants below.  The inputs       *)
(* warm_reset_en, warm_reset_req, rvt_reload and uvm_done are left at the  *)
(* values that every harness of the repository gives them, and the reset   *)
(* requests of the platform are those of dut_reset_req.                    *)
(***************************************************************************)
EXTENDS CdcPulse

CONSTANTS
  AxiClk,            \* the one clock of Clks that is modelled in full
  NumReruns,         \* +num_reruns
  CallFinish,        \* +terminate_call_finish
  Unconditional,     \* unconditional_terminate of the platform
  DutResets,         \* the platform may raise dut_reset_req
  DutEnds,           \* the platform may raise dut_terminate
  CvmDone,           \* CVM_DONE_DELAY_CYCLES + CVM_DONE_DRAINED_DELAY_CYCLES
  QuiesceTimeout,    \* +quiesce_timeout
  ShutdownTimeout,   \* SHUTDOWN_TIMEOUT_CYCLES
  AxiRatio,          \* bound: TB clock edges per AXI clock period
  MaxRuns,           \* bound: no dut_reset_req is raised in run MaxRuns
  MaxErrors          \* bound: errors logged in one run before its check

VARIABLES
  rv_tester_reset, sys_reset_tb, quiesce_counter, num_reruns, num_builds,
  terminate_1T, terminated, terminated_1T,
  error_terminate,   \* rv_tester_error_terminate
  ended,             \* "no", "finish" ($finish) or "fatal" ($fatal)
  check_called, all_domains_shutdown,
  up,                \* the registry domains that are built
  sysmod_terminate,
  dut_terminate,     \* the platform's inputs
  quiesced,
  dut_reset_req,     \* the run that asked for the DUT reset, 0 when low
  shifted_dut_reset_req, shifted_d1, warm_reset_now,
  tb_edges,          \* TB clock edges since the last AXI clock edge
  run,               \* history: the number of the run
  ends,              \* history: runs that ended, other than by a DUT reset
  checks,            \* history: calls of registry::check in this run
  errors,            \* history: errors logged in this run before its shutdown
  failed             \* history: the last shutdown attempt failed

tbRegs == <<rv_tester_reset, sys_reset_tb, quiesce_counter, num_reruns, num_builds,
            terminate_1T, terminated, terminated_1T, quiesced, dut_terminate>>
registry == <<check_called, all_domains_shutdown, up>>
resetReq == <<dut_reset_req, shifted_dut_reset_req, shifted_d1, warm_reset_now>>
history == <<run, ends, checks, errors, failed>>
vars == <<tbRegs, error_terminate, ended, registry, sysmod_terminate, resetReq, history, tb_edges, cdcVars>>

\* Domain 0, which every run rebuilds, and the domains that persist.
AllDomains == {0, 1}

TInit ==
  /\ CdcInit /\ tb_edges = 0
  /\ rv_tester_reset = TRUE /\ sys_reset_tb = FALSE
  /\ quiesce_counter = 0 /\ num_reruns = -1 /\ num_builds = -1
  /\ terminate_1T = FALSE /\ terminated = FALSE /\ terminated_1T = FALSE
  /\ error_terminate = 0 /\ sysmod_terminate = 0
  /\ ended = "no"
  /\ check_called = FALSE /\ all_domains_shutdown = FALSE /\ up = {}
  /\ quiesced = FALSE /\ dut_terminate = 0
  /\ dut_reset_req = 0 /\ shifted_dut_reset_req = FALSE
  /\ shifted_d1 = FALSE /\ warm_reset_now = FALSE
  /\ run = 0 /\ ends = 0 /\ checks = 0 /\ errors = 0 /\ failed = FALSE

-----------------------------------------------------------------------------
\* The combinational conditions of the terminate logic; warm is warm_reset.

\* Mutant: the resets still pending in another domain do not mask.
UnmaskedAny == FALSE

sys_reset_any == sys_reset_tb \/ \E c \in Clks : pulse_pending_or_asserted_a(c)

core_terminate_conditions ==
  dut_terminate # 0 \/ error_terminate # 0 \/ (sysmod_terminate # 0 /\ ~sys_reset_any)

terminate(warm) ==
  (core_terminate_conditions \/ quiesce_counter > 0) /\ ~rv_tester_reset /\ ~warm

cvm_done_drained == quiesce_counter > CvmDone

\* Mutant: quiesced alone decides, and a design that never quiesces hangs.
QuiescedOnly(warm) ==
  \/ Unconditional /\ sysmod_terminate # 0
  \/ cvm_done_drained /\ terminate_1T /\ quiesced /\ ~warm
  \/ dut_terminate # 0
  \/ warm_reset_now

terminate_now(warm) ==
  \/ Unconditional /\ sysmod_terminate # 0
  \/ /\ cvm_done_drained /\ terminate_1T
     /\ quiesced \/ (QuiesceTimeout # 0 /\ quiesce_counter >= QuiesceTimeout)
     /\ ~warm
  \/ dut_terminate # 0
  \/ warm_reset_now

rerun_now ==
  /\ terminated /\ ~terminated_1T
  /\ num_reruns # -1
  /\ num_reruns > 0 \/ shifted_dut_reset_req

final_terminate == num_reruns = 0 /\ ~shifted_dut_reset_req

-----------------------------------------------------------------------------
\* rv_tester.cpp: the registry.

\* The first build and the later ones (rv_tester_build_registry,
\* rv_tester_domain0_build_registry), each followed by configure.
BuildRegistry ==
  /\ up' = IF num_builds < 0 \/ all_domains_shutdown THEN AllDomains ELSE up \cup {0}
  /\ check_called' = FALSE /\ all_domains_shutdown' = FALSE

\* Mutant: check is repeated with every attempt to shut down.
CheckEachTime(all, ready) ==
  /\ check_called' = TRUE
  /\ checks' = checks + 1
  /\ all_domains_shutdown' = IF all THEN ready ELSE all_domains_shutdown
  /\ up' = IF ready THEN up \ (IF all THEN AllDomains ELSE {0}) ELSE up

\* rv_tester_shutdown_registry(all): the components are checked once, and
\* shut down when all of them are ready to.
ShutdownRegistry(all, ready) ==
  /\ check_called' = TRUE
  /\ checks' = IF check_called THEN checks ELSE checks + 1
  /\ all_domains_shutdown' = IF all THEN ready ELSE all_domains_shutdown
  /\ up' = IF ready THEN up \ (IF all THEN AllDomains ELSE {0}) ELSE up

-----------------------------------------------------------------------------
\* The TB clock.

\* check pushes the rv_tester_terminate callback, which is flushed at the
\* negative edge of the same cycle; a reset clears the flag first.
ErrorFlag(e) == error_terminate' = IF rv_tester_reset THEN 0 ELSE e

CountReruns ==
  num_reruns' = IF num_reruns < 0 THEN NumReruns
                ELSE num_reruns - (IF rerun_now THEN 1 ELSE 0)

StickyTerminated(stop, shutdowned) ==
  terminated' = (~rv_tester_reset /\ (terminated \/ (stop /\ shutdowned)))

\* The terminate_now branch: shut the registry down; when it is not ready, try
\* again at the next edge, until the timeout.
Stop(ready) ==
  LET all == Unconditional \/ final_terminate
      finish == ready /\ final_terminate /\ CallFinish
      timeout == ~ready /\ quiesce_counter > ShutdownTimeout IN
  /\ ShutdownRegistry(all, ready)
  /\ ErrorFlag(IF check_called THEN error_terminate ELSE run)
  /\ ends' = IF ready /\ ~shifted_dut_reset_req THEN ends + 1 ELSE ends
  /\ failed' = ~ready
  /\ ended' = IF finish THEN "finish" ELSE IF timeout THEN "fatal" ELSE "no"
  /\ run' = run

\* rv_tester_reset: a new run.
NewTest ==
  /\ BuildRegistry
  /\ ErrorFlag(error_terminate)
  /\ num_builds' = 0
  /\ run' = run + 1 /\ checks' = 0 /\ errors' = 0 /\ failed' = FALSE
  /\ UNCHANGED <<ends, ended>>

\* Every always block of the TB clock; ready says whether the components are
\* ready to shut down.  A design that has quiesced stays so until the reset;
\* terminated puts it into reset (reset_pullup), which ends dut_terminate; the
\* harness may hold warm_reset while the platform asks for a reset.
TbRegs(ready, warm) ==
  LET stop == terminate_now(warm) /\ ~terminated IN
  /\ warm => dut_reset_req # 0
  /\ quiesced' \in (IF rv_tester_reset \/ ~quiesced THEN BOOLEAN ELSE {TRUE})
  /\ dut_terminate' = IF terminated THEN 0 ELSE dut_terminate
  /\ rv_tester_reset' = rerun_now
  /\ sys_reset_tb' = rv_tester_reset
  /\ quiesce_counter' = IF rv_tester_reset THEN 0
                        ELSE quiesce_counter + (IF terminate(warm) /\ quiesce_counter <= ShutdownTimeout THEN 1 ELSE 0)
  /\ CountReruns
  /\ terminate_1T' = terminate(warm)
  /\ StickyTerminated(stop, ready)
  /\ terminated_1T' = terminated
  /\ \/ rv_tester_reset /\ NewTest
     \/ ~rv_tester_reset /\ stop /\ Stop(ready) /\ UNCHANGED <<num_builds, errors>>
     \/ ~rv_tester_reset /\ ~stop /\ failed' = FALSE
        /\ UNCHANGED <<error_terminate, ended, registry, num_builds, run, ends, checks, errors>>

\* The AXI clock: sysmod takes its reset, the DUT's reset request is delayed
\* and its rising edge makes one cycle of warm_reset_now.
AxiRegs ==
  /\ sysmod_terminate' = IF pulse_b(AxiClk) THEN 0 ELSE sysmod_terminate
  /\ shifted_dut_reset_req' = (dut_reset_req # 0)
  /\ shifted_d1' = shifted_dut_reset_req
  /\ warm_reset_now' = (shifted_dut_reset_req /\ ~shifted_d1)
  /\ UNCHANGED dut_reset_req

TbClock ==
  /\ ended = "no"
  /\ \E ready, warm \in BOOLEAN : TbRegs(ready, warm)
  /\ TbEdge({}, rv_tester_reset)
  /\ tb_edges < AxiRatio /\ tb_edges' = tb_edges + 1
  /\ UNCHANGED <<sysmod_terminate, resetReq>>

AxiClock ==
  /\ ended = "no"
  /\ AxiRegs
  /\ ClkEdge(AxiClk)
  /\ tb_edges' = 0
  /\ UNCHANGED <<tbRegs, error_terminate, ended, registry, history>>

BothClocks ==
  /\ ended = "no"
  /\ \E ready, warm \in BOOLEAN : TbRegs(ready, warm)
  /\ AxiRegs
  /\ TbEdge({AxiClk}, rv_tester_reset)
  /\ tb_edges' = 0

-----------------------------------------------------------------------------
\* What the test and the platform do.

\* The program runs: the registry is up, every domain is out of reset and no
\* reset request of the platform is left over from the last run.
Running ==
  /\ ended = "no" /\ 0 \in up /\ ~rv_tester_reset /\ ~sys_reset_any
  /\ dut_reset_req \in {0, run} /\ (shifted_dut_reset_req => dut_reset_req = run)

\* A component ends the test (an end-of-test condition).
SysmodTerminate ==
  /\ Running /\ ~terminated
  /\ sysmod_terminate = 0
  /\ sysmod_terminate' = run
  /\ UNCHANGED <<tbRegs, error_terminate, ended, registry, resetReq, history, tb_edges, cdcVars>>

\* The platform ends the test at once: its dut_terminate is not masked.
DutTerminate ==
  /\ Running /\ ~terminated /\ DutEnds
  /\ dut_terminate = 0 /\ dut_terminate' = run
  /\ UNCHANGED <<rv_tester_reset, sys_reset_tb, quiesce_counter, num_reruns, num_builds,
                 terminate_1T, terminated, terminated_1T, quiesced, error_terminate, ended,
                 registry, sysmod_terminate, resetReq, history, tb_edges, cdcVars>>

\* A component logs an error: rv_tester_cvm_error checks the components at once,
\* unless the shutdown has done so, and the check at the shutdown still follows.
CvmError ==
  /\ Running
  /\ ~check_called
  /\ errors < MaxErrors /\ errors' = errors + 1
  /\ checks' = checks + 1
  /\ error_terminate' = run
  /\ UNCHANGED <<tbRegs, ended, registry, sysmod_terminate, resetReq, run, ends, failed,
                 tb_edges, cdcVars>>

\* The platform asks for a warm reset.  It holds the request until a new run
\* has begun and the reset of that run has been taken in every domain.
DutResetReq ==
  /\ Running /\ DutResets /\ run < MaxRuns
  /\ dut_reset_req = 0
  /\ dut_reset_req' = run
  /\ UNCHANGED <<tbRegs, error_terminate, ended, registry, sysmod_terminate, history, tb_edges, cdcVars,
                 shifted_dut_reset_req, shifted_d1, warm_reset_now>>

DutResetDone ==
  /\ ended = "no" /\ dut_reset_req \notin {0, run}
  /\ ~rv_tester_reset /\ ~sys_reset_any
  /\ dut_reset_req' = 0
  /\ UNCHANGED <<tbRegs, error_terminate, ended, registry, sysmod_terminate, history, tb_edges, cdcVars,
                 shifted_dut_reset_req, shifted_d1, warm_reset_now>>

\* The simulation is over.
Over == ended # "no" /\ UNCHANGED vars

TNext == TbClock \/ AxiClock \/ BothClocks \/ SysmodTerminate \/ DutTerminate \/ CvmError
         \/ DutResetReq \/ DutResetDone \/ Over

TFairness == /\ WF_vars(TbClock \/ BothClocks)
             /\ WF_vars(AxiClock \/ BothClocks)

TSpec == TInit /\ [][TNext]_vars

FairSpec == TSpec /\ TFairness

-----------------------------------------------------------------------------
\* A run is ended only by a terminate request of that run: the sysmod flag of
\* the last run, cleared in the AXI domain some cycles after the new run has
\* begun, is masked by sys_reset_any until then, and the error flag that the
\* last run's own check raised is cleared by the reset.
NoStaleTerminate ==
  ~rv_tester_reset =>
    /\ error_terminate \in {0, run}
    /\ core_terminate_conditions =>
         run \in {dut_terminate, error_terminate, sysmod_terminate}

\* The shutdown of every run checks the components exactly once, however often
\* it had to be tried again, after one check for each error that the run logged.
CheckedOnce == terminated => checks = errors + 1

\* No more than num_reruns + 1 runs reach their end: "The test is run for a
\* total of N+1 times" (the help text of +num_reruns).
RunsBound == ends <= NumReruns + 1

\* Without resets by the platform the simulation finishes after exactly
\* num_reruns + 1 runs: final_terminate, taken at the shutdown, and rerun_now,
\* taken a clock later, agree.
RunsTotal == RunsBound /\ (ended = "finish" => ends = NumReruns + 1)

\* A requested end is reached: the run ends, by quiescing, by the quiesce
\* timeout or by the fatal shutdown timeout, and does not hang.
EndReached ==
  (run > 0 /\ run \in {dut_terminate, sysmod_terminate, error_terminate}) ~> (terminated \/ ended # "no")

\* A running test has every domain of the registry: a rerun after a shutdown
\* of all domains (the last run's, when a DUT reset comes in right after it)
\* rebuilds the persistent ones too.
AllUp == (run > 0 /\ ~terminated) => up = AllDomains
=============================================================================
