----------------------------- MODULE MCProgress -----------------------------
(***************************************************************************)
(* Progress of the transactors, the response delay, the reset pulse and    *)
(* the end of a test: what each of them must do in the end, under the      *)
(* fairness that its module states.  Every behaviour exercises one of them *)
(* (focus); the others stay as they were initialised.                      *)
(*                                                                         *)
(* The end of a test is that of a test that is run twice and then calls    *)
(* $finish (rerun), and of one whose platform resets the DUT while the     *)
(* simulation goes on after the end (warm).  The delays are scaled down,   *)
(* and keep their order: the drain delay is shorter than the quiesce       *)
(* timeout, and that is shorter than the shutdown timeout.                 *)
(***************************************************************************)
EXTENDS Integers

CONSTANTS Clks, AxiClk, Ids

VARIABLES
  focus,
  phase, clocks, q, wptr_nxt, wptr, rptr, incremented, ar_history, flushed,
  wptr_prev, flush_called, updates, c_rptr, c_wptr, c_time, engine, axi_r,
  r_q, callbacks, cb_beat, pending_reads, reads, beats, taken,
  axi_reqs, ar_ch, aw_ch, w_ch, a_window, w_window, a_q, w_q, eng_r_q, b_q,
  device_accesses, eng, act, r_sent, b_sent,
  ids, attr, transactions, m_wptr, m_rptr, m_callbacks, queue, qrptr, dut,
  read_data, answered, error, wronged, n, up,
  pc, parts, mine, channel, r_taken, report,
  global_timer, fifo, push_idx, pop_idx, valid_ram, valid_ram_wr,
  valid_ram_rd_data, data_ram, data_ram_rd_data, output_beat_idx,
  input_beat_counters, reqs, xbar, expected, out,
  pulse_pending_a, ack, sync, edges, owed, early, pulse_a,
  rv_tester_reset, sys_reset_tb, quiesce_counter, num_reruns, num_builds,
  terminate_1T, terminated, terminated_1T, error_terminate, ended,
  check_called, all_domains_shutdown, domains_up, sysmod_terminate, quiesced, dut_terminate,
  dut_reset_req, shifted_dut_reset_req, shifted_d1, warm_reset_now,
  tb_edges, run, ends, checks, errors, failed,
  dbg, reset_state, dmi_cbs, port, since, dm

readVars ==
  <<phase, clocks, q, wptr_nxt, wptr, rptr, incremented, ar_history, flushed,
    wptr_prev, flush_called, updates, c_rptr, c_wptr, c_time, engine, axi_r,
    r_q, callbacks, cb_beat, pending_reads, reads, beats, taken>>
axiVars ==
  <<axi_reqs, ar_ch, aw_ch, w_ch, a_window, w_window, a_q, w_q, eng_r_q, b_q,
    device_accesses, eng, act, r_sent, b_sent>>
mstVars ==
  <<ids, attr, transactions, m_wptr, m_rptr, m_callbacks, queue, qrptr, dut,
    read_data, answered, error, wronged, n, up>>
routerVars == <<pc, parts, mine, channel, r_taken, report>>
delayVars ==
  <<global_timer, fifo, push_idx, pop_idx, valid_ram, valid_ram_wr,
    valid_ram_rd_data, data_ram, data_ram_rd_data, output_beat_idx,
    input_beat_counters, reqs, xbar, expected, out>>
pulseVars == <<pulse_pending_a, ack, sync, edges, owed, early, pulse_a>>
endVars ==
  <<rv_tester_reset, sys_reset_tb, quiesce_counter, num_reruns, num_builds,
    terminate_1T, terminated, terminated_1T, error_terminate, ended,
    check_called, all_domains_shutdown, domains_up, sysmod_terminate, quiesced, dut_terminate,
    dut_reset_req, shifted_dut_reset_req, shifted_d1, warm_reset_now,
    tb_edges, run, ends, checks, errors, failed>>
dbgVars == <<dbg, reset_state, dmi_cbs, port, since, dm>>
vars == <<focus, readVars, axiVars, mstVars, routerVars, delayVars, pulseVars, endVars, dbgVars>>

\* Callbacks on the simulator's own thread; reads of devices among others.
Read == INSTANCE AxiSwRead WITH
  RQMax <- 2, BurstLens <- {2}, Devices <- BOOLEAN, NoCallbacks <- FALSE,
  CbAsync <- FALSE, MaxReads <- 2, MaxUpdates <- 1

\* No callbacks at all: only flushes, from another thread, push beats; reads of
\* memory alone, and with reads of devices among them.
Flush == INSTANCE AxiSwRead WITH
  RQMax <- 2, BurstLens <- {1, 2}, Devices <- {FALSE}, NoCallbacks <- TRUE,
  CbAsync <- TRUE, MaxReads <- 2, MaxUpdates <- 1

FlushIO == INSTANCE AxiSwRead WITH
  RQMax <- 2, BurstLens <- {1}, Devices <- BOOLEAN, NoCallbacks <- TRUE,
  CbAsync <- TRUE, MaxReads <- 2, MaxUpdates <- 1

Req(kind, id, len) ==
  [kind |-> kind, id |-> id, len |-> len, dev |-> FALSE, hang |-> FALSE,
   allow_write |-> TRUE]

Engine == INSTANCE Axi WITH
  Window <- 3, MaxReqs <- 3, reqs <- axi_reqs, r_q <- eng_r_q,
  Requests <- {Req("read", 1, 1), Req("write", 1, 2), Req("write", 2, 1)}

Master == INSTANCE AxiSwMst WITH
  QMax <- 1, PtrMax <- 2, Greedy <- FALSE, EarlyReqs <- FALSE, MaxBeats <- 2,
  MaxReqs <- 3, Attrs <- {[exp |-> FALSE, allow |-> FALSE]},
  wptr <- m_wptr, rptr <- m_rptr, callbacks <- m_callbacks

Router == INSTANCE MmrRouter WITH
  QMax <- 1, PtrMax <- 2, Greedy <- FALSE, EarlyReqs <- FALSE, MaxBeats <- 1,
  MaxReqs <- 2, MaxParts <- 2, Attrs <- {[exp |-> FALSE, allow |-> TRUE]},
  wptr <- m_wptr, rptr <- m_rptr, callbacks <- m_callbacks, taken <- r_taken

Delay == INSTANCE DelayResp WITH
  MaxInFlight <- 2, MaxBeatsPerBurst <- 2, Delay <- 3, Wrap <- 4, MaxReqs <- 2,
  Outstanding <- 2, Readies <- {TRUE}

Pulse == INSTANCE ResetPulse WITH FastB <- 1, MaxOwed <- 1

Rerun == INSTANCE Termination WITH
  Clks <- {AxiClk}, FastB <- 1, AxiRatio <- 2, CvmDone <- 5, QuiesceTimeout <- 7,
  ShutdownTimeout <- 8, MaxRuns <- 2, NumReruns <- 1, CallFinish <- TRUE,
  Unconditional <- FALSE, DutResets <- FALSE, DutEnds <- TRUE, MaxErrors <- 2,
  up <- domains_up

Warm == INSTANCE Termination WITH
  Clks <- {AxiClk}, FastB <- 1, AxiRatio <- 2, CvmDone <- 5, QuiesceTimeout <- 7,
  ShutdownTimeout <- 8, MaxRuns <- 2, NumReruns <- 0, CallFinish <- FALSE,
  Unconditional <- FALSE, DutResets <- TRUE, DutEnds <- FALSE, MaxErrors <- 1,
  up <- domains_up

File(rows, ndm, opens) == [rows |-> rows, ndm |-> ndm, opens |-> opens]

Debug == INSTANCE Debugger WITH
  FLAGS_random_dbg_entry <- TRUE, FLAGS_dbg_max_snippets <- 2,
  FLAGS_random_dbg_start_delay <- 1, FLAGS_dbg_delay_min <- 1,
  FLAGS_dbg_delay_max <- 1, TickClks <- 3, DutResets <- FALSE, MaxLoads <- 0,
  MaxExecs <- 0, MaxBuilds <- 1, d <- dbg,
  Files <- {File(<<"cmd", "cp", "cmd", "cmd", "cmd", "cmd">>, FALSE, TRUE),
            File(<<"cmd">>, TRUE, TRUE), File(<< >>, FALSE, FALSE)}

MCInit ==
  /\ focus \in {"read", "flush", "flush_io", "engine", "master", "router", "delay", "pulse",
                "rerun", "warm", "debug"}
  /\ Read!Init /\ Engine!Init /\ Router!RInit /\ Delay!Init
  /\ IF focus \in {"rerun", "warm"} THEN Rerun!TInit /\ pulse_a = 0 /\ early = 0 /\ owed = 0
     ELSE /\ Pulse!PulseInit
          /\ rv_tester_reset = 0 /\ sys_reset_tb = 0 /\ quiesce_counter = 0
          /\ num_reruns = 0 /\ num_builds = 0 /\ terminate_1T = 0 /\ terminated = 0
          /\ terminated_1T = 0 /\ error_terminate = 0 /\ ended = 0 /\ check_called = 0
          /\ all_domains_shutdown = 0 /\ domains_up = 0 /\ sysmod_terminate = 0
          /\ quiesced = 0 /\ dut_terminate = 0 /\ dut_reset_req = 0 /\ shifted_dut_reset_req = 0
          /\ shifted_d1 = 0 /\ warm_reset_now = 0 /\ tb_edges = 0 /\ run = 0
          /\ ends = 0 /\ checks = 0 /\ errors = 0 /\ failed = 0
  /\ IF focus = "debug" THEN Debug!Init
     ELSE /\ dbg = 0 /\ reset_state = 0 /\ dmi_cbs = 0 /\ port = 0 /\ since = 0
          /\ dm = 0

InRead(f, A) == focus = f /\ A /\ UNCHANGED <<focus, axiVars, mstVars, routerVars, delayVars, pulseVars, endVars, dbgVars>>
InEngine(A) == focus = "engine" /\ A /\ UNCHANGED <<focus, readVars, mstVars, routerVars, delayVars, pulseVars, endVars, dbgVars>>
InMaster(A) == focus = "master" /\ A /\ UNCHANGED <<focus, readVars, axiVars, routerVars, delayVars, pulseVars, endVars, dbgVars>>
InRouter(A) == focus = "router" /\ A /\ UNCHANGED <<focus, readVars, axiVars, delayVars, pulseVars, endVars, dbgVars>>
InDelay(A) == focus = "delay" /\ A /\ UNCHANGED <<focus, readVars, axiVars, mstVars, routerVars, pulseVars, endVars, dbgVars>>
InPulse(A) == focus = "pulse" /\ A /\ UNCHANGED <<focus, readVars, axiVars, mstVars, routerVars, delayVars, endVars, dbgVars>>
InEnd(f, A) == focus = f /\ A /\ UNCHANGED <<focus, readVars, axiVars, mstVars, routerVars, delayVars, pulse_a, early, owed, dbgVars>>
InDebug(A) == focus = "debug" /\ A /\ UNCHANGED <<focus, readVars, axiVars, mstVars, routerVars, delayVars, pulseVars, endVars>>

MCNext ==
  \/ InRead("read", Read!Next)
  \/ InRead("flush", Flush!Next)
  \/ InRead("flush_io", FlushIO!Next)
  \/ InEngine(Engine!Next)
  \/ InMaster(Master!Next)
  \/ InRouter(Router!RNext)
  \/ InDelay(Delay!Next)
  \/ InPulse(Pulse!PulseNext)
  \/ InEnd("rerun", Rerun!TNext)
  \/ InEnd("warm", Warm!TNext)
  \/ InDebug(Debug!Next)
-----------------------------------------------------------------------------
\* The fairness of the modules.  The master takes what is offered, clocks
\* run, messages and callbacks are processed and devices answer; a read that
\* waits too long is flushed at every clock.
ReadFairness ==
  /\ WF_vars(InRead("read", Read!Clock(TRUE)))
  /\ WF_vars(InRead("read", Read!Clock(FALSE)))
  /\ WF_vars(InRead("read", Read!EngineRead))
  /\ WF_vars(InRead("read", Read!Deliver))
  /\ WF_vars(InRead("read", Read!CallbackPop))
  /\ WF_vars(InRead("read", Read!CallbackPush))
  /\ WF_vars(InRead("flush", Flush!Clock(TRUE)))
  /\ WF_vars(InRead("flush", Flush!Clock(FALSE)))
  /\ WF_vars(InRead("flush", Flush!EngineRead))
  /\ WF_vars(InRead("flush", Flush!Deliver))
  /\ WF_vars(InRead("flush", Flush!Flush))
  /\ WF_vars(InRead("flush_io", FlushIO!Clock(TRUE)))
  /\ WF_vars(InRead("flush_io", FlushIO!Clock(FALSE)))
  /\ WF_vars(InRead("flush_io", FlushIO!EngineRead))
  /\ WF_vars(InRead("flush_io", FlushIO!Deliver))
  /\ WF_vars(InRead("flush_io", FlushIO!Flush))

\* Messages arrive, accesses are answered, idle windows are flushed.
EngineFairness ==
  /\ WF_vars(InEngine(Engine!ProcessAR)) /\ WF_vars(InEngine(Engine!ProcessAW))
  /\ WF_vars(InEngine(Engine!ProcessW)) /\ WF_vars(InEngine(Engine!ReorderFlush))
  /\ WF_vars(InEngine(Engine!Engine))

\* Callbacks and messages are processed at every clock; the device takes what
\* is offered on every channel and answers; woken coroutines run.
MasterFairness ==
  /\ WF_vars(InMaster(Master!Reset)) /\ WF_vars(InMaster(Master!Flush))
  /\ \A c \in {"ar", "aw", "w"} :
       /\ WF_vars(InMaster(Master!Accept(c))) /\ WF_vars(InMaster(Master!QPtr(c)))
       /\ WF_vars(InRouter(Router!Accept(c) /\ UNCHANGED routerVars))
       /\ WF_vars(InRouter(Router!QPtr(c) /\ UNCHANGED routerVars))
  /\ WF_vars(InMaster(Master!Answer))
  /\ WF_vars(InRouter((Router!Reset \/ Router!Flush) /\ UNCHANGED routerVars))
  /\ WF_vars(InRouter(Router!Respond))
  /\ \A k \in {"read", "write"} : WF_vars(InRouter(Router!Take(k)))

\* Clocks run, both of them at the end of a test too, and the crossbar answers.
\* Ticks keep coming.
ClockFairness ==
  /\ WF_vars(InEnd("rerun", Rerun!TbClock \/ Rerun!BothClocks))
  /\ WF_vars(InEnd("rerun", Rerun!AxiClock \/ Rerun!BothClocks))
  /\ WF_vars(InDelay(Delay!Next)) /\ WF_vars(InDelay(Delay!Answering))
  /\ WF_vars(InPulse(Pulse!Tb))
  /\ WF_vars(InDebug(Debug!Tick(FALSE))) /\ WF_vars(InDebug(Debug!Clock))
  /\ \A c \in Clks : WF_vars(InPulse(Pulse!Clk(c) \/ Pulse!TbWith(c)))

MCSpec ==
  /\ MCInit /\ [][MCNext]_vars
  /\ ReadFairness /\ EngineFairness /\ MasterFairness /\ ClockFairness
-----------------------------------------------------------------------------
\* Every read gets its last beat through the callbacks, without relying on
\* flushes; and with the callbacks off the flushes alone serve every read of
\* memory: each flush sends what r_q_ holds, and flushed is cleared by its
\* effect on wptr, so that the next one is made (r_resp, axi_sw.sv,
\* process(r_q_ptr_blocking_update_t)).  With reads of devices among them they
\* do so up to a flush that sent nothing and reported success for a device
\* access in flight: wptr does not move, and no other flush follows.
ReadsServed ==
  /\ []<>(focus \in {"read", "flush"} => ar_history = 0)
  /\ []<>(focus = "flush_io" =>
            ar_history = 0 \/ (flushed /\ ~flush_called /\ wptr_prev = wptr_nxt))

\* Every request to the burst engine is answered in full, also behind a
\* reorder window that nothing but the idle flush drains (pop_reorder_q), and
\* every delayed request when the crossbar answers and the core stays ready
\* (rv_tester_delay_resp).  Every request to the master transactor is answered
\* unless a response is reported as an error: freed entries restart its queue
\* (push_transactions); so is an access of the router whose transaction was
\* issued, although other clients' responses pass through its channels
\* (mmr_txn_router).  The debugger plays all its random snippets and follows
\* their commands with the triggers (checkDebugEvents).
RequestsAnswered ==
  /\ Engine!AllAnswered /\ Delay!Delivered /\ Master!AllAnswered /\ Router!Served
  /\ []<>(focus = "debug" => Debug!Played)

\* A reset pulse is acknowledged and the mask of the terminate requests is
\* lifted again ("Register to hold pulse_a until acknowledged",
\* rv_tester_cdc_pulse), unless the next reset is raised before the flops have
\* come to rest.
MaskLifted ==
  \A k \in Clks :
    []<>(focus = "pulse" => early[k] \/ ~Pulse!pulse_pending_or_asserted_a(k))

\* A run is ended only by a terminate request of that run: the flags of the
\* last run are masked or cleared until its reset was taken in every clock
\* domain (sys_reset_any, core_terminate_conditions).
NoStaleTerminate ==
  /\ focus = "rerun" => Rerun!NoStaleTerminate
  /\ focus = "warm" => Warm!NoStaleTerminate

\* The shutdown of every run checks the components exactly once, however often
\* it had to be tried again, after one check for each error that the run logged
\* (rv_tester_shutdown_registry, rv_tester_cvm_error), and $finish comes
\* after exactly num_reruns + 1 runs: final_terminate, taken at the shutdown,
\* and rerun_now, taken a clock later, agree.  A running test has every domain
\* of the registry: a rerun after a shutdown of all domains rebuilds the
\* persistent ones too (all_domains_shutdown).
RunsChecked ==
  /\ focus = "rerun" => Rerun!CheckedOnce /\ Rerun!RunsTotal
  /\ focus = "warm" => Warm!CheckedOnce /\ Warm!AllUp

\* A requested end is reached, by quiescing, by the quiesce timeout or by the
\* fatal shutdown timeout, and does not hang (terminate_now): a request stays
\* until it is, so that it is not outstanding for ever.
EndReached ==
  []<>(focus = "rerun" /\ run > 0 /\ run \in {dut_terminate, sysmod_terminate, error_terminate}
         => terminated \/ ended # "no")
=============================================================================
