---------------------------- MODULE MCInterfaces ----------------------------
(***************************************************************************)
(* What lies between the core and the testbench, for model checking: the   *)
(* SystemVerilog building blocks (the FIFO, the reset pulse between clocks,*)
(* the response delay on a B and on an R channel), the interfaces that     *)
(* turn the core's messages into calls of the bridge (rvfi, mcmi), and the *)
(* client of Whisper that all of them share.  They share no state here, so *)
(* that every behaviour exercises one of them (focus).                     *)
(***************************************************************************)
EXTENDS RvFifo, ResetPulse, Mcmi, Rvfi, WhisperClient

VARIABLES
  focus,
  global_timer, fifo, push_idx, pop_idx, valid_ram, valid_ram_wr,
  valid_ram_rd_data, data_ram, data_ram_rd_data, output_beat_idx,
  input_beat_counters, reqs, xbar, expected, out

delayVars == <<global_timer, fifo, push_idx, pop_idx, valid_ram, valid_ram_wr,
               valid_ram_rd_data, data_ram, data_ram_rd_data, output_beat_idx,
               input_beat_counters, reqs, xbar, expected, out>>

\* The B channel: single responses, a short delay, and a core that does not
\* wait for the answers.
DelayB == INSTANCE DelayResp WITH
  MaxInFlight <- 4, MaxBeatsPerBurst <- 1, Delay <- 1, Wrap <- 4,
  MaxReqs <- 5, Outstanding <- 4, Readies <- BOOLEAN

\* The R channel: bursts of two beats, and a delay longer than the pipeline.
DelayR == INSTANCE DelayResp WITH
  MaxInFlight <- 2, MaxBeatsPerBurst <- 2, Delay <- 6, Wrap <- 8,
  MaxReqs <- 3, Outstanding <- 2, Readies <- BOOLEAN

\* Hart lists that are short, good, or name a hart twice.
ThreeLists == {<<0>>, <<2, 0>>, <<1, 1>>}

\* The parts of mcmi share no state: the messages of atomics in any order,
\* patch sessions in the retired stream, and fetches around the changes of the
\* branch tag are exercised one at a time.
AtomicSteps == UNCHANGED <<patchState, fetchState, retireState>> /\ McmiNext
PatchSteps == UNCHANGED <<terminated_, atomicState, fetchState, dutState>> /\ McmiNext
FetchSteps == UNCHANGED <<patchState, atomicState, dutState>> /\ McmiNext /\ order' <= 3

\* A component that is not exercised rests in its initial state, or is not
\* built and its variables are 0.
MCInit ==
  /\ focus \in {"fifo", "pulse", "delay_b", "delay_r", "atomic", "patch", "fetch",
                "rvfi", "client"}
  /\ Init
  /\ focus # "fifo" => ram_rd_data = Zero /\ \A i \in DOMAIN ram : ram[i] = Zero
  /\ PulseInit
  /\ McmiInit
  /\ focus # "atomic" => \A t \in Atomics : op[t] = "amo"
  /\ IF focus = "delay_b" THEN DelayB!Init
     ELSE IF focus = "delay_r" THEN DelayR!Init
     ELSE /\ global_timer = 0 /\ fifo = 0 /\ push_idx = 0 /\ pop_idx = 0
          /\ valid_ram = 0 /\ valid_ram_wr = 0 /\ valid_ram_rd_data = 0
          /\ data_ram = 0 /\ data_ram_rd_data = 0 /\ output_beat_idx = 0
          /\ input_beat_counters = 0 /\ reqs = 0 /\ xbar = 0 /\ expected = 0 /\ out = 0
  /\ RvfiInit /\ ClientInit

MCNext ==
  /\ UNCHANGED focus
  /\ \/ focus = "fifo" /\ Next
        /\ UNCHANGED <<pulseVars, delayVars, mcmiVars, rvfiVars, clientVars>>
     \/ focus = "pulse" /\ PulseNext
        /\ UNCHANGED <<vars, delayVars, mcmiVars, rvfiVars, clientVars>>
     \/ /\ \/ focus = "delay_b" /\ DelayB!Next
           \/ focus = "delay_r" /\ DelayR!Next
        /\ UNCHANGED <<vars, pulseVars, mcmiVars, rvfiVars, clientVars>>
     \/ /\ \/ focus = "atomic" /\ AtomicSteps
           \/ focus = "patch" /\ PatchSteps
           \/ focus = "fetch" /\ FetchSteps
        /\ UNCHANGED <<vars, pulseVars, delayVars, rvfiVars, clientVars>>
     \/ focus = "rvfi" /\ RvfiNext
        /\ UNCHANGED <<vars, pulseVars, delayVars, mcmiVars, clientVars>>
     \/ focus = "client" /\ ClientNext
        /\ UNCHANGED <<vars, pulseVars, delayVars, mcmiVars, rvfiVars>>

MCSpec == MCInit /\ [][MCNext]_<<focus, vars, pulseVars, delayVars, mcmiVars,
                                 rvfiVars, clientVars>>
-----------------------------------------------------------------------------
\* Each response that leaves the delay carries the id and the data of the
\* beat that the core expects next, however the crossbar reorders and
\* interleaves its answers, and leaves no earlier than delay_cycles after its
\* request, whatever the phase of the wrapping timer (slv_resp_o,
\* send_resp_internal).
DelayedInOrder ==
  /\ focus = "delay_b" => DelayB!OwnBeat /\ DelayB!NotEarly
  /\ focus = "delay_r" => DelayR!OwnBeat /\ DelayR!NotEarly
=============================================================================
