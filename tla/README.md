# Verification of rv_tester

rv_tester is a co-simulation environment for RISC-V designs: SystemVerilog that
sits around a DUT, and C++ that models the rest of the system, drives it through
DPI and compares every retired instruction with the Whisper instruction-set
simulator. This directory holds TLA+ models of its parts, the TLC runs that
check them and the TLAPS proofs of what matters most.

Paths below are relative to the repository (`src/transactors/...`). The source
lines that each definition models are in the `map` of `PROJECT.json`.

## 1. The system and its hard behaviours

| Part | State | Operations | What is hard |
| --- | --- | --- | --- |
| Library FIFO, RAM, pulse synchroniser (`rv_tester_lib.sv`) | pointers, RAM, bypass registers; a handshake across two clocks | push, pop, reset; request, synchronise, acknowledge | an entry that becomes head in the clock that pushes it; two unrelated clocks |
| AXI software transactor (`transactors/axi_sw/axi_sw.{sv,h,cpp}`) | response FIFOs in SystemVerilog, a mirror of their pointers in C++, reorder windows, request history | requests, responses, callbacks, pointer messages, blocking flush, reorder flush, reset | two sides with stale views of each other; messages overtaken by a flush; callbacks on another thread |
| AXI engine (`transactors/axi_sw/axi.{h,cpp}`) | request, data and response queues, the active burst | accept AW/AR/W, run bursts, wait for devices, atomics | coroutines that suspend in the middle of a burst while others enqueue |
| AXI master transactor (`axi_sw_mst.h`, `axi_sw.sv`) and its client `mmr_txn_router` | id allocator, transaction queue, channel FIFOs, response channels | issue reads and writes, accept responses, split accesses | a response for a reused id; credits of three FIFOs; several clients |
| Exclusive access monitor (`eam.{hpp,cpp}`) | reservations, programmed failures | exclusive read and write, overlapping writes, time to live | a store between load and store-exclusive |
| Delayed response (`rv_tester_delay_resp.sv`) | FIFO of pending requests, valid RAM, timer | request, response, release | slot reuse, one-cycle RAM latency, a timer that wraps |
| Top level (`rv_tester.{sv,cpp}`, `sysmod.sv`) | reset and termination registers, registry life cycle | build, run, quiesce, shut down, rerun, warm reset | terminate sources of other clocks racing a rerun |
| Co-simulation bridge (`cosim/bridge`), RVFI, MCM interface, Whisper client | per-hart queues of instructions and interrupts, MCM events | retire, defer an interrupt, step the simulator, compare | messages of one instruction in every order; an interrupt seen by the DUT before or after the model |
| End of test (`cosim/utils/eot`, `sysmod/htif`) | harts that finished, pass and fail sets | tohost writes, instruction limit, terminate | harts that finish twice or in different ways |
| Interrupt sequences (`interrupts/`) | counters, timers | MSI, NMI, timer and external interrupts | back pressure, counts at their limit |
| System devices (`sysmod/`) | CLINT, ACLINT, debug module, HTIF, trickbox and its helpers (DMA, IO coherence, ...) | register reads and writes, bus transactions | state shared between coroutines across an await |
| Performance monitor unit (`pmu/`) | counters | sample, compare | late messages after the end of the test |

A memory access of the DUT goes over AXI to `axi_sw.sv`, as a message to the C++
`axi_sw`, through its reorder window to the burst engine `axi`, which consults
the exclusive access monitor and the devices of `sysmod`; beats come back over
the response FIFO. Devices that are bus masters themselves, and rerouted
accesses (`mmr_txn_router`), go out through `axi_sw_mst`. Retired instructions
and memory events go to RVFI and mcmi, on to the bridge, and to Whisper. When a
part decides that the test is over, the top level quiesces, shuts the component
registry down, checks, and ends or reruns the test.

## 2. How the models were chosen

The bus came first: every memory access passes through it, and it is where
SystemVerilog, messages, callbacks and coroutines meet. Then the path of a
retired instruction (RVFI, mcmi, bridge, Whisper client), because a mistake there
either accuses a correct core or lets a wrong one pass. Then the devices and the
stimulus, in the order of how much state they share across a suspension. Storage
without control, text output and start-up are left out (section 6).

## 3. Modules

| Module | Code | A step is |
| --- | --- | --- |
| `RvFifo` | `rv_tester_fifo`, `rv_tester_ram` | a rising clock edge |
| `BoundedQueue` | what users of the FIFO rely on | a rising clock edge |
| `CdcPulse`, `ResetPulse` | `rv_tester_cdc_pulse`, once per clock of the top level | an edge of one clock, or of several at once |
| `DelayResp` | `rv_tester_delay_resp.sv`, one channel | a clock cycle |
| `AxiSwRead` | R path of `axi_sw.sv` and `axi_sw.h` | a clock, a message, a callback, a flush, a restart |
| `Axi` | `axi::operator()`, `axi_sw::pop_reorder_q` | a handler up to its next suspension |
| `AxiBurst` | address arithmetic of the beats, `eam::span` | a beat |
| `BusErrorList` | `bus_error_list.h` and its use in `axi.cpp` | a configuration, a switch, an access |
| `Eam` | `eam.cpp`, `eam_helper.cpp` | a transaction, a register write, a clock |
| `AxiSwMst` | `axi_sw_mst.h`, FIFOs in `axi_sw.sv` | a request, a callback, a message, a beat |
| `MmrRouter` | coroutines of `mmr_txn_router.cpp`, extends `AxiSwMst` | ditto, and a coroutine up to its next await |
| `MmrBytes` | how `mmr_txn_router.cpp` cuts an access into beats | a transaction |
| `Termination` | terminate, quiesce and rerun logic of `rv_tester.{sv,cpp}`, `sysmod.sv`; extends `CdcPulse` | an edge of the TB or the AXI clock, or both |
| `Rvfi` | `rvfi.cpp` of one hart | a record or message of the core |
| `Mcmi` | `mcmi.cpp` of one hart | a message handler |
| `BridgeTraps` | `bridge.cpp`: interrupts, NMIs, patch sessions, debug mode | a pin that moves, a commit of the core, a report, a retire |
| `BridgeMcm` | `bridge.cpp`: memory operations, `process_steps`, exceptions, end of the check | a memory event, a clock with retires or with steps only, the end of the test |
| `BridgeCompare` | `bridge.cpp`: comparison, resynchronisation, group and periodic checks | a retired instruction, a group, a period |
| `BridgeCsr` | `bridge.{cpp,h}`: CSR copies, aliases, misa.H, satp | a CSR write or a fence |
| `WhisperClient` | `whisper_client.cpp` | a call, the connection |
| `EndOfTest` | `eot.cpp`, `htif.cpp`, the instruction count of `cosim.sv` | a clock with retires, a message, a store to tohost, a line of the memory comparison |
| `IntrSequences` | `interrupts/*.cpp`, `interrupter.cpp` | a tick, a trigger, a register write, a callback |
| `Sysmod` | `sysmod.cpp` and `device.h`: the device list, accesses, ticks | an added device, an access, an answer, a tick |
| `SysmodMem` | `sysmod.cpp` and `sysmod_mem.cpp`: memory and its copy in Whisper | a store, a write-back, an invalidation, a load, a back-door write |
| `Clint`, `Aclint` | `clint.{h,cpp}`; `aclint.{h,cpp,sv}` | a register write, a tick or reference edge, a save and restore |
| `Dma`, `IoCoh` | `dma.cpp`; `io_coh_helper.cpp` | a register write, a response |
| `Pmu` | `pmu.{hpp,cpp}`, one core | an event, a message |
| `Debugger` | `debugger.{h,cpp}` of the trickbox, the DMI port of `sysmod.sv` | a tick, a register write, a clock, a rerun |

Notes on faithfulness:

- *Messages.* `AxiSwRead` keeps pointer messages that are on their way in a set,
  each with its time stamp; a blocking flush overtakes them, as in the code. A
  callback is two steps, the pop of `r_q_` and the push through DPI, because
  with `cb_async` the flush runs between them.
- *Coroutines.* A handler runs until it really suspends: the burst engine where
  it awaits the access of a beat, `Dma` and `IoCoh` where they await a response,
  a sequence where it awaits a tick. Other handlers run then, and nowhere else.
- *Handlers of the bridge* never suspend. Each is one operator from the old
  members of the bridge to the new ones, in the order of the calls in
  `process_dut_instr_retire`; the four bridge modules model what the same
  handlers do to four disjoint parts of their state.
- *After the drain.* mcmi drops every message that comes after `m_drain`
  (`connect` in `mcmi.h`), and so does `Mcmi`: an atomic of which only one message
  came before stays as it is.
- *Inputs of the top level.* `Termination` leaves `warm_reset_en`,
  `warm_reset_req`, `rvt_reload` and `uvm_done` at the values that the harnesses
  of the repository give them. The platform raises `dut_terminate` only while a
  test runs. The drain delays, 500 and 500 cycles in the code, are one constant
  that outlasts the handshake of the reset.
- *Clocks.* Clocks are unrelated. `FastB` bounds how many edges of another clock
  fall into one TB clock period: with 1 no clock is faster than the TB clock, with
  2 one may be a little faster. The `interfaces` run has 2, `progress` has 1. A
  reset may be raised while the last one is still on its way, since some requests
  that end a run are not masked (`early` in `ResetPulse`).
- *Data* is a number that identifies its origin (a request and a beat, a call, an
  instruction), so that a swap, a loss or a duplicate shows. `AxiBurst`,
  `MmrBytes`, `SysmodMem`, `Dma` and `IoCoh` are about byte addresses, `BridgeCsr`
  about fields, and keep them.
- *History variables* (marked as such where they are declared) record what the
  properties compare with; guards read them only to bound a behaviour or to
  describe the environment.
- *External code.* The cvm message queue, the TLM channels, the crossbar behind
  the response delay, the DUT on the other side of `axi_sw_mst`, the register
  checker CAC and Whisper are modelled by what the code uses of them: any order
  and any delay that their protocol allows.

What is assumed of the core under test, which is not part of the repository:

- `BridgeTraps`: the core commits to the most urgent enabled interrupt in its
  `mip`, and takes it at once after an xRET, a patch exit and a debug exit, an
  NMI first; a pin that has not moved since the last retire has reached its
  `mip`; a patch entered by a trap is not halted; one NMI cause; the `+debugrom`
  flow. Pins may move at any other time, also between commit and report.
- `BridgeCompare`: the core may be wrong in any register it writes, at most
  `MaxWrong` times.
- `BridgeCsr`: the core hides its hypervisor fields while misa.H is 0 and shows
  them again afterwards; Whisper clears them.
- `Rvfi`, `Mcmi`: orders grow, and the messages of one uop or one atomic come in
  every order that the core's interface allows.

## 4. Runs

A run checks several components that share no state. Its MC module declares
their variables, takes each component by `INSTANCE`, and a variable `focus`,
chosen once, says which component moves; the variables of the others are idle. A
component with two interesting configurations is instantiated twice over the
same variables. Components about which there are theorems are taken by `EXTENDS`
wherever one configuration is enough, so that the run checks the very definition
that the theorem states. The definitions of the components themselves are never
replaced.

| Run | Components | What it shows |
| --- | --- | --- |
| `interfaces` | `RvFifo`, `ResetPulse`, `DelayResp` as B and as R channel, `Mcmi` for atomics, for patch sessions and for fetches, `Rvfi`, `WhisperClient` | `HeadVisible`, `ImplementsQueue`: the FIFO is a bounded queue although its RAM has latency. `ResetTaken`: no domain sees more resets than were sent; one that is raised with the flops at rest is taken at most once, and terminate requests are masked until it is. `DelayedInOrder`: responses leave in order, with the right id, not early. `AtomicWrites`, `RemapRight`, `SnapshotRight`: each atomic gives Whisper its writes once, if its messages came before the drain, tags of patch sessions are right, the instruction snapshot is neither stale nor emptied too early. `OneTagOwnWrites`: an instruction is stepped under the tag of its memory operations with the writes of its own uops. `CallsApart`: nothing of an earlier call reaches Whisper |
| `bridge` | `BridgeTraps` with patches and with NMIs and debug mode, `BridgeMcm`, `BridgeCompare` in every mode, `BridgeCsr` | `NoFalseAlarm`: a core that takes its interrupts in time is not accused. `WhisperInStep`: Whisper's `mip` follows the pins between handlers. `StepsInOrder`: steps go forward in tag and time, made-up tags collide with no memory operation and stay below the next retire, a fault is injected once. `MismatchesFound`: what is not reported was not compared, what is reported was wrong or could not be put right in Whisper, and an excuse is used once. `CsrsFollow`: the copies of the CSRs agree with the core |
| `soc` | `Eam`, `EndOfTest`, `IntrSequences` three times, `Sysmod`, `SysmodMem` twice, `Dma`, `IoCoh`, `BusErrorList`, `Clint`, `Aclint`, `Pmu`, `Debugger` twice | `Atomic`, `FailsFirst`: exclusive pairs are atomic, programmed failures come first. `EndsRight`: the verdict of a test, and that it is given once. `MsisThrottled`: no sequence hangs, and none drops an MSI when the threshold leaves out the IDs of other ranges. `LinesFollow`: the pins follow what was asked of them. `DevicesServed`: one answer per access, no tick lost, and the debugger's commands reach the debug module once and in order, with their triggers between the snippets. `WhisperMemory`, `EnginesOwnData`: the copies of memory agree. `InjectsAsConfigured`: bus errors as counted per range. `TimersRight`: pins, registers and broadcasts. `MetricsRight`: the counters of the end of the test, which hold the shutdown back once that end was signalled |
| `axi_sw` | `AxiSwRead`, `Axi` with and without window, `AxiBurst` | `NotFull`, `FlushIsNewest` (assertions of the code), `NextInOrder`: beats appear once and in order. `EngineInOrder`: each id in order, data with its own write, device accesses counted. `BurstBytes`: the beats of every legal burst in bounds touch exactly its bytes |
| `axi_mst` | `AxiSwMst` plain and greedy, `MmrRouter`, `MmrBytes` | `CreditsAndIds`, `WriteOrder`: no FIFO of the SystemVerilog side is overrun, an id belongs to one request at a time and its beats to that read, data follow the order of the addresses. `OwnResponse`: the verdict on a response and the completion of the router's accesses. `AccessBytes`: the bytes of a rerouted access |
| `progress` | `AxiSwRead` (callbacks; flushes only), `Axi`, `AxiSwMst`, `MmrRouter`, `DelayResp`, `ResetPulse`, `Debugger`, `Termination` with one rerun and with resets by the platform | `ReadsServed`: reads are served by callbacks alone, and reads of memory by flushes alone. `RequestsAnswered`: every request is answered in the end, and all snippets of the debugger are played. `MaskLifted`: terminate requests are heard again after a reset. `NoStaleTerminate`: a run is ended by its own requests only. `RunsChecked`: the shutdown of a run checks it once, after one check for each error it logged, there are N+1 runs, and a rerun has every registry domain. `EndReached`: a requested end comes |

Six more runs exhibit where the code and a statement in the repository
disagree; the source lines and quotations are in the `findings` of
`PROJECT.json`.

| Run | Statement | What the code does |
| --- | --- | --- |
| `axi_read_sim` | read flushes work without callbacks | without `cb_async` a flush reports success while the beat is still in `r_q_`, and none follows |
| `mmr_bytes_uncapped` | a read returns the addressed bytes | an unaligned read wider than the bus and without a burst cap returns other bytes |
| `termination_reruns` | a test runs N+1 times | a platform reset in the last run reloads the count |
| `mcmi_sc` | the bypass of a successful SC is sent when the read comes | when the bypass came first, it is never sent |
| `delay_resp_full` | the beat counters do not overflow | a full FIFO does not stop the request, which reuses the oldest slot |
| `max_instr_pass` | a test passes by a store to `tohost` | at exactly `+max_instr` instructions the limit message is judged like a store of 0, a pass |

### Observations without a run

Met while modelling. The passing runs exclude these cases by their constants or
by the assumptions named in the modules, or have them and the property says what
it does not claim there.

- Bus. The metric of forced exclusive failures also counts writes that would
  have failed anyway. A reset that is raised before the last one is acknowledged
  may have no rising edge of its own in a domain and is then lost there. With a
  clock slightly faster than the TB clock the TB clock can miss the acknowledge,
  and the mask then stays up (`FastB` 1 excludes it where `MaskLifted` is checked).
  A flush that finds only a device access in flight reports success without
  sending a beat, and with callbacks off none follows. With two slots and a delay
  of one cycle `rv_tester_delay_resp` sees the valid bit of the last user of a
  slot; its valid waits for the core's ready, which AXI allows a core to hold
  back. `reset_ptrs` of the master restores credits but does not restart
  the queue; a request that crosses a 4 KB page keeps the id it claimed, and a
  beat whose strobes do not match its data keeps its credit, after the error each
  of them logs. `warm_reset_now` lasts one AXI clock and is still high in the next
  run when that clock is four times slower than the TB clock.
- mcmi. A patch entered by the first instruction after one that ended without
  `clr_pmode` is mapped to the older session (`BackToBack` FALSE). Two SCs of one
  patch routine share a result. Under `emulate_amo_arithmetic` an AMOCAS whose
  read comes first is taken for a failed one.
- RVFI. `in_debug_mode_` is reset only without `+debugrom`, and set with and
  without it.
- Bridge. The mask that saves `mstatus` around misa.H is not the MPV and GVA that
  its comment names, nor is the one of `medeleg`: `CsrsFollow` states what is
  left. `resynch_csr_` excuses the next group mismatch, however late. The periodic
  vector check looks at three of four words.
- End of test. With `+payload_has_hart_id` HTIF counts the ids it sees: one that
  is not enabled counts too, and a hart that passes and then fails counts twice.
- Interrupts. The back-pressure check counts the free IDs of all ranges, an MSI
  draws from one: with a threshold no larger than the number of the other IDs
  MSIs are dropped with a message and no error. The MSI timeout counts checks that
  found no back pressure. Triggers that come while a sequence waits out back
  pressure are lost. A deassert write accepts one hart number too many.
- Devices. A CLINT snapshot reads the timer without its value. The ACLINT's
  reference reset does not reach the C++ mirror, nor a snapshot the compares in
  SystemVerilog: software reads a compare that MTIP does not use until it writes
  it again (`behind`). `Dma` uses the shared size and address again after an
  await: with transfers of different sizes under way Whisper gets other bytes; it
  pokes Whisper also when the bus refused the write; both are in the model and
  recorded in `apart`. Status 2 is set before the response. `io_coh_helper` pokes
  lane `i` whatever the address, drops the last lane of a line, and keeps its flag
  set after an error response. An error list `0:E` selects the threshold mode, and
  thresholds and patterns count the accesses of a whole range, where the help
  texts speak of each address.
- Debugger. While the DUT asks for a reset sysmod ticks at every clock, and the
  port, which needs three, loses commands. A second trigger of the test before
  the next tick replaces the first, and a trigger overtakes the commands that are
  still queued. A file that cannot be opened leaves the random mode waiting for
  it, after the error. `sdtrig_` and `step_` queues that a file leaves switched on
  stay on in the next.
- PMU. Programming an event CSR again adds its event to the old one; a second
  `perf_start` after an end shows a raw snapshot. A core whose end of the test was
  never signalled does not hold the shutdown back.

### Bounds

- FIFO depths 1, 2 or 4, with pointers that wrap at twice the depth as in the
  code: a handful of requests wraps every pointer at least once and fills and
  empties every FIFO. `RvFifo`, `AxiSwRead` and `AxiSwMst` are proved for every
  depth.
- Reads, requests, retirements: 2 to 9, named `Max...`. Two requests suffice for
  any pair to be swapped; the third reuses the id or slot of the first, the
  fourth fills the window again.
- Two ids, two clients, two harts, two clocks: each property relates at most two
  of them. Ids of the master are interchangeable, hence the symmetry set (used
  only for safety).
- `ResetPulse`: at most `MaxOwed` resets that a domain has not taken, so that one
  can be raised in every phase of the handshake of the last.
- Delays of `Termination` and `DelayResp` are scaled down and keep their order:
  drain < quiesce timeout < shutdown timeout, and delay < period of the timer.
- Interrupt causes: two suffice for a more urgent one to arrive in the wrong
  window; an interrupt may be two retires old before it counts as overdue, so
  that five or six retires cover arrival, deferral, a patch or debug session and
  the trap after it.
- `BridgeMcm`: four tags and two retires a clock, so that a made-up tag has
  memory operations below, at and above it; three clocks, so that steps can be sent
  alone between two that retire.
- `BridgeCompare`: one register of each file, one CSR that is compared and one
  that is not, three retires and two wrong results: a wrong result, its excuse
  and the next comparison. With `+psc_compare_only=0`, where the bridge also keeps
  the last record, two retires: the one kept and the one it replaced.
- `SysmodMem`, `Dma`, `IoCoh`: lines of two or four bytes stand for lines of 64; a
  transfer that is aligned, narrow or crosses words still exists. `Dma` has two
  sizes, an offset in the line, and addresses whose accesses may be refused.
- `IntrSequences`: four IDs, in one instance two of them in the range of the MSIs.
- `Clint`: offsets on both sides of the end of each register array. `Aclint`,
  `Pmu`: counters of two to four values, which wrap. `Aclint` writes mtime twice in
  a behaviour, so that both halves can be written between two edges; the compares
  are written any number of times.
- `Debugger`: files of one and of six lines: the longer one still has commands
  queued when the wait for its first trigger is over. Three clocks a tick, the
  fewest the port can serve, where sysmod has 200.
- `AxiBurst`: every size up to an 8-byte bus, every burst type, lengths of 1 to
  4 and 8 beats, and every start address up to 40, so that bursts start at every
  lane, aligned or not, and wrapping ones at every beat of a block of 32 bytes.
- `progress`: smaller than the safety runs, because the liveness check explores
  the graph of states as a whole: at most two reads of two beats, and a response
  delay of three cycles on a timer that wraps at four, so that a queue still
  fills, a burst still has a last beat, and the timer wraps while a response waits.

`CHECK_DEADLOCK FALSE` is set because behaviours stop when their bounded requests
are used up. What must not stop is stated as progress instead.

### Fairness

Weak fairness only, of what a simulation keeps doing: clocks tick; queued
messages and callbacks are processed (the scheduler of cvm runs them at every
tick); the device or the master on the other side takes what is offered and
answers; woken coroutines run; an idle reorder window is flushed. No fairness is
assumed of requests, resets, or a flush in the run that shows that callbacks
alone serve every read. Progress is stated as `[]<>` of "nothing is
outstanding", which the bounded number of requests makes equivalent to every
request being answered.

## 5. Proofs

Every theorem holds for all values of the constants that satisfy the named
assumptions of the modules; TLC evaluates these on its instances. An inductive
invariant was checked by TLC, as an invariant of the run of its component, before
it was proved.

| Theorem | Assumptions | Argument |
| --- | --- | --- |
| `InterfaceProofs`: `TypeCorrect`, `HeadCorrect` | depth at least 1, the reset value is an entry | `FifoInv`, the types and `HeadVisible`, is inductive. `DistinctSlots` shows that a push never lands on an occupied slot; the case that matters is a push that becomes head at once, which the bypass register covers |
| `InterfaceProofs`: `FifoImplementsQueue` | same | the refinement mapping reads the occupied slots from `rptr` on; each of push, pop, both, neither maps to the queue's step |
| `InterfaceProofs`: `PulsesTaken` | none: any set of clocks, any `FastB` | `ResetTaken` speaks of debts and needs the flops. `PulseInv` says that every rising edge on its way through the flops is owed (`Covered`), whenever resets are raised; and after one that was raised at rest, that the domain owes a pulse exactly in the phases in which the flag is up and not taken, or was dropped with all acknowledge flops set (`Phased`). A case per edge: TB clock, other clock, both |
| `InterfaceProofs`: `TagsRight` | `+debugrom` off, its default | `OneTagOwnWrites` speaks of the last instruction only. `RvfiInv` adds what the members of rvfi know of the instruction under way: `TagsAhead`, the tag it must get is none yet or newer than the last one; `TagsFollow`, patch mode, conservative mode, the trap seen and its tag are those of that instruction, also between the record and the message of an exception, which come in either order; `WritesFollow`, what was accumulated is what its uops wrote. One lemma per message of the core; `TagRight` shows that `make_instr` picks the tag |
| `AxiSwReadProofs`: `TypeCorrect`, `NeverFull`, `FlushNewest` | the constants' types | `IInv` adds to the types: `Accounts`, that what C++ counts as used is what is stored or promised plus the lag of its read pointer, and fits the FIFO; `Stamps`, that messages that would still be applied carry pointers in the order of their time stamps; `Restarting`, what each phase of a restart has established. `NotFull` alone is not inductive: it needs the slots that queued and popped beats have been promised, and the order of late messages |
| `AxiSwReadProofs`: `OffersInOrder` | same | `OInv` adds `InOrder` to `IInv`: along the way of a beat, from the engine over `r_q_` and the callback to the slots between `rptr` and the next `wptr`, the beats are numbered in a row. `Accounts` keeps a push off the occupied slots |
| `AxiMstProofs`: `BooksRight`, `WritesInOrder` | a FIFO is shallower than the range of its pointers, bursts have a beat | `IInv` of `AxiMstLemmas`: `Accounts`, the distance of the pointers is what was started and not taken plus what C++ has not heard of; `InLine`, on each channel older items are nearer to the device, through the list, the callbacks and the FIFO; `Owners`, every live item has the number and id of one request, whose id is not free and whose attributes are still stored; `Paired`, a write's address is under way as long as its last beat is; `Gathered`, the beats stored for an id. One lemma per action; `PushStep` treats `push_transactions`, plain and greedy, once for all |
| `MmrRouterProofs`: `OwnResponses`, `BooksRightRouted` | same | every step of the composition is a step of the master or leaves it alone, so `IInv` is kept. `RInv` adds what a waiting coroutine knows (`Watch`): its transaction is alive and no response in the channel has its id, or the first response with its id is its own, or an error was reported and the id stays claimed. That the drain comes after the push and in the same step is what makes the first case hold |
| `McmiProofs`: `AtomicsRight` | the kinds of atomics | `AtomicInv` gives the maps of results, bypasses and AMO writes, and the number of writes sent, as functions of which messages came before the drain and in which order |
| `McmiProofs`: `RemapsRight` | `~BackToBack`, the number of kept ranges | `PatchInv`: the kept ranges are proper (all their tags belong to the trigger), sorted and apart; the open session is the one of the members; a tag of a session is in the open one, in a kept range, or its range was dropped for `PATCH_TAG_RANGES_KEPT` later ones. The last case cannot be a recent tag, since each later range has an owner of its own (a cardinality argument). Without the hypothesis the theorem is false (see the observations on mcmi) |
| `McmiProofs`: `SnapshotsRight` | none | `FetchInv`: the tracked lines cover the non-cacheable part of the snapshot, the active ones cover the current window and are young. An invariant and an action property |
| `SocProofs`: `TypeCorrect`, `ExclusiveAtomic`, `FailuresFirst` | the granule of an address is among those it touches; the pattern is not empty | `EamInv` adds `Fresh`, that a valid entry belongs to an exclusive read that no write spoiled, and `Injected`, that the injected failures are the tries since the last programming. The two action properties follow from it |
| `SocProofs`: `MemoryKept` | `FLAGS_mcm` is Boolean | `WhisperMemory` claims nothing of a line under invalidation, so it is not inductive. `Same` claims that Whisper has what the core would load until the line is dropped, not only between invalidations; `MemHeld` says which lines can be dirty or under invalidation |
| `SocProofs`: `MsisRight` | harts exist, five guest files or more to draw from (`IntrAssumption`) | `MsisInv` adds to `MsisThrottled` the types and that no directed MSI, which may exceed the IDs, is mistaken for one of the sequences. `DrawsEnd` shows that each draw of `send_msi` has a candidate for every vgein and hgeie, and gives at most two writes; `SendFits` that two writes fit in the range of the MSIs when more IDs than the threshold are free, and the threshold exceeds the number of IDs outside that range. The theorem itself has no hypothesis on the threshold: `MsisThrottled` states the condition |
| `SocProofs`: `PinsFollowRequests` | same | `LinesFollow` speaks of empty queues and is not inductive. `LinesInv` says of each pin that the last level of its kind in the queue is the one asked for, or that none is queued and the pin has it (`Follows`), and that before the gate opens no queue holds a raised level (`Quiet`) |
| `CosimProofs`: `MismatchesRight` | the register files are disjoint, and so are the compared and the skipped CSRs | `CompareInv` adds to the three claims why Whisper may differ at all (`Reasons`: after a wrong result, or once it was left behind), what is known of the record that a periodic check may resynchronise again (`LastRecord`), and that the pending flag `resynch_csr_` is an excuse not used yet (`Excuses`). `CompareOutcome` lists the five ways in which `compare_dut_whisper_state` ends; a lemma per action uses it |
| `CosimProofs`: `CallersApart` | Whisper has at least as many harts as the platform | `ClientInv`: the hart table is empty or maps the harts to different ones of Whisper (`HartTable`), an answered call has left its value in all the fields it assigns, and nothing in the reply is valid before a server answers. `NeededIsSet` goes through the calls and shows that each assigns what its type reads |

Only model-checked: everything about the other modules. Out of the reach of the
proof system are the liveness properties of `progress` (fairness), and what
recursive definitions compute for every input: the beats of a burst (`AxiBurst`,
`MmrBytes`), the insertion and search of `BusErrorList`, the sums of `Pmu`, and the
steps that `process_steps` makes up one after the other (`BridgeMcm`).

## 6. Not modelled

`PROJECT.json` lists every part with its state.

- Not a state machine: file output (memory dump), crash handlers, plusargs, clock
  generation, code generators, vendored headers and random number generators,
  most register files of the trickbox, start of test.
- The debug module forwards each access over the master that `AxiSwMst` models
  and takes the next response, whoever it is for; the access it stands for is
  external. Of the debugger the contents of the commands, its status registers and
  the debug request pin.
- Tick generator and triggers: the sequences see their pulses at any time.
- Inside the bridge: `process_dut_timer`, resynchronisation of topei CSRs and of
  groups, `modify_csr_data`, the mip and mvip part of the misa.H restore, the
  translation check, snapshots.
- Inside RVFI: the reconstruction of uop flags with `+use_sw_priv`, fetch
  records, the AXI error check. Inside the Whisper client: batched pokes and the
  construction of the in-process simulator.
- Inside the other parts: response codes, statistics, ready toggling, the
  arithmetic of atomics, loading of images, JTAG and overlay ticks, HTIF console,
  trigger modes of the nmi and mti pins, granularities and ratio checks of the
  PMU, the burst data phase of `io_coh_helper`, which its code cannot reach.
