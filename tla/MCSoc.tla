------------------------------- MODULE MCSoc -------------------------------
(***************************************************************************)
(* The system around the core for model checking: the exclusive-access     *)
(* monitor, the end of a test, the interrupt sequences, the devices of     *)
(* sysmod and the copies of memory, the error lists of the AXI slave, the  *)
(* performance monitor and the debugger.  They share no state here, so     *)
(* that every behaviour exercises one of them (focus).  Three addresses in *)
(* two granules serve the monitor; the third is that of a burst over both. *)
(* The memory is that of a run with the memory-model check, and without it *)
(* (Cosim); the interrupts are MSIs on a trigger, MSIs at random (Random)  *)
(* and the pins (Pins).                                                    *)
(***************************************************************************)
EXTENDS Eam, SysmodMem, IntrSequences

CONSTANTS PlainLine, SecureLine

ThreeAddrs == {"a", "b", "burst"}
GranuleOf(x) == IF x = "b" THEN 2 ELSE 1
TouchesOf(x) == IF x = "burst" THEN {1, 2} ELSE {GranuleOf(x)}

VARIABLES
  focus,
  flags, icnt, e, h, bus, differs, errors, term, stored, arrived,
  devices_, external_devices_, composed, stee, error, cosim_init_, ticks_,
  total, given, before, made, answers, waiting,
  dma_txn_map_, dma_read_addr_, dma_write_size_, dma_reads, dma_writes,
  dma_mem, dma_whisper, dma_error, dma_starts, got, apart,
  tx_addr, tx_type, tx_size, wdata_vec, txns_vec, rdata_byte_vec,
  read_counter, write_in_flight, read_in_flight, burst_in_flight, ioc_writes,
  ioc_reads, ioc_mem, ioc_whisper, ioc_error, ioc_starts, ioc_want,
  address_list_, threshold, pattern, error_en_, err_flags, seen, err_agree,
  soft_, timeCompare_, timerIntPrev_, timer_, mtip, msip, heard, runs, saved,
  mirror, mtime_q, mtime_dpi, mtime_wr, mtimecmp, mtimecmp_dpi, mtimecmp_wr,
  ctime, written, behind,
  p, dut, csr, terminate, programs, starts, open, closed, last, alarm,
  dbg, reset_state, dmi_cbs, port, since, dm

Ids2 == {0, 1}

Eot == INSTANCE EndOfTest WITH
  Harts <- Ids2, OtherId <- 9, FLAGS_max_instr <- 2, NRET <- 2,
  Plain <- {PlainLine}, Secure <- {SecureLine}, MaxStores <- 2

\* MSIs at random, up to a limit, with two seqids and the least threshold that
\* leaves a pair its IDs; and the nmi and mti pins.
Random == INSTANCE IntrSequences WITH
  FLAGS_imsic_intr <- "random", FLAGS_max_intr_count <- 2, RangeIds <- 2,
  FLAGS_msi_backpressure_threshold <- 3

Pins == INSTANCE IntrSequences WITH
  Driven <- Kinds, FLAGS_imsic_intr <- "random", FLAGS_max_intr_count <- 2,
  Files <- {"M"}, MaxSent <- 0

Entry(tag, type, addr, size) ==
  [tag |-> tag, type |-> type, addr |-> addr, size |-> size]

\* A memory map with one device of each kind; the devices of a project take
\* the external window apart, overlap one another, reach out of it, or are empty.
Sys == INSTANCE Sysmod WITH
  Memmap <- {Entry("memory", "memory", 0, 2), Entry("mmr", "mmr_txn_router", 2, 1),
             Entry("trickbox", "trickbox", 3, 1), Entry("ext", "external", 4, 3)},
  Projects <- {Entry("p", "p", 4, 2), Entry("q", "q", 4, 1), Entry("r", "r", 3, 2),
               Entry("z", "z", 0, 0), Entry("s", "s", 5, 2)},
  Addrs <- {0, 2, 3, 4, 5}, FLAGS_cosim <- TRUE, FLAGS_stee <- FALSE,
  FLAGS_sysmod_tick_update_threshold <- 3, Advances <- {1, 2, 4}, MaxTotal <- 6,
  MaxAccesses <- 2

Cosim == INSTANCE SysmodMem WITH FLAGS_mcm <- FALSE

DmaDev == INSTANCE Dma WITH
  Slots <- {0, 1}, Addrs <- {0, 2}, Sizes <- {1, 2}, Values <- {1}, Words <- {1},
  WordBytes <- 2, LineBytes <- 4, Narrow <- {<<0, 1>>, <<2, 1>>, <<2, 2>>},
  MaxStarts <- 2, reads <- dma_reads, writes <- dma_writes,
  mem <- dma_mem, whisper <- dma_whisper, error <- dma_error, starts <- dma_starts

IoCohDev == INSTANCE IoCoh WITH
  Addrs <- {0, 4}, Sizes <- {2}, Values <- {1}, Narrow <- {4}, LineBytes <- 4,
  MaxStarts <- 3, MaxBytes <- 2, reads <- ioc_reads, writes <- ioc_writes,
  mem <- ioc_mem, whisper <- ioc_whisper, error <- ioc_error, starts <- ioc_starts,
  want <- ioc_want

Pattern(n, k) == [normal |-> n, error |-> k]
Errors == INSTANCE BusErrorList WITH
  Tokens <- {[single |-> FALSE, lo |-> 0, hi |-> 1], [single |-> FALSE, lo |-> 4, hi |-> 7],
             [single |-> TRUE, lo |-> 3, hi |-> 3]},
  MaxTokens <- 2, LineBytes <- 2, Addrs <- {1, 2, 3, 5, 8}, Thresholds <- {2},
  Patterns <- {Pattern(0, 0), Pattern(2, 1)},
  FLAGS_axi_err_after_test_start <- TRUE, MaxCount <- 4,
  flags <- err_flags, agree <- err_agree

\* Offsets on both sides of the end of every register array.
ClintDev == INSTANCE Clint WITH
  hartCount_ <- 2, tickDivisor_ <- 2, Top <- 3,
  Offsets <- {0, 2, 4, 8, 16384, 16388, 16392, 16400, 49144},
  Advances <- {2, 3, 4}, MaxRuns <- 2

AclintDev == INSTANCE Aclint WITH
  NUM_MTIMECMP <- 2, WordSize <- 2, Step <- 1, MaxBroadcasts <- 2,
  timeCompare_ <- mirror

\* Counters that agree exactly: the checker tolerates nothing.
PmuDev == INSTANCE Pmu WITH
  Events <- {"cycles", "e1"}, Threshold <- 0, MaxCount <- 3, MaxPrograms <- 1, MaxStarts <- 1

\* The debugger by itself and as the test asks.  A file that is longer than
\* the shortest wait for a trigger, one that resets the DUT, one that is not
\* there.
File(rows, ndm, opens) == [rows |-> rows, ndm |-> ndm, opens |-> opens]
Snippets == {File(<<"cmd", "cp", "cmd", "cmd", "cmd", "cmd">>, FALSE, TRUE),
             File(<<"cmd">>, TRUE, TRUE), File(<< >>, FALSE, FALSE)}

RandomDbg == INSTANCE Debugger WITH
  FLAGS_random_dbg_entry <- TRUE, FLAGS_dbg_max_snippets <- 2,
  FLAGS_random_dbg_start_delay <- 5, FLAGS_dbg_delay_min <- 1,
  FLAGS_dbg_delay_max <- 1, Files <- Snippets, TickClks <- 3, DutResets <- TRUE,
  MaxLoads <- 0, MaxExecs <- 0, MaxBuilds <- 2, d <- dbg

TestDbg == INSTANCE Debugger WITH
  FLAGS_random_dbg_entry <- FALSE, FLAGS_dbg_max_snippets <- 2,
  FLAGS_random_dbg_start_delay <- 5, FLAGS_dbg_delay_min <- 1,
  FLAGS_dbg_delay_max <- 1, Files <- {File(<<"cmd", "cp">>, FALSE, TRUE)},
  TickClks <- 3, DutResets <- TRUE, MaxLoads <- 2, MaxExecs <- 2, MaxBuilds <- 2,
  d <- dbg

eotVars == <<flags, icnt, e, h, bus, differs, errors, term, stored, arrived>>
sysVars == <<devices_, external_devices_, composed, stee, error, cosim_init_,
            ticks_, total, given, before, made, answers, waiting>>
dmaVars == <<dma_txn_map_, dma_read_addr_, dma_write_size_, dma_reads,
            dma_writes, dma_mem, dma_whisper, dma_error, dma_starts, got,
            apart>>
iocVars == <<tx_addr, tx_type, tx_size, wdata_vec, txns_vec, rdata_byte_vec,
            read_counter, write_in_flight, read_in_flight, burst_in_flight,
            ioc_writes, ioc_reads, ioc_mem, ioc_whisper, ioc_error,
            ioc_starts, ioc_want>>
errVars == <<address_list_, threshold, pattern, error_en_, err_flags, seen,
            err_agree>>
clintVars == <<soft_, timeCompare_, timerIntPrev_, timer_, mtip, msip, heard,
              runs, saved>>
aclintVars == <<mirror, mtime_q, mtime_dpi, mtime_wr, mtimecmp, mtimecmp_dpi,
               mtimecmp_wr, ctime, written, behind>>
pmuVars == <<p, dut, csr, terminate, programs, starts, open, closed, last,
            alarm>>
dbgVars == <<dbg, reset_state, dmi_cbs, port, since, dm>>

\* A component that is not exercised rests in its initial state, or is not
\* built and its variables are 0.
MCInit ==
  /\ focus \in {"eam", "eot", "msi", "random", "pins", "sysmod", "mcm", "cosim",
                "dma", "io_coh", "errors", "clint", "aclint", "pmu", "dbg_random", "dbg_test"}
  /\ Init /\ MemInit /\ IntrInit
  /\ IF focus = "eot" THEN Eot!Init
     ELSE /\ flags = 0 /\ icnt = 0 /\ e = 0 /\ h = 0 /\ bus = 0
          /\ differs = 0 /\ errors = 0 /\ term = 0 /\ stored = 0
          /\ arrived = 0
  /\ IF focus = "sysmod" THEN Sys!Init
     ELSE /\ devices_ = 0 /\ external_devices_ = 0 /\ composed = 0
          /\ stee = 0 /\ error = 0 /\ cosim_init_ = 0 /\ ticks_ = 0
          /\ total = 0 /\ given = 0 /\ before = 0 /\ made = 0
          /\ answers = 0 /\ waiting = 0
  /\ IF focus = "dma" THEN DmaDev!Init
     ELSE /\ dma_txn_map_ = 0 /\ dma_read_addr_ = 0 /\ dma_write_size_ = 0
          /\ dma_reads = 0 /\ dma_writes = 0 /\ dma_mem = 0
          /\ dma_whisper = 0 /\ dma_error = 0 /\ dma_starts = 0 /\ got = 0
          /\ apart = 0
  /\ IF focus = "io_coh" THEN IoCohDev!Init
     ELSE /\ tx_addr = 0 /\ tx_type = 0 /\ tx_size = 0 /\ wdata_vec = 0
          /\ txns_vec = 0 /\ rdata_byte_vec = 0 /\ read_counter = 0
          /\ write_in_flight = 0 /\ read_in_flight = 0
          /\ burst_in_flight = 0 /\ ioc_writes = 0 /\ ioc_reads = 0
          /\ ioc_mem = 0 /\ ioc_whisper = 0 /\ ioc_error = 0
          /\ ioc_starts = 0 /\ ioc_want = 0
  /\ IF focus = "errors" THEN Errors!Init
     ELSE /\ address_list_ = 0 /\ threshold = 0 /\ pattern = 0
          /\ error_en_ = 0 /\ err_flags = 0 /\ seen = 0 /\ err_agree = 0
  /\ IF focus = "clint" THEN ClintDev!Init
     ELSE /\ soft_ = 0 /\ timeCompare_ = 0 /\ timerIntPrev_ = 0
          /\ timer_ = 0 /\ mtip = 0 /\ msip = 0 /\ heard = 0 /\ runs = 0
          /\ saved = 0
  /\ IF focus = "aclint" THEN AclintDev!Init
     ELSE /\ mirror = 0 /\ mtime_q = 0 /\ mtime_dpi = 0 /\ mtime_wr = 0
          /\ mtimecmp = 0 /\ mtimecmp_dpi = 0 /\ mtimecmp_wr = 0
          /\ ctime = 0 /\ written = 0 /\ behind = 0
  /\ IF focus = "pmu" THEN PmuDev!Init
     ELSE /\ p = 0 /\ dut = 0 /\ csr = 0 /\ terminate = 0 /\ programs = 0
          /\ starts = 0 /\ open = 0 /\ closed = 0 /\ last = 0
          /\ alarm = 0
  /\ IF focus \in {"dbg_random", "dbg_test"} THEN RandomDbg!Init
     ELSE /\ dbg = 0 /\ reset_state = 0 /\ dmi_cbs = 0 /\ port = 0 /\ since = 0
          /\ dm = 0

MCNext ==
  \/ focus = "eam" /\ Next
     /\ UNCHANGED <<focus, eotVars, intrVars, sysVars, memVars, dmaVars,
                      iocVars, errVars, clintVars, aclintVars, pmuVars, dbgVars>>
  \/ focus = "eot" /\ Eot!Next
     /\ UNCHANGED <<focus, vars, intrVars, sysVars, memVars, dmaVars, iocVars,
                      errVars, clintVars, aclintVars, pmuVars, dbgVars>>
  \/ /\ \/ focus = "msi" /\ IntrNext
        \/ focus = "random" /\ Random!IntrNext
        \/ focus = "pins" /\ Pins!IntrNext
     /\ UNCHANGED <<focus, vars, eotVars, sysVars, memVars, dmaVars, iocVars,
                      errVars, clintVars, aclintVars, pmuVars, dbgVars>>
  \/ focus = "sysmod" /\ Sys!Next
     /\ UNCHANGED <<focus, vars, eotVars, intrVars, memVars, dmaVars, iocVars,
                      errVars, clintVars, aclintVars, pmuVars, dbgVars>>
  \/ /\ \/ focus = "mcm" /\ MemNext
        \/ focus = "cosim" /\ Cosim!MemNext
     /\ UNCHANGED <<focus, vars, eotVars, intrVars, sysVars, dmaVars, iocVars,
                      errVars, clintVars, aclintVars, pmuVars, dbgVars>>
  \/ focus = "dma" /\ DmaDev!Next
     /\ UNCHANGED <<focus, vars, eotVars, intrVars, sysVars, memVars, iocVars,
                      errVars, clintVars, aclintVars, pmuVars, dbgVars>>
  \/ focus = "io_coh" /\ IoCohDev!Next
     /\ UNCHANGED <<focus, vars, eotVars, intrVars, sysVars, memVars, dmaVars,
                      errVars, clintVars, aclintVars, pmuVars, dbgVars>>
  \/ focus = "errors" /\ Errors!Next
     /\ UNCHANGED <<focus, vars, eotVars, intrVars, sysVars, memVars, dmaVars,
                      iocVars, clintVars, aclintVars, pmuVars, dbgVars>>
  \/ focus = "clint" /\ ClintDev!Next
     /\ UNCHANGED <<focus, vars, eotVars, intrVars, sysVars, memVars, dmaVars,
                      iocVars, errVars, aclintVars, pmuVars, dbgVars>>
  \/ focus = "aclint" /\ AclintDev!Next
     /\ UNCHANGED <<focus, vars, eotVars, intrVars, sysVars, memVars, dmaVars,
                      iocVars, errVars, clintVars, pmuVars, dbgVars>>
  \/ focus = "pmu" /\ PmuDev!Next
     /\ UNCHANGED <<focus, vars, eotVars, intrVars, sysVars, memVars, dmaVars,
                      iocVars, errVars, clintVars, aclintVars, dbgVars>>
  \/ /\ \/ focus = "dbg_random" /\ RandomDbg!Next
        \/ focus = "dbg_test" /\ TestDbg!Next
     /\ UNCHANGED <<focus, vars, eotVars, intrVars, sysVars, memVars, dmaVars,
                      iocVars, errVars, clintVars, aclintVars, pmuVars>>

MCSpec == MCInit /\ [][MCNext]_<<focus, vars, eotVars, intrVars, sysVars, memVars,
                                 dmaVars, iocVars, errVars, clintVars, aclintVars, pmuVars,
                                 dbgVars>>
-----------------------------------------------------------------------------
\* A test that eot ends and logs nothing against has stored a pass to tohost,
\* unless it ends at the very instruction of the limit; eot asks for the end
\* once, and with the memory comparison only after the lines that differ were
\* reported (process_eoti, eot_terminate, mem_checks).  HTIF ends the test with
\* a pass exactly when no failing status arrived before, and with the hart in
\* the payload only after as many different exits as there are harts
\* (htif::write).
EndsRight == focus = "eot" => Eot!EotEndsRight /\ Eot!HtifEndsRight

\* Every access to an address some device owns is answered by one device and
\* once, in whatever order a project added its devices; and the tick threshold
\* delays ticks and loses none (add_device, device.h's handlers, sysmod::tick).
\* The debugger, which ticks, hands the debug module every command of its files
\* once and in order while the DUT asks for no reset, starts no snippet and
\* sends no trigger while commands or triggers of the last one are due, and
\* plays nothing in the run after such a reset (checkDebugEvents,
\* drive_csv_dmi_cmds, debugger::reset).
DevicesServed ==
  /\ focus = "sysmod" => Sys!OneAnswer /\ Sys!TicksKept
  /\ focus = "dbg_random" => RandomDbg!DebuggerRight
  /\ focus = "dbg_test" => TestDbg!DebuggerRight

\* The two engines that access memory for the test leave Whisper's memory equal
\* to the system's, and a data register holds the bytes of its own last
\* transfer, however the transfers overlap.  Excepted are, in dma, what a write
\* of another size or a read at another offset that is started meanwhile does to
\* the transfers under way, and a refused transfer; in io_coh_helper transfers
\* that do not start a line (blocking_write, blocking_read).
EnginesOwnData ==
  /\ focus = "dma" => DmaDev!WhisperSameData /\ DmaDev!ReadsOwn
  /\ focus = "io_coh" => IoCohDev!WhisperSameData /\ IoCohDev!FlagsAndBytes

\* In whatever order disjoint ranges are listed, and however the list is set up
\* again, switched off and on, each range answers with errors those accesses to
\* any of its addresses, counted together, that its threshold or pattern says,
\* and no others (bus_error_list and its use in axi).
InjectsAsConfigured == focus = "errors" => Errors!InjectsAsConfigured

\* The CLINT's pins are those of its registers although only changes are
\* signalled, across wrapping timers and restarts from a snapshot, which start
\* each compare where it was left; the ACLINT has what software wrote since the
\* last reset or snapshot, whole registers and halves, several between two edges
\* of the reference clock, and every broadcast carries it
\* (processTimerInterrupts, ~clint, aclint::write, merge, aclint.sv's edges).
TimersRight ==
  /\ [](/\ focus = "clint" => ClintDev!PinsFollow /\ ClintDev!ComparesRestored
        /\ focus = "aclint" => AclintDev!RegistersAsWritten)
  /\ AclintDev!BroadcastsCurrent

\* The reported counters are those of the first message after the end of the
\* test, the region is what was counted between its labels, and a core whose
\* hpmcounter counts right is not accused (pmu::process_core, shutdown_ready).
MetricsRight == focus = "pmu" => PmuDev!MetricsRight
=============================================================================
