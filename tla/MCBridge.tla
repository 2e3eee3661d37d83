------------------------------ MODULE MCBridge ------------------------------
(***************************************************************************)
(* The bridge between the core and Whisper for model checking: interrupts  *)
(* of two causes with patch sessions (patch), one cause with NMIs, debug   *)
(* mode and patch sessions (debug), the memory operations and the steps    *)
(* (mcm), the comparison of the registers (compare) and the CSRs that are  *)
(* written into Whisper and into the CSR checker (csr).  The concerns      *)
(* share no state here, so that every behaviour exercises one of them      *)
(* (focus).                                                                *)
(***************************************************************************)
EXTENDS BridgeCompare, Sequences

\* Most can happen after a retire that is compared later (+psc_compare_only=0).
RetiresOf == [step |-> 3, resynch |-> 3, period |-> 3, psc |-> 2]

VARIABLES
  focus,
  s, pin, commit, moved, shown, due, ie, nmie, dbg, n,
  x, done, last, exp, steps, retired, clock, loads, stores, faults,
  c, cac, wh, core, satp, fenced, c_n

trapVars == <<s, pin, commit, moved, shown, due, ie, nmie, dbg, n>>
mcmVars == <<x, done, last, exp, steps, retired, clock, loads, stores, faults>>
csrVars == <<c, cac, wh, core, satp, fenced, c_n>>

PatchTraps == INSTANCE BridgeTraps WITH
  Causes <- {1, 2}, max_pend_intr_age <- 2, Modes <- {"patch"}, MaxSteps <- 5

DebugTraps == INSTANCE BridgeTraps WITH
  Causes <- {1}, max_pend_intr_age <- 2, Modes <- {"nmi", "debug", "patch"},
  MaxSteps <- 6

Mcm == INSTANCE BridgeMcm WITH NRET <- 2, MaxTag <- 4, Window <- 2, MaxClock <- 3

Csr == INSTANCE BridgeCsr WITH
  Csrs <- {"mideleg", "mie", "sstatus", "mstatus", "menvcfg", "hgatp", "fflags",
           "frm", "fcsr"},
  Satps <- {<<0, 0, 0>>, <<8, 0, 1>>, <<8, 1, 1>>, <<8, 1, 2>>}, MaxWrites <- 4, n <- c_n

\* A component that is not exercised is not built, its variables are 0; only
\* the comparison of the states starts in every behaviour.
MCInit ==
  /\ focus \in {"patch", "debug", "mcm", "compare", "csr"}
  /\ IF focus = "patch" THEN PatchTraps!Init
     ELSE IF focus = "debug" THEN DebugTraps!Init
     ELSE /\ s = 0 /\ pin = 0 /\ commit = 0 /\ moved = 0 /\ shown = 0 /\ due = 0
          /\ ie = 0 /\ nmie = 0 /\ dbg = 0 /\ n = 0
  /\ IF focus = "mcm" THEN Mcm!Init
     ELSE /\ x = 0 /\ done = 0 /\ last = 0 /\ exp = 0 /\ steps = 0 /\ retired = 0
          /\ clock = 0 /\ loads = 0 /\ stores = 0 /\ faults = 0
  /\ CompareInit /\ (focus = "compare" \/ b = Start("step"))
  /\ IF focus = "csr" THEN Csr!Init
     ELSE c = 0 /\ cac = 0 /\ wh = 0 /\ core = 0 /\ satp = 0 /\ fenced = 0 /\ c_n = 0

MCNext ==
  /\ UNCHANGED focus
  /\ \/ /\ \/ focus = "patch" /\ PatchTraps!Next
           \/ focus = "debug" /\ DebugTraps!Next
        /\ UNCHANGED <<mcmVars, compareVars, csrVars>>
     \/ focus = "mcm" /\ Mcm!Next /\ UNCHANGED <<trapVars, compareVars, csrVars>>
     \/ focus = "compare" /\ CompareNext /\ UNCHANGED <<trapVars, mcmVars, csrVars>>
     \/ focus = "csr" /\ Csr!Next /\ UNCHANGED <<trapVars, mcmVars, compareVars>>

MCSpec == MCInit /\ [][MCNext]_<<focus, trapVars, mcmVars, compareVars, csrVars>>
-----------------------------------------------------------------------------
\* With a core that takes the most urgent interrupt of its mip in time, no
\* alarm other than a timeout is raised over a trap, whatever pins move between
\* its commit and its report, across patch sessions, xRETs, NMIs and debug mode
\* (process_dut_instr_retire, check_and_defer_interrupt).
NoFalseAlarm ==
  /\ focus = "patch" => PatchTraps!NoFalseAlarm
  /\ focus = "debug" => DebugTraps!NoFalseAlarm

\* Between handlers Whisper's mip is what the pins say: a bit that was raised
\* again for the step of a trap does not outlive it, and outside a patch
\* Whisper has the core's interrupt enables (trap_restored_mip_).
WhisperInStep ==
  /\ focus = "patch" => PatchTraps!WhisperInStep
  /\ focus = "debug" => DebugTraps!WhisperInStep

\* Whisper's steps go forward in tag and in time, one for each retire; a tag
\* that process_steps makes up is held by no memory operation and stays below
\* the tag of the record that follows.  An access fault is injected once, into
\* the load that the bus refused (process_steps, pre_step_exception_poke).
StepsInOrder == focus = "mcm" => Mcm!StepsInOrder /\ Mcm!FaultsInjected

\* Whisper's CSRs and the CSR checker's are the core's through aliases, partial
\* masks, illegal values and changes of misa.H, less the hypervisor fields of
\* mstatus and medeleg; Whisper translates with the last satp before a fence, or
\* a later one that changed the address space (update_regs,
\* modify_csr_mask, post_step_satp_write_poke).
CsrsFollow ==
  focus = "csr" => Csr!WhisperFollows /\ Csr!CacFollows /\ Csr!SatpHeld
=============================================================================
