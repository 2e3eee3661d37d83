-------------------------------- MODULE Rvfi --------------------------------
(***************************************************************************)
(* The retire interface of one hart (src/cosim/dut_if/rvfi/rvfi.cpp): it   *)
(* makes one instruction for the bridge out of the records of its uops and *)
(* of the trap messages, which come on streams of their own.  Every record *)
(* has an order of its own; Whisper must step each instruction under the   *)
(* tag that its memory operations carry: the order of the last uop, but    *)
(* that of the trapping uop for an exception, of the trigger for a whole   *)
(* patch session, of the first attempt for a vector instruction that is    *)
(* repeated in conservative mode.                                          *)
(*                                                                         *)
(* r holds the members of rvfi; ord and now are the core, now.tag being    *)
(* the tag that the instruction under way has to be stepped under.  The    *)
(* hardware's uop flags are used (+use_sw_priv off).                       *)
(***************************************************************************)
EXTENDS Naturals

CONSTANTS MaxRecords, \* records in a behaviour
          MaxUops,    \* records of one instruction before the last
          Debugrom    \* +debugrom

VARIABLES r, ord, now,
          dbg,        \* the core is in debug mode
          instr,      \* the bridge's last instruction, and what it had to be
          groups      \* instruction groups and CSR updates sent

rvfiVars == <<r, ord, now, dbg, instr, groups>>

OwnOrder == 0         \* the tag is the order of the last uop
\* trap: which of nmi_, intr_ and excp_ is set; cause: ecause_ by its kind.
Start ==
  [in_reset_ |-> TRUE, terminated_ |-> FALSE,
   trap |-> "none", cause |-> "none", trap_tag_ |-> 0, error |-> FALSE,
   patch_mode_ |-> FALSE, patch_mode_first_tag_ |-> 0, bridge_patch |-> "NO_PATCH",
   vec_cmode_ |-> FALSE, vec_cmode_first_tag_ |-> 0, vec_cmode_pc_addr_ |-> "none",
   vec_cmode_mem_errors_ |-> {},
   cracked_gpr_ |-> FALSE, cracked_vrs_ |-> 0, ucode_csrs_ |-> 0,
   instrs_ |-> 0, hw_csrs_ |-> 0, in_debug_mode_ |-> FALSE]

Idle == [kind |-> "idle", tag |-> OwnOrder, pc |-> "pc", uops |-> 0, error |-> FALSE,
         g |-> FALSE, v |-> 0, c |-> 0, rec |-> FALSE, msg |-> FALSE]

RvfiInit ==
  /\ r = Start /\ ord = 1 /\ now = Idle /\ dbg = FALSE
  /\ instr = [tag |-> 0, had |-> 0, excp |-> FALSE, wrote |-> <<FALSE, 0, 0>>,
            own |-> <<FALSE, 0, 0>>, error |-> FALSE, erred |-> FALSE, before |-> 0,
            session |-> FALSE]
  /\ groups = [instrs |-> 0, csrs |-> 0, sent |-> 0, updates |-> 0]

Gated(q) == q.terminated_ \/ q.in_reset_
-----------------------------------------------------------------------------
(* Records.  m: order, pc, last_uop, last_insn, trap, set/clr_pmode, the   *)
(* resource written and mem_error.                                         *)

\* MUTANT of use_excp_trap_tag: the tag of an earlier trap is used as well.
AnyTrapTag(q, m) == q.trap_tag_ # 0 /\ ~q.patch_mode_ /\ ~q.vec_cmode_ /\ ~m.dbg

use_excp_trap_tag(q, m) ==
  /\ q.trap_tag_ # 0 /\ q.trap = "excp" /\ q.cause = "standard"
  /\ ~q.patch_mode_ /\ ~q.vec_cmode_ /\ ~q.in_debug_mode_ /\ ~m.dbg

\* The patch mode that a record turns on or off.
PatchMode(q, m) ==
  CASE m.clr -> [q EXCEPT !.patch_mode_ = FALSE, !.patch_mode_first_tag_ = 0,
                          !.bridge_patch = "EXIT_PATCH"]
    [] ~m.clr /\ m.set ->
         [q EXCEPT !.patch_mode_ = TRUE, !.bridge_patch = "ENTER_PATCH",
                   !.patch_mode_first_tag_ = IF @ = 0 THEN m.order ELSE @]
    [] OTHER -> q

\* What the uops before the last have written is kept until the last one;
\* vector registers are kept for all of them.
Accumulate(q, m) ==
  [q EXCEPT
     !.cracked_gpr_ = @ \/ (m.writes = "gpr" /\ ~m.last_uop /\ ~m.trap),
     !.cracked_vrs_ = IF m.writes = "vr" /\ ~m.trap THEN @ + 1 ELSE @,
     !.ucode_csrs_ = IF m.writes = "csr" /\ ~m.last_uop /\ ~m.trap THEN @ + 1 ELSE @,
     !.vec_cmode_mem_errors_ =
        IF (m.error \/ q.error) /\ q.vec_cmode_ THEN @ \cup {q.vec_cmode_first_tag_} ELSE @]

\* The tag and the memory error of the instruction that the record belongs to.
Tag(q, m) ==
  LET tag == CASE q.patch_mode_ -> q.patch_mode_first_tag_
               [] ~q.patch_mode_ /\ q.vec_cmode_ /\ q.vec_cmode_pc_addr_ = m.pc -> q.vec_cmode_first_tag_
               [] OTHER -> m.order
      p == PatchMode(q, m)
  IN  CASE use_excp_trap_tag(p, m) -> q.trap_tag_
        [] ~use_excp_trap_tag(p, m) /\ m.set -> p.patch_mode_first_tag_
        [] OTHER -> tag

make_instr(q, m) == Accumulate(PatchMode(q, m), m)

\* append_uop_changes_to_instr: the registers that the bridge is told of.
Appended(q, m) ==
  <<q.cracked_gpr_ \/ m.writes = "gpr", q.cracked_vrs_,
    q.ucode_csrs_ + IF m.writes = "csr" THEN 1 ELSE 0>>

\* The state that a retired instruction leaves behind.
Sent(q, m) ==
  [q EXCEPT !.trap = "none", !.vec_cmode_ = FALSE, !.vec_cmode_pc_addr_ = "none",
            !.trap_tag_ = 0, !.error = FALSE, !.vec_cmode_mem_errors_ = {},
            !.cracked_gpr_ = FALSE, !.cracked_vrs_ = 0, !.ucode_csrs_ = 0,
            !.in_debug_mode_ = (@ \/ (q.trap \in {"intr", "excp"} /\ q.cause = "debug"))
                               /\ ~(m.dret /\ ~Debugrom),
            !.instrs_ = IF m.last_insn THEN 0 ELSE @ + 1,
            !.hw_csrs_ = IF m.last_insn THEN 0 ELSE @]

\* process(m_rvfi): a record that traps is only remembered, one that is not the
\* last uop only accumulates, the last one is sent with its group's end.
Process(m, expect) ==
  LET q == make_instr(r, m)
      e == [q EXCEPT !.error = @ \/ m.error]
  IN  IF Gated(r) THEN UNCHANGED <<r, instr, groups>>
      ELSE CASE m.trap ->
                  /\ r' = [e EXCEPT !.trap_tag_ = m.order] /\ UNCHANGED <<instr, groups>>
             [] ~m.trap /\ ~m.last_uop -> r' = e /\ UNCHANGED <<instr, groups>>
             [] OTHER ->
                  /\ r' = Sent(e, m)
                  /\ instr' = [tag |-> Tag(r, m), had |-> expect.tag, excp |-> expect.excp,
                             wrote |-> Appended(q, m), own |-> expect.own,
                             error |-> m.error \/ r.error \/ Tag(r, m) \in r.vec_cmode_mem_errors_,
                             erred |-> expect.error,
                             before |-> instr.tag, session |-> expect.session]
                  /\ groups' = [groups EXCEPT !.sent = @ + 1,
                       !.instrs = IF m.last_insn THEN @ + q.instrs_ + 1 ELSE @,
                       !.csrs = IF m.last_insn THEN @ + q.hw_csrs_ ELSE @]
-----------------------------------------------------------------------------
(* Trap messages.                                                          *)

\* process(m_trap)
Trapped(q, kind, cause, order, pc) ==
  LET t == [q EXCEPT !.trap = kind, !.cause = cause]
  IN  CASE kind = "excp" /\ cause = "patch" ->
             [t EXCEPT !.patch_mode_ = TRUE, !.bridge_patch = "ENTER_PATCH",
                       !.patch_mode_first_tag_ = order]
        [] kind = "excp" /\ cause = "cmode" ->
             LET v == IF t.vec_cmode_ /\ t.vec_cmode_pc_addr_ = pc THEN t
                      ELSE [t EXCEPT !.vec_cmode_ = TRUE, !.vec_cmode_first_tag_ = order,
                                     !.vec_cmode_pc_addr_ = pc]
             IN  [v EXCEPT !.vec_cmode_mem_errors_ =
                             IF v.error THEN @ \cup {v.vec_cmode_first_tag_} ELSE @]
        [] OTHER -> t

Trap(kind, cause, order, pc) ==
  r' = IF Gated(r) THEN r ELSE Trapped(r, kind, cause, order, pc)
-----------------------------------------------------------------------------
(* The core.                                                               *)

m_reset ==
  /\ ~r.terminated_ /\ r' = [r EXCEPT !.in_reset_ = FALSE]
  /\ UNCHANGED <<ord, now, dbg, instr, groups>>

Rec(writes, error) ==
  [order |-> ord, pc |-> now.pc, last_uop |-> FALSE, last_insn |-> FALSE, trap |-> FALSE,
   set |-> FALSE, clr |-> FALSE, dret |-> FALSE, dbg |-> dbg, writes |-> writes, error |-> error]

\* A uop that is not the last writes at most one GPR in an instruction.
Uop(writes, error) ==
  /\ ord <= MaxRecords /\ now.uops < MaxUops /\ now.rec = now.msg
  /\ writes = "gpr" => ~now.g
  /\ error => now.kind = "cmode"
  /\ Process(Rec(writes, error), [tag |-> 0])
  /\ ord' = ord + 1
  /\ now' = [now EXCEPT !.uops = @ + 1, !.error = @ \/ error,
                        !.kind = IF @ = "idle" THEN "uops" ELSE @,
                        !.g = @ \/ writes = "gpr",
                        !.v = IF writes = "vr" THEN @ + 1 ELSE @,
                        !.c = IF writes = "csr" THEN @ + 1 ELSE @]
  /\ UNCHANGED dbg

\* The last uop.  In a patch, mode is "set" with the first record of the patch,
\* "clr" with its last; set without a trap enters the patch by microcode.
\* "dret" leaves debug mode.
LastUop(writes, mode, last_insn) ==
  LET inpatch == now.kind \in {"trigger", "patch"}
      tag == IF now.tag = OwnOrder THEN ord ELSE now.tag
  IN  /\ ord <= MaxRecords /\ now.rec = now.msg
      /\ mode = "clr" => now.kind = "patch"
      /\ mode = "set" => now.kind \in {"idle", "trigger"}
      /\ now.kind = "trigger" => mode = "set"
      /\ mode = "dret" => dbg /\ now.kind = "idle"
      /\ mode = "set" => ~dbg
      /\ writes = "gpr" => ~now.g
      /\ Process([Rec(writes, FALSE) EXCEPT !.last_uop = TRUE, !.last_insn = last_insn,
                                            !.set = mode = "set", !.clr = mode = "clr",
                                            !.dret = mode = "dret"],
                 [tag |-> tag, excp |-> now.kind = "excp" /\ ~dbg, error |-> now.error, session |-> now.kind = "patch",
                  own |-> <<now.g \/ writes = "gpr", now.v + (IF writes = "vr" THEN 1 ELSE 0),
                            now.c + (IF writes = "csr" THEN 1 ELSE 0)>>])
      /\ ord' = ord + 1
      /\ now' = IF (inpatch \/ mode = "set") /\ mode # "clr"
                THEN [Idle EXCEPT !.kind = "patch", !.tag = tag] ELSE Idle
      /\ dbg' = (dbg /\ mode # "dret")

\* An exception: the trapping uop's record and its trap message, in any order.
TrapRecord ==
  /\ ord <= MaxRecords
  /\ now.kind \in {"idle", "uops"} \/ (now.kind = "excp" /\ ~now.rec)
  /\ Process([Rec("none", FALSE) EXCEPT !.trap = TRUE], [tag |-> 0])
  /\ ord' = ord + 1
  /\ now' = [now EXCEPT !.kind = "excp", !.tag = IF dbg THEN OwnOrder ELSE ord,
                        !.pc = "handler", !.rec = TRUE]
  /\ UNCHANGED dbg

TrapMsg ==
  /\ now.kind \in {"idle", "uops"} \/ (now.kind = "excp" /\ ~now.msg)
  /\ ord <= MaxRecords
  /\ Trap("excp", "standard", IF now.rec THEN now.tag ELSE ord, now.pc)
  /\ now' = [now EXCEPT !.kind = "excp", !.tag = IF now.rec \/ dbg THEN @ ELSE ord,
                        !.pc = "handler", !.msg = TRUE]
  /\ UNCHANGED <<ord, dbg, instr, groups>>

\* An interrupt or an NMI between instructions, in a patch, or instead of the
\* handler of an exception or of the repetition of a vector instruction.
Interrupt(kind, cause) ==
  /\ now.rec = now.msg /\ now.uops = 0 /\ ~dbg
  /\ now.kind \in {"idle", "excp", "trigger", "patch", "cmode"}
  /\ Trap(kind, cause, 0, now.pc)
  /\ now' = IF now.kind \in {"trigger", "patch"} THEN now ELSE [Idle EXCEPT !.kind = "intr", !.pc = "handler"]
  /\ UNCHANGED <<ord, dbg, instr, groups>>

\* A halt request, or the exception of a single step: the next record is the
\* first in debug mode.
Halt(kind) ==
  /\ now = Idle /\ ~dbg
  /\ Trap(kind, "debug", 0, now.pc)
  /\ now' = [Idle EXCEPT !.kind = "intr", !.pc = "handler"] /\ dbg' = TRUE
  /\ UNCHANGED <<ord, instr, groups>>

PatchTrap ==
  /\ now.kind = "idle" /\ ~dbg /\ ord <= MaxRecords
  /\ Trap("excp", "patch", ord, now.pc)
  /\ ord' = ord + 1 /\ now' = [Idle EXCEPT !.kind = "trigger", !.tag = ord]
  /\ UNCHANGED <<dbg, instr, groups>>

\* Conservative mode may be entered again for the same instruction.
VecTrap ==
  /\ now.kind \in {"idle", "cmode"} /\ now.uops = 0 /\ ~dbg /\ ord <= MaxRecords
  /\ Trap("excp", "cmode", ord, now.pc)
  /\ ord' = ord + 1
  /\ now' = [now EXCEPT !.kind = "cmode", !.tag = IF now.kind = "cmode" THEN @ ELSE ord]
  /\ UNCHANGED <<dbg, instr, groups>>

m_csri ==
  /\ groups.updates < 2
  /\ IF Gated(r) THEN UNCHANGED <<r, groups>>
     ELSE /\ r' = [r EXCEPT !.hw_csrs_ = @ + 1]
          /\ groups' = [groups EXCEPT !.updates = @ + 1]
  /\ UNCHANGED <<ord, now, dbg, instr>>

\* m_drain, m_disable_checks, an error or the memory checks at the end.
Terminate == r' = [r EXCEPT !.terminated_ = TRUE] /\ UNCHANGED <<ord, now, dbg, instr, groups>>

Writes == {"none", "gpr", "vr", "csr"}

RvfiNext ==
  \/ m_reset
  \/ ~r.in_reset_ /\
     \/ \E w \in Writes, e \in BOOLEAN : Uop(w, e)
     \/ \E w \in Writes, mode \in {"none", "set", "clr", "dret"}, l \in BOOLEAN : LastUop(w, mode, l)
     \/ TrapRecord \/ TrapMsg \/ PatchTrap \/ VecTrap \/ m_csri \/ Terminate
     \/ \E k \in {"intr", "nmi"} : Interrupt(k, "standard")
     \/ \E k \in {"intr", "excp"} : Halt(k)

RvfiSpec == RvfiInit /\ [][RvfiNext]_rvfiVars
-----------------------------------------------------------------------------
\* Every instruction is stepped under the tag that its memory operations have
\* and with the writes and the bus error of its own uops; tags never go back
\* and only the records of one patch session share one (rvfi::make_instr).
TagAndWrites ==
  /\ instr.tag = instr.had /\ instr.wrote = instr.own
  /\ instr.erred => instr.error
  /\ instr.before <= instr.tag
  /\ instr.before = instr.tag /\ instr.tag # 0 => instr.session

\* Every instruction and every hardware CSR update is in one group.
InOneGroup ==
  /\ groups.instrs + r.instrs_ = groups.sent
  /\ groups.csrs + r.hw_csrs_ = groups.updates

\* Both: no uop, trap or CSR update of the core is lost or given to another
\* instruction on its way to the bridge (rvfi::make_instr, m_rvfi, m_trap).
OneTagOwnWrites == TagAndWrites /\ InOneGroup
=============================================================================
