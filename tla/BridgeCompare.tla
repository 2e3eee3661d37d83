--------------------------- MODULE BridgeCompare ---------------------------
(***************************************************************************)
(* What one bridge compares after every Whisper step, and how it puts      *)
(* Whisper right again (src/cosim/bridge/bridge.cpp).                      *)
(*                                                                         *)
(* Values are abstracted to agreement: drift holds the registers in which  *)
(* Whisper and the core differ.  An instruction writes dst; its two        *)
(* results differ when the core is wrong, and may differ when a source has *)
(* drifted or when the value is one that Whisper cannot predict (where).   *)
(* The core architecture checker (CAC) is external: its Step fails when    *)
(* the two sides set a register to different values, or only one sets it.  *)
(***************************************************************************)
EXTENDS Naturals, FiniteSets

CONSTANTS Gpr, Fpr, Vr,     \* registers, by file
          Checked, Skipped, \* compared CSRs outside and on cosim_resynch_csr_defaults
          mip_resynch_threshold,
          Modes,            \* subset of {"step", "resynch", "period", "psc"}
          MaxRetires,       \* bound, for each mode
          MaxWrong

ASSUME FilesAssumption ==
  /\ Gpr \cap Fpr = {} /\ Gpr \cap Vr = {} /\ Fpr \cap Vr = {}
  /\ Checked \cap Skipped = {}
  /\ "none" \notin Gpr \cup Fpr \cup Vr \cup Checked \cup Skipped
ASSUME ThresholdAssumption == mip_resynch_threshold \in Nat

VARIABLES b,                \* the bridge
          drift,            \* registers in which Whisper differs
          pend,             \* CSRs in which the CSR checker's two sides differ
          age,              \* retires since the core's mip moved
          retires,          \* so far
          ghost             \* history: wrong results; registers that may differ (blind);
                            \* Whisper was left behind (lost); CSR mismatches let pass
                            \* (missed) and the excuses for them (excused)

compareVars == <<b, drift, pend, age, retires, ghost>>

Regs == Gpr \cup Fpr \cup Vr
Csrs == Checked \cup Skipped
None == "none"

\* "period": +cosim_period; "psc": with it, +psc_compare_only=0.
Periodic(q) == q.mode \in {"period", "psc"}

\* A load from a device is named by resynch_on_pa, the others by
\* resynch_on_instr; "intr" reads one of interrupt_csrs_to_resynch_.
Device == {"device", "device_amo", "device_fault"}
Faulted(d) == d.where \in {"fault", "device_fault"}

\* more: the registers that periodic checks have added to the record.
NoRecord == [dst |-> None, csr |-> None, where |-> "plain", cancelled |-> FALSE, more |-> {}]

Start(mode) ==
  [mode |-> mode, patch_mode_ |-> "NO_PATCH", resynch_csr_ |-> FALSE,
   pd_ |-> NoRecord, error |-> {}]
-----------------------------------------------------------------------------
(* Putting Whisper right.  A state is [q |-> bridge, drift |-> registers]. *)

\* The age of the differing mip bits: unknown bits and old ones do not count.
is_match(old) == old <= mip_resynch_threshold

\* The two values come with the checker's mismatch; without one there is none.
intr_csrs_mismatch(d, old, mismatch) == d.where = "intr" /\ mismatch /\ is_match(old)

resynch_on_pa(d) == d.where \in Device

resynch_on_instr(d, old, mismatch) ==
  d.where \in {"counter", "custom_csr"} \/ intr_csrs_mismatch(d, old, mismatch)

\* MUTANT of resynch_needed: a mismatch on an instruction that resynchronises
\* by its mnemonic is not told from one of its address.
ResynchDevicesOnly(q, d, old, mismatch) == resynch_on_pa(d)

resynch_needed(q, d, old, mismatch) ==
  \/ resynch_on_pa(d)
  \/ resynch_on_instr(d, old, mismatch)
  \/ d.cancelled /\ q.patch_mode_ # "EXIT_PATCH"

\* The PC, the integer and floating-point registers, memory and the CSRs that
\* the record lists; vector registers are not among them.  A load that faulted
\* lists its destination all the same.
resynch(s, d) ==
  LET poked == (d.more \cup {d.dst}) \cap (Gpr \cup Fpr)
      bad == IF Faulted(d) THEN poked \ d.more ELSE {}
  IN  [q |-> [s.q EXCEPT !.resynch_csr_ = @ \/ d.csr # None],
       drift |-> (s.drift \ poked) \cup bad]

\* After a patch only an integer register loaded from a device is put right.
resynch_whisper_on_patch(s, d) ==
  IF resynch_on_pa(d) /\ d.dst \in Gpr THEN [s EXCEPT !.drift = @ \ {d.dst}] ELSE s

Fail(s, what) == [s EXCEPT !.q.error = @ \cup {what}]

compare_dut_whisper_state(s, d, mismatch, old) ==
  IF mismatch
  THEN IF s.q.mode = "resynch" \/ resynch_needed(s.q, d, old, mismatch) THEN resynch(s, d)
       ELSE IF s.q.patch_mode_ = "EXIT_PATCH" THEN resynch_whisper_on_patch(s, d)
       ELSE Fail(s, "mismatch")
  ELSE IF /\ Periodic(s.q)
          /\ resynch_needed(s.q, d, old, mismatch) /\ d.where # "device_amo"
       THEN resynch(s, [d EXCEPT !.csr = IF d.where = "custom_csr" THEN @ ELSE None])
       ELSE s
-----------------------------------------------------------------------------
(* One retired instruction.                                                *)

CUSTOM_VEC_CMODE == 50     \* generated; one of the custom causes

is_custom_excp(cause) == cause \in 25 .. 55

\* ex: the causes of the core's and of Whisper's exception, 0 for none.
post_step_exception_check(s, d, ex) ==
  IF s.q.patch_mode_ # "NO_PATCH" \/ ex = <<0, 0>> THEN s
  ELSE IF is_custom_excp(ex[1])
  THEN IF ex[1] = CUSTOM_VEC_CMODE THEN resynch(s, d) ELSE s
  ELSE IF ex[1] # ex[2] /\ s.q.mode # "resynch" THEN Fail(s, "exception")
  ELSE s

\* Whisper's step writes its own result into the destination.
WhisperWrote(changed, d, differs) ==
  IF d.dst = None \/ Faulted(d) THEN changed
  ELSE IF differs THEN changed \cup {d.dst} ELSE changed \ {d.dst}

\* Registers are given to the checker outside periodic checks only.  Of a load
\* that took an access fault Whisper writes no register, and the core's side is
\* spared an integer one, but not a floating-point or vector one.
WhisperPushes(q, d) == d.dst # None /\ ~Faulted(d) /\ ~Periodic(q)
CorePushes(q, d) == d.dst # None /\ ~(Faulted(d) /\ d.dst \in Gpr) /\ ~Periodic(q)

\* The PC goes with them; at the exit of a patch Whisper's only.
update_whisper_state(q, d) == [pc |-> TRUE, reg |-> WhisperPushes(q, d)]
update_dut_state(q, d) == [pc |-> q.patch_mode_ # "EXIT_PATCH", reg |-> CorePushes(q, d)]

\* The checker's verdict on the two sides.
Differ(iss, dut, differs) == iss.pc # dut.pc \/ iss.reg # dut.reg \/ (iss.reg /\ differs)

process_dut_instr_retire(s, d, differs, ex, old) ==
  LET w == [s EXCEPT !.drift = WhisperWrote(@, d, differs)]
      x == post_step_exception_check(w, d, ex)
      mismatch == Differ(update_whisper_state(s.q, d), update_dut_state(s.q, d), differs)
      y == compare_dut_whisper_state(x, d, mismatch, old)
  IN  [y EXCEPT !.q.pd_ = IF s.q.mode = "psc" THEN d ELSE @,  \* read in that mode only
                !.q.patch_mode_ = IF @ = "EXIT_PATCH" THEN "NO_PATCH" ELSE @]

\* bad: the CSR the checker names.  One resynchronised CSR excuses the next
\* mismatch, in whichever group that is.
process_dut_instr_group_retire(q, bad) ==
  IF q.patch_mode_ # "NO_PATCH" \/ bad = None THEN q
  ELSE IF q.resynch_csr_ THEN [q EXCEPT !.resynch_csr_ = FALSE]
  ELSE IF bad \in Skipped THEN q
  ELSE [q EXCEPT !.error = @ \cup {"csr"}]

\* process_compare_gp_regs, _fp_regs and _vc_regs, a whole register file.
process_compare_regs(s, file, old) ==
  LET t == [s EXCEPT !.q.pd_.more = @ \cup file]
      mismatch == s.drift \cap file # {}
  IN  IF s.q.mode = "psc" THEN compare_dut_whisper_state(t, t.q.pd_, mismatch, old)
      ELSE IF mismatch THEN Fail(s, "mismatch") ELSE s
-----------------------------------------------------------------------------
(* The core.                                                               *)

CompareInit ==
  /\ b \in {Start(m) : m \in Modes}
  /\ drift = {} /\ pend = {} /\ retires = 0
  /\ age = mip_resynch_threshold + 1
  /\ ghost = [wrong |-> 0, blind |-> {}, lost |-> FALSE, missed |-> 0, excused |-> 0]

Older == IF age > mip_resynch_threshold THEN age ELSE age + 1

\* The registers in which Whisper may differ unnoticed once d has retired: the
\* ones no checker saw, a floating-point register put "right" with the value of
\* a faulted load, and a vector register that a resynchronisation skips.
Blind(d, patch) ==
  IF d.dst = None \/ (Faulted(d) /\ ~Periodic(b) /\ d.dst \notin Fpr) THEN ghost.blind
  ELSE IF \/ patch \/ Periodic(b) \/ Faulted(d)
          \/ d.dst \in Vr /\ (d.where # "plain" \/ d.cancelled \/ b.mode = "resynch")
  THEN ghost.blind \cup {d.dst} ELSE ghost.blind \ {d.dst}

\* Whisper is left with a value that the core, though right, does not have, or
\* the core's side alone reports the destination of a faulted load.
Lost(d, patch, differs) ==
  \/ d.dst \in Vr /\ differs
  \/ Faulted(d) /\ d.dst \in Fpr \cup Vr
  \/ Periodic(b) /\ d.where = "intr" /\ differs
  \/ patch /\ (d.dst \notin Gpr \/ d.cancelled) /\ differs
  \/ Periodic(b) /\ d.where \in {"device_amo", "device_fault"}

Excused(q) == IF q.resynch_csr_ /\ ~b.resynch_csr_ THEN ghost.excused + 1 ELSE ghost.excused

\* An error ends the test.
MayRetire == b.error = {} /\ retires < MaxRetires[b.mode]

\* wrong: the core computes a wrong result.  A right result can differ from
\* Whisper's when Whisper computes it from a register that has drifted.
Retire(d, wrong, differs, csrs_differ, ex, patch) ==
  /\ wrong => ghost.wrong < MaxWrong
  /\ differs => wrong \/ drift # {} \/ d.cancelled
                \/ d.where \in {"device", "device_amo", "counter", "custom_csr"}
                \/ (d.where = "intr" /\ is_match(Older))
  /\ wrong => differs \/ csrs_differ
  /\ differs => d.dst # None
  /\ csrs_differ => d.csr # None /\ wrong
  /\ LET s == [q |-> [b EXCEPT !.patch_mode_ = IF patch THEN "EXIT_PATCH" ELSE @], drift |-> drift]
         t == process_dut_instr_retire(s, d, differs, ex, Older)
     IN  /\ b' = t.q /\ drift' = t.drift
         /\ ghost' = [ghost EXCEPT
              !.wrong = IF wrong \/ (~is_custom_excp(ex[1]) /\ ex[1] # ex[2]) THEN @ + 1 ELSE @,
              !.blind = Blind(d, patch),
              !.lost = @ \/ (~wrong /\ Lost(d, patch, differs)),
              !.excused = Excused(t.q)]
  /\ pend' = IF csrs_differ THEN pend \cup {d.csr} ELSE pend
  /\ age' = Older
  /\ retires' = retires + 1

\* A mip pin moves: process_dut_interrupt starts the bit's age.
MipMoves == age' = 0 /\ age # 0 /\ b.error = {} /\ UNCHANGED <<b, drift, pend, retires, ghost>>

\* The group of the last records ends; the CSR checker compares.
GroupRetire ==
  /\ b.error = {} /\ pend # {}
  /\ \E bad \in pend :
       /\ b' = process_dut_instr_group_retire(b, bad)
       /\ ghost' = [ghost EXCEPT !.missed = IF bad \in Checked /\ b'.error = {} THEN @ + 1 ELSE @]
  /\ pend' = {}
  /\ UNCHANGED <<drift, age, retires>>

\* The vector files are compared by three of their four double words.
PeriodicCompare(file, seen) ==
  /\ Periodic(b) /\ b.error = {} /\ retires > 0
  /\ ~seen => file = Vr /\ b.mode = "period"
  /\ LET s == [q |-> b, drift |-> IF seen THEN drift ELSE drift \ Vr]
         t == process_compare_regs(s, file, age)
     IN  /\ b' = t.q
         /\ drift' = IF seen THEN t.drift ELSE t.drift \cup (drift \cap Vr)
  /\ ghost' = [ghost EXCEPT !.blind = IF file = Vr THEN @ ELSE @ \ file,
                            !.lost = @ \/ b.pd_.where = "device_fault",
                            !.excused = Excused(b')]
  /\ UNCHANGED <<pend, age, retires>>

Record(dst, csr, where, cancelled) ==
  [dst |-> dst, csr |-> csr, where |-> where, cancelled |-> cancelled, more |-> {}]

RegisterRetire ==
  \E dst \in Regs \cup {None}, where \in {"plain", "fault", "device", "device_fault"},
     patch, cancelled, differs \in BOOLEAN : \E wrong \in {FALSE, differs} :
    /\ patch => where \in {"plain", "device"}
    /\ wrong \/ cancelled => where = "plain"
    /\ Retire(Record(dst, None, where, cancelled), wrong, differs, FALSE, <<0, 0>>, patch)

\* CSR instructions and atomics write integer registers.  Whether the core is
\* wrong about a value that Whisper cannot predict makes no difference.
CsrRetire ==
  \E dst \in Gpr \cup {None}, csr \in Csrs \cup {None},
     where \in {"plain", "custom_csr", "counter", "intr", "device_amo"},
     differs, csrs_differ \in BOOLEAN : \E wrong \in {FALSE, differs \/ csrs_differ} :
    /\ csr # None => where \in {"plain", "custom_csr"}
    /\ wrong => where \in {"plain", "custom_csr", "intr"}
    /\ Retire(Record(dst, csr, where, FALSE), wrong, differs, csrs_differ, <<0, 0>>, FALSE)

ExceptionRetire ==
  \E ex \in {<<1, 1>>, <<1, 0>>, <<0, 1>>, <<1, 2>>, <<CUSTOM_VEC_CMODE, 0>>, <<25, 0>>} :
    Retire(NoRecord, FALSE, FALSE, FALSE, ex, FALSE)

CompareNext ==
  \/ MayRetire /\ RegisterRetire
  \/ MayRetire /\ CsrRetire
  \/ MayRetire /\ ExceptionRetire
  \/ MipMoves
  \/ GroupRetire
  \/ \E file \in {Gpr, Fpr, Vr}, seen \in BOOLEAN : PeriodicCompare(file, seen)

CompareSpec == CompareInit /\ [][CompareNext]_compareVars
-----------------------------------------------------------------------------
\* compare_dut_whisper_state: while no mismatch was reported, Whisper differs
\* from the core only in registers that no comparison covered: those written in
\* a patch or between two periodic checks, vector registers that were
\* resynchronised, and floating-point ones resynchronised on a faulted load.
InStep == b.error = {} => drift \subseteq ghost.blind

\* A mismatch is reported only of a core that was wrong, or once Whisper was
\* left with a value the core does not have: by a gap of resynch, by a faulted
\* load of a floating-point or vector register, whose destination update_regs
\* gives to the checker on the core's side only, or by a recent interrupt that
\* one side has read, which no periodic check resynchronises at the read.
NoFalseMismatch == b.error # {} => ghost.wrong > 0 \/ ghost.lost

\* process_dut_instr_group_retire: every wrong CSR that the group check lets
\* pass is paid for by one resynchronised record that listed a CSR.
CsrExcuses == ghost.missed <= ghost.excused

\* The three together: what is not reported was not compared, what is reported
\* was wrong or could not be put right, and excuses are not given twice.
MismatchesFound == InStep /\ NoFalseMismatch /\ CsrExcuses

=============================================================================
