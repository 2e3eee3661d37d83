---------------------------- MODULE BridgeTraps ----------------------------
(***************************************************************************)
(* Traps in the bridge between the core under test (DUT) and Whisper       *)
(* (src/cosim/bridge/bridge.cpp).  Interrupt pins reach Whisper at once,   *)
(* the core sees them later and reports its traps later still.  Whisper is *)
(* therefore told to defer every interrupt until the core reports one; the *)
(* bridge must then let Whisper take that one and no other.                *)
(*                                                                         *)
(* The handlers run to completion on the single simulation thread: each is *)
(* one operator on the record s of the bridge's members and of Whisper's   *)
(* trap state, applied in the order of the calls.  Causes are numbers, the *)
(* lower the more urgent; a virtual interrupt is a cause of its own.       *)
(***************************************************************************)
EXTENDS Naturals, FiniteSetsExt

CONSTANTS Causes,              \* a finite set of positive numbers
          max_pend_intr_age,
          Modes,               \* "patch", "debug", "nmi": what the run has
          MaxSteps             \* retires in a behaviour

VARIABLES s,        \* bridge and Whisper
          pin,      \* the interrupt pins
          commit,   \* the trap that the core has committed to, or None
          moved,    \* pins that toggled since the last retire
          shown,    \* retires since the core's mip shows each interrupt
          due,      \* the core takes a pending interrupt with its next retire
          ie, nmie, \* the core takes interrupts, NMIs
          dbg,      \* the core is in debug mode
          n         \* retires so far

vars == <<s, pin, commit, moved, shown, due, ie, nmie, dbg, n>>

None == 0
Nmi == 99                            \* no member of Causes
Untracked == max_pend_intr_age + 2   \* no entry in the map of ages

Top(causes) == IF causes = {} THEN None ELSE Min(causes)
Toggled(a, b) == (a \ b) \cup (b \ a)
Timeouts == {"interrupt timeout", "NMI timeout"}
Older(age) == IF age < max_pend_intr_age + 1 THEN age + 1 ELSE age
Alarm(t, why) == [t EXCEPT !.error = @ \cup {why}]

Start ==
  [mip |-> {}, defer |-> {}, wie |-> TRUE,                    \* Whisper
   nmi |-> FALSE, defer_nmi |-> FALSE, wnmie |-> TRUE,
   took |-> None, xret |-> FALSE,                             \* its last step
   dut_mip_ |-> {}, prev |-> {}, latest |-> {}, last_step |-> {}, changed |-> {},
   during_ucode |-> {}, partially |-> FALSE, undeferred |-> FALSE,
   age |-> [c \in Causes |-> Untracked], clr_age |-> [c \in Causes |-> Untracked],
   restored |-> {}, restore_at_exit |-> FALSE, at_exit |-> None,
   nmi_age |-> 0, nmi_at_exit |-> FALSE,
   patch |-> "NO_PATCH", debug |-> FALSE, skip_de |-> FALSE, error |-> {}]
-----------------------------------------------------------------------------
(* Whisper, as the bridge uses it.                                         *)

\* CheckInterrupt looks at the pending bits and not at the deferral.
check_interrupt(t) == IF t.wie /\ t.wnmie /\ ~t.debug THEN Top(t.mip) ELSE None

defer_interrupt(t, mip) == [t EXCEPT !.defer = mip]

defer_nmi(t, nmip) == [t EXCEPT !.defer_nmi = nmip]

\* poke_nmi and clear_nmi.
poke_nmi(t, valid) == [t EXCEPT !.nmi = valid]

\* What the bridge last wrote to mip is the latest that it knows of it.
poke_mip(t, mip) == [t EXCEPT !.mip = mip, !.latest = mip]

\* A step takes the NMI or the most urgent interrupt that is not deferred, or
\* executes the instruction.
step(t, d) ==
  LET c == CASE t.debug \/ ~t.wnmie -> None
             [] t.nmi /\ ~t.defer_nmi -> Nmi
             [] t.wie -> Top(t.mip \ t.defer)
             [] OTHER -> None
      ret == c = None /\ d.kind = "xret"
  IN  [t EXCEPT !.took = c, !.xret = ret,
                !.wie = IF c \in Causes THEN FALSE ELSE @ \/ (ret /\ t.wnmie),
                !.wnmie = IF c = Nmi THEN FALSE ELSE @ \/ ret]
-----------------------------------------------------------------------------
(* Pins and reports of the core's mip.                                     *)

check_mip_change(t) == [t EXCEPT !.changed = @ \cup Toggled(t.prev, t.latest)]

check_and_defer_interrupt(t, mip, ucode) ==
  LET c == check_interrupt(t)
  IN  IF c = None THEN t
      ELSE [defer_interrupt(t, t.defer \cup mip \cup {c}) EXCEPT
              !.during_ucode = IF ucode THEN @ \cup Toggled(t.prev, t.latest) ELSE @,
              !.age[c] = IF @ = Untracked THEN 0 ELSE @,
              !.prev = t.latest]

\* process_dut_mtip, and with a rising level poke_non_standard_interrupt,
\* process_counter_overflow, poke_time_csr and process_imsic_msi: Whisper's
\* mip follows and what changed is deferred.
process_dut_mtip(t, mip, ucode) ==
  check_and_defer_interrupt(check_mip_change(poke_mip([t EXCEPT !.prev = t.mip], mip)), mip, ucode)

\* process_dut_interrupt: the core reports its mip.
process_dut_interrupt(t, mip) ==
  [t EXCEPT !.dut_mip_ = mip,
            !.clr_age = [c \in Causes |-> IF c \in t.dut_mip_ \ mip THEN 1 ELSE @[c]]]

\* process_dut_nmi: Whisper defers a new NMI, too.
process_dut_nmi(t, valid) ==
  LET u == poke_nmi([t EXCEPT !.nmi_age = 0], valid)
  IN  IF valid THEN defer_nmi(u, TRUE) ELSE u
-----------------------------------------------------------------------------
(* A retire.  d: kind is "plain", "xret", "intr", "nmi" or "halt" (the     *)
(* exception that enters debug mode), cause that of the interrupt, nmie    *)
(* the core's mnstatus.NMIE, dbg and vector: retired in debug mode, at its *)
(* entry vector.                                                           *)

\* Its last test reads the opcode of a step that is still to come and never
\* finds an xRET there.
pre_step_nmi_check(t, d) ==
  IF d.kind # "nmi" /\ t.nmi /\ ~t.debug /\ t.patch # "IN_PATCH" /\ d.nmie
  THEN LET u == [t EXCEPT !.nmi_age = Older(@)]
       IN  IF u.nmi_age > max_pend_intr_age THEN Alarm(u, "NMI timeout") ELSE u
  ELSE IF d.kind = "nmi" /\ ~t.debug /\ t.patch # "IN_PATCH"
       THEN defer_nmi(t, FALSE) ELSE t

dut_pending_recently(t, c) == c \in t.dut_mip_ \/ t.clr_age[c] <= max_pend_intr_age

Reraise(t, c) ==
  IF c = check_interrupt(t) THEN t
  ELSE IF c \in t.mip THEN [t EXCEPT !.latest = t.mip]
  ELSE poke_mip([t EXCEPT !.restored = @ \cup {c}], t.mip \cup {c})

\* The trap that the core reports may be of an interrupt that Whisper has
\* lost since: it is raised again for this step.
pre_step_trap_pending_restore(t, d) ==
  CASE t.patch = "ENTER_PATCH" ->
         [t EXCEPT !.restore_at_exit = d.kind = "intr" /\ dut_pending_recently(t, d.cause)]
    [] t.patch = "EXIT_PATCH" ->
         IF t.at_exit = None \/ ~t.restore_at_exit THEN t
         ELSE Reraise([t EXCEPT !.restore_at_exit = FALSE], t.at_exit)
    [] t.patch = "NO_PATCH" /\ d.kind = "intr" ->
         IF dut_pending_recently(t, d.cause) THEN Reraise(t, d.cause) ELSE t
    [] OTHER -> t

Aging(t) ==
  LET c == check_interrupt(t)
  IN  IF c \in t.dut_mip_
      THEN [t EXCEPT !.age[c] = IF @ = Untracked THEN 1 ELSE Older(@)]
      ELSE t

KeepAges(t, kept) ==
  [t EXCEPT !.age = [c \in Causes |-> IF c \in kept THEN @[c] ELSE Untracked]]

\* MUTANT of Undefer: what came after the last retire is undeferred as well.
UndeferAll(t, d) == KeepAges(defer_interrupt([t EXCEPT !.changed = {}], {}), {})

\* The core takes d.cause: everything is undeferred but what was raised
\* during the core's microcode or after its last retire.
Undefer(t, d) ==
  LET kept == (t.during_ucode \cup t.changed) \ {d.cause}
  IN  KeepAges(
        defer_interrupt(
          [t EXCEPT !.during_ucode = @ \ {d.cause}, !.changed = {},
                    !.partially = @ \/ kept # {}], kept), kept)

\* After an xRET Whisper must take what is pending, except what came since.
UndeferAfterXret(t) ==
  LET kept == Toggled(t.latest, t.last_step) \cup t.changed
      u == IF t.patch = "NO_PATCH" /\ t.xret
           THEN [defer_interrupt(t, kept) EXCEPT !.undeferred = TRUE] ELSE t
      v == IF u.undeferred THEN KeepAges(u, u.defer) ELSE u
  IN  [v EXCEPT !.last_step = t.latest, !.changed = {}]

pre_step_interrupt_process(t, d) ==
  LET older == [t EXCEPT !.clr_age = [c \in Causes |->
                           IF @[c] = Untracked THEN @[c] ELSE Older(@[c])]]
      aged == Aging(pre_step_trap_pending_restore(older, d))
  IN  IF d.kind = "intr" THEN Undefer(aged, d) ELSE UndeferAfterXret(aged)

\* At the exit of a patch that a trap entered, Whisper takes that trap.
pre_step_patch_exit_trap_select(t) ==
  CASE t.nmi_at_exit -> defer_nmi(defer_interrupt(t, t.mip \cup t.defer), FALSE)
    [] t.at_exit # None /\ ~t.nmi_at_exit ->
         defer_nmi(defer_interrupt(t, (t.mip \cup t.defer) \ {t.at_exit}), t.nmi)
    [] OTHER -> t

\* MUTANT of DropRestored: after the early return of the exit of a patch.
DropUnpatched(t) ==
  IF t.restored = {} \/ t.patch = "EXIT_PATCH" THEN t
  ELSE poke_mip([t EXCEPT !.restored = {}], t.mip \ t.restored)

DropRestored(t) ==
  IF t.restored = {} THEN t ELSE poke_mip([t EXCEPT !.restored = {}], t.mip \ t.restored)

AgeCheck(t) ==
  IF \E c \in Causes : t.age[c] # Untracked /\ t.age[c] > max_pend_intr_age
  THEN Alarm(t, "interrupt timeout")
  ELSE LET u == [t EXCEPT !.during_ucode = {}, !.prev = t.latest]
       IN  IF ~t.partially THEN u
           ELSE KeepAges(defer_interrupt([u EXCEPT !.partially = FALSE], {}), {})

\* The interrupt, not an NMI, that Whisper's step took.
TookIntr(t) == IF t.took = Nmi THEN None ELSE t.took

post_step_nmi_check(t, d) ==
  CASE t.patch = "EXIT_PATCH" /\ t.nmi_at_exit ->
         [IF t.took = Nmi THEN t ELSE Alarm(t, "NMI at patch exit") EXCEPT !.nmi_at_exit = FALSE]
    [] d.kind = "nmi" /\ t.took # Nmi ->
         IF t.patch = "ENTER_PATCH" THEN [t EXCEPT !.nmi_at_exit = TRUE]
         ELSE Alarm(t, "DUT took NMI, Whisper did not")
    [] d.kind # "nmi" /\ t.took = Nmi /\ ~t.debug /\ t.patch # "IN_PATCH"
       /\ ~(t.patch = "EXIT_PATCH" /\ t.nmi_at_exit) ->
         Alarm(t, "Whisper took NMI, DUT did not")
    [] OTHER -> t

post_step_interrupt_check(t0, d) ==
  LET t == DropRestored(t0)
  IN  CASE t.patch = "EXIT_PATCH" /\ t.at_exit # None ->
             [IF TookIntr(t) = t.at_exit THEN t ELSE Alarm(t, "patch exit") EXCEPT
                !.at_exit = None]
        [] d.kind = "intr" /\ TookIntr(t) = None /\ t.patch = "ENTER_PATCH" ->
             [t EXCEPT !.at_exit = d.cause]
        [] d.kind = "intr" /\ TookIntr(t) = None /\ t.patch # "ENTER_PATCH" ->
             Alarm(t, "DUT took interrupt, Whisper did not")
        [] t.undeferred /\ ~(d.kind = "intr" /\ TookIntr(t) = None) ->
             [IF d.kind # "intr" /\ TookIntr(t) # None
              THEN Alarm(t, "Whisper took interrupt, DUT did not after xRET") ELSE t EXCEPT
                !.undeferred = FALSE]
        [] OTHER ->
             IF d.kind = "intr" /\ TookIntr(t) # d.cause THEN Alarm(t, "cause mismatch")
             ELSE AgeCheck(t)

\* The comparison of the program counters catches the rest; at the exit of a
\* patch it follows the core instead.
compare(t, d) ==
  IF t.patch = "NO_PATCH" /\
     t.took # (CASE d.kind = "intr" -> d.cause [] d.kind = "nmi" -> Nmi [] OTHER -> None)
  THEN Alarm(t, "pc") ELSE t

PatchStep(t) ==
  CASE t.patch = "ENTER_PATCH" -> [t EXCEPT !.patch = "IN_PATCH"]
    [] t.patch = "EXIT_PATCH" ->
         defer_nmi(defer_interrupt([t EXCEPT !.patch = "NO_PATCH"], {}), FALSE)
    [] OTHER -> t

Stepped(t, d) ==
  IF t.patch \in {"NO_PATCH", "EXIT_PATCH"}
  THEN step(IF t.patch = "EXIT_PATCH" THEN pre_step_patch_exit_trap_select(t) ELSE t, d)
  ELSE [t EXCEPT !.took = None, !.xret = FALSE]

enter_debug_mode(t) == [t EXCEPT !.debug = TRUE]

exit_debug_mode(t) == defer_nmi(defer_interrupt([t EXCEPT !.debug = FALSE], {}), FALSE)

CheckRetire(t, d) ==
  LET pre == pre_step_interrupt_process(pre_step_nmi_check(t, d), d)
  IN  PatchStep(compare(post_step_interrupt_check(
                  post_step_nmi_check(Stepped(pre, d), d), d), d))

\* With +debugrom: entering debug mode steps nothing; a patch that ends in
\* debug mode is not checked, nor anything up to the debug vector; the first
\* retire outside debug mode takes Whisper out of it.
process_dut_instr_retire(t, d) ==
  CASE d.kind = "halt" -> enter_debug_mode(t)
    [] d.kind # "halt" /\ t.patch = "EXIT_PATCH" /\ d.dbg ->
         [t EXCEPT !.at_exit = None, !.nmi_at_exit = FALSE, !.skip_de = TRUE,
                   !.patch = "NO_PATCH", !.debug = TRUE]
    [] OTHER ->
         IF t.skip_de /\ ~d.vector THEN t
         ELSE LET u == [t EXCEPT !.skip_de = FALSE]
              IN  CheckRetire(IF u.debug /\ ~d.dbg THEN exit_debug_mode(u) ELSE u, d)
-----------------------------------------------------------------------------
(* The core: its mip follows the pins, it commits to the most urgent       *)
(* interrupt of its mip, and reports the trap with its next retire.        *)

Init ==
  /\ s = Start /\ pin = {} /\ commit = None /\ moved = {}
  /\ shown = [c \in Causes |-> 0] /\ due = FALSE
  /\ ie = TRUE /\ nmie = TRUE /\ dbg = FALSE /\ n = 0

\* No pin moves between a core's leaving of debug mode and its next retire.
Pin(c, ucode) ==
  LET p == IF c \in pin THEN pin \ {c} ELSE pin \cup {c}
  IN  /\ c \notin moved /\ s.debug = dbg
      /\ pin' = p /\ moved' = moved \cup {c}
      /\ s' = process_dut_mtip(s, p, ucode)
      /\ UNCHANGED <<commit, shown, due, ie, nmie, dbg, n>>

\* The handler clears the NMI.
NmiPin ==
  /\ "nmi" \in Modes /\ s.debug = dbg /\ commit # Nmi
  /\ s.nmi => ~nmie /\ ~s.wnmie
  /\ s' = process_dut_nmi(s, ~s.nmi)
  /\ UNCHANGED <<pin, commit, moved, shown, due, ie, nmie, dbg, n>>

Report ==
  /\ pin # s.dut_mip_
  /\ s' = process_dut_interrupt(s, pin)
  /\ shown' = [c \in Causes |-> IF c \in pin THEN shown[c] ELSE 0]
  /\ UNCHANGED <<pin, commit, moved, due, ie, nmie, dbg, n>>

Settled == Toggled(pin, s.dut_mip_) \subseteq moved
Takes == s.patch = "NO_PATCH" /\ ~dbg /\ nmie

Commit ==
  /\ commit = None /\ Takes /\ Settled
  /\ \/ s.nmi /\ commit' = Nmi
     \/ ie /\ s.dut_mip_ # {} /\ ~(due /\ s.nmi) /\ commit' = Top(s.dut_mip_)
  /\ UNCHANGED <<s, pin, moved, shown, due, ie, nmie, dbg, n>>

\* A pin that has not moved since the last retire is in the core's mip, and
\* the core takes an interrupt in time: at once after an xRET, a patch or
\* debug mode.  to is the patch mode that the retire announces.
Retire(kind, to, vector) ==
  /\ n < MaxSteps
  /\ <<s.patch, to>> \in {<<"NO_PATCH", "NO_PATCH">>, <<"NO_PATCH", "ENTER_PATCH">>,
                         <<"IN_PATCH", "IN_PATCH">>, <<"IN_PATCH", "EXIT_PATCH">>}
  /\ to # "NO_PATCH" => "patch" \in Modes
  /\ Settled
  /\ kind = "intr" <=> commit \in Causes
  /\ kind = "nmi" <=> commit = Nmi
  /\ kind = "xret" => to = "NO_PATCH" /\ ~dbg
  /\ kind = "halt" => /\ "debug" \in Modes /\ ~dbg /\ to \in {"NO_PATCH", "IN_PATCH"}
                      /\ s.at_exit = None /\ ~s.nmi_at_exit
  /\ to = "ENTER_PATCH" => ~dbg
  /\ vector => s.skip_de
  /\ Takes /\ commit = None => /\ ~(ie /\ s.dut_mip_ # {} /\ (due \/
                                    \E c \in Causes : shown[c] >= max_pend_intr_age))
                             /\ ~(s.nmi /\ due)
  /\ s' = process_dut_instr_retire([s EXCEPT !.patch = to],
            [kind |-> kind, cause |-> commit, nmie |-> nmie, dbg |-> dbg, vector |-> vector])
  /\ commit' = None /\ moved' = {} /\ n' = n + 1
  /\ ie' = IF kind = "intr" THEN FALSE ELSE ie \/ (kind = "xret" /\ nmie)
  /\ nmie' = IF kind = "nmi" THEN FALSE ELSE nmie \/ kind = "xret"
  /\ dbg' = (dbg \/ kind = "halt")
  /\ due' = (kind = "xret" \/ to = "EXIT_PATCH")
  /\ shown' = [c \in Causes |-> IF c = commit THEN 0
                               ELSE IF c \in s.dut_mip_ THEN Older(shown[c]) ELSE 0]
  /\ UNCHANGED pin

\* dret: the core leaves debug mode, what it retires next is outside.
LeaveDebug ==
  /\ dbg /\ s.debug /\ ~s.skip_de /\ s.patch = "NO_PATCH" /\ Settled /\ moved = {}
  /\ pin = s.dut_mip_
  /\ dbg' = FALSE /\ due' = TRUE
  /\ UNCHANGED <<s, pin, commit, moved, shown, ie, nmie, n>>

\* An error ends the test.
Next ==
  /\ s.error = {}
  /\ \/ \E c \in Causes, ucode \in BOOLEAN : Pin(c, ucode)
     \/ NmiPin
     \/ Report
     \/ Commit
     \/ LeaveDebug
     \/ \E kind \in {"plain", "xret", "intr", "nmi", "halt"}, vector \in BOOLEAN,
           to \in {"NO_PATCH", "ENTER_PATCH", "IN_PATCH", "EXIT_PATCH"} :
           Retire(kind, to, vector)

Spec == Init /\ [][Next]_vars
-----------------------------------------------------------------------------
\* With a core that takes the most urgent interrupt of its mip in time, the
\* bridge and Whisper agree with it: no alarm is raised over a trap, whatever
\* pins move between its commit and its report, across patch sessions, xRETs
\* and debug mode (process_dut_instr_retire).  Timeouts are another matter.
NoFalseAlarm == s.error \subseteq Timeouts

\* Between handlers Whisper's mip is what the pins say: a bit that was raised
\* again for the step of a trap does not outlive it, and outside a patch
\* Whisper has the core's interrupt enables (trap_restored_mip_).
WhisperInStep ==
  s.error = {} =>
    /\ s.restored = {} /\ s.mip = pin
    /\ s.patch = "NO_PATCH" => s.wie = ie /\ s.wnmie = nmie

=============================================================================
