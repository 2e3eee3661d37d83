--------------------------- MODULE IntrSequences ---------------------------
(***************************************************************************)
(* The interrupt stimulus: one external_interrupt_sequence, nmi_sequence   *)
(* and mti_sequence per hart (src/interrupts) and the trickbox's           *)
(* interrupter, through which the running test sends directed MSIs, opens  *)
(* the gate of the random interrupts and lowers the NMI and MTI lines.     *)
(*                                                                         *)
(* The MSIs of all sequences are writes of one AXI master, which has other *)
(* users too.  The model keeps the number of its IDs in use: the check of  *)
(* the back-pressure counts the free ones of all Ids, whereas a request    *)
(* gets its ID from the range of its seqid alone (RangeIds), which is 0    *)
(* for every user in the repository.  A write that finds none is dropped.  *)
(* NMI and MTI levels travel through the callback queue of the hart's      *)
(* location and reach the pin when the simulator drains the queue.  The    *)
(* CSRs send_msi peeks from Whisper are whatever the hart has in them at   *)
(* that moment.                                                            *)
(***************************************************************************)
EXTENDS Integers, Sequences, FiniteSets

CONSTANTS
  FLAGS_num_harts,
  Driven,                         \* the lines under +nmi / +mti=random
  Ids,                            \* IDs of the AXI master
  RangeIds,                       \* those of one seqid, all of them under
                                  \* +axi_disable_seqid_alloc
  FLAGS_imsic_intr,               \* "off", "random" or "uarch_trigger"
  FLAGS_trickbox_write_enables_intr,
  FLAGS_msi_backpressure_threshold,
  FLAGS_msi_backpressure_timeout,
  FLAGS_max_intr_count,
  FLAGS_imsic_vs_id_threshold,
  Files,                          \* the interrupt files that are not disabled
  MaxDelay,                       \* bound: FLAGS_imsic_intr_delay_max, in ticks
  MaxSent,                        \* bound: MSIs sent in a behaviour
  MaxCallbacks                    \* bound: queued callbacks of a hart

\* A draw of a guest file ends only if there are guests enough to draw from.
ASSUME IntrAssumption ==
  /\ FLAGS_num_harts \in Nat \ {0} /\ Ids \in Nat /\ RangeIds \in 0 .. Ids
  /\ MaxDelay \in Nat
  /\ FLAGS_msi_backpressure_threshold \in Nat
  /\ FLAGS_imsic_vs_id_threshold \in Nat /\ FLAGS_imsic_vs_id_threshold >= 5
  /\ FLAGS_trickbox_write_enables_intr \in BOOLEAN /\ Driven \subseteq {"nmi", "mti"}

IntrHarts == 0 .. FLAGS_num_harts - 1

Kinds == {"nmi", "mti"}

VARIABLES
  seq,      \* seq[h]: the members of hart h's external_interrupt_sequence
  out,      \* requests of the AXI master that have no response yet
  intr_enable_flag_,
  cbs,      \* cbs[h]: levels pushed to hart h's location and not driven yet
  lines,    \* lines[h][k]: the level drive_nmi / drive_mti gave the pin
  want,     \* want[h][k]: the level asked for last (history)
  opened,   \* the test has written the enable register (history)
  msi       \* history of the MSIs: random ones, triggers that select a hart,
            \* sends of each kind, a draw that cannot end, an MSI dropped

intrVars == <<seq, out, intr_enable_flag_, cbs, lines, want, opened, msi>>

SeqStart ==
  [drive_msi_in_curr_hart |-> FALSE, deferred |-> FALSE, left |-> MaxDelay,
   msi_wait_timeout_ |-> 0, intr_count_ |-> 0]

MsiStart ==
  [random |-> 0, sent |-> 0, chosen |-> [h \in IntrHarts |-> 0],
   triggered |-> [h \in IntrHarts |-> 0], hung |-> FALSE, directed |-> FALSE, lost |-> FALSE]

IntrInit ==
  /\ seq = [h \in IntrHarts |-> SeqStart]
  /\ out = 0
  /\ intr_enable_flag_ = FALSE
  /\ cbs = [h \in IntrHarts |-> <<>>]
  /\ lines = [h \in IntrHarts |-> [k \in Kinds |-> 0]]
  /\ want = lines
  /\ opened = FALSE
  /\ msi = MsiStart

----------------------------------------------------------------------------
(* Which guest files a VS interrupt goes to.                               *)

VsIds == 1 .. FLAGS_imsic_vs_id_threshold

\* The bug of testing the whole register: vgein's own bit counts as another.
EnabledSecondAny(vgein, hgeie) ==
  {i \in VsIds : i # vgein /\ (hgeie # {} => i \in hgeie)}

\* The second file of a pair, drawn until it is not vgein and, if any other
\* enabled guest exists, is enabled.
EnabledSecond(vgein, hgeie) ==
  {i \in VsIds : i # vgein /\ (hgeie \ {vgein} # {} => i \in hgeie)}

\* The same draw for a guest that is not enabled: 0x3E is the mask 1 .. 5.
DisabledSecond(vgein, hgeie) ==
  {i \in VsIds : i # vgein /\ (hgeie \ {vgein} # (1 .. 5) \ {vgein} => i \notin hgeie)}

\* send_msi with H set and the guest file drawn: the sequences of files it can
\* write, one or two writes.  A draw with no candidate never ends, which is the
\* empty set here.
VgeinWrites(vgein, hgeie) ==
  << {<<vgein>>},
     {<<i>> : i \in VsIds \ {vgein}},
     {<<vgein, i>> : i \in EnabledSecond(vgein, hgeie)},
     {<<vgein, i>> : i \in DisabledSecond(vgein, hgeie)} >>

\* The four branches of the draw, each a set of possible writes; the M and S
\* files and the VS file without H take one write.
send_msi(file, disable_vs_id_rand, misaH, vgein, hgeie) ==
  IF file = "VS" /\ misaH /\ ~disable_vs_id_rand
  THEN VgeinWrites(vgein, hgeie) ELSE << {<<0>>} >>

\* What a branch of the draw comes to: the number of writes the master gets, or
\* that the handler never returns.
Outcome(draw) ==
  [writes |-> IF draw = {} THEN 0 ELSE Len(CHOOSE w \in draw : TRUE), hangs |-> draw = {}]

\* What one send can come to, whatever misa, hstatus and hgeie hold; only the
\* guest files depend on them.
Outcomes(file, disable) ==
  UNION {{Outcome(send_msi(file, disable, misaH, vgein, hgeie)[b]) :
            b \in DOMAIN send_msi(file, disable, misaH, vgein, hgeie)}
         : misaH \in BOOLEAN, vgein \in IF file = "VS" THEN 0 .. 5 ELSE {0},
           hgeie \in IF file = "VS" THEN SUBSET (1 .. 5) ELSE {{}}}

----------------------------------------------------------------------------
(* Back-pressure.                                                          *)

\* count_free_ids, and the IDs next_id can still give.
FreeIds == Ids - out

RangeFree == RangeIds - out

Backpressured ==
  /\ FLAGS_msi_backpressure_threshold > 0
  /\ FreeIds <= FLAGS_msi_backpressure_threshold

\* check_axi_backpressure: the count of checks that found room.  From the
\* timeout on each of them logs an error and lets its MSI through, so the count
\* stays there.
check_axi_backpressure(s) ==
  IF FLAGS_msi_backpressure_threshold = 0 THEN s
  ELSE IF Backpressured THEN [s EXCEPT !.msi_wait_timeout_ = 0]
  ELSE [s EXCEPT !.msi_wait_timeout_ =
          IF @ = FLAGS_msi_backpressure_timeout THEN @ ELSE @ + 1]

----------------------------------------------------------------------------
(* The external interrupt sequence.                                        *)

\* A send of hart h's sequence, whose members become s and history m.
Send(h, file, disable, s, m) ==
  /\ m.sent < MaxSent
  /\ \E o \in Outcomes(file, disable) :
       /\ out' = out + (IF o.writes <= RangeFree THEN o.writes ELSE RangeFree)
       /\ seq' = [seq EXCEPT ![h] = s]
       /\ msi' = [m EXCEPT !.sent = @ + 1, !.hung = o.hangs, !.directed = FALSE,
                           !.lost = @ \/ (~m.directed /\ o.writes > RangeFree)]

\* The gate of the random interrupts, read over the interrupter's RPC.
IntrEnabled == FLAGS_trickbox_write_enables_intr => intr_enable_flag_

LimitReached(s) ==
  FLAGS_max_intr_count > 0 /\ s.intr_count_ > FLAGS_max_intr_count

\* The tick of sysmod: only hart 0's sequence is connected to it.
on_sysmod_tick ==
  LET s == [seq[0] EXCEPT !.left = IF @ = 0 THEN 0 ELSE @ - 1]
      c == check_axi_backpressure(s)
  IN /\ UNCHANGED <<intr_enable_flag_, cbs, lines, want, opened>>
     /\ \/ /\ \/ FLAGS_imsic_intr # "random" \/ ~IntrEnabled
              \/ LimitReached(s) \/ s.left > 0
           /\ seq' = [seq EXCEPT ![0] = s]
           /\ UNCHANGED <<out, msi>>
        \/ /\ FLAGS_imsic_intr = "random" /\ IntrEnabled
           /\ ~LimitReached(s) /\ s.left = 0
           /\ IF Backpressured \/ Files = {}
              THEN seq' = [seq EXCEPT ![0] = c] /\ UNCHANGED <<out, msi>>
              ELSE \E file \in Files, d \in 1 .. MaxDelay :
                     Send(0, file, FALSE,
                          [c EXCEPT !.left = d,
                             !.intr_count_ = IF FLAGS_max_intr_count > 0 THEN @ + 1 ELSE @],
                          [msi EXCEPT !.random = @ + 1])

\* The test writes the interrupter's base: one MSI of its choosing, which
\* neither the limit nor the back-pressure holds back.  Any file but the three
\* is an error, and the master gets nothing.
on_directed_msi ==
  /\ \/ \E file \in {"M", "S", "VS"}, disable \in BOOLEAN :
          Send(0, file, disable, seq[0], [msi EXCEPT !.directed = TRUE])
     \/ UNCHANGED <<seq, out, msi>>
  /\ UNCHANGED <<intr_enable_flag_, cbs, lines, want, opened>>

\* The trigger block names the harts it selects; each sequence keeps whether it
\* is the only one.
capture_trigger_info(sel) ==
  /\ FLAGS_imsic_intr = "uarch_trigger"
  /\ seq' = [h \in IntrHarts |-> [seq[h] EXCEPT !.drive_msi_in_curr_hart = (sel = {h})]]
  /\ UNCHANGED <<out, intr_enable_flag_, cbs, lines, want, opened, msi>>

\* interrupt_trigger of hart h resumes at a delayed trigger tick: it either
\* reads the flag, or is in the back-pressure loop and does not look again.
interrupt_trigger(h) ==
  LET s == seq[h]
      c == check_axi_backpressure(s)
      fresh == ~s.deferred /\ s.drive_msi_in_curr_hart
      m == [msi EXCEPT !.chosen[h] = IF fresh THEN @ + 1 ELSE @]
  IN /\ FLAGS_imsic_intr = "uarch_trigger"
     /\ s.deferred \/ s.drive_msi_in_curr_hart
     /\ IF Backpressured
        THEN seq' = [seq EXCEPT ![h] = [c EXCEPT !.deferred = TRUE]]
             /\ msi' = m /\ UNCHANGED out
        ELSE \E file \in Files :
               Send(h, file, FALSE, [c EXCEPT !.deferred = FALSE],
                    [m EXCEPT !.triggered[h] = @ + 1])
     /\ UNCHANGED <<intr_enable_flag_, cbs, lines, want, opened>>

\* A request of another user of the master: the timer's broadcasts, the debug
\* module, the devices of sysmod.
OtherRequest ==
  /\ RangeFree > 0
  /\ out' = out + 1
  /\ UNCHANGED <<seq, intr_enable_flag_, cbs, lines, want, opened, msi>>

\* The master's responses, in any number.
Response ==
  /\ out > 0
  /\ out' \in 0 .. out - 1
  /\ UNCHANGED <<seq, intr_enable_flag_, cbs, lines, want, opened, msi>>

----------------------------------------------------------------------------
(* NMI and MTI.                                                            *)

\* nmi(level) and mti(level): the level is queued at the hart's location.
Push(h, ks, level) ==
  /\ Len(cbs[h]) + Cardinality(ks) <= MaxCallbacks
  /\ cbs' = [cbs EXCEPT ![h] = @ \o (IF "nmi" \in ks THEN << <<"nmi", level>> >> ELSE <<>>)
                                 \o (IF "mti" \in ks THEN << <<"mti", level>> >> ELSE <<>>)]

\* The bug of connecting the MTI sequence to the NMI's message type.
ListensAlike == [nmi |-> 8, mti |-> 8]

\* The message type a sequence is connected to at the hart's location, by its
\* width: the two are told apart by nothing else.
Listens == [nmi |-> 8, mti |-> 16]

\* The width of the message the interrupter signals for each deassert range.
Signals == [nmi |-> 8, mti |-> 16]

\* random_mode: the tick of the SV interval generator.
random_mode(h, k) ==
  /\ IntrEnabled
  /\ Push(h, {k}, 1)
  /\ want' = [want EXCEPT ![h][k] = 1]
  /\ UNCHANGED <<seq, out, intr_enable_flag_, lines, opened, msi>>

\* The test writes the deassert register of hart h.
Deassert(h, k) ==
  /\ Push(h, {x \in Kinds : Listens[x] = Signals[k]}, 0)
  /\ want' = [want EXCEPT ![h][k] = 0]
  /\ UNCHANGED <<seq, out, intr_enable_flag_, lines, opened, msi>>

\* The simulator drains the queue: drive_nmi or drive_mti.
Drive(h) ==
  /\ cbs[h] # <<>>
  /\ lines' = [lines EXCEPT ![h][Head(cbs[h])[1]] = Head(cbs[h])[2]]
  /\ cbs' = [cbs EXCEPT ![h] = Tail(@)]
  /\ UNCHANGED <<seq, out, intr_enable_flag_, want, opened, msi>>

\* The test writes base + 0x4040.
WriteEnable(v) ==
  /\ intr_enable_flag_' = v
  /\ opened' = (opened \/ v)
  /\ UNCHANGED <<seq, out, cbs, lines, want, msi>>

----------------------------------------------------------------------------
IntrNext ==
  /\ ~msi.hung
  /\ \/ on_sysmod_tick
     \/ on_directed_msi
     \/ \E sel \in SUBSET IntrHarts : capture_trigger_info(sel)
     \/ \E h \in IntrHarts : interrupt_trigger(h)
     \/ OtherRequest
     \/ Response
     \/ \E h \in IntrHarts, k \in Driven : random_mode(h, k) \/ Deassert(h, k)
     \/ \E h \in IntrHarts : Drive(h)
     \/ \E v \in BOOLEAN : WriteEnable(v)

IntrSpec == IntrInit /\ [][IntrNext]_intrVars

----------------------------------------------------------------------------
\* The sequences never hang: every draw of a guest file has a candidate,
\* whatever vgein and hgeie hold.  No MSI of theirs is dropped for want of an ID,
\* provided that the threshold exceeds the number of IDs outside the range the
\* MSIs draw from: since each sequence checks before it sends, even a pair sent
\* at the last free ID above the threshold then fits (on_sysmod_tick,
\* interrupt_trigger, send_msi, check_axi_backpressure, next_id).  With a smaller
\* threshold the check counts IDs the MSI cannot have.  A triggered MSI is the
\* only one of a trigger that selected its hart, deferred or not.
MsisThrottled ==
  /\ ~msi.hung
  /\ FLAGS_msi_backpressure_threshold > Ids - RangeIds => ~msi.lost
  /\ \A h \in IntrHarts :
       msi.triggered[h] + (IF seq[h].deferred THEN 1 ELSE 0) = msi.chosen[h]

\* A pin follows what was asked of it last, on its own hart and of its own
\* kind, as soon as no request is queued; and with the trickbox gate no random
\* interrupt is injected before the test has opened it (nmi, mti, random_mode,
\* interrupter::write).
LinesFollow ==
  /\ \A h \in IntrHarts, k \in Kinds :
       (\A i \in DOMAIN cbs[h] : cbs[h][i][1] # k) => lines[h][k] = want[h][k]
  /\ FLAGS_trickbox_write_enables_intr /\ ~opened =>
       msi.random = 0 /\ \A h \in IntrHarts, k \in Kinds : lines[h][k] = 0

=============================================================================
