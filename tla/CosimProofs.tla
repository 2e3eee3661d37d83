---------------------------- MODULE CosimProofs ----------------------------
(***************************************************************************)
(* Proofs about the bridge and its client of Whisper: what the bridge      *)
(* compares and resynchronises, for any registers and CSRs, any mode, and  *)
(* any number of retires and of wrong results of the core; and that the    *)
(* callers of the client do not disturb one another, for any number of     *)
(* harts and any hart lists.                                               *)
(***************************************************************************)
EXTENDS BridgeCompare, WhisperClient, TLAPS

Wheres == {"plain", "fault", "device", "device_fault", "custom_csr", "counter",
           "intr", "device_amo"}
Records == [dst : Regs \cup {None}, csr : Csrs \cup {None}, where : Wheres,
            cancelled : BOOLEAN, more : SUBSET Regs]
Bridges == [mode : Modes, patch_mode_ : {"NO_PATCH", "EXIT_PATCH"},
            resynch_csr_ : BOOLEAN, pd_ : Records,
            error : SUBSET {"mismatch", "exception", "csr"}]
States == [q : Bridges, drift : SUBSET Regs]
Ghosts == [wrong : Nat, blind : SUBSET Regs, lost : BOOLEAN, missed : Nat, excused : Nat]

CompareTypes ==
  /\ b \in Bridges /\ b.patch_mode_ = "NO_PATCH"
  /\ drift \subseteq Regs /\ pend \subseteq Csrs
  /\ ghost \in Ghosts

\* The record that a periodic check may resynchronise again: a load that
\* faulted was not cancelled, and its destination is in the files that were
\* added since or was not compared.
LastRecord ==
  /\ b.pd_.cancelled => b.pd_.where = "plain"
  /\ b.mode = "psc" /\ b.pd_.dst \in Gpr \cup Fpr => b.pd_.dst \in b.pd_.more \cup ghost.blind

\* Whisper differs only after a wrong result or once it was left behind.
Reasons ==
  /\ drift # {} \/ b.error # {} => ghost.wrong > 0 \/ ghost.lost
  /\ pend # {} => ghost.wrong > 0

\* The flag is an excuse that was not used yet.
Excuses == ghost.missed + (IF b.resynch_csr_ THEN 1 ELSE 0) <= ghost.excused

CompareInv == CompareTypes /\ LastRecord /\ InStep /\ Reasons /\ Excuses
-----------------------------------------------------------------------------
\* The registers that a resynchronisation pokes, and those it pokes with a
\* value that the core did not load.
Poked(d) == (d.more \cup {d.dst}) \cap (Gpr \cup Fpr)
Bad(d) == IF Faulted(d) THEN Poked(d) \ d.more ELSE {}

\* compare_dut_whisper_state resynchronises, leaves Whisper as it is or
\* reports a mismatch; outside a resynchronisation a patch changes nothing,
\* since a load from a device is always resynchronised.
LEMMA CompareOutcome ==
  ASSUME NEW s \in States, NEW d \in Records, NEW mismatch \in BOOLEAN, NEW old
  PROVE  LET t == compare_dut_whisper_state(s, d, mismatch, old)
             needed == resynch_needed(s.q, d, old, mismatch)
         IN  /\ t \in States
             /\ t.q.mode = s.q.mode /\ t.q.pd_ = s.q.pd_
             /\ t.q.patch_mode_ = s.q.patch_mode_
             /\ \/ /\ mismatch /\ (s.q.mode = "resynch" \/ needed)
                   /\ t.drift = (s.drift \ Poked(d)) \cup Bad(d) /\ t.q.error = s.q.error
                \/ /\ ~mismatch /\ Periodic(s.q) /\ needed /\ d.where # "device_amo"
                   /\ t.drift = (s.drift \ Poked(d)) \cup Bad(d) /\ t.q.error = s.q.error
                \/ /\ mismatch /\ s.q.mode # "resynch" /\ ~needed
                   /\ s.q.patch_mode_ = "EXIT_PATCH" /\ t = s
                \/ /\ mismatch /\ s.q.mode # "resynch" /\ ~needed
                   /\ s.q.patch_mode_ # "EXIT_PATCH"
                   /\ t.drift = s.drift /\ t.q.error = s.q.error \cup {"mismatch"}
                \/ /\ ~mismatch /\ ~(Periodic(s.q) /\ needed /\ d.where # "device_amo")
                   /\ t = s
<1> DEFINE t == compare_dut_whisper_state(s, d, mismatch, old)
           needed == resynch_needed(s.q, d, old, mismatch)
<1>1. ASSUME NEW e \in Records, e.more = d.more, e.dst = d.dst, e.where = d.where
      PROVE  /\ resynch(s, e) \in States
             /\ resynch(s, e).q.mode = s.q.mode /\ resynch(s, e).q.pd_ = s.q.pd_
             /\ resynch(s, e).q.patch_mode_ = s.q.patch_mode_
             /\ resynch(s, e).q.error = s.q.error
             /\ resynch(s, e).drift = (s.drift \ Poked(d)) \cup Bad(d)
  BY <1>1, Zenon DEF resynch, States, Bridges, Records, Poked, Bad, Faulted, Regs
<1>2. CASE mismatch /\ (s.q.mode = "resynch" \/ needed)
  <2>1. t = resynch(s, d)
    BY <1>2 DEF compare_dut_whisper_state
  <2> QED BY <2>1, <1>1, <1>2
<1>3. CASE mismatch /\ ~(s.q.mode = "resynch" \/ needed) /\ s.q.patch_mode_ = "EXIT_PATCH"
  <2>1. t = s
    BY <1>3 DEF compare_dut_whisper_state, resynch_whisper_on_patch, resynch_needed
  <2> QED BY <2>1, <1>3
<1>4. CASE mismatch /\ ~(s.q.mode = "resynch" \/ needed) /\ s.q.patch_mode_ # "EXIT_PATCH"
  <2>1. t = Fail(s, "mismatch")
    BY <1>4 DEF compare_dut_whisper_state
  <2>2. /\ t \in States /\ t.q.mode = s.q.mode /\ t.q.pd_ = s.q.pd_
        /\ t.q.patch_mode_ = s.q.patch_mode_
        /\ t.drift = s.drift /\ t.q.error = s.q.error \cup {"mismatch"}
    <3> HIDE DEF t
    <3> QED BY <2>1 DEF Fail, States, Bridges
  <2> QED BY <2>2, <1>4
<1>5. CASE ~mismatch /\ Periodic(s.q) /\ needed /\ d.where # "device_amo"
  <2> DEFINE e == [d EXCEPT !.csr = IF d.where = "custom_csr" THEN @ ELSE None]
  <2>1. t = resynch(s, e)
    BY <1>5 DEF compare_dut_whisper_state
  <2>2. e \in Records /\ e.more = d.more /\ e.dst = d.dst /\ e.where = d.where
    BY DEF Records
  <2> QED BY <2>1, <2>2, <1>1, <1>5, Zenon
<1>6. CASE ~mismatch /\ ~(Periodic(s.q) /\ needed /\ d.where # "device_amo")
  <2>1. t = s
    BY <1>6 DEF compare_dut_whisper_state
  <2> QED BY <2>1, <1>6
<1> QED BY <1>2, <1>3, <1>4, <1>5, <1>6

\* Nothing is compared, and nothing excused, before the first retire.
LEMMA CompareStart == CompareInit => CompareInv
<1> SUFFICES ASSUME CompareInit PROVE CompareInv
  OBVIOUS
<1>1. NoRecord \in Records
  BY DEF NoRecord, Records, Wheres
<1>2. PICK m \in Modes : b = Start(m)
  BY DEF CompareInit
<1>3. CompareTypes
  BY <1>1, <1>2 DEF CompareTypes, Ghosts, CompareInit, Start, Bridges
<1> QED BY <1>2, <1>3, FilesAssumption
    DEF CompareInv, CompareInit, Start, NoRecord, LastRecord, InStep, Reasons, Excuses, None

\* A retired instruction, with its results on the two sides.
LEMMA RetireStep ==
  ASSUME CompareInv, NEW d \in Records, d.more = {},
         NEW wrong \in BOOLEAN, NEW differs \in BOOLEAN, NEW csrs_differ \in BOOLEAN,
         NEW patch \in BOOLEAN,
         patch => d.where \in {"plain", "device"},
         d.cancelled => d.where = "plain",
         MayRetire, Retire(d, wrong, differs, csrs_differ, <<0, 0>>, patch)
  PROVE  CompareInv'
<1> DEFINE q == [b EXCEPT !.patch_mode_ = IF patch THEN "EXIT_PATCH" ELSE @]
           s == [q |-> q, drift |-> drift]
           w == [q |-> q, drift |-> WhisperWrote(drift, d, differs)]
           mismatch == Differ(update_whisper_state(q, d), update_dut_state(q, d), differs)
           y == compare_dut_whisper_state(w, d, mismatch, Older)
           t == process_dut_instr_retire(s, d, differs, <<0, 0>>, Older)
           needed == resynch_needed(q, d, Older, mismatch)
<1>1. /\ q \in Bridges /\ q.mode = b.mode /\ q.pd_ = b.pd_ /\ q.error = b.error
      /\ q.resynch_csr_ = b.resynch_csr_
      /\ q.patch_mode_ = IF patch THEN "EXIT_PATCH" ELSE "NO_PATCH"
  BY DEF CompareInv, CompareTypes, Ghosts, Bridges
<1>2. /\ w \in States /\ w.q = q /\ w.drift = WhisperWrote(drift, d, differs)
  BY <1>1 DEF CompareInv, CompareTypes, Ghosts, States, WhisperWrote, Records
<1>3. t = [y EXCEPT !.q.pd_ = IF b.mode = "psc" THEN d ELSE @,
                    !.q.patch_mode_ = IF @ = "EXIT_PATCH" THEN "NO_PATCH" ELSE @]
  <2>1. [s EXCEPT !.drift = WhisperWrote(@, d, differs)] = w
    OBVIOUS
  <2>2. post_step_exception_check(w, d, <<0, 0>>) = w
    BY DEF post_step_exception_check
  <2>3. s.q = q
    OBVIOUS
  <2> HIDE DEF q, s, w
  <2> QED BY <2>1, <2>2, <2>3, <1>1, ZenonT(40) DEF process_dut_instr_retire
<1>4. /\ b' = t.q /\ drift' = t.drift /\ b.error = {}
      /\ ghost' = [ghost EXCEPT
            !.wrong = IF wrong \/ (~is_custom_excp(<<0, 0>>[1]) /\ <<0, 0>>[1] # <<0, 0>>[2])
                      THEN @ + 1 ELSE @,
            !.blind = Blind(d, patch),
            !.lost = @ \/ (~wrong /\ Lost(d, patch, differs)),
            !.excused = Excused(t.q)]
      /\ pend' = IF csrs_differ THEN pend \cup {d.csr} ELSE pend
      /\ csrs_differ => d.csr # None /\ wrong
      /\ differs => wrong \/ drift # {} \/ d.cancelled
                    \/ d.where \in {"device", "device_amo", "counter", "custom_csr"}
                    \/ (d.where = "intr" /\ is_match(Older))
      /\ differs => d.dst # None
  BY DEF Retire, MayRetire
<1>5. mismatch <=> \/ patch
                   \/ /\ d.dst # None /\ ~Periodic(b)
                      /\ IF Faulted(d) THEN d.dst \notin Gpr ELSE differs
  <2>1. q.patch_mode_ # "EXIT_PATCH" <=> ~patch
    BY <1>1
  <2>2. Periodic(q) <=> Periodic(b)
    BY <1>1 DEF Periodic
  <2> HIDE DEF q
  <2>3. /\ ~Faulted(d) => CorePushes(q, d) = WhisperPushes(q, d)
        /\ Faulted(d) => ~WhisperPushes(q, d)
        /\ Faulted(d) => (CorePushes(q, d) <=> d.dst # None /\ d.dst \notin Gpr /\ ~Periodic(q))
    BY Zenon DEF CorePushes, WhisperPushes
  <2>4. /\ update_whisper_state(q, d).pc = TRUE
        /\ update_whisper_state(q, d).reg = WhisperPushes(q, d)
        /\ update_dut_state(q, d).pc = (q.patch_mode_ # "EXIT_PATCH")
        /\ update_dut_state(q, d).reg = CorePushes(q, d)
    BY Zenon DEF update_whisper_state, update_dut_state
  <2>5. mismatch <=> \/ ~(q.patch_mode_ # "EXIT_PATCH")
                     \/ WhisperPushes(q, d) # CorePushes(q, d)
                     \/ WhisperPushes(q, d) /\ differs
    BY <2>4, Zenon DEF Differ
  <2>6. WhisperPushes(q, d) \in BOOLEAN /\ CorePushes(q, d) \in BOOLEAN
    BY Zenon DEF CorePushes, WhisperPushes
  <2>7. CASE Faulted(d)
    BY <2>1, <2>2, <2>3, <2>5, <2>6, <2>7, Zenon
  <2>8. CASE ~Faulted(d)
    BY <2>1, <2>2, <2>3, <2>5, <2>8, Zenon DEF WhisperPushes
  <2> QED BY <2>7, <2>8
<1> HIDE DEF q
<1>6. /\ y \in States
      /\ y.q.mode = b.mode /\ y.q.pd_ = b.pd_ /\ y.q.patch_mode_ = q.patch_mode_
      /\ \/ /\ mismatch /\ (b.mode = "resynch" \/ needed)
            /\ y.drift = (w.drift \ Poked(d)) \cup Bad(d) /\ y.q.error = {}
         \/ /\ ~mismatch /\ Periodic(b) /\ needed /\ d.where # "device_amo"
            /\ y.drift = (w.drift \ Poked(d)) \cup Bad(d) /\ y.q.error = {}
         \/ /\ mismatch /\ b.mode # "resynch" /\ ~needed
            /\ patch /\ y.drift = w.drift /\ y.q.error = {}
         \/ /\ mismatch /\ b.mode # "resynch" /\ ~needed
            /\ ~patch
            /\ y.drift = w.drift /\ y.q.error = {"mismatch"}
         \/ /\ ~mismatch /\ ~(Periodic(b) /\ needed /\ d.where # "device_amo")
            /\ y.drift = w.drift /\ y.q.error = {}
  <2>1. mismatch \in BOOLEAN /\ b.error = {} /\ (Periodic(w.q) <=> Periodic(b))
    BY <1>1, <1>2, <1>4 DEF Differ, Periodic
  <2> HIDE DEF w, mismatch
  <2> QED BY <1>1, <1>2, <2>1, CompareOutcome
<1> HIDE DEF s, w, t, mismatch
<1>7. /\ b' \in Bridges /\ b'.mode = b.mode /\ b'.patch_mode_ = "NO_PATCH"
      /\ b'.error = y.q.error
      /\ b'.pd_ = IF b.mode = "psc" THEN d ELSE b.pd_
      /\ drift' = y.drift /\ drift' \subseteq Regs
  <2> HIDE DEF y
  <2> QED BY <1>1, <1>3, <1>6, <1>4, Zenon DEF States, Bridges
<1> HIDE DEF y
<1>8. /\ ghost' \in Ghosts
      /\ ghost'.wrong = IF wrong THEN ghost.wrong + 1 ELSE ghost.wrong
      /\ ghost'.blind = Blind(d, patch)
      /\ ghost'.lost <=> ghost.lost \/ (~wrong /\ Lost(d, patch, differs))
      /\ ghost'.missed = ghost.missed
      /\ ghost'.excused = IF b'.resynch_csr_ /\ ~b.resynch_csr_ THEN ghost.excused + 1
                         ELSE ghost.excused
  <2>1. Blind(d, patch) \in SUBSET Regs
    BY DEF Blind, CompareInv, CompareTypes, Ghosts, Records
  <2>2. Excused(t.q) \in Nat
    BY DEF Excused, CompareInv, CompareTypes, Ghosts
  <2>3. PICK lost \in BOOLEAN : lost = (ghost.lost \/ (~wrong /\ Lost(d, patch, differs)))
    BY Zenon
  <2>4. PICK w1 \in Nat :
          w1 = IF wrong \/ (~is_custom_excp(<<0, 0>>[1]) /\ <<0, 0>>[1] # <<0, 0>>[2])
               THEN ghost.wrong + 1 ELSE ghost.wrong
    BY DEF CompareInv, CompareTypes, Ghosts
  <2>5. w1 = IF wrong THEN ghost.wrong + 1 ELSE ghost.wrong
    BY <2>4
  <2>6. ghost' = [ghost EXCEPT !.wrong = w1, !.blind = Blind(d, patch),
                               !.lost = lost, !.excused = Excused(t.q)]
    BY <1>4, <2>3, <2>4
  <2>7. ghost'.lost = lost
    BY <2>6 DEF CompareInv, CompareTypes, Ghosts
  <2>8. ghost'.lost <=> ghost.lost \/ (~wrong /\ Lost(d, patch, differs))
    BY <2>3, <2>7, Zenon
  <2>9. /\ ghost' \in Ghosts
        /\ ghost'.wrong = w1 /\ ghost'.blind = Blind(d, patch)
        /\ ghost'.missed = ghost.missed /\ ghost'.excused = Excused(t.q)
    BY <2>1, <2>2, <2>6, Zenon DEF CompareInv, CompareTypes, Ghosts
  <2>10. Excused(t.q) = IF b'.resynch_csr_ /\ ~b.resynch_csr_ THEN ghost.excused + 1
                       ELSE ghost.excused
    BY <1>4 DEF Excused
  <2> QED BY <2>8, <2>9, <2>10, <2>5
<1>9. CompareTypes'
  BY <1>4, <1>7, <1>8 DEF CompareInv, CompareTypes, Ghosts, Records
<1>10. Excuses'
  BY <1>7, <1>8 DEF Excuses, CompareInv, CompareTypes, Ghosts, Bridges
<1>11. LastRecord'
  BY <1>7, <1>8, FilesAssumption DEF LastRecord, CompareInv, Blind, Periodic, None
<1>12. InStep'
  <2>1. SUFFICES ASSUME b'.error = {} PROVE drift' \subseteq Blind(d, patch)
    BY <1>8 DEF InStep
  <2>2. drift \subseteq ghost.blind
    BY <1>4 DEF CompareInv, InStep
  <2> QED BY <2>1, <2>2, <1>1, <1>2, <1>5, <1>6, <1>7, FilesAssumption
      DEF Blind, WhisperWrote, Poked, Bad, Faulted, Periodic, None, Records, resynch_needed,
          resynch_on_pa, resynch_on_instr, intr_csrs_mismatch, Device, Regs
<1>13. Reasons'
  <2>1. pend' # {} => ghost'.wrong > 0
    BY <1>4, <1>8 DEF Reasons, CompareInv, CompareTypes, Ghosts
  <2>2. ASSUME drift' # {} \/ b'.error # {}, drift = {}, ~wrong, ~ghost.lost
        PROVE  Lost(d, patch, differs)
    BY <2>2, <1>1, <1>2, <1>5, <1>6, <1>4, <1>7, FilesAssumption
      DEF Lost, WhisperWrote, Poked, Bad, Faulted, Periodic, None, Records, resynch_needed,
          resynch_on_pa, resynch_on_instr, intr_csrs_mismatch, Device, Regs
  <2> QED BY <2>1, <2>2, <1>4, <1>8 DEF Reasons, CompareInv, CompareTypes, Ghosts
<1> QED BY <1>9, <1>10, <1>11, <1>12, <1>13 DEF CompareInv

\* An instruction that raised an exception on either side writes nothing; it
\* is reported when the causes differ and the core's is none of its own.
LEMMA ExceptionStep ==
  ASSUME CompareInv,
         NEW ex \in {<<1, 1>>, <<1, 0>>, <<0, 1>>, <<1, 2>>, <<CUSTOM_VEC_CMODE, 0>>, <<25, 0>>},
         MayRetire, Retire(NoRecord, FALSE, FALSE, FALSE, ex, FALSE)
  PROVE  CompareInv'
<1> DEFINE d == NoRecord
           s == [q |-> b, drift |-> drift]
           raised == ~is_custom_excp(ex[1]) /\ ex[1] # ex[2]
           x == post_step_exception_check(s, d, ex)
           mismatch == Differ(update_whisper_state(b, d), update_dut_state(b, d), FALSE)
           y == compare_dut_whisper_state(x, d, mismatch, Older)
           t == process_dut_instr_retire(s, d, FALSE, ex, Older)
<1>1. /\ d \in Records /\ d.more = {} /\ d.dst = None /\ d.csr = None /\ d.where = "plain"
      /\ ~d.cancelled
  BY DEF NoRecord, Records, Wheres
<1>2. /\ s \in States /\ s.q = b /\ s.drift = drift
      /\ [b EXCEPT !.patch_mode_ = IF FALSE THEN "EXIT_PATCH" ELSE @] = b
      /\ [s EXCEPT !.drift = WhisperWrote(@, d, FALSE)] = s
  BY <1>1 DEF CompareInv, CompareTypes, Ghosts, Bridges, States, WhisperWrote
<1>3. ~mismatch
  <2>1. CorePushes(b, d) = WhisperPushes(b, d)
    BY <1>1, Zenon DEF CorePushes, WhisperPushes
  <2>2. (b.patch_mode_ # "EXIT_PATCH") = TRUE
    BY DEF CompareInv, CompareTypes, Ghosts
  <2> HIDE DEF d
  <2> QED BY <2>1, <2>2, Zenon DEF Differ, update_whisper_state, update_dut_state
<1>4. /\ x \in States /\ x.q.mode = b.mode /\ x.q.pd_ = b.pd_ /\ x.q.patch_mode_ = "NO_PATCH"
      /\ x.drift = drift
      /\ x.q.error # b.error => raised
  <2>1. /\ resynch(s, d) \in States /\ resynch(s, d).q.mode = b.mode
        /\ resynch(s, d).q.pd_ = b.pd_ /\ resynch(s, d).q.patch_mode_ = "NO_PATCH"
        /\ resynch(s, d).drift = drift /\ resynch(s, d).q.error = b.error
    <3> HIDE DEF d
    <3> QED BY <1>1, <1>2, FilesAssumption
        DEF resynch, States, Bridges, Faulted, None, CompareInv, CompareTypes, Ghosts
  <2>2. /\ Fail(s, "exception") \in States /\ Fail(s, "exception").q.mode = b.mode
        /\ Fail(s, "exception").q.pd_ = b.pd_ /\ Fail(s, "exception").q.patch_mode_ = "NO_PATCH"
        /\ Fail(s, "exception").drift = drift
    BY <1>2 DEF Fail, States, Bridges, CompareInv, CompareTypes, Ghosts
  <2>3. x = s \/ x = resynch(s, d) \/ (x = Fail(s, "exception") /\ raised)
    BY DEF post_step_exception_check
  <2> HIDE DEF x, s, d
  <2> QED BY <1>2, <2>1, <2>2, <2>3 DEF CompareInv, CompareTypes, Ghosts
<1>5. y = x
  BY <1>1, <1>3 DEF compare_dut_whisper_state, resynch_needed, resynch_on_pa, resynch_on_instr,
     intr_csrs_mismatch, Device
<1>6. t = [y EXCEPT !.q.pd_ = IF b.mode = "psc" THEN d ELSE @,
                    !.q.patch_mode_ = IF @ = "EXIT_PATCH" THEN "NO_PATCH" ELSE @]
  <2> HIDE DEF s, d
  <2> QED BY <1>2, Zenon DEF process_dut_instr_retire
<1>7. /\ b' = t.q /\ drift' = t.drift /\ b.error = {} /\ pend' = pend
      /\ ghost' = [ghost EXCEPT !.wrong = IF FALSE \/ raised THEN @ + 1 ELSE @,
                                !.blind = Blind(d, FALSE),
                                !.lost = @ \/ (~FALSE /\ Lost(d, FALSE, FALSE)),
                                !.excused = Excused(t.q)]
  <2> HIDE DEF d
  <2> QED BY <1>2, Zenon DEF Retire, MayRetire, d
<1> HIDE DEF s, x, y, t, mismatch
<1>8. /\ b' \in Bridges /\ b'.mode = b.mode /\ b'.patch_mode_ = "NO_PATCH"
      /\ b'.pd_ = IF b.mode = "psc" THEN d ELSE b.pd_
      /\ drift' = drift
      /\ b'.error # b.error => raised
  <2> HIDE DEF d
  <2> QED BY <1>1, <1>4, <1>5, <1>6, <1>7, Zenon DEF States, Bridges
<1>9. /\ ghost' \in Ghosts
      /\ ghost'.wrong = IF raised THEN ghost.wrong + 1 ELSE ghost.wrong
      /\ ghost'.blind = ghost.blind /\ ghost'.lost = ghost.lost /\ ghost'.missed = ghost.missed
      /\ ghost'.excused = IF b'.resynch_csr_ /\ ~b.resynch_csr_ THEN ghost.excused + 1
                         ELSE ghost.excused
  <2>1. Blind(d, FALSE) = ghost.blind
    BY <1>1 DEF Blind
  <2>2. (ghost.lost \/ (~FALSE /\ Lost(d, FALSE, FALSE))) = ghost.lost
    <3>1. ~Faulted(d) /\ d.where \notin {"custom_csr", "device_amo", "intr"}
      BY <1>1 DEF Faulted
    <3>1a. ~Lost(d, FALSE, FALSE)
      BY <1>1, <3>1 DEF Lost
    <3>2. ghost.lost \in BOOLEAN
      BY DEF CompareInv, CompareTypes, Ghosts
    <3> HIDE DEF d
    <3> QED BY <3>1a, <3>2, Zenon
  <2>3. PICK w1 \in Nat : w1 = IF FALSE \/ raised THEN ghost.wrong + 1 ELSE ghost.wrong
    BY DEF CompareInv, CompareTypes, Ghosts
  <2>4. Excused(t.q) = IF b'.resynch_csr_ /\ ~b.resynch_csr_ THEN ghost.excused + 1
                       ELSE ghost.excused
    BY <1>7 DEF Excused
  <2> HIDE DEF d
  <2>5. ghost' = [ghost EXCEPT !.wrong = w1, !.blind = ghost.blind,
                               !.lost = ghost.lost, !.excused = Excused(t.q)]
    BY <1>7, <2>1, <2>2, <2>3, Zenon
  <2>6. Excused(t.q) \in Nat
    BY DEF Excused, CompareInv, CompareTypes, Ghosts
  <2>7. /\ ghost' \in Ghosts
        /\ ghost'.wrong = w1 /\ ghost'.blind = ghost.blind /\ ghost'.lost = ghost.lost
        /\ ghost'.missed = ghost.missed /\ ghost'.excused = Excused(t.q)
    BY <2>5, <2>6, Zenon DEF CompareInv, CompareTypes, Ghosts
  <2> QED BY <2>3, <2>4, <2>7
<1>10. CompareTypes' /\ InStep' /\ Reasons'
  <2> HIDE DEF d
  <2>1. CompareTypes'
    BY <1>7, <1>8, <1>9 DEF CompareInv, CompareTypes, Ghosts
  <2>2. InStep'
    BY <1>7, <1>8, <1>9, Zenon DEF CompareInv, InStep
  <2>3. raised => ghost'.wrong > 0
    BY <1>9 DEF CompareInv, CompareTypes, Ghosts
  <2>4. ~raised => ghost'.wrong = ghost.wrong
    BY <1>9
  <2>5. ~raised => b'.error = {}
    BY <1>7, <1>8
  <2>6. pend' # {} => ghost'.wrong > 0
    BY <1>7, <2>3, <2>4 DEF CompareInv, Reasons
  <2>7. drift' # {} \/ b'.error # {} => ghost'.wrong > 0 \/ ghost'.lost
    BY <1>7, <1>8, <1>9, <2>3, <2>4, <2>5, Zenon DEF CompareInv, Reasons
  <2> QED BY <2>1, <2>2, <2>6, <2>7 DEF Reasons
<1>11. LastRecord'
  <2> HIDE DEF d
  <2> QED BY <1>1, <1>8, <1>9, FilesAssumption DEF CompareInv, LastRecord, None
<1>12. Excuses'
  <2> HIDE DEF d
  <2> QED BY <1>8, <1>9 DEF Excuses, CompareInv, CompareTypes, Ghosts, Bridges
<1> QED BY <1>10, <1>11, <1>12 DEF CompareInv

\* The end of a group: one resynchronised CSR pays for one mismatch.
LEMMA GroupStep ==
  ASSUME CompareInv, GroupRetire
  PROVE  CompareInv'
<1>1. PICK bad \in pend :
        /\ b' = process_dut_instr_group_retire(b, bad)
        /\ ghost' = [ghost EXCEPT !.missed = IF bad \in Checked /\ b'.error = {} THEN @ + 1 ELSE @]
  BY DEF GroupRetire
<1>2. b.error = {} /\ pend # {} /\ pend' = {} /\ drift' = drift /\ bad \in Csrs /\ bad # None
  BY FilesAssumption DEF GroupRetire, CompareInv, CompareTypes, Ghosts, Csrs, None
<1>3. /\ b' \in Bridges /\ b'.patch_mode_ = "NO_PATCH" /\ b'.mode = b.mode /\ b'.pd_ = b.pd_
      /\ b'.error = {} => \/ b.resynch_csr_ /\ ~b'.resynch_csr_
                          \/ bad \notin Checked /\ b'.resynch_csr_ = b.resynch_csr_
      /\ b'.error # {} => b'.resynch_csr_ = b.resynch_csr_
  BY <1>1, <1>2, FilesAssumption, ZenonT(40)
     DEF process_dut_instr_group_retire, CompareInv, CompareTypes, Ghosts, Bridges, Csrs
<1>4. /\ ghost' \in Ghosts
      /\ ghost'.wrong = ghost.wrong /\ ghost'.blind = ghost.blind /\ ghost'.lost = ghost.lost
      /\ ghost'.excused = ghost.excused
      /\ ghost'.missed = IF bad \in Checked /\ b'.error = {} THEN ghost.missed + 1 ELSE ghost.missed
  BY <1>1 DEF CompareInv, CompareTypes, Ghosts
<1>5. CompareTypes' /\ LastRecord' /\ InStep' /\ Reasons'
  BY <1>2, <1>3, <1>4 DEF CompareInv, CompareTypes, Ghosts, LastRecord, InStep, Reasons
<1>6. Excuses'
  BY <1>3, <1>4 DEF Excuses, CompareInv, CompareTypes, Ghosts, Bridges
<1> QED BY <1>5, <1>6 DEF CompareInv

\* A periodic check of a register file, with and without the record of the
\* last retire (+psc_compare_only=0).
LEMMA PeriodicStep ==
  ASSUME CompareInv, NEW file \in {Gpr, Fpr, Vr}, NEW seen \in BOOLEAN,
         PeriodicCompare(file, seen)
  PROVE  CompareInv'
<1> DEFINE s == [q |-> b, drift |-> IF seen THEN drift ELSE drift \ Vr]
           t == process_compare_regs(s, file, age)
           mismatch == s.drift \cap file # {}
           blind1 == IF file = Vr THEN ghost.blind ELSE ghost.blind \ file
<1>1. /\ b.mode \in {"period", "psc"} /\ b.error = {}
      /\ ~seen => file = Vr /\ b.mode = "period"
      /\ b' = t.q /\ drift' = IF seen THEN t.drift ELSE t.drift \cup (drift \cap Vr)
      /\ ghost' = [ghost EXCEPT !.blind = blind1,
                                !.lost = @ \/ b.pd_.where = "device_fault",
                                !.excused = Excused(b')]
      /\ pend' = pend
  BY DEF PeriodicCompare, Periodic
<1>2. /\ s \in States /\ s.q = b /\ s.drift = (IF seen THEN drift ELSE drift \ Vr)
      /\ file \subseteq Regs
  BY DEF CompareInv, CompareTypes, Ghosts, States, Regs
<1>3. b.mode = "psc" =>
        /\ b' \in Bridges /\ b'.patch_mode_ = "NO_PATCH" /\ b'.mode = b.mode
        /\ b'.pd_ = [b.pd_ EXCEPT !.more = @ \cup file]
        /\ \/ /\ resynch_needed(b, b'.pd_, age, mismatch)
              /\ drift' = (drift \ Poked(b'.pd_)) \cup Bad(b'.pd_) /\ b'.error = {}
           \/ drift' = drift /\ b'.error = {"mismatch"} /\ drift # {}
           \/ drift' = drift /\ b'.error = {} /\ drift \cap file = {}
  <2> SUFFICES ASSUME b.mode = "psc"
               PROVE  /\ b' \in Bridges /\ b'.patch_mode_ = "NO_PATCH" /\ b'.mode = b.mode
                      /\ b'.pd_ = [b.pd_ EXCEPT !.more = @ \cup file]
                      /\ \/ /\ resynch_needed(b, b'.pd_, age, mismatch)
                            /\ drift' = (drift \ Poked(b'.pd_)) \cup Bad(b'.pd_) /\ b'.error = {}
                         \/ drift' = drift /\ b'.error = {"mismatch"} /\ drift # {}
                         \/ drift' = drift /\ b'.error = {} /\ drift \cap file = {}
    OBVIOUS
  <2> DEFINE u == [s EXCEPT !.q.pd_.more = @ \cup file]
             d == u.q.pd_
  <2>1. /\ u \in States /\ u.drift = drift /\ u.q.mode = "psc" /\ u.q.error = {}
        /\ u.q.patch_mode_ = "NO_PATCH" /\ d \in Records
        /\ d = [b.pd_ EXCEPT !.more = @ \cup file]
    BY <1>1, <1>2, ZenonT(40) DEF States, Bridges, Records, CompareInv, CompareTypes, Ghosts
  <2>2. t = compare_dut_whisper_state(u, d, mismatch, age)
    BY <1>2 DEF process_compare_regs
  <2>3. seen /\ (mismatch <=> drift \cap file # {}) /\ mismatch \in BOOLEAN
    BY <1>1, <1>2
  <2>4. resynch_needed(u.q, d, age, mismatch) <=> resynch_needed(b, d, age, mismatch)
    BY <2>1, Zenon DEF resynch_needed, CompareInv, CompareTypes, Ghosts
  <2>5. u.q.pd_ = d
    OBVIOUS
  <2> HIDE DEF s, u, d, t, mismatch
  <2>6. /\ t \in States /\ t.q.mode = "psc" /\ t.q.pd_ = d /\ t.q.patch_mode_ = "NO_PATCH"
        /\ \/ /\ resynch_needed(u.q, d, age, mismatch)
              /\ t.drift = (drift \ Poked(d)) \cup Bad(d) /\ t.q.error = {}
           \/ t.drift = drift /\ t.q.error = {"mismatch"} /\ mismatch
           \/ t.drift = drift /\ t.q.error = {} /\ ~mismatch
    <3>1. u \in States /\ d \in Records /\ mismatch \in BOOLEAN
      BY <2>1, <2>3
    <3>2. LET v == compare_dut_whisper_state(u, d, mismatch, age)
              needed == resynch_needed(u.q, d, age, mismatch)
          IN  /\ v \in States
              /\ v.q.mode = u.q.mode /\ v.q.pd_ = u.q.pd_
              /\ v.q.patch_mode_ = u.q.patch_mode_
              /\ \/ /\ mismatch /\ (u.q.mode = "resynch" \/ needed)
                    /\ v.drift = (u.drift \ Poked(d)) \cup Bad(d) /\ v.q.error = u.q.error
                 \/ /\ ~mismatch /\ Periodic(u.q) /\ needed /\ d.where # "device_amo"
                    /\ v.drift = (u.drift \ Poked(d)) \cup Bad(d) /\ v.q.error = u.q.error
                 \/ /\ mismatch /\ u.q.mode # "resynch" /\ ~needed
                    /\ u.q.patch_mode_ = "EXIT_PATCH" /\ v = u
                 \/ /\ mismatch /\ u.q.mode # "resynch" /\ ~needed
                    /\ u.q.patch_mode_ # "EXIT_PATCH"
                    /\ v.drift = u.drift /\ v.q.error = u.q.error \cup {"mismatch"}
                 \/ /\ ~mismatch /\ ~(Periodic(u.q) /\ needed /\ d.where # "device_amo")
                    /\ v = u
      BY <3>1, CompareOutcome, ZenonT(40)
    <3> QED BY <2>1, <2>2, <2>5, <3>2, Zenon
  <2> QED BY <1>1, <2>1, <2>3, <2>4, <2>6, ZenonT(40) DEF States
<1>4. b.mode = "period" =>
        /\ b' \in Bridges /\ b'.patch_mode_ = "NO_PATCH" /\ b'.mode = b.mode
        /\ b'.pd_ = b.pd_ /\ drift' = drift
        /\ b'.error # {} => drift # {}
        /\ b'.error = {} => ~seen \/ drift \cap file = {}
  <2> SUFFICES ASSUME b.mode = "period"
               PROVE  /\ b' \in Bridges /\ b'.patch_mode_ = "NO_PATCH" /\ b'.mode = b.mode
                      /\ b'.pd_ = b.pd_ /\ drift' = drift
                      /\ b'.error # {} => drift # {}
                      /\ b'.error = {} => ~seen \/ drift \cap file = {}
    OBVIOUS
  <2>1. t = IF mismatch THEN Fail(s, "mismatch") ELSE s
    BY <1>2 DEF process_compare_regs
  <2> HIDE DEF s, t
  <2>2. /\ t.drift = s.drift /\ t.q \in Bridges /\ t.q.patch_mode_ = "NO_PATCH"
        /\ t.q.mode = b.mode /\ t.q.pd_ = b.pd_
        /\ t.q.error = IF mismatch THEN {"mismatch"} ELSE {}
    BY <1>1, <1>2, <2>1 DEF Fail, States, Bridges, CompareInv, CompareTypes, Ghosts
  <2> QED BY <1>1, <1>2, <2>2
<1> HIDE DEF s, t, mismatch
<1>5. /\ ghost' \in Ghosts
      /\ ghost'.wrong = ghost.wrong /\ ghost'.blind = blind1 /\ ghost'.missed = ghost.missed
      /\ ghost'.lost <=> ghost.lost \/ b.pd_.where = "device_fault"
      /\ ghost'.excused = IF b'.resynch_csr_ /\ ~b.resynch_csr_ THEN ghost.excused + 1
                         ELSE ghost.excused
  <2>1. PICK lost \in BOOLEAN : lost = (ghost.lost \/ b.pd_.where = "device_fault")
    BY Zenon
  <2>2. PICK e1 \in Nat : e1 = Excused(b')
    BY DEF Excused, CompareInv, CompareTypes, Ghosts
  <2>3. blind1 \in SUBSET Regs
    BY DEF CompareInv, CompareTypes, Ghosts
  <2> HIDE DEF blind1
  <2>4. ghost' = [ghost EXCEPT !.blind = blind1, !.lost = lost, !.excused = e1]
    BY <1>1, <2>1, <2>2
  <2>5. ghost'.lost = lost
    BY <2>4 DEF CompareInv, CompareTypes, Ghosts
  <2>6. ghost'.lost <=> ghost.lost \/ b.pd_.where = "device_fault"
    BY <2>1, <2>5, Zenon
  <2>7. /\ ghost' \in Ghosts
        /\ ghost'.wrong = ghost.wrong /\ ghost'.blind = blind1 /\ ghost'.missed = ghost.missed
        /\ ghost'.excused = e1
    BY <2>3, <2>4, Zenon DEF CompareInv, CompareTypes, Ghosts
  <2> QED BY <2>2, <2>6, <2>7 DEF Excused
<1>6. b.pd_ \in Records /\ drift \subseteq ghost.blind
  BY <1>1 DEF CompareInv, CompareTypes, Ghosts, Bridges, InStep
<1>7. b' \in Bridges /\ b'.mode = b.mode
  BY <1>1, <1>3, <1>4
<1>8. Excuses'
  BY <1>5, <1>7 DEF Excuses, CompareInv, CompareTypes, Ghosts, Bridges
<1>9. CASE b.mode = "period"
  <2>1. CompareTypes'
    BY <1>1, <1>4, <1>5, <1>9 DEF CompareInv, CompareTypes, Ghosts
  <2>2. LastRecord' /\ Reasons'
    BY <1>1, <1>4, <1>5, <1>9 DEF CompareInv, LastRecord, Reasons
  <2>3. InStep'
    BY <1>1, <1>4, <1>5, <1>6, <1>9 DEF InStep
  <2> QED BY <1>8, <2>1, <2>2, <2>3 DEF CompareInv
<1>10. CASE b.mode = "psc"
  <2> DEFINE d == b'.pd_
  <2>1. /\ d.dst = b.pd_.dst /\ d.where = b.pd_.where /\ d.cancelled = b.pd_.cancelled
        /\ d.more = b.pd_.more \cup file
    BY <1>3, <1>6, <1>10 DEF Records
  <2>2. CompareTypes'
    <3>1. drift' \subseteq Regs
      BY <1>3, <1>10 DEF CompareInv, CompareTypes, Ghosts, Poked, Bad, Regs
    <3> QED BY <1>1, <1>3, <1>5, <1>10, <3>1 DEF CompareInv, CompareTypes, Ghosts
  <2>3. LastRecord'
    BY <1>1, <1>5, <1>10, <1>7, <2>1 DEF CompareInv, LastRecord
  <2>4. Bad(d) # {} => Faulted(d) /\ Bad(d) \subseteq {d.dst} /\ d.dst \in (Gpr \cup Fpr) \ d.more
    BY DEF Bad, Poked
  <2>5. InStep'
    <3>1. Bad(d) \subseteq blind1
      BY <2>1, <2>4, <1>10 DEF CompareInv, LastRecord
    <3>2. drift \ Poked(d) \subseteq blind1
      BY <2>1, <1>6 DEF Poked
    <3>3. drift \cap file = {} => drift \subseteq blind1
      BY <1>6
    <3> QED BY <1>3, <1>5, <1>10, <3>1, <3>2, <3>3 DEF InStep
  <2>6. Reasons'
    <3>1. resynch_needed(b, d, age, mismatch) /\ Faulted(d) => b.pd_.where = "device_fault"
      BY <2>1 DEF resynch_needed, resynch_on_pa, resynch_on_instr, intr_csrs_mismatch, Device,
         Faulted, CompareInv, LastRecord
    <3>2. drift' # {} \/ b'.error # {} => drift # {} \/ b.pd_.where = "device_fault"
      BY <1>3, <1>10, <2>4, <3>1
    <3> QED BY <1>1, <1>5, <3>2 DEF CompareInv, Reasons
  <2> QED BY <1>8, <2>2, <2>3, <2>5, <2>6 DEF CompareInv
<1> QED BY <1>1, <1>9, <1>10

\* Every step of the core and of the bridge keeps the invariant.
LEMMA CompareStep ==
  ASSUME CompareInv, [CompareNext]_compareVars
  PROVE  CompareInv'
<1>1. CASE MayRetire /\ RegisterRetire
  <2>1. PICK dst \in Regs \cup {None}, where \in {"plain", "fault", "device", "device_fault"},
             patch \in BOOLEAN, cancelled \in BOOLEAN, differs \in BOOLEAN :
          \E wrong \in {FALSE, differs} :
            /\ patch => where \in {"plain", "device"}
            /\ wrong \/ cancelled => where = "plain"
            /\ Retire(Record(dst, None, where, cancelled), wrong, differs, FALSE, <<0, 0>>, patch)
    BY <1>1, Zenon DEF RegisterRetire
  <2>2. PICK wrong \in {FALSE, differs} :
          /\ patch => where \in {"plain", "device"}
          /\ wrong \/ cancelled => where = "plain"
          /\ Retire(Record(dst, None, where, cancelled), wrong, differs, FALSE, <<0, 0>>, patch)
    BY <2>1, Zenon
  <2>3. wrong \in BOOLEAN
    BY ZenonT(40)
  <2> DEFINE d == Record(dst, None, where, cancelled)
  <2>4. d \in Records /\ d.more = {} /\ d.where = where /\ d.cancelled = cancelled
    BY DEF Record, Records, Wheres
  <2>5. Retire(d, wrong, differs, FALSE, <<0, 0>>, patch)
    BY <2>2, Zenon
  <2> HIDE DEF d
  <2> QED BY <1>1, <2>2, <2>3, <2>4, <2>5, RetireStep, ZenonT(40)
<1>2. CASE MayRetire /\ CsrRetire
  <2>1. PICK dst \in Gpr \cup {None}, csr \in Csrs \cup {None},
             where \in {"plain", "custom_csr", "counter", "intr", "device_amo"},
             differs \in BOOLEAN, csrs_differ \in BOOLEAN :
          \E wrong \in {FALSE, differs \/ csrs_differ} :
            /\ csr # None => where \in {"plain", "custom_csr"}
            /\ wrong => where \in {"plain", "custom_csr", "intr"}
            /\ Retire(Record(dst, csr, where, FALSE), wrong, differs, csrs_differ, <<0, 0>>, FALSE)
    BY <1>2, Zenon DEF CsrRetire
  <2>2. {FALSE, differs \/ csrs_differ} \subseteq BOOLEAN
    BY Zenon
  <2>3. PICK wrong \in BOOLEAN :
          Retire(Record(dst, csr, where, FALSE), wrong, differs, csrs_differ, <<0, 0>>, FALSE)
    BY <2>1, <2>2, ZenonT(40)
  <2> DEFINE d == Record(dst, csr, where, FALSE)
  <2>4. d \in Records /\ d.more = {} /\ d.cancelled = FALSE
    BY DEF Record, Records, Wheres, Regs
  <2>5. Retire(d, wrong, differs, csrs_differ, <<0, 0>>, FALSE)
    BY <2>3, Zenon
  <2> HIDE DEF d
  <2> QED BY <1>2, <2>4, <2>5, RetireStep, ZenonT(40)
<1>3. CASE MipMoves \/ UNCHANGED compareVars
  BY <1>3 DEF MipMoves, compareVars, CompareInv, CompareTypes, LastRecord, InStep, Reasons,
     Excuses
<1>4. CASE MayRetire /\ ExceptionRetire
  BY <1>4, ExceptionStep, Zenon DEF ExceptionRetire
<1>5. CASE GroupRetire
  BY <1>5, GroupStep
<1>6. CASE \E file \in {Gpr, Fpr, Vr}, seen \in BOOLEAN : PeriodicCompare(file, seen)
  BY <1>6, PeriodicStep
<1> QED BY <1>1, <1>2, <1>3, <1>4, <1>5, <1>6 DEF CompareNext

\* CompareInv holds in every state of a run.
THEOREM CompareInductive == CompareSpec => []CompareInv
<1>1. CompareInit => CompareInv
  BY CompareStart
<1>2. CompareInv /\ [CompareNext]_compareVars => CompareInv'
  BY CompareStep
<1> QED BY <1>1, <1>2, PTL DEF CompareSpec

\* compare_dut_whisper_state, process_dut_instr_group_retire and the periodic
\* checks: what is not reported was not compared, what is reported was wrong or
\* could not be put right, and one resynchronised CSR excuses one mismatch.
THEOREM MismatchesRight == CompareSpec => []MismatchesFound
<1>1. CompareInv => MismatchesFound
  BY DEF CompareInv, CompareTypes, Ghosts, Bridges, Reasons, Excuses, MismatchesFound,
     NoFalseMismatch, CsrExcuses
<1> QED BY <1>1, CompareInductive, PTL
-----------------------------------------------------------------------------
\* The harts of the platform have entries of their own in the table, if it has
\* been filled at all.
HartTable ==
  \/ whisper_hart_index = << >>
  \/ /\ Len(whisper_hart_index) = HartCount
     /\ \A i \in 1 .. NumHarts : whisper_hart_index[i] \in 0 .. HartCount - 1
     /\ \A i, j \in 1 .. NumHarts : whisper_hart_index[i] = whisper_hart_index[j] => i = j

\* A call that was answered is one of Calls and its fields are still there;
\* nothing is valid before a server answers.
ClientInv ==
  /\ server_ \in BOOLEAN
  /\ HartTable
  /\ last.answered => last.call \in Calls /\ \A f \in last.call.sets : req[f] = last.v
  /\ ValidIsAnswered
  /\ reply = "Valid" => Cosim /\ server_

\* The fields of a call with a reply message of its own, or of a wide one.
LEMMA CallFields ==
  ASSUME NEW name, NEW type, NEW sets,
         NEW c \in {Call(name, type, sets), Own(Call(name, type, sets)),
                    Wide(Call(name, type, sets)), Wide(Own(Call(name, type, sets)))}
  PROVE  /\ c.name = name /\ c.type = type /\ c.sets = sets
         /\ c \in {Wide(Call(name, type, sets)), Wide(Own(Call(name, type, sets)))} => c.wide
         /\ c = Call(name, type, sets) => ~c.wide
<1>1. CASE c = Call(name, type, sets)
  BY <1>1, Zenon DEF Call, Wide, Own
<1>2. CASE c = Own(Call(name, type, sets))
  BY <1>2, Zenon DEF Call, Own, Wide
<1>3. CASE c = Wide(Call(name, type, sets))
  BY <1>3 DEF Call, Wide, Own
<1>4. CASE c = Wide(Own(Call(name, type, sets)))
  BY <1>4, Zenon DEF Call, Wide, Own
<1> QED BY <1>1, <1>2, <1>3, <1>4

\* A call assigns every field that Whisper reads for its type.
LEMMA NeededIsSet == \A c \in Calls : Needed(c) \subseteq c.sets /\ c.sets \subseteq Fields
<1>1. \A c \in PeekCalls : Needed(c) \subseteq c.sets /\ c.sets \subseteq Fields
  BY DEF PeekCalls, Call, Needed, Fields
<1>2. \A c \in PokeCalls : Needed(c) \subseteq c.sets /\ c.sets \subseteq Fields
  BY DEF PokeCalls, Call, Needed, Fields
<1>3. \A c \in StepCalls : Needed(c) \subseteq c.sets /\ c.sets \subseteq Fields
  BY DEF StepCalls, Call, Own, Needed, Fields
<1>4. \A c \in McmReadCalls : Needed(c) \subseteq c.sets /\ c.sets \subseteq Fields
  <2> SUFFICES ASSUME NEW c \in McmReadCalls
               PROVE  Needed(c) \subseteq c.sets /\ c.sets \subseteq Fields
    OBVIOUS
  <2>1. CASE c = Call("McmRead", "McmRead", Access \cup {"flags", "value"})
    <3>1. c.name = "McmRead" /\ c.type = "McmRead" /\ c.sets = Access \cup {"flags", "value"} /\ ~c.wide
      BY <2>1, CallFields
    <3> QED BY <3>1 DEF Needed, Access, Fields
  <2>2. CASE c = Wide(Own(Call("McmVecRead", "McmRead", Access \cup {"flags", "buffer"})))
    <3>1. c.name = "McmVecRead" /\ c.type = "McmRead" /\ c.sets = Access \cup {"flags", "buffer"} /\ c.wide
      BY <2>2, CallFields
    <3> QED BY <3>1 DEF Needed, Access, Fields
  <2>3. CASE c = Call("McmInsert", "McmInsert", Access \cup {"value"})
    <3>1. c.name = "McmInsert" /\ c.type = "McmInsert" /\ c.sets = Access \cup {"value"} /\ ~c.wide
      BY <2>3, CallFields
    <3> QED BY <3>1 DEF Needed, Access, Fields
  <2>4. CASE c = Wide(Call("McmInsert", "McmInsert", Access \cup {"value", "buffer"}))
    <3>1. c.name = "McmInsert" /\ c.type = "McmInsert" /\ c.sets = Access \cup {"value", "buffer"} /\ c.wide
      BY <2>4, CallFields
    <3> QED BY <3>1 DEF Needed, Access, Fields
  <2>5. CASE c = Wide(Own(Call("McmVecInsert", "McmInsert", Access \cup {"buffer"})))
    <3>1. c.name = "McmVecInsert" /\ c.type = "McmInsert" /\ c.sets = Access \cup {"buffer"} /\ c.wide
      BY <2>5, CallFields
    <3> QED BY <3>1 DEF Needed, Access, Fields
  <2> QED BY <2>1, <2>2, <2>3, <2>4, <2>5 DEF McmReadCalls
<1>5. \A c \in McmWriteCalls : Needed(c) \subseteq c.sets /\ c.sets \subseteq Fields
  <2> SUFFICES ASSUME NEW c \in McmWriteCalls
               PROVE  Needed(c) \subseteq c.sets /\ c.sets \subseteq Fields
    OBVIOUS
  <2>1. CASE c = Call("McmBypass", "McmBypass", Access \cup {"flags", "value"})
    <3>1. c.name = "McmBypass" /\ c.type = "McmBypass" /\ c.sets = Access \cup {"flags", "value"} /\ ~c.wide
      BY <2>1, CallFields
    <3> QED BY <3>1 DEF Needed, Access, Fields
  <2>2. CASE c = Wide(Call("McmBypass", "McmBypass", Access \cup {"flags", "value", "buffer"}))
    <3>1. c.name = "McmBypass" /\ c.type = "McmBypass" /\ c.sets = Access \cup {"flags", "value", "buffer"} /\ c.wide
      BY <2>2, CallFields
    <3> QED BY <3>1 DEF Needed, Access, Fields
  <2>3. CASE c = Wide(Own(Call("McmVecBypass", "McmBypass", Access \cup {"flags", "buffer"})))
    <3>1. c.name = "McmVecBypass" /\ c.type = "McmBypass" /\ c.sets = Access \cup {"flags", "buffer"} /\ c.wide
      BY <2>3, CallFields
    <3> QED BY <3>1 DEF Needed, Access, Fields
  <2>4. CASE c = Call("McmWrite", "McmWrite", {"time", "address", "size", "flags", "buffer"})
    <3>1. c.name = "McmWrite" /\ c.type = "McmWrite" /\ c.sets = {"time", "address", "size", "flags", "buffer"} /\ ~c.wide
      BY <2>4, CallFields
    <3> QED BY <3>1 DEF Needed, Access, Fields
  <2> QED BY <2>1, <2>2, <2>3, <2>4 DEF McmWriteCalls
<1>6. \A c \in McmCacheCalls : Needed(c) \subseteq c.sets /\ c.sets \subseteq Fields
  BY DEF McmCacheCalls, Call, Needed, Fields
<1>7. \A c \in ControlCalls : Needed(c) \subseteq c.sets /\ c.sets \subseteq Fields
  BY DEF ControlCalls, Call, Own, Needed, Fields
<1> QED BY <1>1, <1>2, <1>3, <1>4, <1>5, <1>6, <1>7 DEF Calls


\* Connecting fills the table with a valid list or keeps it.
LEMMA ConnectKeeps ==
  ASSUME ClientInv, NEW failed \in BOOLEAN, NEW list \in HartLists, Connect(failed, list)
  PROVE  ClientInv'
<1>1. UNCHANGED <<req, reply, last>> /\ server_' \in BOOLEAN /\ (server_ => server_')
  BY Zenon DEF Connect, ClientInv
<1>2. HartTable'
  <2>1. CASE whisper_hart_index' = whisper_hart_index
    BY <2>1 DEF ClientInv, HartTable
  <2>2. CASE whisper_hart_index' = Completed(list) /\ ListValid(list)
    <3>1. list \in Seq(Nat) /\ Len(list) = NumHarts /\ NumHarts \in Nat /\ HartCount \in Nat
          /\ NumHarts <= HartCount
      BY <2>2, HartsAssumption DEF ListValid
    <3>2. \A i \in 1 .. NumHarts : list[i] \in 0 .. HartCount - 1
      BY <2>2, <3>1 DEF ListValid
    <3>3. \A i, j \in 1 .. NumHarts : list[i] = list[j] => i = j
      BY <2>2, <3>1 DEF ListValid, IsInjective
    <3>4. /\ Len(whisper_hart_index') = HartCount
          /\ \A i \in 1 .. NumHarts : whisper_hart_index'[i] = list[i]
      BY <2>2, <3>1 DEF Completed
    <3> QED BY <3>1, <3>2, <3>3, <3>4 DEF HartTable
  <2> QED BY <2>1, <2>2 DEF Connect
<1> QED BY <1>1, <1>2 DEF ClientInv, ValidIsAnswered

\* A call leaves its own values in the fields it assigns.
LEMMA DoKeeps ==
  ASSUME ClientInv, NEW c \in Calls, NEW v \in Marks, NEW answer \in Answers, Do(c, v, answer)
  PROVE  ClientInv'
<1>1. UNCHANGED <<server_, whisper_hart_index>>
  BY DEF Do
<1>2. \A f \in c.sets : req'[f] = v
  BY NeededIsSet DEF Do
<1>3. CASE Cosim /\ server_
  <2>1. last'.call = c /\ last'.v = v /\ last'.answered /\ (last'.valid <=> answer = "Valid")
    <3> PICK a \in BOOLEAN : a = (answer = "Valid")
      BY Zenon
    <3>1. last' = [call |-> c, v |-> v, answered |-> TRUE, valid |-> a]
      BY <1>3, Zenon DEF Do, whisperCommand
    <3> QED BY <3>1, Zenon
  <2> QED BY <1>1, <1>2, <1>3, <2>1 DEF ClientInv, HartTable, ValidIsAnswered
<1>4. CASE ~(Cosim /\ server_)
  <2>1. reply' = reply /\ ~last'.answered /\ ~last'.valid
    <3>1. reply # "Valid"
      BY <1>4 DEF ClientInv
    <3>2. reply' = reply /\ last' = [call |-> c, v |-> v, answered |-> FALSE,
                                    valid |-> ~c.own /\ reply = "Valid"]
      BY <1>4, Zenon DEF Do, whisperCommand
    <3>3. (~c.own /\ reply = "Valid") = FALSE
      BY <3>1
    <3>4. last' = [call |-> c, v |-> v, answered |-> FALSE, valid |-> FALSE]
      BY <3>2, <3>3, Zenon
    <3> QED BY <3>2, <3>4
  <2> QED BY <1>1, <2>1 DEF ClientInv, HartTable, ValidIsAnswered
<1> QED BY <1>3, <1>4

\* The invariant gives the three parts of CallsApart.
LEMMA ClientInvSuffices ==
  ASSUME ClientInv PROVE CallsApart
<1>1. NothingLeftOver
  BY NeededIsSet DEF ClientInv, NothingLeftOver
<1>2. HartsApart
  <2>1. CASE whisper_hart_index = << >>
    BY <2>1, HartsAssumption DEF HartsApart, whisperHart, Harts
  <2>2. CASE whisper_hart_index # << >>
    <3>1. \A h \in Harts : whisperHart(h) = whisper_hart_index[h + 1]
      BY <2>2, HartsAssumption DEF ClientInv, HartTable, whisperHart, Harts
    <3>2. \A h \in Harts : h \in Nat /\ h + 1 \in 1 .. NumHarts
      BY HartsAssumption DEF Harts
    <3>3. HartTable
      BY DEF ClientInv
    <3>4. \A h, g \in Harts : h # g => h + 1 # g + 1
      BY <3>2
    <3> QED BY <2>2, <3>1, <3>2, <3>3, <3>4 DEF HartTable, HartsApart
  <2> QED BY <2>1, <2>2
<1> QED BY <1>1, <1>2 DEF ClientInv, CallsApart

\* The callers of the shared client never disturb one another, for every
\* number of harts and every set of hart lists (whisper_client.cpp).
THEOREM CallersApart == ClientSpec => []CallsApart
<1>1. ClientInit => ClientInv
  <2> SUFFICES ASSUME ClientInit PROVE ClientInv
    OBVIOUS
  <2>1. server_ \in BOOLEAN
    BY Zenon DEF ClientInit
  <2>2. HartTable /\ reply # "Valid" /\ ~last.answered /\ ~last.valid
    BY DEF ClientInit, HartTable, Unanswered
  <2> QED BY <2>1, <2>2 DEF ClientInv, ValidIsAnswered
<1>2. ClientInv /\ [ClientNext]_clientVars => ClientInv'
  <2> SUFFICES ASSUME ClientInv, [ClientNext]_clientVars PROVE ClientInv'
    OBVIOUS
  <2>1. ASSUME NEW failed \in BOOLEAN, NEW list \in HartLists, Connect(failed, list)
        PROVE  ClientInv'
    BY <2>1, ConnectKeeps
  <2>2. ASSUME NEW c \in Calls, NEW v \in Marks, NEW answer \in Answers, Do(c, v, answer)
        PROVE  ClientInv'
    BY <2>2, DoKeeps
  <2>3. ASSUME NEW v \in Marks, McmWriteTooLong(v)
        PROVE  ClientInv'
    BY <2>3 DEF McmWriteTooLong, Unanswered, ClientInv, HartTable, ValidIsAnswered
  <2>4. CASE UNCHANGED clientVars
    BY <2>4 DEF clientVars, ClientInv, HartTable, ValidIsAnswered
  <2> QED BY <2>1, <2>2, <2>3, <2>4 DEF ClientNext
<1> QED BY <1>1, <1>2, ClientInvSuffices, PTL DEF ClientSpec
=============================================================================
