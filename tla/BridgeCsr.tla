----------------------------- MODULE BridgeCsr -----------------------------
(***************************************************************************)
(* How a bridge follows the core's CSRs (src/cosim/bridge/bridge.cpp,      *)
(* bridge.h): the checker's copy of them with its aliases and legal        *)
(* fields, the save and restore around misa.H, and the satp write that     *)
(* +delay_satp_update holds back until the next sfence.vma.                *)
(*                                                                         *)
(* A CSR's value is the set of its bits that are one.  The core and        *)
(* Whisper execute the same CSR instructions.  Clearing misa.H hides the   *)
(* hypervisor fields; the core gives them back when misa.H is set again    *)
(* and Whisper has them cleared.  mip and mvip, which follow the pins, are *)
(* left out.                                                               *)
(***************************************************************************)
EXTENDS Integers, FiniteSets

CONSTANTS Csrs,         \* names, a subset of DOMAIN Writable
          Satps,        \* values of satp, <<mode, asid, ppn>>
          MaxWrites

VARIABLES c,            \* the bridge
          cac,          \* the core's CSRs in the bridge's CSR checker
          wh,           \* Whisper's CSRs
          core,         \* the core's
          satp, fenced, \* the core's last satp write, and the last one before a fence
          n

vars == <<c, cac, wh, core, satp, fenced, n>>

Writable ==
  [mstatus |-> {1, 39}, sstatus |-> {1}, medeleg |-> {10, 12}, mideleg |-> {1},
   mie |-> {1, 2}, menvcfg |-> {32, 33}, hgatp |-> {0, 60, 63},
   fflags |-> {0, 4}, frm |-> {0, 2}, fcsr |-> {0, 4, 5, 7}]

\* The fields that are there only with misa.H.
HField(r) ==
  CASE r = "mstatus" -> {38, 39}
    [] r = "medeleg" -> {10} \cup 20 .. 23
    [] r \in {"mideleg", "mie"} -> {2, 6, 10, 12}
    [] OTHER -> {}

\* MUTANT of hypervisor_mask_map_: no bit of mie is given back.
MaskNoMie(r) == IF r = "mideleg" THEN {2, 6, 10, 12} ELSE {}

hypervisor_mask_map_(r) ==
  CASE r = "mstatus" -> {32, 33}
    [] r = "medeleg" -> {12} \cup 16 .. 19
    [] r \in {"mideleg", "mie"} -> {2, 6, 10, 12}
    [] OTHER -> {}

hypervisor_masked_csr_map_ == Csrs \cap {"mstatus", "medeleg", "mideleg", "mie"}

Merge(old, data, mask) == (old \ mask) \cup (data \cap mask)
-----------------------------------------------------------------------------
(* The core and Whisper.                                                   *)

Visible(h, r, v) == IF h THEN v ELSE v \ HField(r)

\* WARL: an illegal value leaves the field as it was.
Legal(r, old, new) ==
  CASE r = "menvcfg" -> IF 32 \in new THEN old ELSE new
    [] r = "hgatp" -> IF 60 \in new THEN Merge(new, old, {60, 63}) ELSE new
    [] OTHER -> new

\* One CSR instruction.
Effect(m, h, r, data, mask) ==
  LET writable == mask \cap Visible(h, r, Writable[r])
      new == Legal(r, m[r], Merge(m[r], data, writable))
  IN  [q \in Csrs |->
         CASE q = r -> new
           [] q = "mstatus" /\ r = "sstatus" -> Merge(m[q], new, Writable[r])
           [] q = "sstatus" /\ r = "mstatus" -> new \cap Writable[q]
           [] q = "fcsr" /\ r = "fflags" -> Merge(m[q], new, 0 .. 4)
           [] q = "fcsr" /\ r = "frm" -> Merge(m[q], {x + 5 : x \in new}, 5 .. 7)
           [] q = "fflags" /\ r = "fcsr" -> new \cap (0 .. 4)
           [] q = "frm" /\ r = "fcsr" -> {x - 5 : x \in new \cap (5 .. 7)}
           [] OTHER -> m[q]]
-----------------------------------------------------------------------------
(* The checker's copy.                                                     *)

\* The bits that a write reaches, less the fields it holds illegal values for:
\* PMM by the bits written, hgatp's mode by the merged value.
modify_csr_mask(r, data, mask, old) ==
  LET result == mask \cap Writable[r]
  IN  CASE r = "menvcfg" /\ 32 \in data \cap result -> result \ {32, 33}
        [] r = "hgatp" /\ 60 \in Merge(old, data, result) -> result \ {60, 63}
        [] OTHER -> result

\* SetResource on the core's side of the checker, and on the CSR of which r is
\* an alias.
update_csr(v, r, data, mask) ==
  [q \in Csrs |-> CASE q = r -> Merge(v[q], data, mask)
                    [] q = "mstatus" /\ r = "sstatus" -> Merge(v[q], data, mask \cap Writable[q])
                    [] OTHER -> v[q]]

Set(v, r, data, mask) == IF r \in Csrs THEN update_csr(v, r, data, mask) ELSE v

\* The CSR part of update_regs, misa apart.
update_regs(v, r, data, wmask) ==
  LET mask == modify_csr_mask(r, data, wmask, v[r])
      u == update_csr(v, r, data, mask)
  IN  CASE r = "fflags" -> Set(u, "fcsr", data, mask)
        [] r = "frm" -> Set(u, "fcsr", {x + 5 : x \in data}, {x + 5 : x \in mask})
        [] r = "fcsr" -> Set(Set(u, "fflags", data, mask \cap (0 .. 4)), "frm",
                             {x - 5 : x \in data \cap (5 .. 63)}, {x - 5 : x \in mask \cap (5 .. 7)})
        [] OTHER -> u

\* What a write leaves in the saved copy.
SavedAfter(saved, r, data, mask) ==
  IF r \notin hypervisor_masked_csr_map_ THEN saved
  ELSE [saved EXCEPT ![r] = (data \cap mask) \cup (@ \ mask) \cup (@ \cap hypervisor_mask_map_(r))]

\* misa.H cleared.
Save(b, v) ==
  [b EXCEPT !.hypervisor_masked_csrs_ = [r \in hypervisor_masked_csr_map_ |-> v[r]],
            !.misa_h_ = FALSE]

CacHidden(v) == Set(Set(v, "medeleg", {}, HField("medeleg")), "mideleg", {}, HField("mideleg"))

\* misa.H set: the pokes to Whisper.
Restore(b, w) ==
  [r \in Csrs |->
     IF r \notin hypervisor_masked_csr_map_ THEN w[r]
     ELSE LET value == b.hypervisor_masked_csrs_[r] \cap hypervisor_mask_map_(r)
          IN  (w[r] \ hypervisor_mask_map_(r)) \cup value]

CacShown(v, w) ==
  Set(Set(v, "medeleg", IF "medeleg" \in Csrs THEN w["medeleg"] ELSE {}, HField("medeleg")),
      "mideleg", HField("mideleg"), HField("mideleg"))
-----------------------------------------------------------------------------
(* satp.                                                                   *)

\* <<the bridge, Whisper's satp>> after a write: the old one is poked back
\* unless the address space changed.  The 16 bits from bit 44 that the code calls
\* mode_asid are the address space identifier alone: the mode is above them.
asid(v) == v[2]

post_step_satp_write_poke(b, w, new) ==
  IF asid(new) # asid(b.satp_) THEN <<[b EXCEPT !.new_satp_ = new, !.satp_ = new], new>>
  ELSE <<[b EXCEPT !.new_satp_ = new], b.satp_>>

\* ... and after an sfence.vma.
PostStepFence(b, w) ==
  IF b.satp_ = b.new_satp_ THEN <<b, w>>
  ELSE <<[b EXCEPT !.satp_ = b.new_satp_], b.new_satp_>>
-----------------------------------------------------------------------------
\* mideleg's VS bits are read-only ones.
Reset == [r \in Csrs |-> IF r = "mideleg" THEN HField(r) ELSE {}]
Bare == <<0, 0, 0>>

Init ==
  /\ c = [misa_h_ |-> TRUE, hypervisor_masked_csrs_ |-> [r \in hypervisor_masked_csr_map_ |-> {}],
          satp_ |-> Bare, new_satp_ |-> Bare, satp |-> Bare]   \* satp: Whisper's
  /\ cac = Reset /\ wh = Reset /\ core = Reset
  /\ satp = Bare /\ fenced = Bare /\ n = 0

\* csrrw, csrrs or csrrc: mask holds the bits that are written.
Write(r, data, mask) ==
  /\ n < MaxWrites
  /\ core' = Effect(core, c.misa_h_, r, data, mask)
  /\ wh' = Effect(wh, c.misa_h_, r, data, mask)
  /\ LET seen == IF c.misa_h_ THEN mask ELSE mask \ HField(r)   \* Whisper's mask of the CSR
     IN  /\ cac' = update_regs(cac, r, data, seen)
         /\ c' = [c EXCEPT !.hypervisor_masked_csrs_ =
                    SavedAfter(@, r, data, modify_csr_mask(r, data, seen, cac[r]))]
  /\ n' = n + 1 /\ UNCHANGED <<satp, fenced>>

ClearH ==
  /\ c.misa_h_ /\ n < MaxWrites
  /\ c' = Save(c, cac)
  /\ wh' = [r \in Csrs |-> wh[r] \ HField(r)]
  /\ cac' = CacHidden(cac)
  /\ n' = n + 1 /\ UNCHANGED <<core, satp, fenced>>

SetH ==
  /\ ~c.misa_h_ /\ n < MaxWrites
  /\ wh' = Restore(c, wh)
  /\ cac' = CacShown(cac, wh')
  /\ c' = [c EXCEPT !.misa_h_ = TRUE]
  /\ n' = n + 1 /\ UNCHANGED <<core, satp, fenced>>

WriteSatp(new) ==
  /\ n < MaxWrites
  /\ LET t == post_step_satp_write_poke(c, c.satp, new)
     IN  c' = [t[1] EXCEPT !.satp = t[2]]
  /\ satp' = new /\ fenced' = IF asid(new) # asid(fenced) THEN new ELSE fenced
  /\ n' = n + 1 /\ UNCHANGED <<cac, wh, core>>

Fence ==
  /\ n < MaxWrites
  /\ LET t == PostStepFence(c, c.satp) IN c' = [t[1] EXCEPT !.satp = t[2]]
  /\ fenced' = satp
  /\ n' = n + 1 /\ UNCHANGED <<cac, wh, core, satp>>

Next ==
  \/ \E r \in Csrs : \E mask \in SUBSET Writable[r] : \E data \in {{}, mask} :
       Write(r, data, mask)
  \/ \E r \in Csrs : \E data \in SUBSET Writable[r] : Write(r, data, 0 .. 63)
  \/ ClearH \/ SetH
  \/ \E new \in Satps : WriteSatp(new)
  \/ Fence

Spec == Init /\ [][Next]_vars
-----------------------------------------------------------------------------
\* The same, less the fields of mstatus and medeleg that hypervisor_mask_map_
\* does not hold.
WhisperFollows ==
  \A r \in Csrs \ {"medeleg"} :
    LET left == IF r = "mstatus" THEN HField(r) ELSE {}
    IN  wh[r] \ left = Visible(c.misa_h_, r, core[r]) \ left

\* The checker's copy is the core's CSR through aliases (fflags, frm and fcsr,
\* sstatus), partial masks and illegal values.
CacFollows == \A r \in Csrs \ {"sstatus"} : cac[r] \ HField(r) = core[r] \ HField(r)

\* +delay_satp_update, "Delay satp update till next sfence.vma" (bridge.cpp:78):
\* Whisper translates with the last satp before a fence, or with a later one
\* that changed the address space, and with no other; a write that changes the
\* mode alone is held back as well.
SatpHeld == c.satp = fenced
=============================================================================
