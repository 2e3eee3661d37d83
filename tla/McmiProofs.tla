---------------------------- MODULE McmiProofs ----------------------------
(***************************************************************************)
(* Proofs about the memory-consistency interface, for any set of atomics,  *)
(* lines and branch tags, any number of kept patch sessions and any length *)
(* of the run.  The three parts of mcmi share no state, and have an        *)
(* inductive invariant each.                                               *)
(***************************************************************************)
EXTENDS Mcmi, FiniteSetTheorems, TLAPS

\* What the maps of the atomics hold and how many bypasses were sent, from the
\* messages that came and the order of the two of an SC.
Writes(t) == op[t] \in {"amo", "cas_pass"}
WasSent(t) ==
  \/ op[t] = "sc_pass" /\ t \in readFirst /\ t \in bypasses
  \/ Writes(t) /\ t \in bypasses /\ (Emulate => t \in reads)

AtomicTypes ==
  /\ op \in [Atomics -> Ops]
  /\ sent \in [Atomics -> Nat]
  /\ sc_result_ \in [Atomics -> {None, "sc_pass", "sc_fail"}]
  /\ readFirst \subseteq reads

AtomicBooks(t) ==
  /\ sc_result_[t] = IF IsSc(t) /\ t \in readFirst THEN op[t] ELSE None
  /\ t \in sc_bypass_ <=> /\ IsSc(t) /\ t \in bypasses
                          /\ ~(op[t] = "sc_pass" /\ t \in readFirst)
  /\ t \in amo_writes_ <=> Emulate /\ Writes(t) /\ t \in bypasses /\ t \notin reads
  /\ sent[t] = IF WasSent(t) THEN 1 ELSE 0
  /\ Emulate /\ Writes(t) /\ t \in reads => t \in bypasses

AtomicInv == AtomicTypes /\ \A t \in Atomics : AtomicBooks(t)
-----------------------------------------------------------------------------
\* A closed session: its trigger, and the tags that retired in it.
TagRange == [trigger : Nat, lo : Nat, hi : Nat]

\* A range of tags up to n that all belong to the session of its trigger.
Proper(r, own, n) ==
  /\ 1 <= r.trigger /\ r.trigger < r.lo /\ r.lo <= r.hi /\ r.hi <= n
  /\ \A t \in r.lo .. r.hi : own[t] = r.trigger

\* The kept ranges rs: proper, in the order of their sessions and apart.
Good(rs, own, n) ==
  /\ rs \in Seq(TagRange) /\ Len(rs) <= PatchKept
  /\ \A i \in DOMAIN rs : Proper(rs[i], own, n)
  /\ \A i, j \in DOMAIN rs : i < j => rs[i].hi < rs[j].trigger

\* A tag is in a kept range, or its range made room for later ones.
Found(rs, t) == \E i \in DOMAIN rs : rs[i].lo <= t /\ t <= rs[i].hi
Lost(rs, t) == Len(rs) = PatchKept /\ \A i \in DOMAIN rs : t < rs[i].trigger

\* The session that the members of mcmi stand for.
OpenSession ==
  \/ /\ inPatch = "no" /\ patch_mode_ = FALSE
     /\ patch_mode_first_tag_ = 0 /\ patch_lo_tag_ = 0 /\ patch_hi_tag_ = 0
  \/ /\ inPatch \in {"entered", "yes", Silent} /\ patch_mode_ = TRUE
     /\ patch_mode_first_tag_ = session /\ 1 <= session
     /\ \A i \in DOMAIN patch_tag_ranges_ : patch_tag_ranges_[i].hi < session
     /\ IF inPatch = "entered" THEN patch_lo_tag_ = 0 /\ patch_hi_tag_ = 0
        ELSE /\ session < patch_lo_tag_ /\ patch_lo_tag_ <= order /\ patch_hi_tag_ = order
             /\ \A t \in patch_lo_tag_ .. order : owner[t] = session

InOpen(t) == patch_mode_ /\ patch_lo_tag_ # 0 /\ patch_lo_tag_ <= t

PatchTypes ==
  /\ order \in Nat /\ session \in 0 .. order
  /\ owner \in Seq(Nat) /\ Len(owner) = order
  /\ \A t \in 1 .. order : owner[t] \in 1 .. t
  /\ patch_lo_tag_ \in Nat /\ patch_hi_tag_ \in Nat /\ patch_mode_first_tag_ \in Nat

PatchInv ==
  /\ PatchTypes
  /\ Good(patch_tag_ranges_, owner, order)
  /\ OpenSession
  /\ \A t \in 1 .. order :
       owner[t] # t => InOpen(t) \/ Found(patch_tag_ranges_, t) \/ Lost(patch_tag_ranges_, t)
-----------------------------------------------------------------------------
\* What is noted of the lines of the snapshot: the non-cacheable ones are
\* tracked, those of the current window are active, and an active line has seen
\* no change of the branch tag.
FetchInv ==
  /\ ifetch_reqs_ \in Seq(Lines) /\ age \in [Lines -> Nat]
  /\ ncio_fetches_ \subseteq Ncio /\ active_ncio_fetches_ \subseteq ncio_fetches_
  /\ snap \subseteq Lines /\ window \subseteq snap
  /\ snap \cap Ncio \subseteq ncio_fetches_
  /\ window \cap Ncio \subseteq active_ncio_fetches_
  /\ \A l \in active_ncio_fetches_ : age[l] = 0
  /\ SnapshotFresh
-----------------------------------------------------------------------------
(* Atomics. *)

USE OpsAssumption, KeptAssumption

LEMMA AtomicStart == McmiInit => AtomicInv
<1> SUFFICES ASSUME McmiInit PROVE AtomicInv
  OBVIOUS
<1>1. AtomicTypes
  BY DEF McmiInit, AtomicTypes, None
<1>2. ASSUME NEW t \in Atomics PROVE AtomicBooks(t)
  BY DEF McmiInit, AtomicBooks, WasSent, None
<1> QED
  BY <1>1, <1>2 DEF AtomicInv

\* The books of an atomic only depend on its own entries.
LEMMA OtherBooks ==
  ASSUME NEW u \in Atomics, AtomicBooks(u),
         op' = op, sc_result_'[u] = sc_result_[u], sent'[u] = sent[u],
         u \in sc_bypass_' <=> u \in sc_bypass_, u \in amo_writes_' <=> u \in amo_writes_,
         u \in reads' <=> u \in reads, u \in bypasses' <=> u \in bypasses,
         u \in readFirst' <=> u \in readFirst
  PROVE  AtomicBooks(u)'
<1>1. op'[u] = op[u]
  OBVIOUS
<1>2. IsSc(u)' = IsSc(u) /\ Writes(u)' = Writes(u)
  BY <1>1 DEF IsSc, Writes
<1>3. WasSent(u)' <=> WasSent(u)
  BY <1>1, <1>2 DEF WasSent
<1> QED
  BY <1>1, <1>2, <1>3 DEF AtomicBooks

\* A read of t: an SC's result is stored unless its bypass came before, an
\* AMO's waiting write is sent.
LEMMA ReadStep == ASSUME AtomicInv, NEW t \in Atomics, m_mcmi_read(t) PROVE AtomicInv'
<1> USE DEF AtomicInv
<1>1. /\ t \notin reads /\ MayRead(t) /\ reads' = reads \cup {t}
      /\ readFirst' = IF t \in bypasses THEN readFirst ELSE readFirst \cup {t}
      /\ op' = op /\ bypasses' = bypasses
  BY DEF m_mcmi_read
<1>2. op[t] \in Ops /\ AtomicBooks(t) /\ t \notin readFirst
  BY <1>1 DEF AtomicTypes
<1>3. CASE IsSc(t)
  <2>1. ReadSc(t) /\ op[t] \in {"sc_pass", "sc_fail"}
    BY <1>3 DEF m_mcmi_read, IsSc
  <2>2. sc_failed(t)
    BY <1>2 DEF AtomicBooks, sc_failed, None
  <2>3. sc_bypass_' = sc_bypass_ /\ sent' = sent /\ amo_writes_' = amo_writes_
    BY <2>1, <2>2 DEF ReadSc
  <2>4. sc_result_' = IF t \notin sc_bypass_ THEN [sc_result_ EXCEPT ![t] = op[t]] ELSE sc_result_
    BY <2>1, <2>2 DEF ReadSc
  <2>5. AtomicTypes'
    BY <1>1, <2>1, <2>3, <2>4 DEF AtomicTypes
  <2>6. ASSUME NEW u \in Atomics, u # t PROVE AtomicBooks(u)'
    <3>1. AtomicBooks(u) /\ sc_result_'[u] = sc_result_[u]
      BY <2>4, <2>6 DEF AtomicTypes
    <3> QED
      BY <1>1, <2>3, <2>6, <3>1, OtherBooks
  <2>7. AtomicBooks(t)'
    <3>1. sc_result_'[t] = IF t \notin sc_bypass_ THEN op[t] ELSE sc_result_[t]
      BY <2>4 DEF AtomicTypes
    <3> QED
      BY <1>1, <1>2, <2>1, <2>3, <3>1 DEF AtomicBooks, IsSc, Writes, WasSent
  <2> QED
    BY <2>5, <2>6, <2>7
<1>4. CASE ~IsSc(t)
  <2>1. ReadAmo(t) /\ op[t] \in {"amo", "cas_pass", "cas_fail"}
    BY <1>2, <1>4, Zenon DEF m_mcmi_read, IsSc
  <2>2. sc_bypass_' = sc_bypass_ /\ sc_result_' = sc_result_
    BY <2>1 DEF ReadAmo
  <2>3. CASE Emulate /\ t \in amo_writes_
    <3>1. sent' = [sent EXCEPT ![t] = @ + 1] /\ amo_writes_' = amo_writes_ \ {t}
      BY <2>1, <2>3 DEF ReadAmo, process_amo
    <3>2. AtomicTypes'
      BY <1>1, <2>2, <3>1 DEF AtomicTypes
    <3>3. ASSUME NEW u \in Atomics, u # t PROVE AtomicBooks(u)'
      <4>1. AtomicBooks(u) /\ sent'[u] = sent[u]
        BY <3>1, <3>3 DEF AtomicTypes
      <4> QED
        BY <1>1, <2>2, <3>1, <3>3, <4>1, OtherBooks
    <3>4. AtomicBooks(t)'
      <4>1. sent'[t] = sent[t] + 1
        BY <3>1 DEF AtomicTypes
      <4>2. sent[t] = 0
        BY <1>2, <2>1, <2>3 DEF AtomicBooks, WasSent, Writes
      <4> QED
        BY <1>1, <1>2, <2>1, <2>2, <2>3, <3>1, <4>1, <4>2 DEF AtomicBooks, IsSc, Writes, WasSent
    <3> QED
      BY <3>2, <3>3, <3>4
  <2>4. CASE ~(Emulate /\ t \in amo_writes_)
    <3>1. sent' = sent /\ amo_writes_' = amo_writes_
      BY <2>1, <2>4 DEF ReadAmo, process_amo
    <3>2. AtomicTypes'
      BY <1>1, <2>2, <3>1 DEF AtomicTypes
    <3>3. ASSUME NEW u \in Atomics, u # t PROVE AtomicBooks(u)'
      BY <1>1, <2>2, <3>1, <3>3, OtherBooks
    <3>4. AtomicBooks(t)'
      BY <1>1, <1>2, <2>1, <2>2, <2>4, <3>1
         DEF AtomicBooks, IsSc, Writes, WasSent, MayRead
    <3> QED
      BY <3>2, <3>3, <3>4
  <2> QED
    BY <2>3, <2>4
<1> QED
  BY <1>3, <1>4

\* A bypass of t: dropped, kept for the read, or sent.
LEMMA BypassStep == ASSUME AtomicInv, NEW t \in Atomics, m_mcmi_bypass(t) PROVE AtomicInv'
<1> USE DEF AtomicInv
<1>1. /\ t \notin bypasses /\ BypassOf(t) /\ bypasses' = bypasses \cup {t}
      /\ op' = op /\ reads' = reads
      /\ readFirst' = readFirst /\ sc_result_' = sc_result_
  BY DEF m_mcmi_bypass
<1>2. op[t] \in {"sc_pass", "sc_fail", "amo", "cas_pass", "cas_fail"} /\ AtomicBooks(t)
  BY Zenon DEF AtomicTypes
<1>3. /\ \A u \in Atomics \ {t} : /\ sent'[u] = sent[u]
                                  /\ u \in sc_bypass_' <=> u \in sc_bypass_
                                  /\ u \in amo_writes_' <=> u \in amo_writes_
      /\ sent' \in [Atomics -> Nat]
  BY <1>1, <1>2 DEF BypassOf, AtomicTypes, IsSc
<1>4. AtomicTypes'
  BY <1>1, <1>3 DEF AtomicTypes
<1>5. ASSUME NEW u \in Atomics, u # t PROVE AtomicBooks(u)'
  BY <1>1, <1>3, <1>5, OtherBooks
<1>6. AtomicBooks(t)'
  <2>1. op'[t] = op[t] /\ sc_result_'[t] = sc_result_[t] /\ t \in bypasses'
    BY <1>1
  <2>2. sent[t] = 0 /\ t \notin sc_bypass_ /\ t \notin amo_writes_
    BY <1>1, <1>2 DEF AtomicBooks, WasSent
  <2>3. CASE op[t] = "cas_fail"
    BY <1>1, <1>2, <2>1, <2>2, <2>3 DEF BypassOf, AtomicBooks, IsSc, Writes, WasSent
  <2>4. CASE Writes(t) /\ Emulate
    <3>1. amo_writes_' = amo_writes_ \cup {t} /\ sc_bypass_' = sc_bypass_ /\ sent' = sent
      BY <1>1, <2>4 DEF BypassOf, Writes, IsSc
    <3>2. t \notin reads
      BY <1>1, <1>2, <2>4 DEF AtomicBooks
    <3> QED
      BY <1>1, <1>2, <2>1, <2>2, <2>4, <3>1, <3>2 DEF AtomicBooks, IsSc, Writes, WasSent
  <2>5. CASE Writes(t) /\ ~Emulate
    <3>1. /\ amo_writes_' = amo_writes_ /\ sc_bypass_' = sc_bypass_
          /\ sent' = [sent EXCEPT ![t] = @ + 1]
      BY <1>1, <2>5 DEF BypassOf, Writes, IsSc
    <3>2. sent'[t] = 1
      BY <2>2, <3>1, SMTT(30) DEF AtomicTypes
    <3> QED
      BY <1>1, <1>2, <2>1, <2>2, <2>5, <3>1, <3>2 DEF AtomicBooks, IsSc, Writes, WasSent
  <2>6. CASE IsSc(t) /\ sc_failed(t)
    <3>1. amo_writes_' = amo_writes_ /\ sc_bypass_' = sc_bypass_ \cup {t} /\ sent' = sent
      BY <1>1, <2>6 DEF BypassOf, IsSc
    <3>2. ~(op[t] = "sc_pass" /\ t \in readFirst)
      BY <1>2, <2>6, Zenon DEF AtomicBooks, sc_failed
    <3> QED
      BY <1>1, <1>2, <2>1, <2>2, <2>6, <3>1, <3>2 DEF AtomicBooks, IsSc, Writes, WasSent
  <2>7. CASE IsSc(t) /\ ~sc_failed(t)
    <3>1. /\ amo_writes_' = amo_writes_ /\ sc_bypass_' = sc_bypass_
          /\ sent' = [sent EXCEPT ![t] = @ + 1]
      BY <1>1, <2>7 DEF BypassOf, IsSc
    <3>2. sent'[t] = 1
      BY <2>2, <3>1 DEF AtomicTypes
    <3>3. op[t] = "sc_pass" /\ t \in readFirst
      BY <1>2, <2>7 DEF AtomicBooks, sc_failed, None
    <3> QED
      BY <1>1, <1>2, <2>1, <2>2, <2>7, <3>1, <3>2, <3>3 DEF AtomicBooks, IsSc, Writes, WasSent
  <2> QED
    BY <1>2, <2>3, <2>4, <2>5, <2>6, <2>7 DEF IsSc, Writes
<1> QED
  BY <1>4, <1>5, <1>6

LEMMA AtomicStep == AtomicInv /\ [McmiNext]_mcmiVars => AtomicInv'
<1> SUFFICES ASSUME AtomicInv, [McmiNext]_mcmiVars PROVE AtomicInv'
  OBVIOUS
<1>1. ASSUME NEW t \in Atomics, m_mcmi_read(t) \/ m_mcmi_bypass(t) PROVE AtomicInv'
  BY <1>1, ReadStep, BypassStep
<1>2. ASSUME UNCHANGED <<atomicState, dutState>> PROVE AtomicInv'
  <2>1. /\ op' = op /\ sent' = sent /\ sc_result_' = sc_result_ /\ sc_bypass_' = sc_bypass_
        /\ amo_writes_' = amo_writes_ /\ reads' = reads /\ bypasses' = bypasses
        /\ readFirst' = readFirst
    BY <1>2 DEF atomicState, dutState
  <2>2. AtomicTypes'
    BY <2>1 DEF AtomicInv, AtomicTypes
  <2>3. ASSUME NEW t \in Atomics PROVE AtomicBooks(t)'
    BY <2>1, OtherBooks DEF AtomicInv
  <2> QED
    BY <2>2, <2>3 DEF AtomicInv
<1>3. CASE m_trap
  BY <1>2, <1>3 DEF m_trap
<1>4. ASSUME NEW set \in BOOLEAN, NEW clr \in BOOLEAN, NEW silent \in BOOLEAN,
             NEW last \in BOOLEAN, NEW bt \in BranchTags, m_rvfi(set, clr, silent, last, bt)
      PROVE  AtomicInv'
  BY <1>2, <1>4 DEF m_rvfi
<1>5. ASSUME NEW l \in Lines, m_mcmi_ifetch_req(l) \/ m_mcmi_ievict(l) PROVE AtomicInv'
  BY <1>2, <1>5 DEF m_mcmi_ifetch_req, m_mcmi_ievict
<1>6. ASSUME NEW i \in DOMAIN ifetch_reqs_, m_mcmi_ifetch_resp(i) PROVE AtomicInv'
  BY <1>2, <1>6 DEF m_mcmi_ifetch_resp
<1>7. CASE m_drain
  BY <1>2, <1>7 DEF m_drain
<1>8. CASE UNCHANGED mcmiVars
  BY <1>2, <1>8 DEF mcmiVars
<1> QED
  BY <1>1, <1>3, <1>4, <1>5, <1>6, <1>7, <1>8 DEF McmiNext

(* The write of an atomic reaches the bridge at most once and only if it   *)
(* happened, in whichever order its messages come, and an AMO's as soon as *)
(* both have come before m_drain (m_mcmi_read, m_mcmi_bypass, process_amo  *)
(* of mcmi.cpp, connect of mcmi.h).                                        *)
THEOREM AtomicsRight == McmiSpec => []AtomicWrites
<1>1. AtomicInv => AtomicWrites
  BY DEF AtomicInv, AtomicBooks, AtomicWrites, WasSent, Writes
<1> QED
  BY <1>1, AtomicStart, AtomicStep, PTL DEF McmiSpec
-----------------------------------------------------------------------------
(* Instruction fetches. *)

LEMMA FetchStart == McmiInit => FetchInv
  BY DEF McmiInit, FetchInv, SnapshotFresh, Lines

\* A response: the line is in the snapshot again, active if it is non-cacheable,
\* and its age starts anew.
LEMMA RespStep ==
  ASSUME FetchInv, NEW i \in DOMAIN ifetch_reqs_, m_mcmi_ifetch_resp(i)
  PROVE  FetchInv'
<1> DEFINE l == ifetch_reqs_[i]
<1>1. l \in Lines
  BY DEF FetchInv
<1>2. /\ snap' = snap \cup {l} /\ window' = window \cup {l}
      /\ age' = [age EXCEPT ![l] = 0]
      /\ ifetch_reqs_' = SubSeq(ifetch_reqs_, 1, i - 1)
                         \o SubSeq(ifetch_reqs_, i + 1, Len(ifetch_reqs_))
      /\ l \in Ncio => /\ ncio_fetches_' = ncio_fetches_ \cup {l}
                       /\ active_ncio_fetches_' = active_ncio_fetches_ \cup {l}
      /\ l \notin Ncio => ncio_fetches_' = ncio_fetches_ /\ active_ncio_fetches_' = active_ncio_fetches_
  BY DEF m_mcmi_ifetch_resp, Noted
<1> HIDE DEF l
<1>3. ifetch_reqs_' \in Seq(Lines)
  <2>1. ifetch_reqs_ \in Seq(Lines) /\ i \in 1 .. Len(ifetch_reqs_)
    BY DEF FetchInv
  <2>2. /\ SubSeq(ifetch_reqs_, 1, i - 1) \in Seq(Lines)
        /\ SubSeq(ifetch_reqs_, i + 1, Len(ifetch_reqs_)) \in Seq(Lines)
    BY <2>1
  <2> QED
    BY <1>2, <2>2
<1>4. /\ age' \in [Lines -> Nat] /\ age'[l] = 0
      /\ \A k \in Lines : age'[k] = age[k] \/ age'[k] = 0
  BY <1>1, <1>2 DEF FetchInv
<1>5. /\ ncio_fetches_' \subseteq Ncio /\ active_ncio_fetches_' \subseteq ncio_fetches_'
      /\ snap' \subseteq Lines /\ window' \subseteq snap'
      /\ snap' \cap Ncio \subseteq ncio_fetches_'
      /\ window' \cap Ncio \subseteq active_ncio_fetches_'
  BY <1>1, <1>2, Zenon DEF FetchInv
<1>6. \A k \in active_ncio_fetches_' : age'[k] = 0
  BY <1>2, <1>4 DEF FetchInv, Lines
<1>7. SnapshotFresh'
  BY <1>1, <1>2, <1>4 DEF FetchInv, SnapshotFresh
<1> QED
  BY <1>3, <1>4, <1>5, <1>6, <1>7, Zenon DEF FetchInv

\* A retired instruction: at a boundary the window closes, and a change of the
\* branch tag evicts what is not active.
LEMMA RetireStep ==
  ASSUME FetchInv, NEW set \in BOOLEAN, NEW clr \in BOOLEAN, NEW silent \in BOOLEAN,
         NEW last \in BOOLEAN, NEW bt \in BranchTags, m_rvfi(set, clr, silent, last, bt)
  PROVE  FetchInv' /\ window \subseteq snap'
<1>1. /\ RvfiNcio(last, bt) /\ ifetch_reqs_' = ifetch_reqs_
      /\ age' = [l \in Lines |-> IF l \in snap /\ last /\ bt # prev_branch_tag_
                                 THEN age[l] + 1 ELSE age[l]]
      /\ window' = IF last THEN {} ELSE window
  BY DEF m_rvfi
<1>2. CASE ~last
  <2>1. /\ ncio_fetches_' = ncio_fetches_ /\ active_ncio_fetches_' = active_ncio_fetches_
        /\ snap' = snap /\ window' = window
    BY <1>1, <1>2 DEF RvfiNcio, ncioState
  <2>2. age' = age
    BY <1>1, <1>2 DEF FetchInv
  <2> QED
    BY <1>1, <2>1, <2>2 DEF FetchInv, SnapshotFresh
<1>3. CASE last
  <2> DEFINE gone == IF bt # prev_branch_tag_
                     THEN ncio_fetches_ \ active_ncio_fetches_ ELSE {}
  <2>1. /\ active_ncio_fetches_' = {}
        /\ ncio_fetches_' = ncio_fetches_ \ gone /\ snap' = snap \ gone
    <3>1. CASE ncio_fetches_ # {} \/ ncio_mem_transition_
      BY <1>1, <1>3, <3>1 DEF RvfiNcio
    <3>2. CASE ~(ncio_fetches_ # {} \/ ncio_mem_transition_)
      BY <1>1, <1>3, <3>2 DEF RvfiNcio, FetchInv
    <3> QED
      BY <3>1, <3>2
  <2>2. age' \in [Lines -> Nat]
    BY <1>1 DEF FetchInv
  <2>3. window \subseteq snap'
    BY <2>1 DEF FetchInv
  <2>4. SnapshotFresh'
    <3> SUFFICES ASSUME NEW l \in snap', l \in Ncio PROVE age'[l] <= 1
      BY DEF SnapshotFresh
    <3>1. l \in snap /\ l \in ncio_fetches_ /\ l \in Lines
      BY <2>1 DEF FetchInv
    <3>2. CASE bt # prev_branch_tag_
      <4>1. l \in active_ncio_fetches_
        BY <2>1, <3>1, <3>2
      <4>2. age[l] = 0
        BY <4>1 DEF FetchInv
      <4> QED
        BY <1>1, <3>1, <4>2
    <3>3. CASE bt = prev_branch_tag_
      <4>1. age[l] <= 1
        BY <3>1 DEF FetchInv, SnapshotFresh
      <4> QED
        BY <1>1, <3>1, <3>3, <4>1
    <3> QED
      BY <3>2, <3>3
  <2> QED
    BY <1>1, <1>3, <2>1, <2>2, <2>3, <2>4 DEF FetchInv
<1> QED
  BY <1>2, <1>3

LEMMA FetchStep ==
  FetchInv /\ [McmiNext]_mcmiVars => FetchInv' /\ (order' # order => window \subseteq snap')
<1> SUFFICES ASSUME FetchInv, [McmiNext]_mcmiVars
             PROVE  FetchInv' /\ (order' # order => window \subseteq snap')
  OBVIOUS
<1>1. ASSUME UNCHANGED fetchState PROVE FetchInv' /\ window \subseteq snap'
  <2>1. /\ ifetch_reqs_' = ifetch_reqs_ /\ age' = age /\ snap' = snap /\ window' = window
        /\ ncio_fetches_' = ncio_fetches_ /\ active_ncio_fetches_' = active_ncio_fetches_
    BY <1>1 DEF fetchState, ncioState
  <2> QED
    BY <2>1 DEF FetchInv, SnapshotFresh
<1>2. ASSUME NEW t \in Atomics, m_mcmi_read(t) \/ m_mcmi_bypass(t)
      PROVE  FetchInv' /\ window \subseteq snap'
  BY <1>1, <1>2 DEF m_mcmi_read, m_mcmi_bypass
<1>3. CASE m_trap
  BY <1>1, <1>3 DEF m_trap
<1>4. ASSUME NEW set \in BOOLEAN, NEW clr \in BOOLEAN, NEW silent \in BOOLEAN,
             NEW last \in BOOLEAN, NEW bt \in BranchTags, m_rvfi(set, clr, silent, last, bt)
      PROVE  FetchInv' /\ window \subseteq snap'
  BY <1>4, RetireStep
<1>5. ASSUME NEW l \in Lines, m_mcmi_ifetch_req(l) PROVE FetchInv' /\ order' = order
  <2>1. /\ ifetch_reqs_' = Append(ifetch_reqs_, l) /\ age' = age /\ snap' = snap
        /\ window' = window /\ order' = order
        /\ ncio_fetches_' = ncio_fetches_ /\ active_ncio_fetches_' = active_ncio_fetches_
    BY <1>5 DEF m_mcmi_ifetch_req, ncioState, retireState
  <2>2. ifetch_reqs_' \in Seq(Lines)
    BY <1>5, <2>1 DEF FetchInv
  <2> QED
    BY <2>1, <2>2 DEF FetchInv, SnapshotFresh
<1>6. ASSUME NEW l \in Lines, m_mcmi_ievict(l) PROVE FetchInv' /\ order' = order
  <2>1. /\ ifetch_reqs_' = ifetch_reqs_ /\ age' = age /\ snap' = snap \ {l}
        /\ window' = window \ {l} /\ order' = order
        /\ ncio_fetches_' = ncio_fetches_ /\ active_ncio_fetches_' = active_ncio_fetches_
    BY <1>6 DEF m_mcmi_ievict, ncioState, retireState
  <2> QED
    BY <2>1 DEF FetchInv, SnapshotFresh
<1>7. ASSUME NEW i \in DOMAIN ifetch_reqs_, m_mcmi_ifetch_resp(i) PROVE FetchInv' /\ order' = order
  <2>1. order' = order
    BY <1>7 DEF m_mcmi_ifetch_resp, retireState
  <2> QED
    BY <1>7, <2>1, RespStep
<1>8. CASE m_drain
  BY <1>1, <1>8 DEF m_drain
<1>9. CASE UNCHANGED mcmiVars
  BY <1>1, <1>9 DEF mcmiVars
<1> QED
  BY <1>2, <1>3, <1>4, <1>5, <1>6, <1>7, <1>8, <1>9 DEF McmiNext

(* Whisper's snapshot loses no line that the core fetched since the last   *)
(* instruction boundary, and keeps no non-cacheable line over two changes  *)
(* of the branch tag, whatever the order of fetches, evictions and         *)
(* retirements (m_mcmi_ifetch_resp, m_rvfi, process_ncio_fetches).         *)
THEOREM SnapshotsRight == McmiSpec => SnapshotRight
<1>1. McmiSpec => []FetchInv
  BY FetchStart, FetchStep, PTL DEF McmiSpec
<1>2. FetchInv => SnapshotFresh
  BY DEF FetchInv
<1>3. FetchInv /\ [McmiNext]_mcmiVars => [order' # order => window \subseteq snap']_mcmiVars
  BY FetchStep
<1>4. McmiSpec => [][order' # order => window \subseteq snap']_mcmiVars
  BY <1>1, <1>3, PTL DEF McmiSpec
<1> QED
  BY <1>1, <1>2, <1>4, PTL DEF SnapshotRight, SnapshotKept
-----------------------------------------------------------------------------
(* Patch sessions. *)

\* Retiring one more instruction does not touch the kept ranges.
LEMMA Grown ==
  ASSUME NEW own \in Seq(Nat), NEW n \in Nat, Len(own) = n, NEW x \in Nat, NEW rs,
         Good(rs, own, n)
  PROVE  Good(rs, Append(own, x), n + 1)
<1>1. ASSUME NEW i \in DOMAIN rs PROVE Proper(rs[i], Append(own, x), n + 1)
  <2>1. rs[i] \in TagRange /\ Proper(rs[i], own, n)
    BY DEF Good
  <2>2. \A t \in rs[i].lo .. rs[i].hi : t \in 1 .. n /\ Append(own, x)[t] = own[t]
    BY <2>1, SMTT(30) DEF TagRange, Proper
  <2> QED
    BY <2>1, <2>2 DEF TagRange, Proper
<1> QED
  BY <1>1 DEF Good

\* The ranges after a proper range r that is younger than all is added, and the
\* oldest one dropped when there are too many.
Pushed(rs, r) == IF Len(rs) + 1 > PatchKept THEN Tail(Append(rs, r)) ELSE Append(rs, r)

\* Adding a range: the kept ones stay proper and apart, and a tag that was in a
\* range is in a kept range or before all of them.
LEMMA Added ==
  ASSUME NEW own, NEW n \in Nat, NEW rs, Good(rs, own, n), NEW r \in TagRange,
         Proper(r, own, n), \A i \in DOMAIN rs : rs[i].hi < r.trigger
  PROVE  /\ Good(Pushed(rs, r), own, n)
         /\ \A i \in DOMAIN Pushed(rs, r) : Pushed(rs, r)[i].hi <= r.hi
         /\ \A t \in Nat : Found(rs, t) \/ Lost(rs, t) \/ (r.lo <= t /\ t <= r.hi)
                             => Found(Pushed(rs, r), t) \/ Lost(Pushed(rs, r), t)
<1> DEFINE all == Append(rs, r)
           m == Len(rs)
<1>1. /\ rs \in Seq(TagRange) /\ m \in Nat /\ m <= PatchKept /\ DOMAIN rs = 1 .. m
      /\ all \in Seq(TagRange) /\ Len(all) = m + 1 /\ DOMAIN all = 1 .. m + 1
      /\ \A i \in 1 .. m : all[i] = rs[i]
      /\ all[m + 1] = r
  BY DEF Good
<1>0. PatchKept \in Nat /\ Len(rs) \in Nat /\ Len(rs) <= PatchKept
  BY DEF Good
<1>2. /\ \A i \in DOMAIN all : all[i] \in TagRange /\ Proper(all[i], own, n) /\ all[i].hi <= r.hi
      /\ \A i, j \in DOMAIN all : i < j => all[i].hi < all[j].trigger
  <2>1. ASSUME NEW i \in 1 .. m + 1
        PROVE  all[i] \in TagRange /\ Proper(all[i], own, n) /\ all[i].hi <= r.hi
    <3>1. CASE i = m + 1
      BY <1>1, <3>1 DEF TagRange
    <3>2. CASE i \in 1 .. m
      <4>1. all[i] = rs[i] /\ rs[i] \in TagRange /\ Proper(rs[i], own, n) /\ rs[i].hi < r.trigger
        BY <1>1, <3>2 DEF Good
      <4> QED
        BY <4>1 DEF TagRange, Proper
    <3> QED
      BY <1>1, <3>1, <3>2
  <2>2. ASSUME NEW i \in 1 .. m + 1, NEW j \in 1 .. m + 1, i < j
        PROVE  all[i].hi < all[j].trigger
    <3>1. i \in 1 .. m /\ all[i] = rs[i]
      BY <1>1, <2>2
    <3>2. CASE j = m + 1
      BY <1>1, <3>1, <3>2
    <3>3. CASE j \in 1 .. m
      BY <1>1, <2>2, <3>1, <3>3 DEF Good
    <3> QED
      BY <1>1, <3>2, <3>3
  <2> QED
    BY <1>1, <2>1, <2>2
<1>3. CASE m + 1 <= PatchKept
  <2>1. Pushed(rs, r) = all
    BY <1>0, <1>3 DEF Pushed
  <2>2. Good(all, own, n)
    BY <1>1, <1>2, <1>3 DEF Good
  <2>3. ASSUME NEW t \in Nat, Found(rs, t) \/ Lost(rs, t) \/ (r.lo <= t /\ t <= r.hi)
        PROVE  Found(all, t)
    <3>1. ~Lost(rs, t)
      BY <1>0, <1>3 DEF Lost
    <3>2. CASE Found(rs, t)
      BY <1>1, <3>2 DEF Found
    <3>3. CASE r.lo <= t /\ t <= r.hi
      BY <1>1, <3>3, SMTT(30) DEF Found
    <3> QED
      BY <2>3, <3>1, <3>2, <3>3
  <2> HIDE DEF all
  <2> QED
    BY <1>2, <2>1, <2>2, <2>3
<1>4. CASE m = PatchKept
  <2> DEFINE res == Tail(all)
  <2>1. Pushed(rs, r) = res
    BY <1>1, <1>4 DEF Pushed
  <2>2. /\ res \in Seq(TagRange) /\ Len(res) = PatchKept /\ DOMAIN res = 1 .. m
        /\ \A i \in 1 .. m : res[i] = all[i + 1] /\ i + 1 \in DOMAIN all
    <3>1. all \in Seq(TagRange) /\ Len(all) = PatchKept + 1 /\ all # << >>
      BY <1>0, <1>1, <1>4
    <3> HIDE DEF all
    <3>2. res \in Seq(TagRange) /\ Len(res) = PatchKept
      BY <1>0, <3>1
    <3>3. \A i \in 1 .. PatchKept : res[i] = all[i + 1] /\ i + 1 \in DOMAIN all
      BY <1>0, <3>1, SMTT(30)
    <3> QED
      BY <1>0, <1>4, <3>2, <3>3
  <2> HIDE DEF res, all
  <2>3. Good(res, own, n) /\ \A i \in DOMAIN res : res[i].hi <= r.hi
    <3>1. ASSUME NEW i \in DOMAIN res PROVE Proper(res[i], own, n) /\ res[i].hi <= r.hi
      BY <1>2, <2>2
    <3>2. ASSUME NEW i \in DOMAIN res, NEW j \in DOMAIN res, i < j
          PROVE  res[i].hi < res[j].trigger
      <4>1. /\ res[i] = all[i + 1] /\ i + 1 \in DOMAIN all
            /\ res[j] = all[j + 1] /\ j + 1 \in DOMAIN all
        BY <2>2
      <4>2. i + 1 < j + 1
        BY <1>0, <2>2, <3>2
      <4> QED
        BY <1>2, <4>1, <4>2
    <3> QED
      BY <1>0, <2>2, <3>1, <3>2 DEF Good
  <2>4. ASSUME NEW t \in Nat, NEW k \in 1 .. m + 1, all[k].lo <= t, t <= all[k].hi
        PROVE  Found(res, t) \/ Lost(res, t)
    <3>1. CASE k = 1
      <4>1. ASSUME NEW i \in DOMAIN res PROVE t < res[i].trigger
        <5>1. i + 1 \in DOMAIN all /\ res[i] = all[i + 1] /\ 1 \in DOMAIN all /\ 1 < i + 1
          BY <1>1, <2>2, <4>1, SMTT(30)
        <5>2. all[1].hi < all[i + 1].trigger /\ all[1] \in TagRange /\ all[i + 1] \in TagRange
          BY <1>2, <5>1
        <5> QED
          BY <2>4, <3>1, <5>1, <5>2 DEF TagRange
      <4> QED
        BY <2>2, <4>1 DEF Lost
    <3>2. CASE k \in 2 .. m + 1
      <4>1. k - 1 \in DOMAIN res /\ res[k - 1] = all[k]
        BY <1>1, <2>2, <3>2, SMTT(30)
      <4> QED
        BY <2>4, <4>1 DEF Found
    <3> QED
      BY <1>1, <3>1, <3>2, SMTT(30)
  <2>5. ASSUME NEW t \in Nat, Found(rs, t) \/ Lost(rs, t) \/ (r.lo <= t /\ t <= r.hi)
        PROVE  Found(res, t) \/ Lost(res, t)
    <3>1. CASE Found(rs, t)
      <4>1. PICK i \in DOMAIN rs : rs[i].lo <= t /\ t <= rs[i].hi
        BY <3>1 DEF Found
      <4>2. i \in 1 .. m + 1 /\ all[i] = rs[i]
        BY <1>1
      <4> QED
        BY <2>4, <4>1, <4>2
    <3>2. CASE r.lo <= t /\ t <= r.hi
      <4>1. m + 1 \in 1 .. m + 1
        BY <1>1, SMTT(30)
      <4> QED
        BY <1>1, <2>4, <3>2, <4>1
    <3>3. CASE Lost(rs, t)
      <4>1. ASSUME NEW i \in DOMAIN res PROVE t < res[i].trigger
        <5>1. i \in 1 .. m /\ 1 \in DOMAIN rs /\ rs[1] = all[1] /\ res[i] = all[i + 1]
              /\ i + 1 \in DOMAIN all /\ 1 \in DOMAIN all /\ 1 < i + 1
          BY <1>1, <2>2, <4>1
        <5>2. t < all[1].trigger
          BY <3>3, <5>1 DEF Lost
        <5>3. all[1].hi < all[i + 1].trigger
          BY <1>2, <5>1
        <5>4. all[1] \in TagRange /\ all[i + 1] \in TagRange /\ Proper(all[1], own, n)
          BY <1>2, <5>1
        <5> QED
          BY <5>1, <5>2, <5>3, <5>4, SMTT(30) DEF TagRange, Proper
      <4> QED
        BY <2>2, <4>1 DEF Lost
    <3> QED
      BY <2>5, <3>1, <3>2, <3>3
  <2> QED
    BY <2>1, <2>3, <2>5
<1> QED
  BY <1>0, <1>3, <1>4

\* The first tag of a range that lies behind t.
LEMMA Behind ==
  ASSUME NEW n \in Nat, NEW t \in Nat, NEW a \in Nat, NEW lo \in Nat, NEW hi \in Nat,
         t < a, a < lo, lo <= hi, hi <= n
  PROVE  lo \in t .. n /\ lo \in lo .. hi /\ a # lo
OBVIOUS

\* A tag whose range was dropped is not among those that remap_patch_tag has to
\* know: its own session and all the kept ones make more than PatchKept.
LEMMA LostIsOld ==
  ASSUME NEW n \in Nat, NEW own \in Seq(Nat), Len(own) = n, \A u \in 1 .. n : own[u] \in 1 .. u,
         NEW rs, Good(rs, own, n), NEW t \in 1 .. n, own[t] # t, Lost(rs, t)
  PROVE  ~(Cardinality({own[u] : u \in {v \in t .. n : own[v] # v}}) <= PatchKept)
<1> DEFINE S == {own[u] : u \in {v \in t .. n : own[v] # v}}
           I == 0 .. PatchKept
           f == [i \in I |-> IF i = 0 THEN own[t] ELSE rs[i].trigger]
<1>1. IsFiniteSet(S) /\ Cardinality(S) \in Nat
  <2>1. S \subseteq 1 .. n
    BY SMT
  <2> HIDE DEF S
  <2>2. IsFiniteSet(1 .. n)
    BY FS_Interval
  <2> QED
    BY <2>1, <2>2, FS_Subset, FS_CardinalityType, Zenon
<1>2. ASSUME NEW i \in 1 .. PatchKept
      PROVE  /\ rs[i] \in TagRange /\ rs[i].trigger \in S /\ t < rs[i].trigger
             /\ \A j \in 1 .. PatchKept : i < j => rs[i].trigger < rs[j].trigger
  <2>1. DOMAIN rs = 1 .. PatchKept /\ \A j \in 1 .. PatchKept : rs[j] \in TagRange
    BY DEF Good, Lost
  <2>2. Proper(rs[i], own, n) /\ t < rs[i].trigger
    BY <2>1, ZenonT(40) DEF Good, Lost
  <2>3. rs[i].lo \in t .. n /\ own[rs[i].lo] = rs[i].trigger /\ rs[i].trigger # rs[i].lo
    <3>1. rs[i].trigger \in Nat /\ rs[i].lo \in Nat /\ rs[i].hi \in Nat
      BY <2>1 DEF TagRange
    <3>2. /\ rs[i].trigger < rs[i].lo /\ rs[i].lo <= rs[i].hi /\ rs[i].hi <= n
          /\ \A u \in rs[i].lo .. rs[i].hi : own[u] = rs[i].trigger
      BY <2>2 DEF Proper
    <3>3. rs[i].lo \in t .. n /\ rs[i].lo \in rs[i].lo .. rs[i].hi /\ rs[i].trigger # rs[i].lo
      <4>1. t \in Nat
        OBVIOUS
      <4> QED
        BY <2>2, <3>1, <3>2, <4>1, Behind, Zenon
    <3> QED
      BY <3>2, <3>3
  <2>4. ASSUME NEW j \in 1 .. PatchKept, i < j PROVE rs[i].trigger < rs[j].trigger
    <3>1. rs[i].hi < rs[j].trigger
      BY <2>1, <2>4 DEF Good
    <3> QED
      BY <2>1, <2>2, <3>1, SMTT(30) DEF Proper, TagRange
  <2>5. rs[i].trigger \in S
    BY <2>3
  <2> HIDE DEF S
  <2> QED
    BY <2>1, <2>2, <2>4, <2>5
<1>3. own[t] \in S /\ own[t] \in 1 .. t
  OBVIOUS
<1> HIDE DEF S
<1>4. f \in [I -> S]
  <2>1. ASSUME NEW i \in I PROVE (IF i = 0 THEN own[t] ELSE rs[i].trigger) \in S
    BY <1>2, <1>3, SMTT(30)
  <2> QED
    BY <2>1
<1>5. ASSUME NEW i \in I, NEW j \in I, i # j PROVE f[i] # f[j]
  <2>1. ASSUME NEW a \in I, NEW b \in I, a < b PROVE f[a] < f[b]
    <3>1. b \in 1 .. PatchKept /\ f[b] = rs[b].trigger /\ rs[b].trigger \in Nat
      BY <1>2, <2>1, SMTT(30) DEF TagRange
    <3>2. CASE a = 0
      BY <1>2, <1>3, <3>1, <3>2
    <3>3. CASE a # 0
      <4>1. a \in 1 .. PatchKept /\ f[a] = rs[a].trigger
        BY <3>3
      <4> QED
        BY <1>2, <2>1, <3>1, <4>1
    <3> QED
      BY <3>2, <3>3
  <2>2. f[i] \in Int /\ f[j] \in Int
    <3>1. ASSUME NEW a \in I PROVE f[a] \in Int
      BY <1>2, <1>3, <3>1, SMTT(30) DEF TagRange
    <3> QED
      BY <3>1
  <2> HIDE DEF f
  <2> QED
    BY <1>5, <2>1, <2>2
<1> HIDE DEF f
<1>6. f \in Injection(I, S)
  BY <1>4, <1>5 DEF Injection, IsInjective
<1>7. Cardinality(I) <= Cardinality(S)
  BY <1>1, <1>6, FS_Injection, Zenon
<1>8. Cardinality(I) = PatchKept + 1
  BY FS_Interval
<1> HIDE DEF I
<1> QED
  BY <1>1, <1>7, <1>8 DEF S

\* In a state of the invariant remap_patch_tag gives the session of a tag.
LEMMA RemapsTags == PatchInv => RemapRight
<1> SUFFICES ASSUME PatchInv, NEW t \in RecentTags PROVE remap_patch_tag(t) = owner[t]
  BY DEF RemapRight
<1> DEFINE rs == patch_tag_ranges_
<1>1. /\ t \in 1 .. order /\ order \in Nat /\ owner \in Seq(Nat) /\ Len(owner) = order
      /\ \A u \in 1 .. order : owner[u] \in 1 .. u
      /\ Good(rs, owner, order)
  BY DEF RecentTags, PatchInv, PatchTypes
<1>2. CASE InOpen(t)
  <2>1. patch_mode_first_tag_ = session /\ 1 <= session /\ owner[t] = session
    BY <1>1, <1>2 DEF PatchInv, PatchTypes, OpenSession, InOpen
  <2> QED
    BY <1>2, <2>1 DEF remap_patch_tag, InOpen, PatchInv, PatchTypes
<1>3. CASE ~InOpen(t)
  <2>1. remap_patch_tag(t) = IF RangeTrigger(t) = 0 THEN t ELSE RangeTrigger(t)
    BY <1>1, <1>3 DEF remap_patch_tag, InOpen, PatchInv, PatchTypes
  <2> DEFINE hits == {i \in DOMAIN rs : rs[i].lo <= t /\ t <= rs[i].hi}
  <2>2. CASE Found(rs, t)
    <3>1. PICK i \in DOMAIN rs : rs[i].lo <= t /\ t <= rs[i].hi
      BY <2>2 DEF Found
    <3>2. rs[i] \in TagRange /\ Proper(rs[i], owner, order) /\ DOMAIN rs = 1 .. Len(rs) /\ Len(rs) \in Nat
      BY <1>1 DEF Good
    <3>3. ASSUME NEW j \in hits PROVE j = i
      <4>1. rs[j] \in TagRange /\ Proper(rs[j], owner, order) /\ rs[j].lo <= t /\ t <= rs[j].hi
        BY <1>1, SMTT(30) DEF Good
      <4>2. ~(i < j)
        <5>1. i < j => rs[i].hi < rs[j].trigger
          BY <1>1 DEF Good
        <5> QED
          BY <1>1, <3>1, <3>2, <4>1, <5>1 DEF Proper, TagRange
      <4>3. ~(j < i)
        <5>1. j < i => rs[j].hi < rs[i].trigger
          BY <1>1 DEF Good
        <5> QED
          BY <1>1, <3>1, <3>2, <4>1, <5>1, SMTT(30) DEF Proper, TagRange
      <4> QED
        BY <3>2, <4>2, <4>3
    <3>4. i \in hits /\ hits # {} /\ \A k \in hits : (\A j \in hits : j <= k) <=> k = i
      BY <3>1, <3>2, <3>3
    <3>5. (CHOOSE k \in hits : \A j \in hits : j <= k) = i
      BY <3>4
    <3>6. RangeTrigger(t) = rs[i].trigger
      BY <3>4, <3>5 DEF RangeTrigger
    <3>7. rs[i].trigger # 0 /\ owner[t] = rs[i].trigger
      BY <1>1, <3>1, <3>2 DEF Proper, TagRange
    <3> QED
      BY <2>1, <3>6, <3>7
  <2>3. CASE ~Found(rs, t)
    <3>1. RangeTrigger(t) = 0
      BY <2>3 DEF RangeTrigger, Found
    <3>2. ASSUME owner[t] # t PROVE FALSE
      <4>1. Lost(rs, t)
        BY <1>1, <1>3, <2>3, <3>2 DEF PatchInv
      <4>2. ~(Cardinality({owner[u] : u \in {v \in t .. order : owner[v] # v}}) <= PatchKept)
        BY <1>1, <3>2, <4>1, LostIsOld, ZenonT(40)
      <4> QED
        BY <3>2, <4>2, Zenon DEF RecentTags
    <3> QED
      BY <2>1, <3>1, <3>2
  <2> QED
    BY <2>2, <2>3
<1> QED
  BY <1>2, <1>3

LEMMA PatchStart == McmiInit => PatchInv
<1> SUFFICES ASSUME McmiInit PROVE PatchInv
  OBVIOUS
<1>1. PatchTypes /\ OpenSession /\ order = 0
  BY DEF McmiInit, PatchTypes, OpenSession
<1>2. Good(patch_tag_ranges_, owner, order)
  BY DEF McmiInit, Good
<1> QED
  BY <1>1, <1>2 DEF PatchInv

\* One more tag, of session x: what was known of the earlier ones stays.
LEMMA OneMore ==
  ASSUME PatchInv, NEW x \in 1 .. order + 1, owner' = Append(owner, x), order' = order + 1
  PROVE  /\ order' \in Nat /\ owner' \in Seq(Nat) /\ Len(owner') = order'
         /\ \A t \in 1 .. order' : owner'[t] \in 1 .. t
         /\ \A t \in 1 .. order : owner'[t] = owner[t]
         /\ owner'[order + 1] = x
         /\ Good(patch_tag_ranges_, owner', order')
<1>1. /\ order \in Nat /\ owner \in Seq(Nat) /\ Len(owner) = order
      /\ \A t \in 1 .. order : owner[t] \in 1 .. t
      /\ Good(patch_tag_ranges_, owner, order)
  BY DEF PatchInv, PatchTypes
<1>2. /\ owner' \in Seq(Nat) /\ Len(owner') = order + 1 /\ owner'[order + 1] = x
      /\ \A t \in 1 .. order : owner'[t] = owner[t]
  BY <1>1
<1>3. \A t \in 1 .. order + 1 : owner'[t] \in 1 .. t
  BY <1>1, <1>2
<1>4. Good(patch_tag_ranges_, owner', order')
  BY <1>1, Grown
<1> QED
  BY <1>1, <1>2, <1>3, <1>4

\* close_patch_session with a session that has tags keeps its range.
LEMMA ClosedRange ==
  ASSUME NEW first \in Nat \ {0}, NEW lo \in Nat \ {0}, NEW hi \in Nat,
         patch_tag_ranges_ \in Seq(TagRange)
  PROVE  /\ [trigger |-> first, lo |-> lo, hi |-> hi] \in TagRange
         /\ Closed(first, lo, hi)
              = Pushed(patch_tag_ranges_, [trigger |-> first, lo |-> lo, hi |-> hi])
<1> DEFINE r == [trigger |-> first, lo |-> lo, hi |-> hi]
<1>1. r \in TagRange
  BY Zenon DEF TagRange
<1> HIDE DEF r
<1>2. Len(Append(patch_tag_ranges_, r)) = Len(patch_tag_ranges_) + 1
  BY <1>1
<1> QED
  BY <1>1, <1>2 DEF Closed, Pushed, r

\* The open session, closed at tag hi: the tags that were covered before, and
\* those of the session, are covered by the kept ranges.
LEMMA SessionClosed ==
  ASSUME PatchInv, NEW x \in 1 .. order + 1, owner' = Append(owner, x), order' = order + 1,
         NEW lo \in Nat, NEW hi \in {order, order + 1},
         patch_mode_first_tag_ = session, 1 <= session, session < lo, lo <= hi,
         \A i \in DOMAIN patch_tag_ranges_ : patch_tag_ranges_[i].hi < session,
         \A t \in lo .. hi : owner'[t] = session,
         patch_tag_ranges_' = Closed(patch_mode_first_tag_, lo, hi)
  PROVE  /\ Good(patch_tag_ranges_', owner', order')
         /\ \A i \in DOMAIN patch_tag_ranges_' : patch_tag_ranges_'[i].hi <= hi
         /\ \A t \in Nat : Found(patch_tag_ranges_, t) \/ Lost(patch_tag_ranges_, t)
                             \/ (lo <= t /\ t <= hi)
              => Found(patch_tag_ranges_', t) \/ Lost(patch_tag_ranges_', t)
<1> DEFINE r == [trigger |-> session, lo |-> lo, hi |-> hi]
<1>1. /\ order' \in Nat /\ Good(patch_tag_ranges_, owner', order')
      /\ patch_tag_ranges_ \in Seq(TagRange)
  BY OneMore DEF Good
<1>2. order \in Nat /\ session \in Nat \ {0} /\ lo \in Nat \ {0} /\ hi \in Nat
  BY DEF PatchInv, PatchTypes
<1>3. r \in TagRange /\ patch_tag_ranges_' = Pushed(patch_tag_ranges_, r)
  BY <1>1, <1>2, ClosedRange, Zenon
<1>4. r.trigger = session /\ r.lo = lo /\ r.hi = hi
  BY Zenon
<1> HIDE DEF r
<1>5. Proper(r, owner', order')
  <2>1. 1 <= session /\ session < lo /\ lo <= hi /\ hi <= order'
    BY <1>2
  <2> QED
    BY <1>4, <2>1, Zenon DEF Proper
<1>6. \A i \in DOMAIN patch_tag_ranges_ : patch_tag_ranges_[i].hi < r.trigger
  BY <1>4, Zenon
<1> QED
  <2> DEFINE rs == patch_tag_ranges_
             own == owner'
             n == order'
  <2>1. /\ n \in Nat /\ Good(rs, own, n) /\ r \in TagRange /\ Proper(r, own, n)
        /\ \A i \in DOMAIN rs : rs[i].hi < r.trigger
    BY <1>1, <1>3, <1>5, <1>6, ZenonT(40)
  <2> HIDE DEF rs, own, n
  <2>2. /\ Good(Pushed(rs, r), own, n)
        /\ \A i \in DOMAIN Pushed(rs, r) : Pushed(rs, r)[i].hi <= r.hi
        /\ \A t \in Nat : Found(rs, t) \/ Lost(rs, t) \/ (r.lo <= t /\ t <= r.hi)
                             => Found(Pushed(rs, r), t) \/ Lost(Pushed(rs, r), t)
    BY <2>1, Added, Zenon
  <2> QED
    BY <1>3, <1>4, <2>2 DEF rs, own, n

\* A patch that is entered by an exception.
LEMMA TrapStep == PatchInv /\ m_trap => PatchInv'
<1> SUFFICES ASSUME PatchInv, m_trap PROVE PatchInv'
  OBVIOUS
<1> DEFINE o == order + 1
<1>1. /\ order' = o /\ patch_mode_' = TRUE /\ patch_mode_first_tag_' = o
      /\ patch_lo_tag_' = 0 /\ patch_hi_tag_' = 0 /\ inPatch' = "entered" /\ session' = o
      /\ owner' = Append(owner, o)
      /\ patch_tag_ranges_' = IF patch_mode_ /\ patch_lo_tag_ # 0
                              THEN Closed(patch_mode_first_tag_, patch_lo_tag_, patch_hi_tag_)
                              ELSE patch_tag_ranges_
  BY Zenon DEF m_trap
<1>2. order \in Nat /\ o \in 1 .. order + 1
  BY SMTT(30) DEF PatchInv, PatchTypes
<1>3. /\ order' \in Nat /\ owner' \in Seq(Nat) /\ Len(owner') = order'
      /\ \A t \in 1 .. order' : owner'[t] \in 1 .. t
      /\ \A t \in 1 .. order : owner'[t] = owner[t]
      /\ owner'[order + 1] = o
      /\ Good(patch_tag_ranges_, owner', order')
  BY <1>1, <1>2, OneMore
<1>4. PatchTypes'
  BY <1>1, <1>2, <1>3, SMTT(30) DEF PatchTypes
<1>5. /\ Good(patch_tag_ranges_', owner', order')
      /\ \A i \in DOMAIN patch_tag_ranges_' : patch_tag_ranges_'[i].hi <= order
      /\ \A t \in Nat : Found(patch_tag_ranges_, t) \/ Lost(patch_tag_ranges_, t)
                          \/ (InOpen(t) /\ t <= order)
              => Found(patch_tag_ranges_', t) \/ Lost(patch_tag_ranges_', t)
  <2>1. CASE patch_mode_ /\ patch_lo_tag_ # 0
    <3>1. /\ patch_mode_first_tag_ = session /\ 1 <= session /\ session < patch_lo_tag_
          /\ session \in Nat
          /\ patch_lo_tag_ <= order /\ patch_hi_tag_ = order /\ patch_lo_tag_ \in Nat
          /\ \A i \in DOMAIN patch_tag_ranges_ : patch_tag_ranges_[i].hi < session
          /\ \A t \in patch_lo_tag_ .. order : owner[t] = session
      BY <2>1, Zenon DEF PatchInv, OpenSession, PatchTypes
    <3>2. \A t \in patch_lo_tag_ .. order : owner'[t] = session
      <4> SUFFICES ASSUME NEW t \in patch_lo_tag_ .. order PROVE owner'[t] = session
        OBVIOUS
      <4>1. t \in 1 .. order
        BY <1>2, <3>1, SMTT(30)
      <4> QED
        BY <1>3, <3>1, <4>1, Zenon
    <3>3. patch_tag_ranges_' = Closed(patch_mode_first_tag_, patch_lo_tag_, order)
      BY <1>1, <2>1, <3>1, Zenon
    <3> QED
      BY <1>1, <1>2, <3>1, <3>2, <3>3, SessionClosed, Zenon DEF InOpen
  <2>2. CASE ~(patch_mode_ /\ patch_lo_tag_ # 0)
    <3>1. patch_tag_ranges_' = patch_tag_ranges_ /\ \A t \in Nat : ~InOpen(t)
      BY <1>1, <2>2, Zenon DEF InOpen
    <3>2. \A i \in DOMAIN patch_tag_ranges_ : patch_tag_ranges_[i].hi <= order
      BY Zenon DEF PatchInv, Good, Proper
    <3> QED
      BY <1>3, <3>1, <3>2, Zenon
  <2> QED
    BY <2>1, <2>2, Zenon
<1>6. OpenSession'
  <2>1. \A i \in DOMAIN patch_tag_ranges_' : patch_tag_ranges_'[i].hi < session'
    <3> SUFFICES ASSUME NEW i \in DOMAIN patch_tag_ranges_'
                 PROVE  patch_tag_ranges_'[i].hi < session'
      BY ZenonT(40)
    <3>1. patch_tag_ranges_'[i] \in TagRange /\ patch_tag_ranges_'[i].hi <= order
      BY <1>5, SMTT(30) DEF Good
    <3> QED
      BY <1>1, <1>2, <3>1, SMTT(30) DEF TagRange
  <2> QED
    BY <1>1, <1>2, <2>1 DEF OpenSession
<1>7. ASSUME NEW t \in 1 .. order', owner'[t] # t
      PROVE  Found(patch_tag_ranges_', t) \/ Lost(patch_tag_ranges_', t)
  <2>1. t \in 1 .. order /\ owner[t] # t
    BY <1>1, <1>2, <1>3, <1>7, SMTT(30)
  <2> QED
    BY <1>2, <1>5, <2>1, SMTT(30) DEF PatchInv
<1> QED
  BY <1>4, <1>5, <1>6, <1>7 DEF PatchInv

\* An instruction outside of patches, which may enter one.
LEMMA OutsideStep ==
  ASSUME PatchInv, inPatch = "no", NEW set \in BOOLEAN, NEW clr \in BOOLEAN,
         NEW silent \in BOOLEAN, NEW last \in BOOLEAN, NEW bt \in BranchTags,
         m_rvfi(set, clr, silent, last, bt)
  PROVE  PatchInv'
<1> DEFINE o == order + 1
<1>1. order \in Nat /\ session \in 0 .. order /\ o \in 1 .. order + 1
  BY SMTT(30) DEF PatchInv, PatchTypes
<1>2. /\ patch_mode_ = FALSE /\ patch_mode_first_tag_ = 0 /\ patch_lo_tag_ = 0
      /\ patch_hi_tag_ = 0
  BY DEF PatchInv, OpenSession, Silent
<1>3. /\ clr = FALSE /\ silent = FALSE /\ order' = o /\ owner' = Append(owner, o)
      /\ session' = (IF set THEN o ELSE session)
      /\ inPatch' = (IF set THEN "entered" ELSE "no")
      /\ RvfiPatch(FALSE, set, FALSE)
  <2>1. (inPatch \in {"entered", "yes"}) = FALSE
    OBVIOUS
  <2>2. clr = FALSE /\ silent = FALSE
    BY <2>1 DEF m_rvfi
  <2>3. order' = o /\ owner' = Append(owner, o) /\ session' = (IF set THEN o ELSE session)
    BY <2>1 DEF m_rvfi
  <2>4. inPatch' = (IF set THEN "entered" ELSE "no")
    BY <2>1, <2>2 DEF m_rvfi
  <2>5. RvfiPatch(inPatch \in {"entered", "yes"}, set, clr)
    BY DEF m_rvfi
  <2>6. RvfiPatch(FALSE, set, FALSE)
    BY <2>1, <2>2, <2>5, Zenon
  <2> QED
    BY <2>2, <2>3, <2>4, <2>6, Zenon
<1>4. /\ patch_mode_' = set /\ patch_mode_first_tag_' = (IF set THEN o ELSE 0)
      /\ patch_lo_tag_' = 0 /\ patch_hi_tag_' = 0 /\ patch_tag_ranges_' = patch_tag_ranges_
  BY <1>2, <1>3, Zenon DEF RvfiPatch
<1>5. /\ order' \in Nat /\ owner' \in Seq(Nat) /\ Len(owner') = order'
      /\ \A t \in 1 .. order' : owner'[t] \in 1 .. t
      /\ \A t \in 1 .. order : owner'[t] = owner[t]
      /\ owner'[order + 1] = o
      /\ Good(patch_tag_ranges_, owner', order')
  BY <1>1, <1>3, OneMore, Zenon
<1>6. PatchTypes'
  BY <1>1, <1>3, <1>4, <1>5, SMTT(30) DEF PatchTypes
<1>7. OpenSession'
  <2>1. CASE ~set
    BY <1>3, <1>4, <2>1, Zenon DEF OpenSession
  <2>2. CASE set
    <3>1. \A i \in DOMAIN patch_tag_ranges_ : patch_tag_ranges_[i].hi < o
      <4> SUFFICES ASSUME NEW i \in DOMAIN patch_tag_ranges_ PROVE patch_tag_ranges_[i].hi < o
        BY Zenon
      <4>1. patch_tag_ranges_[i] \in TagRange /\ patch_tag_ranges_[i].hi <= order
        BY SMTT(30) DEF PatchInv, Good, Proper
      <4> QED
        BY <1>1, <4>1, SMTT(30) DEF TagRange
    <3> QED
      BY <1>1, <1>3, <1>4, <2>2, <3>1, SMTT(30) DEF OpenSession
  <2> QED
    BY <2>1, <2>2, ZenonT(40)
<1>8. ASSUME NEW t \in 1 .. order', owner'[t] # t
      PROVE  Found(patch_tag_ranges_', t) \/ Lost(patch_tag_ranges_', t)
  <2>1. t \in 1 .. order /\ owner[t] # t
    BY <1>1, <1>3, <1>5, <1>8, SMTT(30)
  <2>2. ~InOpen(t)
    BY <1>2, Zenon DEF InOpen
  <2> QED
    BY <1>4, <2>1, <2>2 DEF PatchInv
<1> QED
  BY <1>4, <1>5, <1>6, <1>7, <1>8, Zenon DEF PatchInv

\* The first instruction after a patch that was left silently closes it.
LEMMA SilentStep ==
  ASSUME ~BackToBack, PatchInv, inPatch = Silent, NEW set \in BOOLEAN, NEW clr \in BOOLEAN,
         NEW silent \in BOOLEAN, NEW last \in BOOLEAN, NEW bt \in BranchTags,
         m_rvfi(set, clr, silent, last, bt)
  PROVE  PatchInv'
<1> DEFINE o == order + 1
<1>1. order \in Nat /\ session \in 0 .. order /\ o \in 1 .. order + 1
  BY SMTT(30) DEF PatchInv, PatchTypes
<1>2. /\ patch_mode_ = TRUE /\ patch_mode_first_tag_ = session /\ 1 <= session
      /\ patch_lo_tag_ \in Nat /\ session < patch_lo_tag_ /\ patch_lo_tag_ <= order
      /\ patch_hi_tag_ = order
      /\ \A i \in DOMAIN patch_tag_ranges_ : patch_tag_ranges_[i].hi < session
      /\ \A t \in patch_lo_tag_ .. order : owner[t] = session
  BY Zenon DEF PatchInv, PatchTypes, OpenSession, Silent
<1>3. /\ set = FALSE /\ clr = FALSE /\ silent = FALSE /\ order' = o
      /\ owner' = Append(owner, o) /\ session' = session /\ inPatch' = "no"
      /\ RvfiPatch(FALSE, FALSE, FALSE)
  <2>1. (inPatch \in {"entered", "yes"}) = FALSE
    BY DEF Silent
  <2>2. set = FALSE /\ clr = FALSE /\ silent = FALSE
    BY <2>1 DEF m_rvfi
  <2>3. order' = o /\ owner' = Append(owner, o) /\ session' = session
    BY <2>1, <2>2 DEF m_rvfi
  <2>4. inPatch' = "no"
    BY <2>1, <2>2 DEF m_rvfi
  <2>5. RvfiPatch(inPatch \in {"entered", "yes"}, set, clr)
    BY DEF m_rvfi
  <2>6. RvfiPatch(FALSE, FALSE, FALSE)
    BY <2>1, <2>2, <2>5, Zenon
  <2> QED
    BY <2>2, <2>3, <2>4, <2>6, Zenon
<1>4. /\ patch_mode_' = FALSE /\ patch_mode_first_tag_' = 0
      /\ patch_lo_tag_' = 0 /\ patch_hi_tag_' = 0
      /\ patch_tag_ranges_' = Closed(patch_mode_first_tag_, patch_lo_tag_, order)
  <2>1. patch_lo_tag_ # 0 /\ patch_mode_first_tag_ # 0
    BY <1>1, <1>2
  <2> QED
    BY <1>2, <1>3, <2>1, Zenon DEF RvfiPatch
<1>5. /\ order' \in Nat /\ owner' \in Seq(Nat) /\ Len(owner') = order'
      /\ \A t \in 1 .. order' : owner'[t] \in 1 .. t
      /\ \A t \in 1 .. order : owner'[t] = owner[t]
      /\ owner'[order + 1] = o
  BY <1>1, <1>3, OneMore, Zenon
<1>6. PatchTypes' /\ OpenSession'
  BY <1>1, <1>3, <1>4, <1>5, SMTT(30) DEF PatchTypes, OpenSession
<1>7. /\ Good(patch_tag_ranges_', owner', order')
      /\ \A t \in Nat : Found(patch_tag_ranges_, t) \/ Lost(patch_tag_ranges_, t)
                          \/ (patch_lo_tag_ <= t /\ t <= order)
              => Found(patch_tag_ranges_', t) \/ Lost(patch_tag_ranges_', t)
  <2>1. \A t \in patch_lo_tag_ .. order : owner'[t] = session
    <3> SUFFICES ASSUME NEW t \in patch_lo_tag_ .. order PROVE owner'[t] = session
      BY Zenon
    <3>1. t \in 1 .. order
      BY <1>1, <1>2, SMTT(30)
    <3> QED
      BY <1>2, <1>5, <3>1, Zenon
  <2> QED
    BY <1>1, <1>2, <1>3, <1>4, <2>1, SessionClosed, Zenon
<1>8. ASSUME NEW t \in 1 .. order', owner'[t] # t
      PROVE  Found(patch_tag_ranges_', t) \/ Lost(patch_tag_ranges_', t)
  <2>1. t \in 1 .. order /\ owner[t] # t
    BY <1>1, <1>3, <1>5, <1>8, SMTT(30)
  <2> QED
    BY <1>1, <1>7, <2>1 DEF PatchInv, InOpen
<1> QED
  BY <1>6, <1>7, <1>8, ZenonT(40) DEF PatchInv

\* An instruction of a patch, which may be its last one.
LEMMA InsideStep ==
  ASSUME PatchInv, inPatch \in {"entered", "yes"}, NEW set \in BOOLEAN, NEW clr \in BOOLEAN,
         NEW silent \in BOOLEAN, NEW last \in BOOLEAN, NEW bt \in BranchTags,
         m_rvfi(set, clr, silent, last, bt)
  PROVE  PatchInv'
<1> DEFINE o == order + 1
           lo == IF patch_lo_tag_ = 0 THEN o ELSE patch_lo_tag_
<1>1. order \in Nat /\ session \in 0 .. order /\ patch_lo_tag_ \in Nat
  BY Zenon DEF PatchInv, PatchTypes
<1>2. /\ patch_mode_ = TRUE /\ patch_mode_first_tag_ = session /\ 1 <= session
      /\ \A i \in DOMAIN patch_tag_ranges_ : patch_tag_ranges_[i].hi < session
      /\ patch_hi_tag_ \in {0, order}
      /\ \/ patch_lo_tag_ = 0
         \/ /\ session < patch_lo_tag_ /\ patch_lo_tag_ <= order
            /\ \A t \in patch_lo_tag_ .. order : owner[t] = session
  BY Zenon DEF PatchInv, OpenSession, Silent
<1>3. /\ set = FALSE /\ order' = o /\ owner' = Append(owner, session) /\ session' = session
      /\ inPatch' = (IF clr THEN "no" ELSE IF silent THEN Silent ELSE "yes")
      /\ RvfiPatch(TRUE, FALSE, clr)
  BY Zenon DEF m_rvfi
<1>4. lo \in Nat /\ session < lo /\ lo <= o /\ lo # 0 /\ session \in 1 .. order + 1
  BY <1>1, <1>2
<1>5. /\ order' \in Nat /\ owner' \in Seq(Nat) /\ Len(owner') = order'
      /\ \A t \in 1 .. order' : owner'[t] \in 1 .. t
      /\ \A t \in 1 .. order : owner'[t] = owner[t]
      /\ owner'[order + 1] = session
      /\ Good(patch_tag_ranges_, owner', order')
  BY <1>3, <1>4, OneMore, Zenon
<1>6. \A t \in lo .. o : owner'[t] = session
  <2> SUFFICES ASSUME NEW t \in lo .. o PROVE owner'[t] = session
    BY ZenonT(40)
  <2>1. CASE t = o
    BY <1>5, <2>1, ZenonT(40)
  <2>2. CASE t # o
    <3>1. t \in 1 .. order /\ patch_lo_tag_ # 0 /\ t \in patch_lo_tag_ .. order
      BY <1>1, <1>4, <2>2, SMTT(30)
    <3> QED
      BY <1>2, <1>5, <3>1, SMTT(30)
  <2> QED
    BY <2>1, <2>2
<1>7. ASSUME NEW t \in 1 .. order, owner'[t] # t, ~(lo <= t)
      PROVE  Found(patch_tag_ranges_, t) \/ Lost(patch_tag_ranges_, t)
  <2>1. owner[t] # t /\ ~InOpen(t)
    BY <1>1, <1>5, <1>7, Zenon DEF InOpen
  <2> QED
    BY <2>1, Zenon DEF PatchInv
<1>8. /\ clr => /\ patch_tag_ranges_' = Closed(patch_mode_first_tag_, lo, o)
                /\ patch_mode_' = FALSE /\ patch_mode_first_tag_' = 0
                /\ patch_lo_tag_' = 0 /\ patch_hi_tag_' = 0
      /\ ~clr => /\ patch_tag_ranges_' = patch_tag_ranges_
                 /\ patch_mode_' = TRUE /\ patch_mode_first_tag_' = session
                 /\ patch_lo_tag_' = lo /\ patch_hi_tag_' = o
  <2>1. ~(o < patch_lo_tag_) /\ o > patch_hi_tag_ /\ patch_mode_first_tag_ # 0
    BY <1>1, <1>2, SMTT(30)
  <2> QED
    BY <1>2, <1>3, <2>1, Zenon DEF RvfiPatch
<1> HIDE DEF lo
<1>9. CASE clr
  <2>1. /\ Good(patch_tag_ranges_', owner', order')
        /\ \A t \in Nat : Found(patch_tag_ranges_, t) \/ Lost(patch_tag_ranges_, t)
                            \/ (lo <= t /\ t <= o)
             => Found(patch_tag_ranges_', t) \/ Lost(patch_tag_ranges_', t)
    BY <1>2, <1>3, <1>4, <1>6, <1>8, <1>9, SessionClosed, Zenon
  <2>2. PatchTypes' /\ OpenSession'
    BY <1>1, <1>3, <1>5, <1>8, <1>9, SMTT(30) DEF PatchTypes, OpenSession
  <2>3. ASSUME NEW t \in 1 .. order', owner'[t] # t
        PROVE  Found(patch_tag_ranges_', t) \/ Lost(patch_tag_ranges_', t)
    <3>1. CASE lo <= t
      BY <1>1, <1>3, <2>1, <3>1, SMTT(30)
    <3>2. CASE ~(lo <= t)
      <4>1. t \in 1 .. order
        BY <1>1, <1>3, <1>4, <3>2, SMTT(30)
      <4> QED
        BY <1>7, <2>1, <2>3, <3>2, <4>1, SMTT(30)
    <3> QED
      BY <3>1, <3>2, Zenon
  <2> QED
    BY <2>1, <2>2, <2>3, ZenonT(40) DEF PatchInv
<1>10. CASE ~clr
  <2>1. PatchTypes'
    <3>1. session' \in 0 .. order' /\ patch_mode_first_tag_' \in Nat
      BY <1>1, <1>3, <1>8, <1>10, SMTT(30)
    <3>2. patch_lo_tag_' \in Nat /\ patch_hi_tag_' \in Nat
      BY <1>1, <1>4, <1>8, <1>10, SMTT(30)
    <3> QED
      BY <1>5, <3>1, <3>2 DEF PatchTypes
  <2>2. OpenSession'
    <3>1. inPatch' \in {"yes", Silent} /\ inPatch' # "entered"
      BY <1>3, <1>10 DEF Silent
    <3> QED
      BY <1>2, <1>3, <1>4, <1>6, <1>8, <1>10, <3>1, ZenonT(40) DEF OpenSession
  <2>3. ASSUME NEW t \in 1 .. order', owner'[t] # t
        PROVE  InOpen(t)' \/ Found(patch_tag_ranges_', t) \/ Lost(patch_tag_ranges_', t)
    <3>1. CASE lo <= t
      BY <1>4, <1>8, <1>10, <3>1 DEF InOpen
    <3>2. CASE ~(lo <= t)
      <4>1. t \in 1 .. order
        BY <1>1, <1>3, <1>4, <3>2
      <4> QED
        BY <1>7, <1>8, <1>10, <2>3, <3>2, <4>1, Zenon
    <3> QED
      BY <3>1, <3>2
  <2> QED
    BY <1>5, <1>8, <1>10, <2>1, <2>2, <2>3, Zenon DEF PatchInv
<1> QED
  BY <1>9, <1>10

LEMMA PatchStep == ~BackToBack /\ PatchInv /\ [McmiNext]_mcmiVars => PatchInv'
<1> SUFFICES ASSUME ~BackToBack, PatchInv, [McmiNext]_mcmiVars PROVE PatchInv'
  BY Zenon
<1>1. ASSUME UNCHANGED <<patchState, retireState>> PROVE PatchInv'
  <2>1. /\ order' = order /\ inPatch' = inPatch /\ session' = session /\ owner' = owner
        /\ patch_mode_' = patch_mode_ /\ patch_mode_first_tag_' = patch_mode_first_tag_
        /\ patch_lo_tag_' = patch_lo_tag_ /\ patch_hi_tag_' = patch_hi_tag_
        /\ patch_tag_ranges_' = patch_tag_ranges_
    BY <1>1 DEF patchState, retireState
  <2> QED
    BY <2>1, Zenon DEF PatchInv, PatchTypes, OpenSession, InOpen
<1>2. ASSUME NEW t \in Atomics, m_mcmi_read(t) \/ m_mcmi_bypass(t) PROVE PatchInv'
  BY <1>1, <1>2, Zenon DEF m_mcmi_read, m_mcmi_bypass
<1>3. CASE m_trap
  BY <1>3, TrapStep
<1>4. ASSUME NEW set \in BOOLEAN, NEW clr \in BOOLEAN, NEW silent \in BOOLEAN,
             NEW last \in BOOLEAN, NEW bt \in BranchTags, m_rvfi(set, clr, silent, last, bt)
      PROVE  PatchInv'
  <2>1. inPatch \in {"no", "entered", "yes", Silent}
    BY ZenonT(40) DEF PatchInv, OpenSession
  <2> QED
    BY <1>4, <2>1, OutsideStep, SilentStep, InsideStep
<1>5. ASSUME NEW l \in Lines, m_mcmi_ifetch_req(l) \/ m_mcmi_ievict(l) PROVE PatchInv'
  BY <1>1, <1>5 DEF m_mcmi_ifetch_req, m_mcmi_ievict
<1>6. ASSUME NEW i \in DOMAIN ifetch_reqs_, m_mcmi_ifetch_resp(i) PROVE PatchInv'
  BY <1>1, <1>6 DEF m_mcmi_ifetch_resp
<1>7. CASE m_drain
  BY <1>1, <1>7 DEF m_drain
<1>8. CASE UNCHANGED mcmiVars
  BY <1>1, <1>8 DEF mcmiVars
<1> QED
  BY <1>2, <1>3, <1>4, <1>5, <1>6, <1>7, <1>8, Zenon DEF McmiNext

(* A memory message is given to Whisper under the tag of the instruction   *)
(* that opened its patch session, or under its own outside of patches, for *)
(* any number of sessions and kept ranges (remap_patch_tag,                *)
(* close_patch_session).  The core does not enter a patch with the first   *)
(* instruction after one that it left silently.                            *)
THEOREM RemapsRight ==
  ASSUME ~BackToBack
  PROVE  McmiSpec => []RemapRight
<1>1. McmiInit => PatchInv
  BY PatchStart
<1>2. PatchInv /\ [McmiNext]_mcmiVars => PatchInv'
  BY PatchStep
<1>3. PatchInv => RemapRight
  BY RemapsTags
<1> QED
  BY <1>1, <1>2, <1>3, PTL DEF McmiSpec
=============================================================================
