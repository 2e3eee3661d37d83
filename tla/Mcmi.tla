------------------------------- MODULE Mcmi -------------------------------
(***************************************************************************)
(* The memory-consistency interface of one hart                            *)
(* (src/cosim/dut_if/mcmi/mcmi.cpp): DUT messages about retirement, traps, *)
(* reads, merge-buffer bypasses and instruction fetches come in any order  *)
(* that an out-of-order core produces, and are turned into calls of the    *)
(* bridge.                                                                 *)
(*                                                                         *)
(* sent counts the bypasses given to the bridge for each instruction, snap *)
(* is the set of lines of Whisper's instruction snapshot.  Data, sizes and *)
(* vector elements are left out, so is the tracking of the vector          *)
(* conservative mode, whose tags nothing reads.                            *)
(***************************************************************************)
EXTENDS Integers, Sequences, FiniteSets

CONSTANTS Atomics,     \* tags of the atomic instructions of the run
          Ops,         \* what they may be
          Emulate,     \* FLAGS_emulate_amo_arithmetic
          MaxOrder,    \* retired instructions and traps, at most
          PatchKept,   \* PATCH_TAG_RANGES_KEPT
          BackToBack,  \* a patch may be entered by the first instruction
                       \* after a patch that ended without clr_pmode
          Ncio,        \* lines that are fetched as non-cacheable I/O
          Cached,      \* the other lines
          BranchTags,
          MaxFetches   \* fetches outstanding, at most

ASSUME OpsAssumption == Ops \subseteq {"sc_pass", "sc_fail", "amo", "cas_pass", "cas_fail"}
ASSUME KeptAssumption == PatchKept \in Nat

VARIABLES terminated_,
          patch_mode_, patch_mode_first_tag_, patch_lo_tag_, patch_hi_tag_,
          patch_tag_ranges_,
          sc_result_, sc_bypass_, amo_writes_,
          ifetch_reqs_, ncio_fetches_, active_ncio_fetches_,
          ncio_mem_transition_, prev_branch_tag_,
          sent, snap,
          \* the DUT: what the atomics are, the messages handled, the order
          \* and mode of retirement, the session that each retired tag is in
          op, reads, bypasses, readFirst,
          order, inPatch, session, owner,
          \* branch-tag changes since each line of the snapshot was fetched,
          \* and the lines fetched since the last instruction boundary
          age, window

patchState == <<patch_mode_, patch_mode_first_tag_, patch_lo_tag_,
                patch_hi_tag_, patch_tag_ranges_>>
atomicState == <<sc_result_, sc_bypass_, amo_writes_, sent>>
ncioState == <<ncio_fetches_, active_ncio_fetches_, ncio_mem_transition_,
               prev_branch_tag_>>
fetchState == <<ifetch_reqs_, ncioState, snap, age, window>>
dutState == <<op, reads, bypasses, readFirst>>
retireState == <<order, inPatch, session, owner>>
mcmiVars == <<terminated_, patchState, atomicState, fetchState, dutState, retireState>>

Lines == Ncio \cup Cached
None == "none"
Silent == "silent"   \* inPatch: left without clr_pmode, nothing retired since

McmiInit ==
  /\ terminated_ = FALSE
  /\ patch_mode_ = FALSE
  /\ patch_mode_first_tag_ = 0 /\ patch_lo_tag_ = 0 /\ patch_hi_tag_ = 0
  /\ patch_tag_ranges_ = << >>
  /\ sc_result_ = [t \in Atomics |-> None]
  /\ sc_bypass_ = {} /\ amo_writes_ = {}
  /\ ifetch_reqs_ = << >> /\ ncio_fetches_ = {} /\ active_ncio_fetches_ = {}
  /\ ncio_mem_transition_ = FALSE /\ prev_branch_tag_ = 0
  /\ sent = [t \in Atomics |-> 0] /\ snap = {}
  /\ op \in [Atomics -> Ops]
  /\ reads = {} /\ bypasses = {} /\ readFirst = {}
  /\ order = 0 /\ inPatch = "no" /\ session = 0 /\ owner = << >>
  /\ age = [l \in Lines |-> 0] /\ window = {}
-----------------------------------------------------------------------------
(* Atomics.  Their tags are outside patch sessions, where remap_patch_tag  *)
(* is the identity.                                                        *)

\* sc_failed: TRUE as well when no result is known.
sc_failed(t) == sc_result_[t] # "sc_pass"

\* process_amo: the read completes the write that came before it.  Without
\* one an AMOCAS is taken to have failed its comparison.
process_amo(t) == IF t \in amo_writes_
                  THEN /\ sent' = [sent EXCEPT ![t] = @ + 1]
                       /\ amo_writes_' = amo_writes_ \ {t}
                  ELSE UNCHANGED <<sent, amo_writes_>>

IsSc(t) == op[t] \in {"sc_pass", "sc_fail"}

\* m_mcmi_read of an SC: the result is stored, or a bypass that came first
\* is released.
ReadSc(t) ==
  /\ IF t \notin sc_bypass_
     THEN /\ sc_result_' = [sc_result_ EXCEPT ![t] = op[t]]
          /\ UNCHANGED <<sc_bypass_, sent>>
     ELSE /\ UNCHANGED sc_result_
          /\ IF sc_failed(t)
             THEN UNCHANGED <<sc_bypass_, sent>>
             ELSE sent' = [sent EXCEPT ![t] = @ + 1] /\ sc_bypass_' = sc_bypass_ \ {t}
  /\ UNCHANGED amo_writes_

ReadAmo(t) == /\ IF Emulate THEN process_amo(t) ELSE UNCHANGED <<sent, amo_writes_>>
              /\ UNCHANGED <<sc_result_, sc_bypass_>>

\* The core performs the write of an AMO before it reports the loaded value
\* when the arithmetic is left to the tester; any order otherwise.
MayRead(t) == Emulate /\ op[t] \in {"amo", "cas_pass"} => t \in bypasses

m_mcmi_read(t) ==
  /\ t \notin reads /\ MayRead(t)
  /\ IF IsSc(t) THEN ReadSc(t) ELSE ReadAmo(t)
  /\ reads' = reads \cup {t}
  /\ readFirst' = IF t \in bypasses THEN readFirst ELSE readFirst \cup {t}
  /\ UNCHANGED <<terminated_, patchState, fetchState, op, bypasses, retireState>>

\* MUTANT of BypassOf: a failed comparison writes.
BypassAny(t) == 
  IF ~IsSc(t) /\ Emulate
  THEN amo_writes_' = amo_writes_ \cup {t} /\ UNCHANGED <<sc_bypass_, sent>>
  ELSE IF IsSc(t) /\ sc_failed(t)
  THEN sc_bypass_' = sc_bypass_ \cup {t} /\ UNCHANGED <<amo_writes_, sent>>
  ELSE sent' = [sent EXCEPT ![t] = @ + 1] /\ UNCHANGED <<sc_bypass_, amo_writes_>>

\* The single-access branch of m_mcmi_bypass.
BypassOf(t) ==
  CASE op[t] = "cas_fail" -> UNCHANGED <<sc_bypass_, amo_writes_, sent>>
    [] ~IsSc(t) /\ op[t] # "cas_fail" /\ Emulate ->
         amo_writes_' = amo_writes_ \cup {t} /\ UNCHANGED <<sc_bypass_, sent>>
    [] IsSc(t) /\ sc_failed(t) ->
         sc_bypass_' = sc_bypass_ \cup {t} /\ UNCHANGED <<amo_writes_, sent>>
    [] OTHER ->
         sent' = [sent EXCEPT ![t] = @ + 1] /\ UNCHANGED <<sc_bypass_, amo_writes_>>

m_mcmi_bypass(t) ==
  /\ t \notin bypasses
  /\ BypassOf(t)
  /\ bypasses' = bypasses \cup {t}
  /\ UNCHANGED <<terminated_, patchState, sc_result_, fetchState, op, reads,
                 readFirst, retireState>>
-----------------------------------------------------------------------------
(* Patch sessions. *)

\* The kept ranges after close_patch_session.
Closed(first, lo, hi) ==
  LET all == IF first # 0 /\ lo # 0
             THEN Append(patch_tag_ranges_, [trigger |-> first, lo |-> lo, hi |-> hi])
             ELSE patch_tag_ranges_
  IN  IF Len(all) > PatchKept THEN Tail(all) ELSE all

\* The trigger tag of the youngest kept range that holds the tag, or 0.
RangeTrigger(tag) ==
  LET hits == {i \in DOMAIN patch_tag_ranges_ :
                 patch_tag_ranges_[i].lo <= tag /\ tag <= patch_tag_ranges_[i].hi}
  IN  IF hits = {} THEN 0
      ELSE patch_tag_ranges_[CHOOSE i \in hits : \A j \in hits : j <= i].trigger

\* MUTANT of remap_patch_tag: the closed sessions are not looked at.
RemapOpenOnly(tag) ==
  IF patch_mode_ /\ patch_mode_first_tag_ # 0 /\ patch_lo_tag_ # 0 /\ tag >= patch_lo_tag_
  THEN patch_mode_first_tag_ ELSE tag

remap_patch_tag(tag) ==
  LET trigger == IF /\ patch_mode_ /\ patch_mode_first_tag_ # 0
                    /\ patch_lo_tag_ # 0 /\ tag >= patch_lo_tag_
                 THEN patch_mode_first_tag_ ELSE RangeTrigger(tag)
  IN  IF trigger = 0 THEN tag ELSE trigger

\* m_trap, EXCP with cause 60: a patch is entered by an exception.
m_trap ==
  /\ order < MaxOrder
  /\ order' = order + 1
  /\ patch_tag_ranges_' =
       IF patch_mode_ /\ patch_lo_tag_ # 0
       THEN Closed(patch_mode_first_tag_, patch_lo_tag_, patch_hi_tag_)
       ELSE patch_tag_ranges_
  /\ patch_mode_' = TRUE /\ patch_mode_first_tag_' = order'
  /\ patch_lo_tag_' = 0 /\ patch_hi_tag_' = 0
  /\ inPatch' = "entered" /\ session' = order'
  /\ owner' = Append(owner, order')
  /\ UNCHANGED <<terminated_, atomicState, fetchState, dutState>>

\* The patch part of m_rvfi; inmode is mode == RVFI_PATCH_MODE.
RvfiPatch(inmode, set, clr) ==
  LET o == order + 1
      pm == patch_mode_ \/ set
      first == IF pm /\ patch_mode_first_tag_ = 0 THEN o ELSE patch_mode_first_tag_
      lo == IF pm /\ inmode /\ (patch_lo_tag_ = 0 \/ o < patch_lo_tag_)
            THEN o ELSE patch_lo_tag_
      hi == IF pm /\ inmode /\ o > patch_hi_tag_ THEN o ELSE patch_hi_tag_
  IN  IF clr \/ (pm /\ lo # 0 /\ ~inmode)
      THEN /\ patch_tag_ranges_' = Closed(first, lo, hi)
           /\ patch_mode_' = FALSE
           /\ patch_mode_first_tag_' = 0 /\ patch_lo_tag_' = 0 /\ patch_hi_tag_' = 0
      ELSE /\ patch_mode_' = pm /\ patch_mode_first_tag_' = first
           /\ patch_lo_tag_' = lo /\ patch_hi_tag_' = hi
           /\ UNCHANGED patch_tag_ranges_
-----------------------------------------------------------------------------
(* Instruction fetches and Whisper's snapshot.  The lines are outside the  *)
(* patch RAM, whose evictions are dropped in patch mode.                   *)

m_mcmi_ifetch_req(l) ==
  /\ Len(ifetch_reqs_) < MaxFetches
  /\ ifetch_reqs_' = Append(ifetch_reqs_, l)
  /\ UNCHANGED <<terminated_, patchState, atomicState, ncioState, snap, age, window,
                 dutState, retireState>>

\* MUTANT of Noted: a line is noted at its first fetch only.
NotedOnce(l) == IF l \in ncio_fetches_ THEN active_ncio_fetches_
                ELSE active_ncio_fetches_ \cup {l}

\* active_ncio_fetches_ after the response for an ncio line.
Noted(l) == active_ncio_fetches_ \cup {l}

\* m_mcmi_ifetch_resp for the i-th outstanding request: responses come in
\* any order.  A line that is there is evicted and fetched again.
m_mcmi_ifetch_resp(i) ==
  LET l == ifetch_reqs_[i] IN
  /\ snap' = snap \cup {l}
  /\ IF l \in Ncio
     THEN /\ ncio_fetches_' = ncio_fetches_ \cup {l}
          /\ active_ncio_fetches_' = Noted(l)
          /\ UNCHANGED ncio_mem_transition_
     ELSE /\ ncio_mem_transition_' = (ncio_mem_transition_ \/ ncio_fetches_ # {})
          /\ UNCHANGED <<ncio_fetches_, active_ncio_fetches_>>
  /\ ifetch_reqs_' = SubSeq(ifetch_reqs_, 1, i - 1)
                     \o SubSeq(ifetch_reqs_, i + 1, Len(ifetch_reqs_))
  /\ age' = [age EXCEPT ![l] = 0] /\ window' = window \cup {l}
  /\ UNCHANGED <<terminated_, patchState, atomicState, prev_branch_tag_, dutState, retireState>>

\* m_mcmi_ievict: the core gives up a line.
m_mcmi_ievict(l) ==
  /\ l \in snap
  /\ snap' = snap \ {l} /\ window' = window \ {l}
  /\ UNCHANGED <<terminated_, patchState, atomicState, ifetch_reqs_, ncioState, age,
                 dutState, retireState>>

\* The window part of m_rvfi, with process_ncio_fetches: at an instruction
\* boundary where the branch tag changes, the lines that were not fetched
\* since the last boundary are evicted.
RvfiNcio(last, bt) ==
  IF ~last THEN UNCHANGED <<ncioState, snap>>
  ELSE /\ prev_branch_tag_' = bt
       /\ IF ncio_fetches_ # {} \/ ncio_mem_transition_
          THEN LET gone == IF bt # prev_branch_tag_
                           THEN ncio_fetches_ \ active_ncio_fetches_ ELSE {}
               IN  /\ ncio_fetches_' = ncio_fetches_ \ gone
                   /\ snap' = snap \ gone
                   /\ active_ncio_fetches_' = {}
                   /\ ncio_mem_transition_' = FALSE
          ELSE UNCHANGED <<ncio_fetches_, active_ncio_fetches_, ncio_mem_transition_, snap>>
-----------------------------------------------------------------------------
\* One m_rvfi message.  A patch is left with clr_pmode on its last
\* instruction, or without it (silently) once something retired in it.
m_rvfi(set, clr, silent, last, bt) ==
  LET inmode == inPatch \in {"entered", "yes"} IN
  /\ order < MaxOrder
  /\ set => ~inmode /\ (BackToBack \/ inPatch # Silent)
  /\ clr \/ silent => inmode /\ ~(clr /\ silent)
  /\ order' = order + 1
  /\ RvfiPatch(inmode, set, clr)
  /\ RvfiNcio(last, bt)
  /\ inPatch' = CASE set -> "entered"
                  [] clr -> "no"
                  [] silent -> Silent
                  [] OTHER -> IF inmode THEN "yes" ELSE "no"
  /\ session' = IF set THEN order' ELSE session
  /\ owner' = Append(owner, IF inmode THEN session ELSE order')
  /\ age' = [l \in Lines |-> IF l \in snap /\ last /\ bt # prev_branch_tag_
                             THEN age[l] + 1 ELSE age[l]]
  /\ window' = IF last THEN {} ELSE window
  /\ UNCHANGED <<terminated_, atomicState, ifetch_reqs_, dutState>>

\* The core is done.
m_drain == terminated_' = TRUE /\ UNCHANGED
             <<patchState, atomicState, fetchState, dutState, retireState>>

\* Every handler is connected through connect(), which drops whatever message
\* comes after m_drain.
McmiNext ==
  /\ ~terminated_
  /\ \/ \E t \in Atomics : m_mcmi_read(t) \/ m_mcmi_bypass(t)
     \/ m_trap
     \/ \E set, clr, silent, last \in BOOLEAN, bt \in BranchTags :
          m_rvfi(set, clr, silent, last, bt)
     \/ \E l \in Lines : m_mcmi_ifetch_req(l) \/ m_mcmi_ievict(l)
     \/ \E i \in DOMAIN ifetch_reqs_ : m_mcmi_ifetch_resp(i)
     \/ m_drain

McmiSpec == McmiInit /\ [][McmiNext]_mcmiVars
-----------------------------------------------------------------------------
(* The write of an atomic reaches the bridge at most once and only if it   *)
(* happened: an AMO's exactly when both of its messages have come before   *)
(* m_drain, that of a failed SC or AMOCAS never, that of an SC whose       *)
(* result came first exactly when the bypass comes before m_drain          *)
(* (mcmi.cpp, the SC branch of m_mcmi_read and the single access of        *)
(* m_mcmi_bypass; mcmi.h, connect).                                        *)
AtomicWrites ==
  \A t \in Atomics :
    /\ sent[t] <= 1
    /\ op[t] \in {"sc_fail", "cas_fail"} => sent[t] = 0
    /\ op[t] \in {"amo", "cas_pass"} =>
         (sent[t] = 1 <=> t \in bypasses /\ (Emulate => t \in reads))
    /\ op[t] = "sc_pass" /\ t \in readFirst => (sent[t] = 1 <=> t \in bypasses)

(* "If bypass before read, check pass/fail result and send/don't send      *)
(* bypass" (mcmi.cpp:188): once both messages of a successful SC have      *)
(* come, its write was sent.                                               *)
ScSent == \A t \in reads \cap bypasses : op[t] = "sc_pass" => sent[t] = 1

\* Tags whose session is open or among the last PatchKept closed ones.
RecentTags ==
  {t \in 1 .. order :
     \/ owner[t] = t
     \/ Cardinality({owner[u] : u \in {v \in t .. order : owner[v] # v}}) <= PatchKept}

(* A memory message that completes after its instruction retired is given  *)
(* to Whisper under the tag that Whisper knows: the trigger of its own     *)
(* patch session, however many sessions began since (up to the number      *)
(* kept), and its own tag outside of patches (mcmi.cpp, remap_patch_tag).  *)
RemapRight == \A t \in RecentTags : remap_patch_tag(t) = owner[t]

(* "any line fetched in a prior window but not re-fetched in the current   *)
(* one must be evicted from whisper's snapshot" (mcmi.cpp, m_rvfi): no     *)
(* non-cacheable line stays in the snapshot over two changes of the branch *)
(* tag.                                                                    *)
SnapshotFresh == \A l \in snap \cap Ncio : age[l] <= 1

(* A line that was fetched in the current window and not evicted by the    *)
(* core is still in the snapshot after the instruction that closes the     *)
(* window: Whisper can fetch the instructions that the core fetched.       *)
SnapshotKept == [][order' # order => window \subseteq snap']_mcmiVars

(* Both: Whisper's snapshot holds the lines it needs and no line that is   *)
(* too old (active_ncio_fetches_, process_ncio_fetches).                   *)
SnapshotRight == []SnapshotFresh /\ SnapshotKept
=============================================================================
