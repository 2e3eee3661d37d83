------------------------------- MODULE Eam --------------------------------
(***************************************************************************)
(* The exclusive access monitor of the AXI software transactor             *)
(* (src/transactors/axi_sw/eam.cpp) and the trickbox registers that make   *)
(* exclusive writes fail on purpose (sysmod/trickbox/eam_helper.cpp).      *)
(*                                                                         *)
(* One step is one transaction: eam::on_addr and the access itself, which  *)
(* the engine makes before it first awaits.  An address stands for the     *)
(* address and the control fields that fields_match compares; Touches(x)   *)
(* are the reservation granules of the bytes of a write (see AxiBurst).    *)
(* The reservation table has one entry per value of AxUSER[3:0].  Plain    *)
(* reads do not reach the table.                                           *)
(***************************************************************************)
EXTENDS Integers

CONSTANTS Harts,         \* values of AxUSER[3:0] in use
          Addrs,         \* addresses, with their control fields
          Granule(_),    \* rsv_base
          Touches(_),    \* granules that a write to the address overlaps
          PatternPass, PatternFail,  \* n and e of +eam_pass_invalidate_ratio
          Ttl,           \* +eam_reservation_ttl
          Decline,       \* +eam_decline_excl_pct is positive
          FailCnts,      \* values written to the fail-count register
          MaxTime,       \* bound: clocks
          MaxCount       \* bound: the metrics saturate here

ASSUME GranuleAssumption ==
  Addrs # {} /\ \A x \in Addrs : Granule(x) \in Touches(x)
ASSUME PatternAssumption ==
  PatternPass \in Nat /\ PatternFail \in Nat /\ PatternPass + PatternFail > 0
ASSUME KnobAssumption ==
  /\ Ttl \in Nat /\ Decline \in BOOLEAN /\ FailCnts \subseteq Nat
  /\ MaxTime \in Nat /\ MaxCount \in Nat

VARIABLES
  valid, rsv_addr, rsv_cycle,  \* fields of the entries t_
  excl_wr_count,               \* excl_wr_count_
  tb_fail_en, tb_fail_addr, tb_fail_cnt, tb_fail_injected,
  forced_fails,  \* forced_fail_excl_write_count_
  now,           \* TB clock
  spoiled,       \* history: harts without an exclusive read that no write to
                 \* its granule and no exclusive write of the hart followed
  tries,         \* history: exclusive writes to the armed granule since the
                 \* failures were last programmed, at most tb_fail_cnt
  passed         \* history: the hart whose exclusive write passed just now

table == <<valid, rsv_addr, rsv_cycle>>
tb == <<tb_fail_en, tb_fail_addr, tb_fail_cnt, tb_fail_injected, tries>>
counts == <<excl_wr_count, forced_fails>>
vars == <<table, tb, counts, now, spoiled, passed>>

SomeAddr == CHOOSE x \in Addrs : TRUE

Init ==
  /\ valid = [h \in Harts |-> FALSE]
  /\ rsv_addr = [h \in Harts |-> SomeAddr]
  /\ rsv_cycle = [h \in Harts |-> 0]
  /\ excl_wr_count = 0 /\ forced_fails = 0
  /\ tb_fail_en = FALSE /\ tb_fail_addr = SomeAddr
  /\ tb_fail_cnt = 0 /\ tb_fail_injected = 0 /\ tries = 0
  /\ now = 0 /\ spoiled = Harts /\ passed = {}

Bump(n) == IF n < MaxCount THEN n + 1 ELSE n

\* Harts whose reserved granule a write to x overlaps.
Overlapped(x) == {h \in Harts : Granule(rsv_addr[h]) \in Touches(x)}

\* MUTANT of Kill: only the granule of the start address is looked at.
KillStart(x, spare) ==
  {h \in Harts \ spare : Granule(rsv_addr[h]) = Granule(x)}

\* invalidate_overlaps: reservations that a write to x kills; `spare' is the
\* writer's own entry for an exclusive write.
Kill(x, spare) == Overlapped(x) \ spare

\* An exclusive read takes a reservation, unless it is declined.
ExclusiveRead(h, x) ==
  /\ \/ /\ valid' = [valid EXCEPT ![h] = TRUE]
        /\ rsv_addr' = [rsv_addr EXCEPT ![h] = x]
        /\ rsv_cycle' = [rsv_cycle EXCEPT ![h] = IF Ttl = 0 THEN 0 ELSE now]
        /\ spoiled' = spoiled \ {h}
     \/ /\ Decline
        /\ valid' = [valid EXCEPT ![h] = FALSE]
        /\ spoiled' = spoiled \cup {h}
        /\ UNCHANGED <<rsv_addr, rsv_cycle>>
  /\ passed' = {}
  /\ UNCHANGED <<tb, counts, now>>

Write(h, x) ==
  /\ valid' = [g \in Harts |-> valid[g] /\ g \notin Kill(x, {})]
  /\ spoiled' = spoiled \cup Overlapped(x)
  /\ passed' = {}
  /\ UNCHANGED <<rsv_addr, rsv_cycle, tb, counts, now>>

\* tb_fail_excl_write.
TbFail(x) ==
  /\ tb_fail_en
  /\ Granule(x) = Granule(tb_fail_addr)
  /\ tb_fail_injected < tb_fail_cnt

\* pattern_fail_excl_write: the verdict; the counter advances in
\* ExclusiveWrite.
PatternFails == excl_wr_count >= PatternPass

TtlExpired(h) == Ttl # 0 /\ valid[h] /\ now - rsv_cycle[h] >= Ttl

Match(h, x) == valid[h] /\ rsv_addr[h] = x

Pass(h, x) == Match(h, x) /\ ~PatternFails /\ ~TbFail(x) /\ ~TtlExpired(h)

\* Writes that the metric counts as failed by the pattern, those that the
\* trickbox fails as well included.
CountsAsForced(h, x) == PatternFails /\ ~TtlExpired(h) /\ Match(h, x)

ExclusiveWrite(h, x) ==
  /\ excl_wr_count' = (excl_wr_count + 1) % (PatternPass + PatternFail)
  /\ tb_fail_injected' = IF TbFail(x) THEN tb_fail_injected + 1
                         ELSE tb_fail_injected
  /\ tries' = IF /\ tb_fail_en /\ Granule(x) = Granule(tb_fail_addr)
                 /\ tries < tb_fail_cnt
              THEN tries + 1 ELSE tries
  /\ forced_fails' = IF CountsAsForced(h, x) THEN Bump(forced_fails)
                     ELSE forced_fails
  /\ valid' = [g \in Harts |-> valid[g] /\ g # h /\ g \notin Kill(x, {h})]
  /\ IF Pass(h, x)
     THEN passed' = {h} /\ spoiled' = spoiled \cup Overlapped(x) \cup {h}
     ELSE passed' = {} /\ spoiled' = spoiled \cup {h}
  /\ UNCHANGED <<rsv_addr, rsv_cycle, tb_fail_en, tb_fail_addr, tb_fail_cnt,
                 now>>

\* The trickbox registers.  Programming either operand, or arming, starts a
\* new window of failures.
SetFailCnt(c) ==
  /\ tb_fail_cnt' = c /\ tb_fail_injected' = 0 /\ tries' = 0
  /\ UNCHANGED <<tb_fail_en, tb_fail_addr>>

\* MUTANT of SetFailAddr: the window goes on.
SetFailAddrGoOn(x) ==
  /\ tb_fail_addr' = x /\ tries' = 0
  /\ UNCHANGED <<tb_fail_en, tb_fail_cnt, tb_fail_injected>>

SetFailAddr(x) ==
  /\ tb_fail_addr' = x /\ tb_fail_injected' = 0 /\ tries' = 0
  /\ UNCHANGED <<tb_fail_en, tb_fail_cnt>>

SetFailEn(b) ==
  /\ tb_fail_en' = b
  /\ IF b THEN tb_fail_injected' = 0 /\ tries' = 0
     ELSE UNCHANGED <<tb_fail_injected, tries>>
  /\ UNCHANGED <<tb_fail_addr, tb_fail_cnt>>

Program ==
  /\ \/ \E c \in FailCnts : SetFailCnt(c)
     \/ \E x \in Addrs : SetFailAddr(x)
     \/ \E b \in BOOLEAN : SetFailEn(b)
  /\ passed' = {}
  /\ UNCHANGED <<table, counts, now, spoiled>>

Tick ==
  /\ Ttl # 0 /\ now < MaxTime
  /\ now' = now + 1
  /\ passed' = {}
  /\ UNCHANGED <<table, tb, counts, spoiled>>

Next ==
  \/ \E h \in Harts, x \in Addrs :
       ExclusiveRead(h, x) \/ Write(h, x) \/ ExclusiveWrite(h, x)
  \/ Program \/ Tick

Spec == Init /\ [][Next]_vars
---------------------------------------------------------------------------
\* The variables have their types.
TypeOK ==
  /\ valid \in [Harts -> BOOLEAN] /\ rsv_addr \in [Harts -> Addrs]
  /\ rsv_cycle \in [Harts -> Nat]
  /\ excl_wr_count \in 0 .. PatternPass + PatternFail - 1
  /\ tb_fail_en \in BOOLEAN /\ tb_fail_addr \in Addrs /\ tb_fail_cnt \in Nat
  /\ tb_fail_injected \in 0 .. tb_fail_cnt /\ tries \in 0 .. tb_fail_cnt
  /\ forced_fails \in Nat /\ now \in Nat
  /\ spoiled \subseteq Harts /\ passed \subseteq Harts

\* An exclusive write passes only if since the hart's exclusive read nobody
\* wrote the granule, whole bursts included, and the hart made no other
\* exclusive write: read and write are atomic (on_addr).
Atomic == [][passed' \cap spoiled = {}]_vars

\* While the trickbox's failures are armed, no exclusive write to the armed
\* granule passes before the programmed number of them failed since the last
\* programming ("Reprogramming either operand starts a new injection window",
\* set_tb_fail_addr, set_tb_fail_cnt).
FailsFirst ==
  [][\A h \in passed' :
       tb_fail_en /\ Granule(rsv_addr[h]) = Granule(tb_fail_addr)
         => tries = tb_fail_cnt]_vars
===========================================================================
