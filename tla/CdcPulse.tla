------------------------------ MODULE CdcPulse ------------------------------
(***************************************************************************)
(* rv_tester_cdc_pulse (rv_tester_lib.sv): a one-cycle pulse of the TB     *)
(* clock is handed to another clock domain through three flops, and        *)
(* acknowledged back through three more.  rv_tester.sv instantiates it     *)
(* once per clock c to turn rv_tester_reset into sys_reset[c], and masks   *)
(* the terminate requests of the other domains (sys_reset_any) until the   *)
(* reset has been taken in all of them.                                    *)
(*                                                                         *)
(* The clocks are asynchronous: an edge of any of them, or of several at   *)
(* once, may come next.  FastB bounds the edges of another clock from one  *)
(* edge of the TB clock up to the next: 1 when no clock is faster than the *)
(* TB clock, 2 when one may be a little faster (the 2100 MHz clock         *)
(* profiles of the software testbench, whose TB clock stays at 2000 MHz).  *)
(***************************************************************************)
EXTENDS Integers

CONSTANTS
  Clks,             \* the clock domains other than the TB clock
  FastB             \* bound: edges of such a clock per TB clock period

VARIABLES
  pulse_pending_a,  \* [Clks -> BOOLEAN]
  ack,              \* per clock <<pulse_b_sync1, pulse_b_sync2, pulse_b_sync3>>
  sync,             \* per clock <<sync1, sync2, sync3>>
  edges             \* per clock: its edges since the last TB edge, that one included

cdcVars == <<pulse_pending_a, ack, sync, edges>>

Low == <<FALSE, FALSE, FALSE>>

CdcInit ==
  /\ pulse_pending_a = [c \in Clks |-> FALSE]
  /\ ack  = [c \in Clks |-> Low]
  /\ sync = [c \in Clks |-> Low]
  /\ edges = [c \in Clks |-> 0]

\* Mutant: the level of the synchronised flag instead of its rising edge.
LevelPulse(c) == sync[c][2]

pulse_b(c) == sync[c][2] /\ ~sync[c][3]

pulse_pending_or_asserted_a(c) == pulse_pending_a[c] \/ ack[c][3]

\* Mutant: the acknowledge needs two consecutive samples of pulse_b.
AckedTwice(c) == ack[c][2] /\ ack[c][3]

\* The rising edge of the synchronised pulse_b ends the hold of pulse_a.
Acked(c) == ack[c][2] /\ ~ack[c][3]

\* The flops of the TB clock, when it has an edge (tb) and pulse_a is its
\* input, and those of the clocks E that have an edge at the same moment: all
\* of them sample what the others hold before the edge.
Flops(tb, E, pulse_a) ==
  /\ pulse_pending_a' = IF tb THEN [c \in Clks |-> pulse_a \/ (pulse_pending_a[c] /\ ~Acked(c))]
                              ELSE pulse_pending_a
  /\ ack' = IF tb THEN [c \in Clks |-> <<pulse_b(c), ack[c][1], ack[c][2]>>] ELSE ack
  /\ sync' = [c \in Clks |-> IF c \in E THEN <<pulse_pending_a[c], sync[c][1], sync[c][2]>>
                                        ELSE sync[c]]

\* An edge of the TB clock, together with edges of the clocks E.
TbEdge(E, pulse_a) ==
  /\ Flops(TRUE, E, pulse_a)
  /\ edges' = [c \in Clks |-> IF c \in E THEN 1 ELSE 0]

\* An edge of clock c that is not an edge of the TB clock.
ClkEdge(c) ==
  /\ edges[c] < FastB
  /\ Flops(FALSE, {c}, FALSE)
  /\ edges' = [edges EXCEPT ![c] = @ + 1]

=============================================================================
