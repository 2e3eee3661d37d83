----------------------------- MODULE ResetPulse -----------------------------
(***************************************************************************)
(* The sys_reset distribution of rv_tester.sv on its own, with every       *)
(* interleaving of the edges of the clocks.  pulse_a is rv_tester_reset, a *)
(* register of the TB clock that is high for one cycle.  A run can be      *)
(* ended by requests that sys_reset_any does not mask (an error, the       *)
(* platform's dut_terminate, a warm reset), so that the next reset may be  *)
(* raised at any time, also when the last one is still on its way (early). *)
(***************************************************************************)
EXTENDS CdcPulse

CONSTANT MaxOwed    \* bound: resets that a domain has not taken

VARIABLES
  pulse_a,
  early,            \* history, per clock: the last reset was raised before the
                    \* flops had come to rest after the one before it
  owed              \* history, per clock: resets sent and not taken there, since
                    \* one was last raised with its flops at rest

pulseVars == <<pulse_a, early, owed, cdcVars>>

PulseInit ==
  /\ CdcInit /\ pulse_a = TRUE
  /\ early = [c \in Clks |-> FALSE] /\ owed = [c \in Clks |-> 0]

AtRest(c) == ~pulse_pending_a[c] /\ ack[c] = Low /\ sync[c] = Low

DriveA ==
  /\ pulse_a' \in BOOLEAN
  /\ pulse_a' => ~pulse_a /\ \A c \in Clks : owed[c] < MaxOwed

\* What the clocks E take and what the TB clock, if it has an edge, sends.
Count(tb, E) ==
  /\ early' = [c \in Clks |-> IF tb /\ pulse_a' THEN ~AtRest(c) ELSE early[c]]
  /\ owed' = [c \in Clks |-> IF tb /\ pulse_a' /\ AtRest(c) THEN 0
                             ELSE owed[c] + (IF tb /\ pulse_a THEN 1 ELSE 0)
                                          - (IF c \in E /\ pulse_b(c) THEN 1 ELSE 0)]

TbAnd(E) == TbEdge(E, pulse_a) /\ DriveA /\ Count(TRUE, E)
Tb       == \E E \in SUBSET Clks : TbAnd(E)
Clk(c)   == ClkEdge(c) /\ UNCHANGED pulse_a /\ Count(FALSE, {c})

PulseNext == Tb \/ \E c \in Clks : Clk(c)

TbWith(c) == \E E \in SUBSET Clks : c \in E /\ TbAnd(E)

\* Every clock keeps running.
PulseSpec == /\ PulseInit /\ [][PulseNext]_pulseVars
        /\ WF_pulseVars(Tb)
        /\ \A c \in Clks : WF_pulseVars(Clk(c) \/ TbWith(c))

\* No domain ever sees more resets than the TB clock has sent, however close to
\* each other those come and however the edges fall (pulse_b of
\* rv_tester_cdc_pulse).
NoneInvented == \A c \in Clks : owed[c] >= 0

\* A reset that is raised when the flops of the domain are at rest is taken
\* there at most once (a flag that is held until the acknowledge comes back, and
\* sync2 & ~sync3 over it), and until the domain has taken it the TB clock sees
\* pulse_pending_or_asserted_a for it: there is no gap between the pending flag
\* dropping and the acknowledge flop rising, so that a terminate request left
\* over in that domain is not taken for one of the new run.
OnceAndMasked ==
  \A c \in Clks : ~early[c] =>
    /\ owed[c] <= 1
    /\ owed[c] > 0 => pulse_pending_or_asserted_a(c)

\* Both together.  Of a reset that is raised earlier only the first is said: it
\* may have no rising edge of its own, and is then lost (rv_tester_cdc_pulse,
\* sys_reset_any).
ResetTaken == NoneInvented /\ OnceAndMasked
=============================================================================
