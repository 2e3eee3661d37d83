------------------------------- MODULE Clint -------------------------------
(***************************************************************************)
(* The core-local interruptor (src/sysmod/clint): one software-interrupt   *)
(* word and one time compare per hart and the timer all harts share, as    *)
(* seen by writes of any offset and width, by sysmod's tick, and by the    *)
(* device snapshot written at the end of one simulation and read at the    *)
(* start of the next.  Pins are signalled on change only, so the model     *)
(* keeps both timerIntPrev_ and the level sysmod last heard.               *)
(***************************************************************************)
EXTENDS Integers, FiniteSets

CONSTANTS
  hartCount_,
  tickDivisor_,
  Top,          \* bound: the largest 64-bit value; the reset of time compare
  Offsets,      \* bound: the offsets written, around every boundary
  Advances,     \* bound: the cycles a tick may advance by
  MaxRuns       \* bound: simulations chained by snapshots

HartIds == 0 .. hartCount_ - 1

VARIABLES
  soft_, timeCompare_, timerIntPrev_, timer_,
  mtip, msip,   \* the levels sysmod last heard from timerInterrupt, softwareInterrupt
  heard,        \* processTimerInterrupts has run since construction (history)
  runs,         \* simulations so far (bound)
  saved         \* the timer and compares the last snapshot holds (history)

vars == <<soft_, timeCompare_, timerIntPrev_, timer_, mtip, msip, heard, runs, saved>>

Init ==
  /\ soft_ = [h \in HartIds |-> 0]
  /\ timeCompare_ = [h \in HartIds |-> Top]
  /\ timerIntPrev_ = [h \in HartIds |-> FALSE]
  /\ timer_ = 0
  /\ mtip = [h \in HartIds |-> FALSE]
  /\ msip = [h \in HartIds |-> 0]
  /\ heard = FALSE
  /\ runs = 1
  /\ saved = [timer |-> 0, cmp |-> timeCompare_]

----------------------------------------------------------------------------
\* timerInterrupt is signalled for the harts whose level changed.
processTimerInterrupts(timer, cmp) ==
  LET flag == [h \in HartIds |-> timer >= cmp[h]]
  IN /\ mtip' = [h \in HartIds |-> IF timerIntPrev_[h] # flag[h] THEN flag[h] ELSE mtip[h]]
     /\ timerIntPrev_' = flag
     /\ heard' = TRUE

\* A write below 0x4000: one word per hart.
WriteSoft(offset, length, v) ==
  LET hartIx == offset \div 4
  IN /\ offset < 16384
     /\ offset % 4 = 0 /\ length >= 4 /\ hartIx < hartCount_
     /\ soft_' = [soft_ EXCEPT ![hartIx] = v % 2]
     /\ msip' = [msip EXCEPT ![hartIx] = v % 2]
     /\ UNCHANGED <<timeCompare_, timerIntPrev_, timer_, mtip, heard, runs, saved>>

\* An 8-byte write from 0x4000 on: the timer at 0xbff8, a compare elsewhere.
WriteTime(offset, length, v) ==
  LET hartIx == (offset - 16384) \div 8
      isTimer == offset - 16384 = 32760
      timer == IF isTimer THEN v ELSE timer_
      cmp == IF isTimer THEN timeCompare_ ELSE [timeCompare_ EXCEPT ![hartIx] = v]
  IN /\ offset >= 16384 /\ length = 8
     /\ isTimer \/ hartIx < hartCount_
     /\ timer_' = timer
     /\ timeCompare_' = cmp
     /\ processTimerInterrupts(timer, cmp)
     /\ UNCHANGED <<soft_, msip, runs, saved>>

write(offset, length, v) == WriteSoft(offset, length, v) \/ WriteTime(offset, length, v)

\* A tick that is no multiple of the divisor is an error and still counts.
tick(advance) ==
  /\ timer_' = (timer_ + advance \div tickDivisor_) % (Top + 1)
  /\ processTimerInterrupts(timer_', timeCompare_)
  /\ UNCHANGED <<soft_, timeCompare_, msip, runs, saved>>

\* ~clint: the snapshot.
Save == [timer |-> timer_, cmp |-> timeCompare_]

\* The constructor reads it back.  The line of the timer is parsed without
\* reading its value, so the timer starts at the value of an empty string.
Load(snapshot) == [timer |-> 0, cmp |-> snapshot.cmp]

\* The end of a simulation and the start of the next, with the same snapshot
\* directory.
Rerun ==
  /\ runs < MaxRuns
  /\ runs' = runs + 1
  /\ saved' = [timer |-> timer_, cmp |-> timeCompare_]
  /\ timer_' = Load(Save).timer
  /\ timeCompare_' = Load(Save).cmp
  /\ soft_' = [h \in HartIds |-> 0]
  /\ timerIntPrev_' = [h \in HartIds |-> FALSE]
  /\ mtip' = [h \in HartIds |-> FALSE]
  /\ msip' = [h \in HartIds |-> 0]
  /\ heard' = FALSE

Next ==
  \/ \E offset \in Offsets, length \in {2, 4, 8}, v \in 0 .. Top : write(offset, length, v)
  \/ \E advance \in Advances : tick(advance)
  \/ Rerun

Spec == Init /\ [][Next]_vars

----------------------------------------------------------------------------
\* The pins sysmod drives are those of the registers: the software pin is the
\* word last written, and the timer pin of a hart is high exactly when the timer
\* has reached its compare, although only changes are signalled, from writes of
\* either register, from ticks that wrap the timer and across a restart
\* (processTimerInterrupts, write, tick).
PinsFollow ==
  \A h \in HartIds :
    /\ msip[h] = soft_[h]
    /\ mtip[h] = timerIntPrev_[h]
    /\ heard => (mtip[h] <=> timer_ >= timeCompare_[h])

\* A restart from the snapshot directory starts each hart's compare where the
\* last simulation left it (~clint, clint::clint).
ComparesRestored == ~heard /\ runs > 1 => timeCompare_ = saved.cmp

=============================================================================
