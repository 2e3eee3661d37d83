----------------------------- MODULE DelayResp -----------------------------
(***************************************************************************)
(* The response delay (src/rv_tester_delay_resp.sv) on one channel: R with *)
(* bursts of up to MaxBeatsPerBurst beats, or B with MaxBeatsPerBurst = 1. *)
(* An accepted request gets the index of its FIFO slot as its id towards   *)
(* the crossbar; responses come back in any order and wait in a RAM until  *)
(* the request is at the head of the FIFO and its delay is over.           *)
(*                                                                         *)
(* A step is one clock cycle, with all registers of the pipeline: a        *)
(* response needs one cycle to the data RAM and two to the valid RAM, and  *)
(* both RAMs are read a cycle ahead.  The FIFO is the queue that RvFifo    *)
(* shows rv_tester_fifo to be.  Requests are numbered in the order of      *)
(* acceptance; the number stands for the original id and for the data.     *)
(***************************************************************************)
EXTENDS Integers, Sequences

CONSTANTS MaxInFlight, MaxBeatsPerBurst,
          Delay,         \* delay_cycles, not 0
          Wrap,          \* 2^CW, the period of global_timer
          MaxReqs,       \* requests of a behaviour
          Outstanding,   \* requests that the core has outstanding, at most
          Readies        \* values of the core's ready

VARIABLES global_timer, fifo, push_idx, pop_idx,
          valid_ram, valid_ram_wr, valid_ram_rd_data,
          data_ram, data_ram_rd_data,
          output_beat_idx, input_beat_counters,
          reqs,      \* requests accepted so far
          xbar,      \* accepted requests that the crossbar still answers, in order
          expected,  \* the beat that the core expects next
          out        \* the beat delivered in the last cycle

vars == <<global_timer, fifo, push_idx, pop_idx, valid_ram, valid_ram_wr,
          valid_ram_rd_data, data_ram, data_ram_rd_data, output_beat_idx,
          input_beat_counters, reqs, xbar, expected, out>>

Slots == 0 .. MaxInFlight - 1
RamSize == MaxInFlight * MaxBeatsPerBurst
Addrs == 0 .. RamSize - 1
NoBeat == [req |-> 0, beat |-> 0, last |-> FALSE]
NoOut == [on |-> FALSE, id |-> 0, d |-> NoBeat, want |-> <<0, 0>>, age |-> 0]

Init ==
  /\ global_timer = 0 /\ fifo = << >> /\ push_idx = 0 /\ pop_idx = 0
  /\ valid_ram = [a \in Addrs |-> FALSE]
  /\ valid_ram_wr = [a \in Addrs |-> "keep"]
  /\ valid_ram_rd_data = FALSE
  /\ data_ram = [a \in Addrs |-> NoBeat] /\ data_ram_rd_data = NoBeat
  /\ output_beat_idx = 0 /\ input_beat_counters = [s \in Slots |-> 0]
  /\ reqs = 0 /\ xbar = << >> /\ expected = <<1, 0>> /\ out = NoOut

fifo_full == Len(fifo) = MaxInFlight
Elapsed == (global_timer - Head(fifo).push_time) % Wrap

send_resp(ready) ==
  fifo # << >> /\ Elapsed >= Delay /\ valid_ram_rd_data /\ ready

\* MUTANT of StagedWrites: a pop leaves the entries of its slot valid and a
\* push does not clear them.
StagedNoClear(push, pop, resp, wr) ==
  [a \in Addrs |-> IF resp /\ a = wr THEN "set" ELSE "keep"]

\* The registered write of the valid RAM; the last assignment of the always
\* block wins.
StagedWrites(push, pop, resp, wr) ==
  [a \in Addrs |->
     CASE pop /\ a \div MaxBeatsPerBurst = pop_idx -> "clr"
       [] resp /\ a = wr /\ ~(pop /\ a \div MaxBeatsPerBurst = pop_idx) -> "set"
       [] push /\ a \div MaxBeatsPerBurst = push_idx
          /\ ~(resp /\ a = wr) /\ ~(pop /\ a \div MaxBeatsPerBurst = pop_idx) -> "clr"
       [] OTHER -> "keep"]

\* The slot and the beat whose RAM entries are read for the next cycle;
\* the beat is also the next output_beat_idx.
EffPop(last) == IF last THEN (pop_idx + 1) % MaxInFlight ELSE pop_idx

EffBeat(send, last) == CASE last -> 0
                         [] send /\ ~last -> output_beat_idx + 1
                         [] OTHER -> output_beat_idx

\* The beats that the crossbar may return now: the next one of a request
\* whose slot index no earlier outstanding request carries.
Answers == {i \in DOMAIN xbar : \A j \in 1 .. i - 1 : xbar[j].id # xbar[i].id}

After(i) == IF xbar[i].beat = xbar[i].len
            THEN SubSeq(xbar, 1, i - 1) \o SubSeq(xbar, i + 1, Len(xbar))
            ELSE [xbar EXCEPT ![i].beat = @ + 1]

\* One cycle: len is the length of the request that is accepted (0 for
\* none), i the request that the crossbar answers (0 for none).
Cycle(len, i, ready) ==
  LET send == send_resp(ready)
      last == send /\ data_ram_rd_data.last
      resp == i # 0
      push == len # 0 /\ ~fifo_full
      slot == IF resp THEN xbar[i].id ELSE 0
      wr == (slot * MaxBeatsPerBurst + input_beat_counters[slot]) % RamSize
      rd == (EffPop(last) * MaxBeatsPerBurst + EffBeat(send, last)) % RamSize
      entry == [req |-> reqs + 1, push_time |-> global_timer, age |-> 0]
      older == [k \in DOMAIN fifo |->
                  [fifo[k] EXCEPT !.age = IF @ < Delay THEN @ + 1 ELSE @]]
      kept == IF last THEN Tail(older) ELSE older
  IN
  /\ global_timer' = (global_timer + 1) % Wrap
  /\ fifo' = IF push THEN Append(kept, [entry EXCEPT !.age = 1]) ELSE kept
  /\ push_idx' = IF push THEN (push_idx + 1) % MaxInFlight ELSE push_idx
  /\ pop_idx' = IF last THEN (pop_idx + 1) % MaxInFlight ELSE pop_idx
  /\ valid_ram_wr' = StagedWrites(push, last, resp, wr)
  /\ valid_ram' = [a \in Addrs |-> CASE valid_ram_wr[a] = "set" -> TRUE
                                     [] valid_ram_wr[a] = "clr" -> FALSE
                                     [] OTHER -> valid_ram[a]]
  /\ valid_ram_rd_data' = valid_ram[rd]
  /\ data_ram' = IF resp
                 THEN [data_ram EXCEPT ![wr] =
                         [req |-> xbar[i].req, beat |-> xbar[i].beat - 1,
                          last |-> xbar[i].beat = xbar[i].len]]
                 ELSE data_ram
  /\ data_ram_rd_data' = data_ram[rd]
  /\ output_beat_idx' = EffBeat(send, last)
  /\ input_beat_counters' =
       [s \in Slots |-> CASE resp /\ s = slot -> input_beat_counters[s] + 1
                          [] push /\ s = push_idx /\ ~(resp /\ s = slot) -> 0
                          [] OTHER -> input_beat_counters[s]]
  /\ reqs' = IF len # 0 THEN reqs + 1 ELSE reqs
  /\ xbar' = LET rest == IF resp THEN After(i) ELSE xbar
             IN  IF len # 0
                 THEN Append(rest, [id |-> push_idx, req |-> reqs + 1, beat |-> 1, len |-> len])
                 ELSE rest
  /\ out' = IF send
            THEN [on |-> TRUE, id |-> Head(fifo).req, d |-> data_ram_rd_data,
                  want |-> expected, age |-> Head(fifo).age]
            ELSE NoOut
  /\ expected' = CASE last -> <<expected[1] + 1, 0>>
                   [] send /\ ~last -> <<expected[1], expected[2] + 1>>
                   [] OTHER -> expected

\* Requests whose last beat the core has not got.
InFlight == reqs + 1 - expected[1]

Next ==
  \E len \in 0 .. MaxBeatsPerBurst, i \in {0} \cup Answers, ready \in Readies :
    /\ len # 0 => reqs < MaxReqs /\ InFlight < Outstanding
    /\ Cycle(len, i, ready)

Spec == Init /\ [][Next]_vars

\* The clock ticks; the crossbar answers each request in the end.
Answering == \E len \in 0 .. MaxBeatsPerBurst, ready \in Readies :
               /\ len # 0 => reqs < MaxReqs /\ InFlight < Outstanding
               /\ \E i \in Answers : Cycle(len, i, ready)
FairSpec == Spec /\ WF_vars(Next) /\ WF_vars(Answering)
-----------------------------------------------------------------------------
(* Type invariant of the registers: a slot holds at most one burst of      *)
(* beats (the assertion beat_counter_overflow) and the FIFO is not overrun.*)
(* Every beat that the core gets is the one it expects: requests are       *)
(* answered in the order of acceptance with their own id, their own data   *)
(* and all of their beats in order, however the crossbar reorders and      *)
(* interleaves (slv_resp_o.r, r_resp_id_fifo).                             *)
OwnBeat == out.on => /\ out.id = out.want[1]
                     /\ out.d.req = out.want[1] /\ out.d.beat = out.want[2]

(* No beat is delivered before delay_cycles cycles have passed since its   *)
(* request was accepted, whatever the phase of the wrapping timer          *)
(* (send_resp_internal).                                                   *)
NotEarly == out.on => out.age >= Delay

(* "Beat counter overflow for FIFO index" (rv_tester_delay_resp.sv:403):   *)
(* a response is only stored in a slot that still expects a beat.          *)
NoOverflow == \A s \in Slots : input_beat_counters[s] <= MaxBeatsPerBurst

(* Every accepted request is answered when the crossbar answers and the    *)
(* core stays ready.                                                       *)
Delivered == []<>(InFlight = 0)
=============================================================================
