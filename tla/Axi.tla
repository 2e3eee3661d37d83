------------------------------- MODULE Axi --------------------------------
(***************************************************************************)
(* The burst engine of the AXI software transactor (axi::operator() in     *)
(* src/transactors/axi_sw/axi.cpp) behind the reorder window of            *)
(* axi_sw::pop_reorder_q (axi_sw.h).                                       *)
(*                                                                         *)
(* All of this runs on one thread.  A handler runs until a coroutine       *)
(* really suspends, which it does only where the engine awaits an access   *)
(* of a beat; other handlers then run.  eng = "run" is a handler at work:  *)
(* only the engine's own steps are enabled.  eng = "wait" is an engine     *)
(* that is suspended.  Addresses, data, error injection and response codes *)
(* are left out; room in the response FIFOs is the subject of AxiSwRead.   *)
(***************************************************************************)
EXTENDS Integers, SequencesExt

CONSTANTS Window,     \* FLAGS_axi_sw_reorder_window
          Requests,   \* requests the DUT may make
          MaxReqs     \* bound: requests made

Kind == {"read", "write", "atomic", "atomic_store"}

\* kind, AxID, AxLEN + 1, device attributes (AxCACHE <= DEV_BUF), an address
\* of hang_list_, and whether the exclusive access monitor allows the write.
Request == [kind : Kind, id : Nat, len : Nat \ {0}, dev : BOOLEAN,
            hang : BOOLEAN, allow_write : BOOLEAN]

VARIABLES
  reqs,               \* history: the requests made, in order of their making
  ar_ch, aw_ch, w_ch, \* AR, AW and W messages on their way
  a_window, w_window, \* a_window_, w_window_
  a_q, w_q, r_q, b_q, \* a_q_, w_q_, r_q_, b_q_ of class axi
  device_accesses,    \* device_accesses_in_flight_
  eng,
  act,                \* the burst of burst_active_: none or one
  r_sent, b_sent      \* history: R beats and B responses sent per request

channels == <<ar_ch, aw_ch, w_ch>>
window == <<a_window, w_window>>
sent == <<r_sent, b_sent>>
vars == <<reqs, channels, window, a_q, w_q, r_q, b_q, device_accesses, eng,
          act, sent>>

\* Requests are named by their place in reqs.
IsWrite(i) == reqs[i].kind # "read"
NeedsRead(i) == reqs[i].kind # "write"
ReturnsData(i) == reqs[i].kind \in {"read", "atomic"}
SameStream(i, j) == reqs[i].id = reqs[j].id /\ (IsWrite(i) <=> IsWrite(j))
Init ==
  /\ reqs = << >> /\ ar_ch = << >> /\ aw_ch = << >> /\ w_ch = << >>
  /\ a_window = << >> /\ w_window = << >>
  /\ a_q = << >> /\ w_q = << >> /\ r_q = << >> /\ b_q = << >>
  /\ device_accesses = 0
  /\ eng = "idle" /\ act = << >>
  /\ r_sent = << >> /\ b_sent = << >>

\* The DUT makes a request.
Send(r) ==
  /\ eng # "run" /\ Len(reqs) < MaxReqs
  /\ reqs' = Append(reqs, r)
  /\ r_sent' = Append(r_sent, 0) /\ b_sent' = Append(b_sent, 0)
  /\ IF r.kind = "read"
     THEN ar_ch' = Append(ar_ch, Len(reqs')) /\ UNCHANGED <<aw_ch, w_ch>>
     ELSE /\ aw_ch' = Append(aw_ch, Len(reqs'))
          /\ w_ch' = w_ch \o [n \in 1 .. r.len |->
                                [req |-> Len(reqs'), n |-> n]]
          /\ UNCHANGED ar_ch
  /\ UNCHANGED <<window, a_q, w_q, r_q, b_q, device_accesses, eng, act>>
---------------------------------------------------------------------------
(* axi_sw: the window and the responses.                                   *)

CountOf(s, i) == Cardinality({k \in DOMAIN s : s[k].req = i})

\* all_resp(): what the engine produced goes to the DUT.
all_resp ==
  /\ r_sent' = [i \in DOMAIN reqs |-> r_sent[i] + CountOf(r_q, i)]
  /\ b_sent' = [i \in DOMAIN reqs |-> b_sent[i] + CountOf(b_q, i)]
  /\ r_q' = << >> /\ b_q' = << >>

\* The handler calls operator(), which returns at once when a burst is
\* active; the handler then ends with all_resp().
Run ==
  /\ IF act = << >>
     THEN eng' = "run" /\ UNCHANGED <<r_q, b_q, sent>>
     ELSE eng' = eng /\ all_resp
  /\ UNCHANGED act

\* The handler ends without work for the engine.
NoWork ==
  /\ all_resp
  /\ UNCHANGED <<a_q, w_q, device_accesses, eng, act>>

\* a() and w() of class axi: enqueue, then operator().
Enqueue(a, w) ==
  /\ a_q' = a_q \o a /\ w_q' = w_q \o w
  /\ device_accesses' = device_accesses
       + Cardinality({k \in DOMAIN a : reqs[a[k]].dev})
  /\ Run

\* MUTANT of Pick: the drawn position is taken as it is.
PickDrawn(win, p) == p

\* The entry pop_reorder_q takes when position p is drawn: the oldest of the
\* same id and direction.
Pick(win, p) == SelectInSeq(win, LAMBDA i : SameStream(i, win[p]))

\* Write beats in w_window_ that belong to entries before the k-th.
PriorWrites(win, k) ==
  FoldLeft(LAMBDA n, i : IF IsWrite(i) THEN n + reqs[i].len ELSE n,
           0, SubSeq(win, 1, k - 1))

\* pop_reorder_q on the window (win, ww) when position p is drawn.  A write
\* leaves the window together with its data.
pop_reorder_q(win, ww, p) ==
  LET k == Pick(win, p)
      i == win[k]
      from == PriorWrites(win, k) + 1
      to == PriorWrites(win, k) + reqs[i].len
  IN  IF ~IsWrite(i)
      THEN /\ a_window' = RemoveAt(win, k) /\ w_window' = ww
           /\ Enqueue(<<i>>, << >>)
      ELSE IF to > Len(ww)
      THEN a_window' = win /\ w_window' = ww /\ NoWork
      ELSE /\ a_window' = RemoveAt(win, k)
           /\ w_window' = SubSeq(ww, 1, from - 1)
                            \o SubSeq(ww, to + 1, Len(ww))
           /\ Enqueue(<<i>>, SubSeq(ww, from, to))

\* What process(AW), process(AR) and process(W) do with a new entry.
Process(a, w) ==
  LET win == a_window \o a
      ww == w_window \o w
  IN  IF Window <= 1
      THEN Enqueue(a, w) /\ UNCHANGED window
      ELSE IF Len(win) >= Window
      THEN \E p \in 1 .. Len(win) : pop_reorder_q(win, ww, p)
      ELSE a_window' = win /\ w_window' = ww /\ NoWork

ProcessAR ==
  /\ eng # "run" /\ ar_ch # << >>
  /\ Process(<<Head(ar_ch)>>, << >>)
  /\ ar_ch' = Tail(ar_ch) /\ UNCHANGED <<reqs, aw_ch, w_ch>>

ProcessAW ==
  /\ eng # "run" /\ aw_ch # << >>
  /\ Process(<<Head(aw_ch)>>, << >>)
  /\ aw_ch' = Tail(aw_ch) /\ UNCHANGED <<reqs, ar_ch, w_ch>>

ProcessW ==
  /\ eng # "run" /\ w_ch # << >>
  /\ Process(<< >>, <<Head(w_ch)>>)
  /\ w_ch' = Tail(w_ch) /\ UNCHANGED <<reqs, ar_ch, aw_ch>>

\* MUTANT of ReorderFlush: only a window that is about to fill is flushed.
ReorderFlushFull ==
  /\ eng # "run" /\ Len(a_window) >= Window - 1
  /\ pop_reorder_q(a_window, w_window, 1)
  /\ UNCHANGED <<reqs, channels>>

\* process(reorder_q_flush_t), sent by SystemVerilog while nothing moves.
ReorderFlush ==
  /\ eng # "run" /\ a_window # << >>
  /\ pop_reorder_q(a_window, w_window, 1)
  /\ UNCHANGED <<reqs, channels>>
---------------------------------------------------------------------------
(* axi::operator().                                                        *)

\* The top of the loop: start the oldest burst, or return when there is none
\* or its write data is incomplete.
Top ==
  /\ eng = "run" /\ act = << >>
  /\ IF a_q = << >> \/ (IsWrite(Head(a_q)) /\ Len(w_q) < reqs[Head(a_q)].len)
     THEN /\ eng' = "idle" /\ all_resp
          /\ UNCHANGED <<a_q, act>>
     ELSE /\ act' = <<[req |-> Head(a_q), n |-> 1, at |-> "beat"]>>
          /\ a_q' = Tail(a_q)
          /\ UNCHANGED <<eng, r_q, b_q, sent>>
  /\ UNCHANGED <<reqs, channels, window, w_q, device_accesses>>

\* The burst moves on to point p of the beat.
At(p) == act' = <<[act[1] EXCEPT !.at = p]>>

\* A beat starts: reads and atomics await the read of the beat.
Beat ==
  /\ eng = "run" /\ act # << >> /\ act[1].at = "beat"
  /\ IF NeedsRead(act[1].req)
     THEN At("read") /\ eng' = "wait"
     ELSE At("data") /\ UNCHANGED eng
  /\ UNCHANGED <<reqs, channels, window, a_q, w_q, r_q, b_q,
                 device_accesses, sent>>

ReadDone ==
  /\ eng = "wait" /\ act[1].at = "read"
  /\ IF IsWrite(act[1].req) THEN At("data") ELSE At("end")
  /\ eng' = "run"
  /\ UNCHANGED <<reqs, channels, window, a_q, w_q, r_q, b_q,
                 device_accesses, sent>>

\* A write beat takes its data; an allowed write is awaited.
TakeData ==
  /\ eng = "run" /\ act # << >> /\ act[1].at = "data"
  /\ w_q' = Tail(w_q)
  /\ IF reqs[act[1].req].allow_write
     THEN At("write") /\ eng' = "wait"
     ELSE At("end") /\ UNCHANGED eng
  /\ UNCHANGED <<reqs, channels, window, a_q, r_q, b_q, device_accesses,
                 sent>>

WriteDone ==
  /\ eng = "wait" /\ act[1].at = "write"
  /\ At("end") /\ eng' = "run"
  /\ UNCHANGED <<reqs, channels, window, a_q, w_q, r_q, b_q,
                 device_accesses, sent>>

\* The single B response of a write.
BResponse(i, last) == IF last /\ IsWrite(i) THEN <<[req |-> i]>> ELSE << >>

DevicesDone(i) == IF reqs[i].dev THEN 1 ELSE 0

\* A beat ends with its R response, unless the address is to hang; the last
\* beat ends the burst.
EndBeat ==
  /\ eng = "run" /\ act # << >> /\ act[1].at = "end"
  /\ LET i == act[1].req
         n == act[1].n
         last == n = reqs[i].len
     IN  /\ r_q' = IF ReturnsData(i) /\ ~reqs[i].hang
                   THEN Append(r_q, [req |-> i, n |-> n]) ELSE r_q
         /\ b_q' = b_q \o BResponse(i, last)
         /\ device_accesses' =
              IF last THEN device_accesses - DevicesDone(i)
              ELSE device_accesses
         /\ act' = IF last THEN << >>
                   ELSE <<[req |-> i, n |-> n + 1, at |-> "beat"]>>
  /\ UNCHANGED <<reqs, channels, window, a_q, w_q, eng, sent>>

Engine == Top \/ Beat \/ ReadDone \/ TakeData \/ WriteDone \/ EndBeat

Next ==
  \/ \E r \in Requests : Send(r)
  \/ ProcessAR \/ ProcessAW \/ ProcessW \/ ReorderFlush
  \/ Engine

\* Messages arrive, every access of a device is answered, and the timeout of
\* SystemVerilog sends flushes while a window is not drained.
Fairness ==
  /\ WF_vars(ProcessAR) /\ WF_vars(ProcessAW) /\ WF_vars(ProcessW)
  /\ WF_vars(ReorderFlush) /\ WF_vars(Engine)

Spec == Init /\ [][Next]_vars

FairSpec == Spec /\ Fairness
---------------------------------------------------------------------------
(* Properties.                                                             *)

BeatOf == [req : DOMAIN reqs, n : Nat]

\* Responses of request i that were produced, and that it must get.
RMade(i) == r_sent[i] + CountOf(r_q, i)
BMade(i) == b_sent[i] + CountOf(b_q, i)
RDue(i) == IF ReturnsData(i) /\ ~reqs[i].hang THEN reqs[i].len ELSE 0
BDue(i) == IF IsWrite(i) THEN 1 ELSE 0

\* A request is answered before any later one of the same id and direction,
\* whatever the window reorders ("check for same ID in queue, pick lowest
\* number", pop_reorder_q), and never more often than it should.
InOrder ==
  \A i, j \in DOMAIN reqs :
    /\ RMade(i) <= RDue(i) /\ BMade(i) <= BDue(i)
    /\ i < j /\ SameStream(i, j) /\ RMade(j) + BMade(j) > 0
         => RMade(i) = RDue(i) /\ BMade(i) = BDue(i)

\* A write beat takes the data sent for that beat of that write: "one
\* operator() consumes W beats in AW order" (burst_active_), also when the
\* window reordered the writes.  The code's check of w.last follows.
OwnData ==
  act # << >> /\ act[1].at = "data"
    => /\ w_q # << >>
       /\ Head(w_q) = [req |-> act[1].req, n |-> act[1].n]

\* The count that excuses late reads is the number of device accesses that
\* are accepted and not finished (device_accesses_in_flight).
DeviceCount ==
  device_accesses =
    Cardinality({k \in DOMAIN a_q : reqs[a_q[k]].dev})
    + Cardinality({k \in DOMAIN act : reqs[act[k].req].dev})

\* "we're guaranteed to not co_await in a() if aw" (pop_reorder_q): an idle
\* engine has neither a request nor data left over that a new AW could
\* start a burst with.
NoAwaitInA == Window > 1 /\ eng = "idle" => a_q = << >> /\ w_q = << >>

\* Every request is answered in full, unless its address is to hang.
\* Answers are never taken back and requests are bounded, so that this says
\* the same as a leads-to for each of them.
AllAnswered ==
  []<>(\A i \in DOMAIN reqs : r_sent[i] = RDue(i) /\ b_sent[i] = BDue(i))
===========================================================================
