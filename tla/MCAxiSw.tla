------------------------------ MODULE MCAxiSw ------------------------------
(***************************************************************************)
(* The AXI software transactor for model checking: its read-response path  *)
(* (AxiSwRead), its burst engine with and without a reorder window (Axi)   *)
(* and the addresses of a burst (AxiBurst).  The three models share no     *)
(* state, so that every behaviour exercises one of them (focus).           *)
(***************************************************************************)
EXTENDS AxiSwRead

CONSTANTS Sizes, Lens, MaxAddr

VARIABLES
  focus,
  reqs, ar_ch, aw_ch, w_ch, a_window, w_window, a_q, w_q, eng_r_q, b_q,
  device_accesses, eng, act, r_sent, b_sent,
  a, n, addr, aligned, touched

axiVars == <<reqs, ar_ch, aw_ch, w_ch, a_window, w_window, a_q, w_q, eng_r_q,
             b_q, device_accesses, eng, act, r_sent, b_sent>>
burstVars == <<a, n, addr, aligned, touched>>

Req(kind, id, len, dev) ==
  [kind |-> kind, id |-> id, len |-> len, dev |-> dev, hang |-> FALSE,
   allow_write |-> TRUE]

\* Every kind of request, two ids, single beats and bursts, a read that is
\* to hang and an exclusive write that fails.
AllRequests ==
  {Req("read", 1, 2, FALSE), Req("read", 2, 1, TRUE),
   Req("write", 1, 2, TRUE), Req("write", 2, 1, FALSE),
   Req("atomic", 2, 1, TRUE), Req("atomic_store", 1, 1, FALSE),
   [Req("read", 1, 1, FALSE) EXCEPT !.hang = TRUE],
   [Req("write", 1, 1, FALSE) EXCEPT !.allow_write = FALSE]}

Windowed == INSTANCE Axi WITH
  Window <- 2, MaxReqs <- 3, Requests <- AllRequests, r_q <- eng_r_q
Direct == INSTANCE Axi WITH
  Window <- 1, MaxReqs <- 3, Requests <- AllRequests, r_q <- eng_r_q
Burst == INSTANCE AxiBurst WITH BusBytes <- 8

MCInit ==
  /\ focus \in {"read", "windowed", "direct", "burst"}
  /\ Init /\ Direct!Init /\ Burst!Init
  /\ focus # "burst" => a = [addr |-> 0, size |-> 0, len |-> 0, burst |-> "INCR"]

MCNext ==
  \/ focus = "read" /\ Next /\ UNCHANGED <<focus, axiVars, burstVars>>
  \/ focus = "windowed" /\ Windowed!Next /\ UNCHANGED <<focus, vars, burstVars>>
  \/ focus = "direct" /\ Direct!Next /\ UNCHANGED <<focus, vars, burstVars>>
  \/ focus = "burst" /\ Burst!Next /\ UNCHANGED <<focus, vars, axiVars>>

MCSpec == MCInit /\ [][MCNext]_<<focus, vars, axiVars, burstVars>>
-----------------------------------------------------------------------------
\* A request is answered before any later one of the same id and direction,
\* and never more often than it should, whatever the window reorders
\* (pop_reorder_q, axi::operator()).  A write beat takes the data sent for that
\* beat of that write ("one operator() consumes W beats in AW order", axi.cpp).
\* Whenever the engine suspends, device_accesses_in_flight is the number of
\* device accesses that are accepted and not finished; and behind a window an
\* idle engine has neither a request nor data left over, so that "we're
\* guaranteed to not co_await in a() if aw" (pop_reorder_q).
EngineInOrder ==
  /\ Direct!InOrder /\ Direct!OwnData /\ Direct!DeviceCount
  /\ focus = "windowed" => Windowed!NoAwaitInA

\* The loop over the beats accesses exactly the bytes of the burst, each beat
\* inside one word of the bus, so that the rotations by lower_byte_lane move
\* every byte to its lane (axi::operator()); and the exclusive access
\* monitor's span covers all of them (eam::span).
BurstBytes == Burst!OneWord /\ Burst!WholeBurst /\ Burst!SpanCovers
=============================================================================
