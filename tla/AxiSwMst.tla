----------------------------- MODULE AxiSwMst -----------------------------
(***************************************************************************)
(* The AXI master transactor: axi_sw_mst (src/transactors/axi_sw/          *)
(* axi_sw_mst.h), the three DPI FIFOs of the SystemVerilog axi_sw_mst      *)
(* (axi_sw.sv) and the device under test behind them, which answers the    *)
(* transactions in any order that AXI allows.                              *)
(*                                                                         *)
(* Clients ask for reads and writes; each claims an id and is cut into     *)
(* items for the ar, aw and w channels, which wait in transactions_ until  *)
(* the credit counters say that the channel's FIFO has room.  Requests are *)
(* well formed: those that cross a 4 KB page or have not one strobe for    *)
(* each byte of data, which are logged as errors, are left out.            *)
(***************************************************************************)
EXTENDS Naturals, Sequences, FiniteSets, Functions

CONSTANTS Ids,        \* the ids of one sequence-id range
          QMax,       \* depth of each FIFO: AR_Q_MAX, AW_Q_MAX, W_Q_MAX
          PtrMax,     \* what a FIFO pointer wraps at
          Greedy,     \* +axi_sw_mst_greedy_queue
          EarlyReqs,  \* may clients ask before sys_reset?
          Attrs,      \* the expectations [exp, allow] a client may state
          MaxBeats,   \* longest burst
          MaxReqs     \* bound on the number of requests

ASSUME DepthAssumption == QMax \in Nat /\ PtrMax \in Nat /\ QMax < PtrMax
ASSUME BoundAssumption == MaxBeats \in Nat \ {0} /\ MaxReqs \in Nat
ASSUME AttrsAssumption == Attrs \subseteq [exp : BOOLEAN, allow : BOOLEAN]

Ch == {"ar", "aw", "w"}
Resp == {"OKAY", "DECERR"}
Ptr == 0 .. PtrMax - 1

VARIABLES ids,           \* ids_: the free ones
          attr,          \* exp_err_rsp_ids_ and allow_decerr_resp_ids_
          transactions,  \* transactions_
          wptr, rptr,    \* the C++ view of the FIFO pointers
          callbacks,     \* DPI pushes that wait for the callback flush
          queue, qrptr,  \* the FIFOs and their own read pointers
          dut,           \* what the device has accepted and not answered
          read_data,     \* read_data_
          answered,      \* requests whose response reached the clients
          error,         \* a "bad response" error was logged
          wronged,       \* the device answered against the request's attributes
          n,             \* requests so far
          up             \* sys_reset has happened

cpp == <<ids, attr, transactions, wptr, rptr, callbacks>>
sv == <<queue, qrptr>>
results == <<read_data, answered, error, wronged>>
vars == <<cpp, sv, dut, results, n, up>>

Item == [ch : Ch, n : 1 .. MaxReqs, id : Ids, left : 0 .. MaxBeats, attr : Attrs]

\* The constructor: the write pointers say "full" until the first reset.
Init ==
  /\ ids = Ids /\ attr = [i \in Ids |-> [exp |-> FALSE, allow |-> FALSE]]
  /\ transactions = << >> /\ callbacks = << >>
  /\ wptr = [c \in Ch |-> QMax] /\ rptr = [c \in Ch |-> 0]
  /\ queue = [c \in Ch |-> << >>] /\ qrptr = [c \in Ch |-> 0]
  /\ dut = [reads |-> {}, aw |-> << >>, w |-> << >>]
  /\ read_data = [i \in Ids |-> << >>] /\ answered = {}
  /\ error = FALSE /\ wronged = FALSE /\ n = 0 /\ up = FALSE

-----------------------------------------------------------------------------
\* Claims and credits.

\* MUTANT of next_id: an id is handed out again.
next_idAny == Ids

\* next_id: any free id, since the choice is random by default.
next_id == ids

Credits(wp, rp, c) ==
  LET used == (wp[c] + PtrMax - rp[c]) % PtrMax
  IN  IF used >= QMax THEN 0 ELSE QMax - used

\* How many items of its channel are in the list up to and including item i.
Rank(ts, i) == Cardinality({j \in 1 .. i : ts[j].ch = ts[i].ch})

\* The items that leave transactions_: the FIFO of each still has a credit.
\* Unless the queue is greedy the first item without credit stops the loop.
Pushed(ts, wp, rp) ==
  {i \in DOMAIN ts :
     \A j \in (IF Greedy THEN {i} ELSE 1 .. i) :
       Rank(ts, j) <= Credits(wp, rp, ts[j].ch)}

\* The items at the positions S, in order.
Pick(ts, S) ==
  [k \in 1 .. Cardinality(S) |->
     ts[CHOOSE i \in S : Cardinality({j \in S : j <= i}) = k]]

Without(s, i) == Pick(s, DOMAIN s \ {i})

\* push_transactions, run on the list ts with the read pointers rp.
push_transactions(ts, rp) ==
  LET S == Pushed(ts, wptr, rp)
      Of(c) == Cardinality({i \in S : ts[i].ch = c})
  IN  /\ transactions' = Pick(ts, DOMAIN ts \ S)
      /\ callbacks' = callbacks \o Pick(ts, S)
      /\ wptr' = [c \in Ch |-> (wptr[c] + Of(c)) % PtrMax]
      /\ rptr' = rp

-----------------------------------------------------------------------------
\* Requests of the clients.

Claim(id, a) == ids' = ids \ {id} /\ attr' = [attr EXCEPT ![id] = a]

MayAsk == n < MaxReqs /\ (up \/ EarlyReqs)

\* push_a_no_id and the read_request_t handler.
Read(id, a, beats) ==
  /\ MayAsk /\ id \in next_id
  /\ n' = n + 1
  /\ Claim(id, a)
  /\ push_transactions(Append(transactions, [ch |-> "ar", n |-> n', id |-> id, left |-> beats, attr |-> a]), rptr)
  /\ UNCHANGED <<sv, dut, results, up>>

WriteItems(id, a, beats) ==
  <<[ch |-> "aw", n |-> n + 1, id |-> id, left |-> 0, attr |-> a]>> \o
  [b \in 1 .. beats |-> [ch |-> "w", n |-> n + 1, id |-> id, left |-> beats - b, attr |-> a]]

\* MUTANT of Write: a write goes before what already waits.
WriteFront(id, a, beats) ==
  /\ MayAsk /\ id \in next_id
  /\ n' = n + 1
  /\ Claim(id, a)
  /\ push_transactions(WriteItems(id, a, beats) \o transactions, rptr)
  /\ UNCHANGED <<sv, dut, results, up>>

\* push_write_request: the address and all of its beats enter together.
Write(id, a, beats) ==
  /\ MayAsk /\ id \in next_id
  /\ n' = n + 1
  /\ Claim(id, a)
  /\ push_transactions(transactions \o WriteItems(id, a, beats), rptr)
  /\ UNCHANGED <<sv, dut, results, up>>

-----------------------------------------------------------------------------
\* The SystemVerilog side.

\* sys_reset: axi_sw_mst_reset_ptrs zeroes the pointers of both sides.
Reset ==
  /\ ~up /\ up' = TRUE
  /\ wptr' = [c \in Ch |-> 0]
  /\ UNCHANGED <<ids, attr, transactions, rptr, callbacks, sv, dut, results, n>>

\* A queued DPI push runs.
Flush ==
  /\ callbacks # << >>
  /\ callbacks' = Tail(callbacks)
  /\ queue' = [queue EXCEPT ![Head(callbacks).ch] = Append(@, Head(callbacks))]
  /\ UNCHANGED <<ids, attr, transactions, wptr, rptr, qrptr, dut, results, n, up>>

\* The device takes the head of a FIFO.
Accept(c) ==
  /\ up /\ queue[c] # << >>
  /\ queue' = [queue EXCEPT ![c] = Tail(@)]
  /\ qrptr' = [qrptr EXCEPT ![c] = (@ + 1) % PtrMax]
  /\ LET i == Head(queue[c]) IN
     dut' = CASE c = "ar" -> [dut EXCEPT !.reads = @ \cup {i}]
              [] c = "aw" -> [dut EXCEPT !.aw = Append(@, i)]
              [] c = "w" -> IF i.left = 0 THEN [dut EXCEPT !.w = Append(@, i)] ELSE dut
  /\ UNCHANGED <<cpp, results, n, up>>

\* The pointer messages arrive one by one and in order.
QPtr(c) ==
  /\ rptr[c] # qrptr[c]
  /\ push_transactions(transactions, [rptr EXCEPT ![c] = (@ + 1) % PtrMax])
  /\ UNCHANGED <<ids, attr, sv, dut, results, n, up>>

-----------------------------------------------------------------------------
\* Responses.

BadFor(a, resp) ==
  /\ a.exp <=> (resp = "OKAY")
  /\ ~(a.allow /\ resp = "DECERR")

\* The handlers' first test; an id that is not in use is never bad.
Bad(id, resp) == id \notin ids /\ BadFor(attr[id], resp)

\* process(B): the response of the i-th complete write.  A bad one is
\* reported and dropped.
B(i, resp) ==
  LET t == dut.aw[i] IN
  /\ i <= Len(dut.aw) /\ i <= Len(dut.w)
  /\ dut' = [dut EXCEPT !.aw = Without(@, i), !.w = Without(@, i)]
  /\ wronged' = (wronged \/ BadFor(t.attr, resp))
  /\ IF Bad(t.id, resp)
     THEN error' = TRUE /\ UNCHANGED <<cpp, answered>>
     ELSE /\ answered' = answered \cup {t.n}
          /\ ids' = ids \cup {t.id}
          /\ push_transactions(transactions, rptr)
          /\ UNCHANGED <<attr, error>>
  /\ UNCHANGED <<sv, read_data, n, up>>

\* What a good beat does to the id and to the data collected for it.
Collect(t, last) ==
  /\ ids' = IF last THEN ids \cup {t.id} ELSE ids
  /\ read_data' = [read_data EXCEPT ![t.id] = IF last THEN << >> ELSE Append(@, t.n)]
  /\ answered' = IF last THEN answered \cup {t.n} ELSE answered

\* process(R): the next beat of a read; beats of different ids interleave.
R(t, resp) ==
  LET last == t.left = 1 IN
  /\ t \in dut.reads
  /\ dut' = [dut EXCEPT !.reads = (@ \ {t}) \cup (IF last THEN {} ELSE {[t EXCEPT !.left = @ - 1]})]
  /\ wronged' = (wronged \/ BadFor(t.attr, resp))
  /\ IF Bad(t.id, resp)
     THEN error' = TRUE /\ UNCHANGED <<cpp, answered, read_data>>
     ELSE /\ Collect(t, last)
          /\ push_transactions(transactions, rptr)
          /\ UNCHANGED <<attr, error>>
  /\ UNCHANGED <<sv, n, up>>

Ask == \E id \in Ids, a \in Attrs, b \in 1 .. MaxBeats : Read(id, a, b) \/ Write(id, a, b)

Answer == \/ \E i \in 1 .. Len(dut.aw), r \in Resp : B(i, r)
          \/ \E t \in dut.reads, r \in Resp : R(t, r)

Hardware == Flush \/ (\E c \in Ch : Accept(c) \/ QPtr(c))

Done == n = MaxReqs /\ answered = 1 .. MaxReqs /\ UNCHANGED vars

Next == Ask \/ Reset \/ Hardware \/ Answer \/ Done

Spec == Init /\ [][Next]_vars

\* The callback flush and the message queues run at every clock; the device
\* takes what is offered and answers, on every channel.
Fairness ==
  /\ WF_vars(Reset) /\ WF_vars(Flush)
  /\ \A c \in Ch : WF_vars(Accept(c)) /\ WF_vars(QPtr(c))
  /\ WF_vars(Answer)

FairSpec == Spec /\ Fairness

-----------------------------------------------------------------------------
\* Everything of a request that is on its way to the device or back.
Under == Range(transactions) \cup Range(callbacks) \cup dut.reads \cup Range(dut.aw)
         \cup UNION {Range(queue[c]) : c \in Ch}

\* The pushes of channel c among the callbacks s.
Waiting(s, c) == {i \in DOMAIN s : s[i].ch = c}

\* Credits: the pushes that have been started, run or not, never exceed the
\* FIFO, so its "fifo is full" assertion never fires; and no push is
\* started before sys_reset has zeroed the FIFO's pointers.
Room ==
  \A c \in Ch :
    /\ Len(queue[c]) + Cardinality(Waiting(callbacks, c)) <= QMax
    /\ ~up => queue[c] = << >> /\ callbacks = << >>

\* An id is never on two unfinished requests, whichever clients they come
\* from, and the id of an unfinished request is not free.
IdOnce ==
  \A s, t \in Under :
    /\ s.id = t.id => s.n = t.n
    /\ s.id \notin ids

\* The device sees the data bursts in the order of the write addresses,
\* although the two travel through different FIFOs with credits of their own
\* (push_write_request).
WriteOrder ==
  \A i \in DOMAIN dut.aw \cap DOMAIN dut.w : dut.aw[i].n = dut.w[i].n

\* The beats collected for an id are those of the one read that holds it,
\* and nobody else can claim the id while there are any.
ReadWhole ==
  \A i \in Ids :
    read_data[i] # << >> =>
      /\ i \notin ids
      /\ \A t \in dut.reads : t.id = i => \A k \in DOMAIN read_data[i] : read_data[i][k] = t.n

\* The master's books.  The pushes that were started never exceed a FIFO
\* (push_transactions, process(*_q_ptr_update_t)), no two unfinished requests
\* share an id, and the beats collected for an id are those of the read that
\* holds it (next_id, claim, read_data_).
CreditsAndIds == Room /\ IdOnce /\ ReadWhole

\* The transactor reports a response exactly when it contradicts what the
\* request itself allowed: never because of an earlier user of the id.
OwnVerdict == error = wronged

\* Every request is answered unless a response was reported as an error.
AllAnswered == []<>(error \/ answered = 1 .. n)
=============================================================================
