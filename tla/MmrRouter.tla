----------------------------- MODULE MmrRouter -----------------------------
(***************************************************************************)
(* mmr_txn_router (src/sysmod/mmr_txn_router/mmr_txn_router.cpp) on top of *)
(* the AXI master transactor that it shares with other clients.  A rerouted *)
(* access becomes one transaction, or several in a row when it is longer   *)
(* than the fabric's burst cap.  Reads and writes are served by a          *)
(* coroutine each (device.h), which issues a transaction, drains its       *)
(* response channel and waits for a response with its id.  The channels    *)
(* receive the responses of every client of the master.                    *)
(***************************************************************************)
EXTENDS AxiSwMst

CONSTANTS MaxParts   \* longest split of one access

Kinds == {"read", "write"}
None == "none"

VARIABLES pc,       \* per coroutine: "idle", "issue" or "wait"
          parts,    \* transactions still to issue for the access
          mine,     \* the transaction waited for: its id and number
          channel,  \* read_resp_channel_, write_resp_channel_
          taken,    \* numbers of the responses taken for the access
          report    \* the response code of the last access
rvars == <<pc, parts, mine, channel, taken, report>>
allvars == <<vars, rvars>>

RInit ==
  /\ Init
  /\ pc = [k \in Kinds |-> "idle"] /\ parts = [k \in Kinds |-> 0]
  /\ mine = [k \in Kinds |-> [id |-> None, n |-> 0]]
  /\ channel = [k \in Kinds |-> << >>]
  /\ taken = [k \in Kinds |-> {}]
  /\ report = [k \in Kinds |-> "OKAY"]

\* The device loop takes the next access that is routed to it.
Start(k, p) ==
  /\ pc[k] = "idle" /\ n < MaxReqs
  /\ pc' = [pc EXCEPT ![k] = "issue"] /\ parts' = [parts EXCEPT ![k] = p]
  /\ taken' = [taken EXCEPT ![k] = {}]
  /\ UNCHANGED <<vars, mine, channel, report>>

Finish(k, resp) == pc' = [pc EXCEPT ![k] = "idle"] /\ report' = [report EXCEPT ![k] = resp]

\* MUTANT of Drain: no drain, as if ids were never reused.
DrainNone(k) == channel' = channel

Drain(k) == channel' = [channel EXCEPT ![k] = << >>]

\* Push the transaction, then drain the channel and wait.
Issue(k, id, a) ==
  /\ pc[k] = "issue"
  /\ IF k = "read" THEN Read(id, a, 1) ELSE Write(id, a, 1)
  /\ mine' = [mine EXCEPT ![k] = [id |-> id, n |-> n']]
  /\ parts' = [parts EXCEPT ![k] = @ - 1]
  /\ pc' = [pc EXCEPT ![k] = "wait"]
  /\ Drain(k)
  /\ UNCHANGED <<taken, report>>

\* No free id: the access is answered with DECERR.
NoId(k) ==
  /\ pc[k] = "issue" /\ ids = {}
  /\ Finish(k, "DECERR")
  /\ UNCHANGED <<vars, parts, mine, channel, taken>>

\* The wait ends with the first response whose id matches; a bad response
\* ends the access early, a good one goes on to the next part.
Take(k) ==
  LET Match == {i \in DOMAIN channel[k] : channel[k][i].id = mine[k].id}
      i == CHOOSE j \in Match : \A m \in Match : j <= m
      r == channel[k][i]
  IN  /\ pc[k] = "wait" /\ Match # {}
      /\ channel' = [channel EXCEPT ![k] = Without(@, i)]
      /\ taken' = [taken EXCEPT ![k] = @ \cup {r.n}]
      /\ IF r.resp = "OKAY" /\ parts[k] > 0
         THEN pc' = [pc EXCEPT ![k] = "issue"] /\ UNCHANGED report
         ELSE Finish(k, r.resp)
      /\ UNCHANGED <<vars, parts, mine>>

\* Responses reach the channels unless the transactor dropped them.
Publish(k, id, m, resp) ==
  channel' = IF Bad(id, resp) THEN channel ELSE [channel EXCEPT ![k] = Append(@, [id |-> id, n |-> m, resp |-> resp])]

Respond ==
  /\ \/ \E i \in 1 .. Len(dut.aw), r \in Resp :
          B(i, r) /\ Publish("write", dut.aw[i].id, dut.aw[i].n, r)
     \/ \E t \in dut.reads, r \in Resp :
          /\ R(t, r)
          /\ IF t.left = 1 THEN Publish("read", t.id, t.n, r) ELSE UNCHANGED channel
  /\ UNCHANGED <<pc, parts, mine, taken, report>>

Router(k) ==
  \/ \E p \in 1 .. MaxParts : Start(k, p)
  \/ \E id \in Ids, a \in Attrs : Issue(k, id, a)
  \/ NoId(k)
  \/ Take(k)

Others == Ask /\ UNCHANGED rvars

RNext ==
  \/ \E k \in Kinds : Router(k)
  \/ Others \/ Respond
  \/ (Reset \/ Hardware) /\ UNCHANGED rvars

RSpec == RInit /\ [][RNext]_allvars

-----------------------------------------------------------------------------
\* "the wait only matches this transaction's own completion": a response
\* taken for a transaction is never one that an earlier user of its id left
\* in the channel.
OwnCompletion ==
  \A k \in Kinds :
    /\ taken[k] # {} /\ pc[k] # "wait" => mine[k].n \in taken[k]
    /\ pc[k] = "wait" => \A m \in taken[k] : m < mine[k].n

\* The drain never loses the response that a coroutine waits for: it is
\* still under way, in the channel, or was reported as an error.
NeverLost ==
  \A k \in Kinds :
    pc[k] = "wait" =>
      \/ error
      \/ \E t \in Under : t.n = mine[k].n
      \/ \E i \in DOMAIN channel[k] : channel[k][i].n = mine[k].n

\* Every response is judged by its own request (exp_err_rsp_ids_,
\* allow_decerr_resp_ids_), the router takes only the completion it waits for,
\* and draining the channel never loses it (mmr_txn_router.cpp).
OwnResponse == OwnVerdict /\ OwnCompletion /\ NeverLost

\* An access whose transactions were issued is answered unless a response
\* was reported as an error.
Served == []<>(error \/ \A k \in Kinds : pc[k] # "wait")
=============================================================================
