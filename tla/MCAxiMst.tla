------------------------------ MODULE MCAxiMst -----------------------------
(***************************************************************************)
(* The AXI master transactor and its client mmr_txn_router for model       *)
(* checking: the transactor alone with a plain and with a greedy queue     *)
(* (AxiSwMst), the router on top of the transactor (MmrRouter), and the    *)
(* bytes of a rerouted access (MmrBytes).  Every behaviour exercises one   *)
(* of these (focus).                                                       *)
(***************************************************************************)
EXTENDS MmrRouter, TLC

CONSTANTS Bus, Container, MaxAddr, Cap

VARIABLES focus, acc, at, out, mem, lens, done

byteVars == <<acc, at, out, mem, lens, done>>

\* What a client may state of the response: an error is expected, or DECERR
\* is tolerated, as rerouted accesses do.
Plain == [exp |-> FALSE, allow |-> FALSE]
Expecting == [exp |-> TRUE, allow |-> FALSE]
Tolerant == [exp |-> FALSE, allow |-> TRUE]
TolerantOnly == {Tolerant}

\* The constants of the module are those of the router.
Mst == INSTANCE AxiSwMst WITH
  EarlyReqs <- TRUE, Attrs <- {Plain}, MaxBeats <- 2, MaxReqs <- 4
GreedyMst == INSTANCE AxiSwMst WITH
  Greedy <- TRUE, EarlyReqs <- TRUE, Attrs <- {Plain, Expecting, Tolerant},
  MaxBeats <- 2
Bytes == INSTANCE MmrBytes

\* The ids are interchangeable: next_id may return any free one.
IdSymmetry == Permutations(Ids)

MCInit ==
  /\ focus \in {"master", "greedy", "router", "bytes"}
  /\ RInit /\ Bytes!Init
  /\ focus # "bytes" =>
       acc = [kind |-> "read", hw |-> TRUE, addr |-> 0, length |-> 1, strb |-> {1}]

MCNext ==
  \/ focus = "master" /\ Mst!Next /\ UNCHANGED <<focus, rvars, byteVars>>
  \/ focus = "greedy" /\ GreedyMst!Next /\ UNCHANGED <<focus, rvars, byteVars>>
  \/ focus = "router" /\ RNext /\ UNCHANGED <<focus, byteVars>>
  \/ focus = "bytes" /\ Bytes!Next /\ UNCHANGED <<focus, allvars>>

MCSpec == MCInit /\ [][MCNext]_<<focus, allvars, byteVars>>
-----------------------------------------------------------------------------
\* A rerouted read returns the addressed bytes, least significant first, and
\* a rerouted write changes exactly the bytes it strobes, however they are cut
\* into beats, and no transaction is longer than the fabric's cap (read,
\* read_split, write, write_split, axi_mst_max_beats_).
AccessBytes == Bytes!AddressedBytes /\ Bytes!StrobedBytes /\ Bytes!WithinCap
=============================================================================
