--------------------------- MODULE AxiMstProofs ---------------------------
(***************************************************************************)
(* The AXI master transactor, for every depth of the FIFOs, every set of   *)
(* ids, every number and length of requests and both disciplines of the    *)
(* queue: one lemma per action that it preserves IInv of AxiMstLemmas.     *)
(***************************************************************************)
EXTENDS AxiMstLemmas
---------------------------------------------------------------------------
(* One lemma per action.                                                   *)

\* push_transactions, after a step that may have changed what the device
\* holds.
LEMMA PushStep ==
  ASSUME TypeOK, InLine, NEW ts \in Seq(Item), NEW rp \in [Ch -> Ptr],
         push_transactions(ts, rp), AccountsFor(rp), UNCHANGED <<queue, qrptr, up>>,
         Ordered(ts), Ahead(Range(callbacks) \cup Fifo \cup Dev', Range(ts)),
         Ordered(dut'.aw), Ordered(dut'.w), Ahead(Dev', Fifo \cup Range(callbacks)),
         \A s, t \in dut'.reads : s.n = t.n => s = t
  PROVE  /\ transactions' \in Seq(Item) /\ callbacks' \in Seq(Item)
         /\ wptr' \in [Ch -> Ptr] /\ rptr' \in [Ch -> Ptr]
         /\ Accounts' /\ InLine'
         /\ Fifo' = Fifo /\ Pend' = Range(callbacks) \cup Range(ts)
<1>1. wptr' \in [Ch -> Ptr] /\ rptr' = rp /\ Accounts'
  BY PushAccounts, Zenon
<1>2. \A c \in Ch : Credits(wptr, rp, c) \in Nat
  BY CreditsNat, Zenon
<1>3. Ordered(callbacks) /\ Ahead(Range(callbacks), Range(ts))
  BY DEF InLine, Ahead
<1>4. /\ transactions' \in Seq(Item) /\ callbacks' \in Seq(Item)
      /\ Pend' = Range(callbacks) \cup Range(ts)
      /\ Ordered(callbacks') /\ Ordered(transactions')
      /\ Ahead(Range(callbacks'), Range(transactions'))
  BY <1>2, <1>3, PushSets, Zenon
<1>5. Fifo' = Fifo
  BY DEF Fifo
<1>6. Ahead(Fifo', Pend') /\ Ahead(Dev', Fifo' \cup Pend')
  <2>1. Range(callbacks) \subseteq Pend
    BY Zenon DEF Pend
  <2> QED
    BY <1>4, <1>5, <2>1, Zenon DEF InLine, Ahead
<1>7. InLine'
  BY <1>4, <1>6 DEF InLine
<1> QED
  BY <1>1, <1>4, <1>5, <1>7

\* A request enters with the items new, which push_transactions may pass on.
LEMMA AskStep ==
  ASSUME IInv, NEW id \in ids, NEW a \in Attrs, NEW new \in Seq(Item), Ordered(new),
         \A s \in Range(new) : /\ s.n = n + 1 /\ s.id = id /\ s.attr = a
                               /\ s.ch = "ar" => s.left # 0,
         \A s, t \in Range(new) : s.ch = "ar" <=> t.ch = "ar",
         (\E s \in Range(new) : s.ch = "aw")
           <=> (\E s \in Range(new) : s.ch = "w" /\ s.left = 0),
         n' = n + 1, Claim(id, a), push_transactions(transactions \o new, rptr),
         UNCHANGED <<sv, dut, results, up>>
  PROVE  IInv' /\ Alive' = Alive \cup Range(new)
<1> DEFINE ts == transactions \o new
<1>1. TypeOK /\ Accounts /\ InLine /\ Owners /\ Paired /\ Gathered /\ error = wronged
  BY Zenon DEF IInv
<1>2. /\ transactions \in Seq(Item) /\ rptr \in [Ch -> Ptr] /\ n \in Nat
      /\ UNCHANGED <<queue, qrptr, up, dut, read_data, error, wronged>>
  BY <1>1 DEF TypeOK, sv, results
<1>3. ts \in Seq(Item) /\ Range(ts) = Range(transactions) \cup Range(new)
  BY <1>2, ConcatRange, SMTT(30)
<1>4. Ahead(Alive, Range(new))
  <2>1. \A s \in Alive : s.n \in Nat /\ s.n <= n
    BY <1>1, AliveItems, ItemFacts, Zenon DEF Owners
  <2>2. \A s \in Alive : s.n < n + 1
    BY <1>2, <2>1, SMTT(30)
  <2> QED
    BY <2>2, Zenon DEF Ahead, Before
<1>5. /\ Range(transactions) \subseteq Pend /\ Range(callbacks) \subseteq Pend
      /\ Pend \subseteq Alive /\ Fifo \subseteq Alive /\ Dev \subseteq Alive
  BY Zenon DEF Pend, Alive
<1>6. Dev' = Dev
  BY <1>2, Zenon DEF Dev
<1>7. Ordered(ts)
  <2>1. Ordered(transactions) /\ Ahead(Range(transactions), Range(new))
    BY <1>1, <1>4, <1>5, Zenon DEF InLine, Ahead
  <2> QED
    BY <1>2, <2>1, ConcatOrdered, Zenon
<1>8. Ahead(Range(callbacks) \cup Fifo \cup Dev', Range(ts))
  BY <1>1, <1>3, <1>4, <1>5, <1>6 DEF InLine, Ahead
<1>9. /\ Ordered(dut'.aw) /\ Ordered(dut'.w) /\ Ahead(Dev', Fifo \cup Range(callbacks))
      /\ \A s, t \in dut'.reads : s.n = t.n => s = t
  BY <1>1, <1>2, <1>5, <1>6, Zenon DEF InLine, Ahead
<1>10. AccountsFor(rptr)
  BY <1>1, Zenon DEF Accounts
<1> HIDE DEF ts
<1>11. push_transactions(ts, rptr)
  BY Zenon DEF ts
<1>12. /\ transactions' \in Seq(Item) /\ callbacks' \in Seq(Item)
       /\ wptr' \in [Ch -> Ptr] /\ rptr' \in [Ch -> Ptr]
       /\ Accounts' /\ InLine'
       /\ Fifo' = Fifo /\ Pend' = Range(callbacks) \cup Range(ts)
  BY <1>1, <1>2, <1>3, <1>7, <1>8, <1>9, <1>10, <1>11, PushStep, ZenonT(40)
<1>13. Alive' = Alive \cup Range(new)
  BY <1>3, <1>6, <1>12 DEF Alive, Pend
<1>14. Owners' /\ Paired' /\ Gathered'
  <2>1. Range(new) \in SUBSET Item
    BY SeqFacts, ZenonT(40)
  <2> QED
    BY <1>1, <1>2, <1>13, <2>1, Enter, Zenon
<1>15. TypeOK'
  <2>1. ids' \subseteq Ids /\ attr' \in [Ids -> [exp : BOOLEAN, allow : BOOLEAN]]
    BY <1>1, AttrsAssumption DEF TypeOK, Claim
  <2> QED
    BY <1>1, <1>2, <1>12, <2>1, SMTT(30) DEF TypeOK
<1> QED
  BY <1>1, <1>2, <1>12, <1>13, <1>14, <1>15, Zenon DEF IInv

\* push_a_no_id and the read_request_t handler.
LEMMA ReadStep ==
  ASSUME IInv, NEW id \in Ids, NEW a \in Attrs, NEW b \in 1 .. MaxBeats, Read(id, a, b)
  PROVE  IInv' /\ Adds("ar", id)
<1> DEFINE x == [ch |-> "ar", n |-> n + 1, id |-> id, left |-> b, attr |-> a]
<1>1. n \in Nat /\ n + 1 \in 1 .. MaxReqs /\ transactions \in Seq(Item)
  BY BoundAssumption, SMTT(30) DEF IInv, TypeOK, Read, MayAsk
<1>2. x \in Item
  BY <1>1, BoundAssumption DEF Item, Ch
<1>3. /\ id \in ids /\ n' = n + 1 /\ Claim(id, a)
      /\ push_transactions(Append(transactions, x), rptr)
      /\ UNCHANGED <<sv, dut, results, up>>
  BY Zenon DEF Read, next_id
<1>4. x.ch = "ar" /\ x.n = n + 1 /\ x.id = id /\ x.attr = a /\ x.left # 0
  BY BoundAssumption
<1> HIDE DEF x
<1>5. /\ <<x>> \in Seq(Item) /\ Append(transactions, x) = transactions \o <<x>>
      /\ DOMAIN <<x>> = {1} /\ <<x>>[1] = x
  BY <1>1, <1>2
<1>6. Range(<<x>>) = {x} /\ Ordered(<<x>>)
  BY <1>5, SMTT(30) DEF Range, Ordered
<1>7. IInv' /\ Alive' = Alive \cup {x}
  BY <1>3, <1>4, <1>5, <1>6, AskStep, ZenonT(30)
<1> QED
  BY <1>4, <1>7, Zenon DEF Adds

\* push_write_request.
LEMMA WriteStep ==
  ASSUME IInv, NEW id \in Ids, NEW a \in Attrs, NEW b \in 1 .. MaxBeats, Write(id, a, b)
  PROVE  IInv' /\ Adds("aw", id)
<1> DEFINE new == WriteItems(id, a, b)
           x == [ch |-> "aw", n |-> n + 1, id |-> id, left |-> 0, attr |-> a]
           y(k) == [ch |-> "w", n |-> n + 1, id |-> id, left |-> b - k, attr |-> a]
           ws == [k \in 1 .. b |-> y(k)]
<1>1. n \in Nat /\ n + 1 \in 1 .. MaxReqs /\ b \in Nat /\ b <= MaxBeats /\ b # 0
  BY BoundAssumption DEF IInv, TypeOK, Write, MayAsk
<1>2. x \in Item /\ \A k \in 1 .. b : y(k) \in Item
  BY <1>1, BoundAssumption DEF Item, Ch
<1>3. /\ id \in ids /\ n' = n + 1 /\ Claim(id, a)
      /\ push_transactions(transactions \o new, rptr)
      /\ UNCHANGED <<sv, dut, results, up>>
  BY DEF Write, next_id
<1>4. new = <<x>> \o ws
  BY DEF WriteItems
<1>5. /\ x.ch = "aw" /\ x.n = n + 1 /\ x.id = id /\ x.attr = a
      /\ \A k \in 1 .. b : /\ y(k).ch = "w" /\ y(k).n = n + 1 /\ y(k).id = id
                           /\ y(k).attr = a /\ y(k).left = b - k
  OBVIOUS
<1> HIDE DEF new, x, y
<1>6. /\ <<x>> \in Seq(Item) /\ DOMAIN <<x>> = {1} /\ <<x>>[1] = x
      /\ ws \in Seq(Item) /\ DOMAIN ws = 1 .. b /\ \A k \in 1 .. b : ws[k] = y(k)
  BY <1>1, <1>2, SMTT(30)
<1> HIDE DEF ws
<1>7. Range(<<x>>) = {x} /\ Ordered(<<x>>) /\ Range(ws) = {y(k) : k \in 1 .. b}
  BY <1>6 DEF Range, Ordered
<1>8. Ordered(ws)
  <2> SUFFICES ASSUME NEW j \in 1 .. b, NEW k \in 1 .. b, j < k
               PROVE  Before(y(j), y(k))
    BY <1>6 DEF Ordered
  <2>1. b - k < b - j
    BY <1>1, SMTT(30)
  <2> QED
    BY <1>5, <2>1 DEF Before
<1>9. Ahead(Range(<<x>>), Range(ws))
  BY <1>5, <1>7, Zenon DEF Ahead, Before
<1>10. /\ new \in Seq(Item) /\ Range(new) = {x} \cup {y(k) : k \in 1 .. b}
       /\ Ordered(new)
  <2>1. <<x>> \o ws \in Seq(Item)
    BY <1>6
  <2>2. Range(<<x>> \o ws) = Range(<<x>>) \cup Range(ws)
    BY <1>6, ConcatRange, ZenonT(30)
  <2>3. Ordered(<<x>> \o ws)
    BY <1>6, <1>7, <1>8, <1>9, ConcatOrdered, Zenon
  <2> QED
    BY <1>4, <1>7, <2>1, <2>2, <2>3, Zenon
<1>11. y(b).left = 0 /\ b \in 1 .. b
  BY <1>1, <1>5
<1>12. /\ \A s \in Range(new) : /\ s.n = n + 1 /\ s.id = id /\ s.attr = a /\ s.ch # "ar"
       /\ \E s \in Range(new) : s.ch = "aw"
       /\ \E s \in Range(new) : s.ch = "w" /\ s.left = 0
  BY <1>5, <1>10, <1>11
<1>13. IInv' /\ Alive' = Alive \cup Range(new)
  BY <1>3, <1>10, <1>12, AskStep, Zenon
<1> QED
  BY <1>12, <1>13 DEF Adds

\* The constructor establishes the invariant.
LEMMA InitIInv == Init => IInv
<1> SUFFICES ASSUME Init PROVE IInv
  OBVIOUS
<1>1. /\ Alive = {} /\ Fifo = {} /\ Pend = {} /\ Dev = {}
      /\ Range(callbacks) = {} /\ Range(transactions) = {}
  BY EmptyFacts DEF Init, Alive, Pend, Fifo, Dev
<1>2. TypeOK
  <2>1. QMax \in Ptr /\ 0 \in Ptr
    BY DepthAssumption, SMTT(30) DEF Ptr
  <2> QED
    <3>1. /\ transactions \in Seq(Item) /\ callbacks \in Seq(Item)
          /\ queue \in [Ch -> Seq(Item)] /\ \A c \in Ch : Range(queue[c]) = {}
      BY EmptyFacts DEF Init
    <3>2. /\ dut \in [reads : SUBSET Item, aw : Seq(Item), w : Seq(Item)]
          /\ dut.reads = {} /\ Range(dut.aw) = {} /\ Range(dut.w) = {}
      BY EmptyFacts DEF Init
    <3>3. read_data \in [Ids -> Seq(Nat)]
      BY DEF Init
    <3>4. wptr \in [Ch -> Ptr] /\ rptr \in [Ch -> Ptr] /\ qrptr \in [Ch -> Ptr]
      BY <2>1 DEF Init
    <3> QED
      BY <3>1, <3>2, <3>3, <3>4, Zenon DEF Init, TypeOK
<1>3. Accounts
  BY DEF Init, Accounts, AccountsFor
<1>4. InLine
  BY <1>1, EmptyFacts DEF Init, InLine, Ahead
<1>5. Owners /\ Paired /\ Gathered
  BY <1>1, Zenon DEF Init, Owners, Paired, Gathered
<1> QED
  BY <1>2, <1>3, <1>4, <1>5, Zenon DEF IInv, Init

\* sys_reset zeroes the pointers.
LEMMA ResetStep ==
  ASSUME IInv, Reset
  PROVE  IInv' /\ Kept
<1>1. TypeOK /\ Accounts /\ InLine /\ Owners /\ Paired /\ Gathered /\ error = wronged
  BY DEF IInv
<1>2. /\ ~up /\ up' = TRUE /\ wptr' = [c \in Ch |-> 0]
      /\ UNCHANGED <<ids, attr, transactions, rptr, callbacks, queue, qrptr, dut,
                     read_data, error, wronged, n>>
  BY Zenon DEF Reset, sv, results
<1>3. UNCHANGED <<Pend, Fifo, Dev, Alive>>
  BY <1>2, ZenonT(40) DEF Pend, Fifo, Dev, Alive
<1>4. TypeOK'
  <2>1. 0 \in Ptr
    BY DepthAssumption, SMTT(30) DEF Ptr
  <2> QED
    BY <1>1, <1>2, <2>1 DEF TypeOK
<1>5. InLine'
  BY <1>1, <1>2, <1>3, Zenon DEF InLine
<1>6. Kept /\ Owners' /\ Paired' /\ Gathered'
  <2>1. Kept
    BY <1>3, Zenon DEF Kept
  <2> QED
    BY <1>1, <1>2, <2>1, AliveKept
<1>7. Accounts'
  <2> SUFFICES ASSUME NEW c \in Ch
               PROVE  /\ Dist(wptr'[c], rptr'[c]) = Dist(qrptr'[c], rptr'[c]) + Started(c)'
                      /\ Dist(wptr'[c], rptr'[c]) <= QMax
    BY <1>2 DEF Accounts, AccountsFor
  <2>1. /\ wptr'[c] = 0 /\ rptr'[c] = 0 /\ qrptr'[c] = 0
        /\ queue'[c] = << >> /\ callbacks' = << >>
    BY <1>1, <1>2, Zenon DEF Accounts, AccountsFor
  <2>2. Started(c)' = 0
    BY <2>1, EmptyFacts DEF Started
  <2>3. Dist(0, 0) = 0
    BY DepthAssumption, DistFacts DEF Ptr
  <2> QED
    BY <2>1, <2>2, <2>3, DepthAssumption, SMTT(30)
<1> QED
  BY <1>1, <1>2, <1>4, <1>5, <1>6, <1>7, Zenon DEF IInv

\* A queued DPI push moves the first callback to its FIFO.
LEMMA FlushStep ==
  ASSUME IInv, Flush
  PROVE  IInv' /\ Kept
<1> DEFINE h == Head(callbacks)
<1>1. TypeOK /\ Accounts /\ InLine /\ Owners /\ Paired /\ Gathered /\ error = wronged
  BY DEF IInv
<1>2. /\ callbacks # << >> /\ callbacks' = Tail(callbacks)
      /\ queue' = [queue EXCEPT ![h.ch] = Append(@, h)]
      /\ UNCHANGED <<ids, attr, transactions, wptr, rptr, qrptr, dut,
                     read_data, error, wronged, n, up>>
  BY DEF Flush, results
<1>3. callbacks \in Seq(Item) /\ queue \in [Ch -> Seq(Item)]
  BY <1>1 DEF TypeOK
<1>4. /\ h \in Item /\ callbacks' \in Seq(Item)
      /\ Range(callbacks) = {h} \cup Range(callbacks')
      /\ Ordered(callbacks') /\ Ahead({h}, Range(callbacks'))
  BY <1>1, <1>2, <1>3, HeadTail, ZenonT(40) DEF InLine
<1>5. h.ch \in Ch
  BY <1>4, ItemFacts, Zenon
<1>6. /\ \A c \in Ch : c # h.ch => queue'[c] = queue[c]
      /\ queue'[h.ch] = Append(queue[h.ch], h)
  BY <1>2, <1>3, <1>5
<1>7. up
  BY <1>1, <1>2, <1>5, Zenon DEF Accounts, AccountsFor
<1> HIDE DEF h
<1>8. Accounts'
  <2> SUFFICES ASSUME NEW c \in Ch PROVE Started(c)' = Started(c)
    BY <1>1, <1>2, <1>7 DEF Accounts, AccountsFor
  <2>1. Cardinality(Waiting(callbacks, c))
          = Cardinality(Waiting(callbacks', c)) + (IF h.ch = c THEN 1 ELSE 0)
    BY <1>2, <1>3, CountTail, Zenon DEF h
  <2>2. Cardinality(Waiting(callbacks', c)) \in Nat /\ Len(queue[c]) \in Nat
    BY <1>3, <1>4, WaitingFinite, SMTT(30)
  <2>3. Len(queue'[h.ch]) = Len(queue[h.ch]) + 1
    BY <1>3, <1>4, <1>5, <1>6, AppendFacts, Zenon
  <2>4. CASE h.ch = c
    <3>1. Cardinality(Waiting(callbacks, c)) = Cardinality(Waiting(callbacks', c)) + 1
      BY <2>1, <2>4
    <3>2. Len(queue'[c]) = Len(queue[c]) + 1
      BY <2>3, <2>4
    <3> QED
      BY <2>2, <3>1, <3>2, SMTT(30) DEF Started
  <2>5. CASE h.ch # c
    <3>1. Cardinality(Waiting(callbacks, c)) = Cardinality(Waiting(callbacks', c))
      BY <2>1, <2>2, <2>5, SMTT(30)
    <3>2. queue'[c] = queue[c]
      BY <1>6, <2>5, Zenon
    <3> QED
      BY <3>1, <3>2, Zenon DEF Started
  <2> QED
    BY <2>4, <2>5, Zenon
<1>9. /\ queue' \in [Ch -> Seq(Item)]
      /\ \A c \in Ch : c # h.ch => Range(queue'[c]) = Range(queue[c])
      /\ Range(queue'[h.ch]) = Range(queue[h.ch]) \cup {h}
  <2>1. queue[h.ch] \in Seq(Item)
    BY <1>3, <1>5, Zenon
  <2>2. queue'[h.ch] \in Seq(Item) /\ Range(queue'[h.ch]) = Range(queue[h.ch]) \cup {h}
    BY <1>4, <1>6, <2>1, AppendFacts, Zenon
  <2>3. queue' = [c \in Ch |-> queue'[c]]
    BY <1>2, <1>3, ZenonT(40)
  <2>4. \A c \in Ch : queue'[c] \in Seq(Item)
    BY <1>3, <1>6, <2>2, ZenonT(40)
  <2> QED
    BY <1>6, <2>2, <2>3, <2>4, Zenon
<1>10. /\ Fifo' = Fifo \cup {h} /\ Pend = Pend' \cup {h} /\ Pend' \subseteq Pend
       /\ h \in Pend
  BY <1>2, <1>4, <1>5, <1>9, SMTT(30) DEF Fifo, Pend
<1>11. Dev' = Dev /\ Alive' = Alive
  BY <1>2, <1>10 DEF Alive, Dev
<1>12. Kept /\ Owners' /\ Paired' /\ Gathered'
  <2>1. Kept
    BY <1>11, Zenon DEF Kept
  <2> QED
    BY <1>1, <1>2, <2>1, AliveKept, Zenon
<1>13. \A c \in Ch : Ordered(queue'[c])
  <2>1. Range(queue[h.ch]) \subseteq Fifo
    BY <1>5, Zenon DEF Fifo
  <2>2. Ahead(Range(queue[h.ch]), {h})
    BY <1>1, <1>10, <2>1, Zenon DEF InLine, Ahead
  <2>3. Ordered(queue'[h.ch])
    BY <1>1, <1>3, <1>4, <1>5, <1>6, <2>2, AppendFacts, SMTT(30) DEF InLine
  <2> QED
    BY <1>1, <1>6, <2>3, Zenon DEF InLine
<1>14. Ahead(Fifo', Pend')
  <2>1. Ahead({h}, Pend')
    BY <1>1, <1>2, <1>4 DEF InLine, Ahead, Pend
  <2> QED
    BY <1>1, <1>10, <2>1, ZenonT(40) DEF InLine, Ahead
<1>15. Ahead(Dev', Fifo' \cup Pend')
  BY <1>1, <1>10, <1>11, Zenon DEF InLine, Ahead
<1>16. InLine'
  <2>1. Ahead(Range(callbacks'), Range(transactions'))
    BY <1>1, <1>2, <1>4, ZenonT(40) DEF InLine, Ahead
  <2> QED
    BY <1>1, <1>2, <1>4, <1>13, <1>14, <1>15, <2>1, ZenonT(40) DEF InLine
<1>17. TypeOK'
  BY <1>1, <1>2, <1>4, <1>9, Zenon DEF TypeOK
<1> QED
  BY <1>1, <1>2, <1>8, <1>12, <1>16, <1>17, ZenonT(40) DEF IInv

\* The device takes the head of a FIFO.
LEMMA AcceptStep ==
  ASSUME IInv, NEW c \in Ch, Accept(c)
  PROVE  IInv' /\ Kept
<1> DEFINE h == Head(queue[c])
<1>1. TypeOK /\ Accounts /\ InLine /\ Owners /\ Paired /\ Gathered /\ error = wronged
  BY DEF IInv
<1>2. /\ up /\ queue[c] # << >>
      /\ queue' = [queue EXCEPT ![c] = Tail(@)]
      /\ qrptr' = [qrptr EXCEPT ![c] = (@ + 1) % PtrMax]
      /\ UNCHANGED <<ids, attr, transactions, wptr, rptr, callbacks,
                     read_data, error, wronged, n, up>>
  BY DEF Accept, cpp, results
<1>3. /\ queue \in [Ch -> Seq(Item)] /\ qrptr \in [Ch -> Ptr]
      /\ dut \in [reads : SUBSET Item, aw : Seq(Item), w : Seq(Item)]
  BY <1>1, Zenon DEF TypeOK
<1>4. /\ h \in Item /\ Tail(queue[c]) \in Seq(Item)
      /\ Len(Tail(queue[c])) = Len(queue[c]) - 1
      /\ Range(queue[c]) = {h} \cup Range(Tail(queue[c]))
      /\ Ordered(Tail(queue[c])) /\ Ahead({h}, Range(Tail(queue[c])))
  BY <1>1, <1>2, <1>3, HeadTail, ZenonT(40) DEF InLine
<1>5. /\ queue' \in [Ch -> Seq(Item)] /\ queue'[c] = Tail(queue[c])
      /\ \A d \in Ch : d # c => queue'[d] = queue[d]
  BY <1>2, <1>3, <1>4
<1>6. h.ch = c
  BY <1>1, <1>4, Zenon DEF TypeOK
<1>7. /\ dut' \in [reads : SUBSET Item, aw : Seq(Item), w : Seq(Item)]
      /\ dut'.reads = IF c = "ar" THEN dut.reads \cup {h} ELSE dut.reads
      /\ dut'.aw = IF c = "aw" THEN Append(dut.aw, h) ELSE dut.aw
      /\ dut'.w = IF c = "w" /\ h.left = 0 THEN Append(dut.w, h) ELSE dut.w
  <2>1. dut' = CASE c = "ar" -> [dut EXCEPT !.reads = @ \cup {h}]
                 [] c = "aw" -> [dut EXCEPT !.aw = Append(@, h)]
                 [] c = "w" -> IF h.left = 0 THEN [dut EXCEPT !.w = Append(@, h)] ELSE dut
    BY Zenon DEF Accept
  <2>2. Append(dut.aw, h) \in Seq(Item) /\ Append(dut.w, h) \in Seq(Item)
    BY <1>3, <1>4, AppendFacts, Zenon
  <2> HIDE DEF h
  <2>3. CASE c = "ar"
    BY <1>3, <1>4, <2>1, <2>3, Zenon
  <2>4. CASE c = "aw"
    <3>1. dut' = [dut EXCEPT !.aw = Append(dut.aw, h)]
      BY <2>1, <2>4, Zenon
    <3> QED
      BY <1>3, <2>2, <2>4, <3>1, ZenonT(40)
  <2>5. CASE c = "w" /\ h.left = 0
    <3>1. dut' = [dut EXCEPT !.w = Append(dut.w, h)]
      BY <2>1, <2>5, Zenon
    <3> QED
      BY <1>3, <2>2, <2>5, <3>1, Zenon
  <2>6. CASE c = "w" /\ h.left # 0
    BY <1>3, <2>1, <2>6, Zenon
  <2> QED
    BY <2>3, <2>4, <2>5, <2>6 DEF Ch
<1> HIDE DEF h
<1>8. /\ Range(dut'.aw) = IF c = "aw" THEN Range(dut.aw) \cup {h} ELSE Range(dut.aw)
      /\ Range(dut'.w) = IF c = "w" /\ h.left = 0 THEN Range(dut.w) \cup {h} ELSE Range(dut.w)
  BY <1>3, <1>4, <1>7, AppendFacts, Zenon
<1>9. /\ h \in Fifo /\ Fifo = Fifo' \cup {h} /\ Pend' = Pend
      /\ Dev \subseteq Dev' /\ Dev' \subseteq Dev \cup {h}
      /\ h \in Dev' \/ (h.ch = "w" /\ h.left # 0)
  <2>1. Fifo = Fifo' \cup {h}
    BY <1>4, <1>5, Zenon DEF Fifo
  <2>2. Pend' = Pend
    BY <1>2 DEF Pend
  <2> QED
    BY <1>6, <1>7, <1>8, <2>1, <2>2, Zenon DEF Dev, Ch
<1>10. Kept /\ Owners' /\ Paired' /\ Gathered'
  <2>1. Kept
    BY <1>9, Zenon DEF Alive, Kept
  <2> QED
    BY <1>1, <1>2, <2>1, AliveKept, Zenon
<1>11. TypeOK'
  <2>1. qrptr' \in [Ch -> Ptr]
    <3>1. (qrptr[c] + 1) % PtrMax \in Ptr
      BY <1>3, DepthAssumption, SMTT(30) DEF Ptr
    <3> QED
      BY <1>2, <1>3, <3>1
  <2>2. \A d \in Ch : \A t \in Range(queue'[d]) : t.ch = d
    BY <1>1, <1>4, <1>5, ZenonT(40) DEF TypeOK
  <2>3. /\ \A t \in dut'.reads : t.ch = "ar"
        /\ \A t \in Range(dut'.aw) : t.ch = "aw"
        /\ \A t \in Range(dut'.w) : t.ch = "w" /\ t.left = 0
    BY <1>1, <1>6, <1>7, <1>8, SMTT(30) DEF TypeOK
  <2> QED
    BY <1>1, <1>2, <1>5, <1>7, <2>1, <2>2, <2>3, ZenonT(40) DEF TypeOK
<1>12. Ahead({h}, Fifo' \cup Pend')
  <2>1. ASSUME NEW t \in Fifo' PROVE Before(h, t)
    <3>1. PICK d \in Ch : t \in Range(queue'[d])
      BY <2>1, Zenon DEF Fifo
    <3>2. CASE d = c
      BY <1>4, <1>5, <3>1, <3>2, Zenon DEF Ahead
    <3>3. CASE d # c
      <4>1. t.ch = d
        BY <1>11, <3>1, Zenon DEF TypeOK
      <4> QED
        BY <1>6, <3>3, <4>1, Zenon DEF Before
    <3> QED
      BY <3>2, <3>3, Zenon
  <2> QED
    BY <1>1, <1>9, <2>1 DEF InLine, Ahead
<1>13. InLine'
  <2>1. Ahead(Dev', Fifo' \cup Pend') /\ Ahead(Fifo', Pend')
    BY <1>1, <1>9, <1>12, Zenon DEF InLine, Ahead
  <2>2. \A d \in Ch : Ordered(queue'[d])
    BY <1>1, <1>4, <1>5, ZenonT(40) DEF InLine
  <2>3. Ahead(Dev, {h}) /\ dut.reads \subseteq Dev /\ Range(dut.aw) \subseteq Dev
        /\ Range(dut.w) \subseteq Dev
    BY <1>1, <1>9, Zenon DEF InLine, Ahead, Dev
  <2>4. Ordered(dut'.aw) /\ Ordered(dut'.w)
    <3>1. Ahead(Range(dut.aw), {h}) /\ Ahead(Range(dut.w), {h})
      BY <2>3, Zenon DEF Ahead
    <3>2. /\ Ordered(dut.aw) /\ Ordered(dut.w)
          /\ dut.aw \in Seq(Item) /\ dut.w \in Seq(Item)
      BY <1>1, <1>3, Zenon DEF InLine
    <3>3. Ordered(Append(dut.aw, h)) /\ Ordered(Append(dut.w, h))
      BY <1>4, <3>1, <3>2, AppendFacts
    <3> QED
      BY <1>7, <3>2, <3>3
  <2>5. \A s, t \in dut'.reads : s.n = t.n => s = t
    <3>1. c = "ar" => \A s \in dut.reads : s.n # h.n
      <4>1. c = "ar" => \A s \in dut.reads : s.n < h.n /\ s.n \in Nat /\ h.n \in Nat
        BY <1>1, <1>3, <1>4, <1>6, <2>3, ItemFacts, Zenon DEF TypeOK, Ahead, Before
      <4> QED
        BY <4>1
    <3> QED
      BY <1>1, <1>7, <3>1, ZenonT(40) DEF InLine
  <2> QED
    BY <1>1, <1>2, <2>1, <2>2, <2>4, <2>5, Zenon DEF InLine
<1>14. Accounts'
  <2> SUFFICES ASSUME NEW d \in Ch
               PROVE  Dist(qrptr'[d], rptr[d]) + Started(d)' = Dist(qrptr[d], rptr[d]) + Started(d)
    BY <1>1, <1>2, ZenonT(40) DEF Accounts, AccountsFor
  <2>1. CASE d # c
    <3>1. qrptr'[d] = qrptr[d] /\ Started(d)' = Started(d)
      BY <1>2, <1>3, <1>5, <2>1, ZenonT(40) DEF Started
    <3> QED
      BY <3>1, Zenon
  <2>2. CASE d = c
    <3>1. Started(c)' = Started(c) - 1 /\ Started(c) \in Nat /\ Len(queue[c]) - 1 \in Nat
      <4>1. /\ Len(queue[c]) \in Nat /\ Len(queue[c]) - 1 \in Nat
            /\ Cardinality(Waiting(callbacks, c)) \in Nat
        BY <1>1, <1>2, <1>3, StartedNat, SMTT(30)
      <4>2. Len(queue'[c]) = Len(queue[c]) - 1 /\ callbacks' = callbacks
        BY <1>2, <1>4, <1>5, ZenonT(40)
      <4> QED
        BY <4>1, <4>2, SMTT(30) DEF Started
    <3>2. /\ qrptr[c] \in Ptr /\ rptr[c] \in Ptr /\ wptr[c] \in Ptr
          /\ Dist(qrptr[c], rptr[c]) \in Nat
      BY <1>1, DistFacts, DepthAssumption, SMTT(30) DEF TypeOK
    <3>3. Dist(qrptr[c], rptr[c]) + 1 < PtrMax
      <4>1. Started(c) >= 1
        <5>1. /\ Len(queue[c]) - 1 \in Nat /\ Len(queue[c]) \in Nat
              /\ Cardinality(Waiting(callbacks, c)) \in Nat
          BY <1>1, <3>1, StartedNat, ZenonT(40)
        <5> QED
          BY <5>1, SMTT(30) DEF Started
      <4>2. /\ Dist(wptr[c], rptr[c]) = Dist(qrptr[c], rptr[c]) + Started(c)
            /\ Dist(wptr[c], rptr[c]) <= QMax
        BY <1>1, <1>2 DEF Accounts, AccountsFor
      <4> QED
        BY <3>1, <3>2, <4>1, <4>2, DepthAssumption, SMTT(30)
    <3>4. Dist((qrptr[c] + 1) % PtrMax, rptr[c]) = Dist(qrptr[c], rptr[c]) + 1
      BY <3>2, <3>3, DistGrows, SMTT(30)
    <3>5. qrptr'[c] = (qrptr[c] + 1) % PtrMax
      BY <1>2, <1>3
    <3> QED
      BY <2>2, <3>1, <3>2, <3>4, <3>5, SMTT(30)
  <2> QED
    BY <2>1, <2>2, Zenon
<1> QED
  BY <1>1, <1>2, <1>10, <1>11, <1>13, <1>14 DEF IInv

\* A pointer message gives a credit back.
LEMMA QPtrStep ==
  ASSUME IInv, NEW c \in Ch, QPtr(c)
  PROVE  IInv' /\ Kept
<1> DEFINE rp == [rptr EXCEPT ![c] = (@ + 1) % PtrMax]
<1>1. TypeOK /\ Accounts /\ InLine /\ Owners /\ Paired /\ Gathered /\ error = wronged
  BY DEF IInv
<1>2. /\ rptr[c] # qrptr[c] /\ push_transactions(transactions, rp)
      /\ UNCHANGED <<ids, attr, queue, qrptr, dut, read_data, error, wronged, n, up>>
  BY Zenon DEF QPtr, sv, results
<1>3. /\ transactions \in Seq(Item) /\ rptr \in [Ch -> Ptr]
      /\ qrptr \in [Ch -> Ptr] /\ wptr \in [Ch -> Ptr]
  BY <1>1, ZenonT(40) DEF TypeOK
<1>4. /\ Dist(qrptr[c], rptr[c]) \in Nat /\ Dist(qrptr[c], rptr[c]) > 0
      /\ Started(c) \in Nat /\ Dist(wptr[c], rptr[c]) \in Nat
  <2>1. qrptr[c] \in Ptr /\ rptr[c] \in Ptr /\ wptr[c] \in Ptr
    BY <1>3, Zenon
  <2>2. /\ Dist(qrptr[c], rptr[c]) \in 0 .. PtrMax - 1
        /\ Dist(wptr[c], rptr[c]) \in 0 .. PtrMax - 1
        /\ Dist(qrptr[c], rptr[c]) = IF rptr[c] <= qrptr[c] THEN qrptr[c] - rptr[c]
                                     ELSE qrptr[c] + PtrMax - rptr[c]
    BY <2>1, DistFacts, ZenonT(40)
  <2> QED
    BY <1>1, <1>2, <2>1, <2>2, StartedNat, DepthAssumption, SMTT(30) DEF Ptr
<1>5. up
  BY <1>1, <1>2, ZenonT(40) DEF Accounts, AccountsFor
<1>6. /\ Dist(wptr[c], rptr[c]) = Dist(qrptr[c], rptr[c]) + Started(c)
      /\ Dist(wptr[c], rptr[c]) <= QMax
  BY <1>1, <1>5, Zenon DEF Accounts, AccountsFor
<1>7. Dist(wptr[c], rptr[c]) > 0
  BY <1>4, <1>6, SMTT(30)
<1> DEFINE r == (rptr[c] + 1) % PtrMax
<1>8. /\ r \in Ptr /\ Dist(qrptr[c], r) = Dist(qrptr[c], rptr[c]) - 1
      /\ Dist(wptr[c], r) = Dist(wptr[c], rptr[c]) - 1
  <2>1. qrptr[c] \in Ptr /\ rptr[c] \in Ptr /\ wptr[c] \in Ptr
    BY <1>3
  <2> QED
    BY <1>4, <1>7, <2>1, DistShrinks
<1>9. rp[c] = r /\ \A d \in Ch : d # c => rp[d] = rptr[d]
  BY <1>3, ZenonT(40)
<1>10. rp \in [Ch -> Ptr]
  BY <1>3, <1>8, Zenon
<1> HIDE DEF rp, r
<1>11. /\ Dist(wptr[c], r) = Dist(qrptr[c], r) + Started(c)
       /\ Dist(wptr[c], r) <= QMax
  BY <1>4, <1>6, <1>8, DepthAssumption
<1>12. AccountsFor(rp)
  <2> SUFFICES ASSUME NEW d \in Ch
               PROVE  /\ Dist(wptr[d], rp[d]) = Dist(qrptr[d], rp[d]) + Started(d)
                      /\ Dist(wptr[d], rp[d]) <= QMax
    BY <1>5, Zenon DEF AccountsFor
  <2>1. CASE d = c
    BY <1>9, <1>11, <2>1
  <2>2. CASE d # c
    BY <1>1, <1>5, <1>9, <2>2, ZenonT(40) DEF Accounts, AccountsFor
  <2> QED
    BY <2>1, <2>2, ZenonT(40)
<1>13. Dev' = Dev
  BY <1>2, Zenon DEF Dev
<1>14. /\ Ordered(transactions) /\ Ahead(Range(callbacks) \cup Fifo \cup Dev', Range(transactions))
       /\ Ordered(dut'.aw) /\ Ordered(dut'.w) /\ Ahead(Dev', Fifo \cup Range(callbacks))
       /\ \A s, t \in dut'.reads : s.n = t.n => s = t
  BY <1>1, <1>2, <1>13, Zenon DEF InLine, Ahead, Pend
<1>15. /\ transactions' \in Seq(Item) /\ callbacks' \in Seq(Item)
       /\ wptr' \in [Ch -> Ptr] /\ rptr' \in [Ch -> Ptr]
       /\ Accounts' /\ InLine' /\ Fifo' = Fifo /\ Pend' = Pend
  BY <1>1, <1>2, <1>3, <1>10, <1>12, <1>14, PushStep, ZenonT(40) DEF Pend
<1>16. Kept /\ Owners' /\ Paired' /\ Gathered'
  <2>1. Kept
    BY <1>13, <1>15, ZenonT(40) DEF Alive, Kept
  <2> QED
    BY <1>1, <1>2, <2>1, AliveKept
<1>17. TypeOK'
  BY <1>1, <1>2, <1>15, Zenon DEF TypeOK
<1> QED
  BY <1>1, <1>2, <1>15, <1>16, <1>17, ZenonT(40) DEF IInv

\* Whether a response is reported does not depend on earlier users of the id.
LEMMA Verdict ==
  ASSUME IInv, NEW t \in Alive, NEW resp
  PROVE  Bad(t.id, resp) <=> BadFor(t.attr, resp)
BY DEF IInv, Owners, Bad

\* What follows a response: nothing more, or push_transactions.
LEMMA Settle ==
  ASSUME TypeOK, Accounts, InLine, UNCHANGED <<queue, qrptr, up>>,
         push_transactions(transactions, rptr) \/ UNCHANGED <<transactions, callbacks, wptr, rptr>>,
         Ordered(dut'.aw), Ordered(dut'.w), Ahead(Dev', Fifo \cup Pend),
         \A s, t \in dut'.reads : s.n = t.n => s = t
  PROVE  /\ transactions' \in Seq(Item) /\ callbacks' \in Seq(Item)
         /\ wptr' \in [Ch -> Ptr] /\ rptr' \in [Ch -> Ptr]
         /\ Accounts' /\ InLine' /\ Fifo' = Fifo /\ Pend' = Pend
<1>1. transactions \in Seq(Item) /\ rptr \in [Ch -> Ptr] /\ AccountsFor(rptr)
  BY Zenon DEF TypeOK, Accounts
<1>2. /\ Ordered(transactions) /\ Ahead(Range(callbacks) \cup Fifo \cup Dev', Range(transactions))
      /\ Ahead(Dev', Fifo \cup Range(callbacks))
  BY Zenon DEF InLine, Ahead, Pend
<1>3. CASE push_transactions(transactions, rptr)
  BY <1>1, <1>2, <1>3, PushStep, ZenonT(40) DEF Pend
<1>4. CASE UNCHANGED <<transactions, callbacks, wptr, rptr>>
  <2>1. UNCHANGED <<Pend, Fifo>>
    BY <1>4, Zenon DEF Pend, Fifo
  <2>2. Accounts'
    BY <1>4, Zenon DEF Accounts, AccountsFor, Started
  <2>3. InLine'
    BY <1>4, <2>1 DEF InLine
  <2> QED
    BY <1>4, <2>1, <2>2, <2>3, Zenon DEF TypeOK
<1> QED
  BY <1>3, <1>4, Zenon

\* process(B) retires a write.
LEMMA BStep ==
  ASSUME IInv, NEW i \in 1 .. Len(dut.aw), NEW resp \in Resp, B(i, resp)
  PROVE  IInv' /\ Alive' = {s \in Alive : s.n # dut.aw[i].n}
<1> DEFINE t == dut.aw[i]
           u == dut.w[i]
<1>1. TypeOK /\ Accounts /\ InLine /\ Owners /\ Paired /\ Gathered /\ error = wronged
  BY DEF IInv
<1>2. dut \in [reads : SUBSET Item, aw : Seq(Item), w : Seq(Item)]
  BY <1>1 DEF TypeOK
<1>3. i \in DOMAIN dut.aw /\ i \in DOMAIN dut.w
  BY <1>2, SMTT(30) DEF B
<1>4. /\ dut'.reads = dut.reads /\ dut'.aw = Without(dut.aw, i) /\ dut'.w = Without(dut.w, i)
      /\ dut' = [dut EXCEPT !.aw = Without(@, i), !.w = Without(@, i)]
  BY <1>2, Zenon DEF B
<1>5. /\ dut'.aw \in Seq(Item) /\ dut'.w \in Seq(Item)
      /\ Range(dut'.aw) = {dut.aw[j] : j \in DOMAIN dut.aw \ {i}}
      /\ Range(dut'.w) = {dut.w[j] : j \in DOMAIN dut.w \ {i}}
      /\ Ordered(dut'.aw) /\ Ordered(dut'.w)
  BY <1>1, <1>2, <1>4, WithoutFacts DEF InLine
<1>6. /\ wronged' = (wronged \/ BadFor(t.attr, resp))
      /\ \/ Bad(t.id, resp) /\ error' = TRUE /\ UNCHANGED <<cpp, answered>>
         \/ /\ ~Bad(t.id, resp) /\ ids' = ids \cup {t.id} /\ UNCHANGED <<attr, error>>
            /\ push_transactions(transactions, rptr)
      /\ UNCHANGED <<queue, qrptr, read_data, n, up>>
  BY ZenonT(40) DEF B, sv
<1>7. /\ t \in Range(dut.aw) /\ t \in Dev /\ t \in Alive /\ t.ch = "aw"
      /\ u \in Range(dut.w) /\ u \in Dev /\ u \in Alive /\ u.ch = "w" /\ u.left = 0
  BY <1>1, <1>3, Zenon DEF TypeOK, Range, Dev, Alive
<1>8. u.n = t.n /\ t.n \in Nat
  <2>1. WriteOrder
    BY <1>1, SameOrder, ZenonT(40)
  <2> QED
    BY <1>1, <1>3, <1>7, <2>1, AliveItems, ItemFacts, Zenon DEF WriteOrder
<1>9. /\ \A j \in DOMAIN dut.aw : j # i => dut.aw[j].n # t.n
      /\ \A j \in DOMAIN dut.w : j # i => dut.w[j].n # t.n
  <2>1. /\ \A j \in DOMAIN dut.aw : j \in Nat /\ dut.aw[j].ch = "aw" /\ dut.aw[j].n \in Nat
        /\ \A j \in DOMAIN dut.w : j \in Nat /\ dut.w[j].ch = "w" /\ dut.w[j].left = 0
                                   /\ dut.w[j].n \in Nat
    BY <1>1, <1>2, ItemFacts, SMTT(30) DEF TypeOK, Range
  <2>2. ASSUME NEW j \in DOMAIN dut.aw, j # i PROVE dut.aw[j].n # t.n
    <3>1. j < i \/ i < j
      BY <1>3, <2>1, <2>2, SMTT(30)
    <3>2. dut.aw[j].n < t.n \/ t.n < dut.aw[j].n
      BY <1>1, <1>3, <2>1, <3>1, SMTT(30) DEF InLine, Ordered, Before
    <3> QED
      BY <1>8, <2>1, <3>2, SMTT(30)
  <2>3. ASSUME NEW j \in DOMAIN dut.w, j # i PROVE dut.w[j].n # t.n
    <3>1. j < i \/ i < j
      BY <1>3, <2>1, <2>3, SMTT(30)
    <3>2. dut.w[j].n < u.n \/ u.n < dut.w[j].n
      BY <1>1, <1>3, <2>1, <3>1, SMTT(30) DEF InLine, Ordered, Before
    <3> QED
      BY <1>8, <2>1, <3>2
  <2> QED
    BY <2>2, <2>3, ZenonT(40)
<1>10. \A s \in Alive : s.n = t.n => s \in Dev /\ s \notin dut.reads
  <2> SUFFICES ASSUME NEW s \in Alive, s.n = t.n
               PROVE  s \in Dev /\ s \notin dut.reads
    BY ZenonT(40)
  <2>1. s.ch # "ar" /\ s.ch \in Ch /\ s.n \in Nat /\ s.left \in Nat
    BY <1>1, <1>7, AliveItems, ItemFacts, Zenon DEF Owners
  <2>2. s \notin Fifo \cup Pend
    <3> SUFFICES ASSUME s \in Fifo \cup Pend PROVE FALSE
      OBVIOUS
    <3>1. Before(t, s) /\ Before(u, s)
      BY <1>1, <1>7, ZenonT(40) DEF InLine, Ahead
    <3>2. s.ch = "aw" \/ s.ch = "w"
      BY <2>1, ZenonT(40) DEF Ch
    <3>3. CASE s.ch = "aw"
      BY <1>7, <1>8, <3>1, <3>3, SMTT(30) DEF Before
    <3>4. CASE s.ch = "w"
      BY <1>7, <1>8, <2>1, <3>1, <3>4, SMTT(30) DEF Before
    <3> QED
      BY <3>2, <3>3, <3>4, Zenon
  <2> QED
    BY <1>1, <2>1, <2>2, ZenonT(40) DEF Alive, TypeOK
<1> HIDE DEF t, u
<1>11. /\ Range(dut'.aw) \subseteq Range(dut.aw) /\ Range(dut'.w) \subseteq Range(dut.w)
       /\ Dev' \subseteq Dev /\ \A s \in Dev : s \in Dev' \/ s.n = t.n
  <2>1. Range(dut'.aw) \subseteq Range(dut.aw) /\ Range(dut'.w) \subseteq Range(dut.w)
    BY <1>5, ZenonT(40) DEF Range
  <2>2. /\ \A s \in Range(dut.aw) : s \in Range(dut'.aw) \/ s = t
        /\ \A s \in Range(dut.w) : s \in Range(dut'.w) \/ s = u
    BY <1>5, ZenonT(40) DEF Range, t, u
  <2> QED
    BY <1>4, <1>8, <2>1, <2>2 DEF Dev
<1>12. /\ transactions' \in Seq(Item) /\ callbacks' \in Seq(Item)
       /\ wptr' \in [Ch -> Ptr] /\ rptr' \in [Ch -> Ptr]
       /\ Accounts' /\ InLine' /\ Fifo' = Fifo /\ Pend' = Pend
  <2>1. push_transactions(transactions, rptr) \/ UNCHANGED <<transactions, callbacks, wptr, rptr>>
    BY <1>6 DEF cpp
  <2>2. /\ Ahead(Dev', Fifo \cup Pend)
        /\ \A x, y \in dut'.reads : x.n = y.n => x = y
    BY <1>1, <1>4, <1>11 DEF InLine, Ahead
  <2> QED
    BY <1>1, <1>5, <1>6, <2>1, <2>2, Settle, ZenonT(40)
<1>13. Alive' = {s \in Alive : s.n # t.n}
  <2>1. ASSUME NEW s \in Alive' PROVE s \in Alive /\ s.n # t.n
    <3>1. s \in Alive
      BY <1>11, <1>12, Zenon DEF Alive
    <3>2. CASE s \in Dev'
      <4>1. s \in dut.reads \/ s \in Range(dut'.aw) \/ s \in Range(dut'.w)
        BY <1>4, <3>2, ZenonT(40) DEF Dev
      <4>2. s \in Range(dut'.aw) \/ s \in Range(dut'.w) => s.n # t.n
        BY <1>5, <1>9, Zenon
      <4> QED
        BY <1>10, <3>1, <4>1, <4>2, ZenonT(40)
    <3>3. CASE s \notin Dev'
      <4>1. s \in Fifo \cup Pend
        BY <1>12, <3>3, ZenonT(40) DEF Alive
      <4>2. s.n = t.n => /\ Before(t, s) /\ Before(u, s) /\ s.ch # "ar"
                         /\ s.ch \in Ch /\ s.left \in Nat
        BY <1>1, <1>7, <3>1, <4>1, AliveItems, ItemFacts, Zenon DEF InLine, Ahead, Owners
      <4> QED
        BY <1>7, <1>8, <3>1, <4>2, SMTT(30) DEF Before, Ch
    <3> QED
      BY <3>2, <3>3, ZenonT(40)
  <2>2. ASSUME NEW s \in Alive, s.n # t.n PROVE s \in Alive'
    BY <1>11, <1>12, <2>2, ZenonT(40) DEF Alive
  <2> QED
    BY <2>1, <2>2, Zenon
<1>14. Owners' /\ Paired' /\ Gathered'
  <2>1. /\ UNCHANGED <<attr, n, read_data>>
        /\ ids' = ids \/ ids' = ids \cup {t.id}
    BY <1>6, ZenonT(40) DEF cpp
  <2>2. t.ch # "ar"
    BY <1>7, Zenon
  <2> QED
    BY <1>1, <1>7, <1>13, <2>1, <2>2, Retire, Zenon
<1>15. TypeOK'
  <2>1. /\ ids' \subseteq Ids /\ UNCHANGED attr
    BY <1>1, <1>6, <1>7, AliveItems, ItemFacts, ZenonT(30) DEF TypeOK, cpp
  <2>2. error' \in BOOLEAN /\ wronged' \in BOOLEAN
    BY <1>1, <1>6, Zenon DEF TypeOK, BadFor
  <2>3. dut' \in [reads : SUBSET Item, aw : Seq(Item), w : Seq(Item)]
    BY <1>2, <1>4, <1>5, Zenon
  <2>4. /\ \A x \in dut'.reads : x.ch = "ar"
        /\ \A x \in Range(dut'.aw) : x.ch = "aw"
        /\ \A x \in Range(dut'.w) : x.ch = "w" /\ x.left = 0
    BY <1>1, <1>4, <1>11, Zenon DEF TypeOK
  <2> QED
    BY <1>1, <1>6, <1>12, <2>1, <2>2, <2>3, <2>4, ZenonT(40) DEF TypeOK
<1>16. error' = wronged'
  <2>1. Bad(t.id, resp) <=> BadFor(t.attr, resp)
    BY <1>7, Verdict, Zenon
  <2>2. CASE Bad(t.id, resp)
    BY <1>6, <2>1, <2>2, ZenonT(40)
  <2>3. CASE ~Bad(t.id, resp)
    <3>1. error' = error /\ wronged' = (wronged \/ FALSE) /\ wronged \in BOOLEAN
      BY <1>1, <1>6, <2>1, <2>3, ZenonT(40) DEF TypeOK
    <3> QED
      BY <1>1, <3>1
  <2> QED
    BY <2>2, <2>3, Zenon
<1> QED
  BY <1>12, <1>13, <1>14, <1>15, <1>16, ZenonT(40) DEF IInv, t

\* A read that is with the device has no other item.
LEMMA OneRead ==
  ASSUME IInv, NEW t \in dut.reads, NEW s \in Alive, s.n = t.n
  PROVE  s = t
<1>1. TypeOK /\ InLine /\ Owners
  BY ZenonT(40) DEF IInv
<1>2. t \in Dev /\ t \in Alive /\ t.ch = "ar" /\ t.n \in Nat
  BY <1>1, AliveItems, ItemFacts, Zenon DEF TypeOK, Dev, Alive
<1>3. s.ch = "ar"
  BY <1>1, <1>2, ZenonT(40) DEF Owners
<1>4. s \notin Fifo \cup Pend
  BY <1>1, <1>2, <1>3, SMTT(30) DEF InLine, Ahead, Before
<1>5. s \in dut.reads
  BY <1>1, <1>3, <1>4, Zenon DEF Alive, Dev, TypeOK
<1> QED
  BY <1>1, <1>5 DEF InLine

\* process(R) advances a read, or retires it with the last beat.
LEMMA RStep ==
  ASSUME IInv, NEW t \in dut.reads, NEW resp \in Resp, R(t, resp)
  PROVE  /\ IInv'
         /\ Alive' = {s \in Alive : s.n # t.n} \cup
                     (IF t.left = 1 THEN {} ELSE {[t EXCEPT !.left = @ - 1]})
<1> DEFINE last == t.left = 1
           u == [t EXCEPT !.left = @ - 1]
<1>1. TypeOK /\ Accounts /\ InLine /\ Owners /\ Paired /\ Gathered /\ error = wronged
  BY ZenonT(40) DEF IInv
<1>2. dut \in [reads : SUBSET Item, aw : Seq(Item), w : Seq(Item)]
  BY <1>1, ZenonT(40) DEF TypeOK
<1>3. t \in Item /\ t \in Dev /\ t \in Alive /\ t.ch = "ar" /\ t.left # 0
  BY <1>1, <1>2, ZenonT(40) DEF TypeOK, Dev, Alive, Owners
<1>4. t.n \in Nat /\ t.id \in Ids /\ t.left \in Nat /\ t.id \notin ids
  BY <1>1, <1>3, ItemFacts, Zenon DEF Owners
<1>5. /\ dut'.aw = dut.aw /\ dut'.w = dut.w
      /\ dut'.reads = (dut.reads \ {t}) \cup (IF last THEN {} ELSE {u})
      /\ dut' = [dut EXCEPT !.reads = (@ \ {t}) \cup (IF last THEN {} ELSE {u})]
  BY <1>2 DEF R
<1>6. /\ wronged' = (wronged \/ BadFor(t.attr, resp))
      /\ \/ Bad(t.id, resp) /\ error' = TRUE /\ UNCHANGED <<cpp, read_data>>
         \/ /\ ~Bad(t.id, resp) /\ Collect(t, last) /\ UNCHANGED <<attr, error>>
            /\ push_transactions(transactions, rptr)
      /\ UNCHANGED <<queue, qrptr, n, up>>
  BY Zenon DEF R, sv
<1>7. ~last => /\ u \in Item /\ u.ch = "ar" /\ u.n = t.n /\ u.id = t.id
               /\ u.attr = t.attr /\ u.left # 0
  BY <1>3, <1>4, BoundAssumption, SMTT(30) DEF Item
<1>8. \A s \in Alive : s.n = t.n => s = t
  BY OneRead, Zenon
<1> HIDE DEF u, last
<1>9. Dev' = {s \in Dev : s.n # t.n} \cup (IF last THEN {} ELSE {u})
  <2>1. \A s \in Dev : s.n = t.n <=> s = t
    BY <1>3, <1>8 DEF Alive
  <2>2. t \notin Range(dut.aw) /\ t \notin Range(dut.w)
    BY <1>1, <1>3, Zenon DEF TypeOK
  <2> QED
    BY <1>5, <2>1, <2>2, ZenonT(40) DEF Dev
<1>10. \A s \in Fifo \cup Pend : s.n # t.n
  <2>1. \A s \in Fifo \cup Pend : s # t
    BY <1>1, <1>3, <1>4, SMTT(30) DEF InLine, Ahead, Before
  <2> QED
    BY <1>8, <2>1, ZenonT(40) DEF Alive
<1>11. /\ transactions' \in Seq(Item) /\ callbacks' \in Seq(Item)
       /\ wptr' \in [Ch -> Ptr] /\ rptr' \in [Ch -> Ptr]
       /\ Accounts' /\ InLine' /\ Fifo' = Fifo /\ Pend' = Pend
  <2>1. push_transactions(transactions, rptr) \/ UNCHANGED <<transactions, callbacks, wptr, rptr>>
    BY <1>6, ZenonT(40) DEF cpp
  <2>2. Ahead(Dev', Fifo \cup Pend)
    <3>1. ~last => Ahead({u}, Fifo \cup Pend)
      BY <1>1, <1>3, <1>7, ZenonT(40) DEF InLine, Ahead, Before
    <3> QED
      BY <1>1, <1>9, <3>1, ZenonT(40) DEF InLine, Ahead
  <2>3. \A x, y \in dut'.reads : x.n = y.n => x = y
    <3>1. \A x \in dut.reads : x # t => x.n # t.n
      BY <1>1, Zenon DEF InLine
    <3> QED
      BY <1>1, <1>5, <1>7, <3>1, SMTT(30) DEF InLine
  <2>4. Ordered(dut'.aw) /\ Ordered(dut'.w)
    BY <1>1, <1>5, ZenonT(40) DEF InLine
  <2> QED
    BY <1>1, <1>6, <2>1, <2>2, <2>3, <2>4, Settle, ZenonT(40)
<1>12. Alive' = {s \in Alive : s.n # t.n} \cup (IF last THEN {} ELSE {u})
  BY <1>9, <1>10, <1>11 DEF Alive
<1>13. Owners' /\ Paired' /\ Gathered'
  <2>1. UNCHANGED <<attr, n>>
    BY <1>6 DEF cpp
  <2>2. CASE last
    <3>1. Alive' = {s \in Alive : s.n # t.n}
      BY <1>12, <2>2, Zenon
    <3>2. \/ UNCHANGED <<ids, read_data>>
          \/ ids' = ids \cup {t.id} /\ read_data' = [read_data EXCEPT ![t.id] = << >>]
      BY <1>6, <2>2, Zenon DEF cpp, Collect
    <3> QED
      BY <1>1, <1>3, <2>1, <3>1, <3>2, Retire, Zenon
  <2>3. CASE ~last
    <3>1. Alive' = {s \in Alive : s.n # t.n} \cup {u}
      BY <1>12, <2>3, ZenonT(40)
    <3>2. ids' = ids /\ (\/ UNCHANGED read_data
                         \/ read_data' = [read_data EXCEPT ![t.id] = Append(@, t.n)])
      BY <1>6, <2>3, Zenon DEF cpp, Collect
    <3> QED
      BY <1>1, <1>3, <1>7, <1>8, <2>1, <2>3, <3>1, <3>2, Advance, Zenon
  <2> QED
    BY <2>2, <2>3, Zenon
<1>14. TypeOK'
  <2>1. /\ ids' \subseteq Ids /\ UNCHANGED attr
    BY <1>1, <1>4, <1>6, Zenon DEF TypeOK, cpp, Collect
  <2>2. error' \in BOOLEAN /\ wronged' \in BOOLEAN
    BY <1>1, <1>6, Zenon DEF TypeOK, BadFor
  <2>3. dut' \in [reads : SUBSET Item, aw : Seq(Item), w : Seq(Item)]
    BY <1>2, <1>5, <1>7
  <2>4. \A x \in dut'.reads : x.ch = "ar"
    BY <1>1, <1>5, <1>7, ZenonT(40) DEF TypeOK
  <2>5. read_data' \in [Ids -> Seq(Nat)]
    <3>1. read_data \in [Ids -> Seq(Nat)]
      BY <1>1, Zenon DEF TypeOK
    <3>2. Append(read_data[t.id], t.n) \in Seq(Nat) /\ << >> \in Seq(Nat)
      BY <1>4, <3>1, SMTT(30)
    <3> QED
      BY <1>4, <1>6, <3>1, <3>2, Zenon DEF Collect
  <2> QED
    BY <1>1, <1>5, <1>6, <1>11, <2>1, <2>2, <2>3, <2>4, <2>5, Zenon DEF TypeOK
<1>15. error' = wronged'
  <2>1. Bad(t.id, resp) <=> BadFor(t.attr, resp)
    BY <1>3, Verdict, Zenon
  <2>2. CASE Bad(t.id, resp)
    BY <1>6, <2>1, <2>2, Zenon
  <2>3. CASE ~Bad(t.id, resp)
    <3>1. error' = error /\ wronged' = (wronged \/ FALSE) /\ wronged \in BOOLEAN
      BY <1>1, <1>6, <2>1, <2>3, Zenon DEF TypeOK
    <3> QED
      BY <1>1, <3>1, Zenon
  <2> QED
    BY <2>2, <2>3, Zenon
<1> QED
  BY <1>11, <1>12, <1>13, <1>14, <1>15 DEF IInv, last, u

\* The invariant is inductive.
LEMMA NextIInv ==
  ASSUME IInv, [Next]_vars
  PROVE  IInv'
<1>1. CASE Ask
  BY <1>1, ReadStep, WriteStep, Zenon DEF Ask
<1>2. CASE Reset
  BY <1>2, ResetStep, Zenon
<1>3. CASE Hardware
  BY <1>3, FlushStep, AcceptStep, QPtrStep, ZenonT(40) DEF Hardware
<1>4. CASE Answer
  BY <1>4, BStep, RStep, Zenon DEF Answer
<1>5. CASE UNCHANGED vars
  <2>1. /\ UNCHANGED <<ids, attr, transactions, wptr, rptr, callbacks, queue, qrptr,
                       dut, read_data, error, wronged, n, up>>
    BY <1>5, Zenon DEF vars, cpp, sv, results
  <2>2. UNCHANGED <<Pend, Fifo, Dev, Alive>>
    BY <2>1, ZenonT(30) DEF Pend, Fifo, Dev, Alive
  <2>3. TypeOK' /\ InLine'
    BY <2>1, <2>2, ZenonT(40) DEF IInv, TypeOK, InLine
  <2>4. Accounts'
    BY <2>1, Zenon DEF IInv, Accounts, AccountsFor, Started
  <2>5. Owners' /\ Paired' /\ Gathered'
    BY <2>1, <2>2, Zenon DEF IInv, Owners, Paired, Gathered
  <2> QED
    BY <2>1, <2>3, <2>4, <2>5, Zenon DEF IInv
<1> QED
  BY <1>1, <1>2, <1>3, <1>4, <1>5, Zenon DEF Next, Done

\* The invariant implies that the books are right.
LEMMA Books ==
  ASSUME IInv
  PROVE  CreditsAndIds
<1>1. TypeOK /\ Accounts /\ Owners /\ Gathered
  BY Zenon DEF IInv
<1>2. Room
  <2> SUFFICES ASSUME NEW c \in Ch
               PROVE  /\ Started(c) <= QMax
                      /\ ~up => queue[c] = << >> /\ callbacks = << >>
    BY ZenonT(40) DEF Room, Started
  <2>1. CASE up
    <3>1. /\ Dist(wptr[c], rptr[c]) = Dist(qrptr[c], rptr[c]) + Started(c)
          /\ Dist(wptr[c], rptr[c]) <= QMax
      BY <1>1, <2>1, Zenon DEF Accounts, AccountsFor
    <3>2. Dist(qrptr[c], rptr[c]) \in Nat /\ Started(c) \in Nat
      BY <1>1, DistFacts, StartedNat, DepthAssumption, SMTT(30) DEF TypeOK
    <3> QED
      BY <2>1, <3>1, <3>2, DepthAssumption, SMTT(30)
  <2>2. CASE ~up
    <3>1. queue[c] = << >> /\ callbacks = << >>
      BY <1>1, <2>2, Zenon DEF Accounts, AccountsFor
    <3> QED
      BY <3>1, EmptyFacts, DepthAssumption DEF Started
  <2> QED
    BY <2>1, <2>2, Zenon
<1>3. Under \subseteq Alive /\ dut.reads \subseteq Alive
  BY Zenon DEF Under, Alive, Pend, Fifo, Dev
<1>4. IdOnce /\ ReadWhole
  BY <1>1, <1>3, Zenon DEF IdOnce, ReadWhole, Owners, Gathered
<1> QED
  BY <1>2, <1>4 DEF CreditsAndIds

\* The credit counters of axi_sw_mst never start a push that the FIFO has no
\* room for, no id is on two unfinished requests, and the beats collected for
\* an id are those of the read that holds it.
THEOREM BooksRight == Spec => []CreditsAndIds
<1>1. Init => IInv
  BY InitIInv
<1>2. IInv /\ [Next]_vars => IInv'
  BY NextIInv, Zenon
<1>3. IInv => CreditsAndIds
  BY Books, Zenon
<1> QED
  BY <1>1, <1>2, <1>3, PTL DEF Spec

\* The data bursts reach the device in the order of their addresses.
THEOREM WritesInOrder == Spec => []WriteOrder
<1>1. Init => IInv
  BY InitIInv
<1>2. IInv /\ [Next]_vars => IInv'
  BY NextIInv
<1>3. IInv => WriteOrder
  BY SameOrder DEF IInv
<1> QED
  BY <1>1, <1>2, <1>3, PTL DEF Spec
===========================================================================
