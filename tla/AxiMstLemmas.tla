--------------------------- MODULE AxiMstLemmas ---------------------------
(***************************************************************************)
(* The inductive invariant of the AXI master transactor, and what its      *)
(* proof needs to know about the operators of AxiSwMst: what Pick and      *)
(* Pushed take from a list and how the taken items are counted, how the    *)
(* pointers of a FIFO measure what was started, in which order the items   *)
(* of a channel follow each other, and what becomes of the requests that   *)
(* are alive when a step adds one, retires one or moves its items.         *)
(***************************************************************************)
EXTENDS AxiSwMst, FiniteSetTheorems, TLAPS

\* Where the items of a request can be.
Pend == Range(callbacks) \cup Range(transactions)
Fifo == UNION {Range(queue[c]) : c \in Ch}
Dev == dut.reads \cup Range(dut.aw) \cup Range(dut.w)
Alive == Pend \cup Fifo \cup Dev

\* The items of a channel follow the requests; the beats of a write burst
\* count down.
Before(s, t) ==
  s.ch = t.ch => s.n < t.n \/ (s.n = t.n /\ s.ch = "w" /\ t.left < s.left)

Ordered(s) == \A i, j \in DOMAIN s : i < j => Before(s[i], s[j])
Ahead(S, T) == \A s \in S, t \in T : Before(s, t)

\* Types; what is queued for a channel, or with the device on it, is of it.
TypeOK ==
  /\ ids \subseteq Ids /\ n \in Nat /\ up \in BOOLEAN
  /\ attr \in [Ids -> [exp : BOOLEAN, allow : BOOLEAN]]
  /\ transactions \in Seq(Item) /\ callbacks \in Seq(Item)
  /\ wptr \in [Ch -> Ptr] /\ rptr \in [Ch -> Ptr] /\ qrptr \in [Ch -> Ptr]
  /\ queue \in [Ch -> Seq(Item)]
  /\ \A c \in Ch : \A t \in Range(queue[c]) : t.ch = c
  /\ dut \in [reads : SUBSET Item, aw : Seq(Item), w : Seq(Item)]
  /\ \A t \in dut.reads : t.ch = "ar"
  /\ \A t \in Range(dut.aw) : t.ch = "aw"
  /\ \A t \in Range(dut.w) : t.ch = "w" /\ t.left = 0
  /\ read_data \in [Ids -> Seq(Nat)]
  /\ error \in BOOLEAN /\ wronged \in BOOLEAN

\* How far the pointer p is ahead of r.
Dist(p, r) == (p + PtrMax - r) % PtrMax

\* Pushes that were started and not yet taken by the device.
Started(c) == Len(queue[c]) + Cardinality(Waiting(callbacks, c))

\* What C++ counts as used with the read pointers rp is what was started and
\* what it does not yet know the device took.
AccountsFor(rp) ==
  \A c \in Ch :
    IF up THEN /\ Dist(wptr[c], rp[c]) = Dist(qrptr[c], rp[c]) + Started(c)
               /\ Dist(wptr[c], rp[c]) <= QMax
    ELSE /\ wptr[c] = QMax /\ rp[c] = 0 /\ qrptr[c] = 0
         /\ queue[c] = << >> /\ callbacks = << >>

Accounts == AccountsFor(rptr)

\* On every channel the older items are nearer to the device.
InLine ==
  /\ Ordered(callbacks) /\ Ordered(transactions)
  /\ Ordered(dut.aw) /\ Ordered(dut.w)
  /\ \A c \in Ch : Ordered(queue[c])
  /\ Ahead(Range(callbacks), Range(transactions))
  /\ Ahead(Fifo, Pend) /\ Ahead(Dev, Fifo \cup Pend)
  /\ \A s, t \in dut.reads : s.n = t.n => s = t

\* Every request has a number and an id of its own, which is not free, and
\* the attributes stored under that id are still its own.
Owners ==
  /\ \A s \in Alive : /\ s.n <= n /\ s.id \notin ids /\ s.attr = attr[s.id]
                      /\ s.ch = "ar" => s.left # 0
  /\ \A s, t \in Alive : /\ s.id = t.id <=> s.n = t.n
                         /\ s.n = t.n => (s.ch = "ar" <=> t.ch = "ar")

\* A write has its address on the way as long as its last beat is.
Paired == {t.n : t \in {s \in Alive : s.ch = "aw"}}
            = {t.n : t \in {s \in Alive : s.ch = "w" /\ s.left = 0}}

\* Data is collected only for reads, under ids that are taken.
Gathered ==
  \A i \in Ids :
    read_data[i] # << >> =>
      /\ i \notin ids
      /\ \A t \in Alive : t.id = i =>
           /\ t.ch = "ar"
           /\ \A k \in DOMAIN read_data[i] : read_data[i][k] = t.n

\* The inductive invariant.
IInv == TypeOK /\ Accounts /\ InLine /\ Owners /\ Paired /\ Gathered
          /\ error = wronged

\* Steps that lose nothing but data beats that are not the last of their
\* burst, and steps that add a request with an item on channel c.
Kept ==
  /\ Alive' \subseteq Alive
  /\ \A s \in Alive : s \in Alive' \/ (s.ch = "w" /\ s.left # 0)

Adds(c, id) ==
  /\ Alive \subseteq Alive'
  /\ \A s \in Alive' : s \in Alive \/ (s.n = n + 1 /\ s.id = id)
  /\ \E s \in Alive' : s.ch = c /\ s.n = n + 1 /\ s.id = id
---------------------------------------------------------------------------
(* Lists: what Pick and Pushed take, and how they are counted.             *)

\* A list over X: its positions are finitely many, its items are in X.
LEMMA SeqFacts ==
  ASSUME NEW X, NEW s \in Seq(X)
  PROVE  /\ DOMAIN s = 1 .. Len(s) /\ Len(s) \in Nat
         /\ IsFiniteSet(DOMAIN s)
         /\ \A i \in DOMAIN s : s[i] \in X
         /\ Range(s) \subseteq X
<1>1. DOMAIN s = 1 .. Len(s) /\ Len(s) \in Nat /\ \A i \in DOMAIN s : s[i] \in X
  OBVIOUS
<1>2. IsFiniteSet(1 .. Len(s))
  BY <1>1, FS_Interval
<1> QED
  BY <1>1, <1>2 DEF Range

\* The k-th position of S is the one with k positions of S up to it.
LEMMA PickPositions ==
  ASSUME NEW S \in SUBSET Nat, IsFiniteSet(S)
  PROVE  LET N == Cardinality(S)
             pos(k) == CHOOSE i \in S : Cardinality({j \in S : j <= i}) = k
         IN  /\ N \in Nat
             /\ \A k \in 1 .. N : pos(k) \in S
             /\ \A k, l \in 1 .. N : k < l => pos(k) < pos(l)
             /\ \A i \in S : \E k \in 1 .. N : pos(k) = i
<1> DEFINE N == Cardinality(S)
           upto(i) == {j \in S : j <= i}
           r == [i \in S |-> Cardinality(upto(i))]
           pos(k) == CHOOSE i \in S : Cardinality(upto(i)) = k
<1>1. \A i \in S : IsFiniteSet(upto(i)) /\ Cardinality(upto(i)) <= N
  <2> SUFFICES ASSUME NEW i \in S
               PROVE  IsFiniteSet(upto(i)) /\ Cardinality(upto(i)) <= N
    OBVIOUS
  <2>1. upto(i) \in SUBSET S
    OBVIOUS
  <2> HIDE DEF upto
  <2> QED
    BY <2>1, FS_Subset
<1>2. N \in Nat /\ \A i \in S : Cardinality(upto(i)) \in Nat
  BY <1>1, FS_CardinalityType
<1>3. \A i, j \in S : i < j => Cardinality(upto(i)) < Cardinality(upto(j))
  <2> SUFFICES ASSUME NEW i \in S, NEW j \in S, i < j
               PROVE  Cardinality(upto(i)) < Cardinality(upto(j))
    OBVIOUS
  <2>1. upto(i) \in SUBSET upto(j) /\ j \in upto(j) /\ j \notin upto(i)
    <3>1. \A x \in S : x <= i => x <= j
      OBVIOUS
    <3>2. j <= j /\ ~(j <= i)
      OBVIOUS
    <3> QED
      BY <3>1, <3>2, Zenon
  <2> HIDE DEF upto
  <2>2. /\ Cardinality(upto(i)) <= Cardinality(upto(j))
        /\ Cardinality(upto(i)) # Cardinality(upto(j))
    BY <1>1, <2>1, FS_Subset
  <2> QED
    BY <1>2, <2>2
<1>4. \A i \in S : Cardinality(upto(i)) # 0
  <2>1. \A i \in S : upto(i) # {}
    OBVIOUS
  <2> HIDE DEF upto
  <2> QED
    BY <1>1, <2>1, FS_EmptySet
<1> HIDE DEF upto, N
<1>5. r \in Injection(S, 1 .. N)
  <2>1. r \in [S -> 1 .. N]
    BY <1>1, <1>2, <1>4
  <2>2. \A i, j \in S : r[i] = r[j] => i = j
    BY <1>2, <1>3
  <2> QED
    BY <2>1, <2>2 DEF Injection, IsInjective
<1>6. r \in Surjection(S, 1 .. N)
  <2>1. IsFiniteSet(1 .. N) /\ Cardinality(1 .. N) = N
    BY <1>2, FS_Interval
  <2> QED
    BY <1>5, <2>1, FS_Injection DEF N
<1>7. \A k \in 1 .. N : pos(k) \in S /\ Cardinality(upto(pos(k))) = k
  BY <1>6, Zenon DEF Surjection
<1>8. \A k, l \in 1 .. N : k < l => pos(k) < pos(l)
  <2> SUFFICES ASSUME NEW k \in 1 .. N, NEW l \in 1 .. N, k < l
               PROVE  pos(k) < pos(l)
    OBVIOUS
  <2>1. /\ pos(k) \in S /\ pos(l) \in S
        /\ Cardinality(upto(pos(k))) = k /\ Cardinality(upto(pos(l))) = l
    BY <1>7
  <2> HIDE DEF pos
  <2>2. pos(k) \in Nat /\ pos(l) \in Nat /\ k \in Nat /\ l \in Nat
    BY <1>2, <2>1, Zenon
  <2>3. ~(pos(l) < pos(k)) /\ pos(l) # pos(k)
    BY <1>3, <2>1, <2>2
  <2> QED
    BY <2>2, <2>3
<1>9. \A i \in S : \E k \in 1 .. N : pos(k) = i
  <2> SUFFICES ASSUME NEW i \in S PROVE \E k \in 1 .. N : pos(k) = i
    OBVIOUS
  <2>1. r[i] \in 1 .. N /\ r[i] = Cardinality(upto(i))
    BY <1>5 DEF Injection
  <2>2. pos(r[i]) \in S /\ Cardinality(upto(pos(r[i]))) = Cardinality(upto(i))
    BY <1>7, <2>1
  <2>3. pos(r[i]) = i
    BY <1>3, <1>2, <2>2
  <2> QED
    BY <2>1, <2>3
<1> QED
  BY <1>2, <1>7, <1>8, <1>9, Zenon DEF upto, N

\* Where the items of Pick(ts, S) come from.
Places(ts, S, pos) ==
  LET N == Cardinality(S) IN
  /\ pos \in [1 .. N -> S]
  /\ \A k \in 1 .. N : Pick(ts, S)[k] = ts[pos[k]]
  /\ \A k, l \in 1 .. N : k < l => pos[k] < pos[l]
  /\ \A i \in S : \E k \in 1 .. N : pos[k] = i

\* Pick(ts, S) has one item for each position of S, in their order.
LEMMA PickFacts ==
  ASSUME NEW X, NEW ts \in Seq(X), NEW S \in SUBSET DOMAIN ts
  PROVE  LET N == Cardinality(S) IN
         /\ N \in Nat /\ Pick(ts, S) \in Seq(X) /\ Len(Pick(ts, S)) = N
         /\ DOMAIN Pick(ts, S) = 1 .. N
         /\ \E pos : Places(ts, S, pos)
<1> DEFINE N == Cardinality(S)
           p(k) == CHOOSE i \in S : Cardinality({j \in S : j <= i}) = k
           pos == [k \in 1 .. N |-> p(k)]
<1>1. IsFiniteSet(S) /\ S \in SUBSET Nat
  <2>1. DOMAIN ts = 1 .. Len(ts) /\ IsFiniteSet(DOMAIN ts)
    BY SeqFacts
  <2> QED
    BY <2>1, FS_Subset
<1>2. /\ N \in Nat
      /\ \A k \in 1 .. N : p(k) \in S
      /\ \A k, l \in 1 .. N : k < l => p(k) < p(l)
      /\ \A i \in S : \E k \in 1 .. N : p(k) = i
  BY <1>1, PickPositions, Zenon
<1>3. Pick(ts, S) = [k \in 1 .. N |-> ts[p(k)]]
  BY DEF Pick
<1> HIDE DEF p, N
<1>4. \A k \in 1 .. N : ts[p(k)] \in X
  BY <1>2, SeqFacts
<1>5. Pick(ts, S) \in Seq(X) /\ Len(Pick(ts, S)) = N /\ DOMAIN Pick(ts, S) = 1 .. N
  BY <1>2, <1>3, <1>4
<1>6. pos \in [1 .. N -> S]
  BY <1>2
<1>7. \A k \in 1 .. N : Pick(ts, S)[k] = ts[pos[k]]
  BY <1>3
<1>8. /\ \A k, l \in 1 .. N : k < l => pos[k] < pos[l]
      /\ \A i \in S : \E k \in 1 .. N : pos[k] = i
  BY <1>2
<1> HIDE DEF pos
<1>9. Places(ts, S, pos)
  BY <1>6, <1>7, <1>8 DEF Places, N
<1> QED
  BY <1>2, <1>5, <1>9 DEF N

\* Its items are those at the positions of S.
LEMMA PickRange ==
  ASSUME NEW X, NEW ts \in Seq(X), NEW S \in SUBSET DOMAIN ts
  PROVE  Range(Pick(ts, S)) = {ts[i] : i \in S}
<1> DEFINE N == Cardinality(S)
<1>1. DOMAIN Pick(ts, S) = 1 .. N
  BY PickFacts
<1>2. PICK pos : Places(ts, S, pos)
  BY PickFacts, Zenon
<1>3. pos \in [1 .. N -> S] /\ \A k \in 1 .. N : Pick(ts, S)[k] = ts[pos[k]]
  BY <1>2 DEF Places
<1>4. \A i \in S : \E k \in 1 .. N : pos[k] = i
  BY <1>2 DEF Places
<1> HIDE DEF N
<1> QED
  BY <1>1, <1>3, <1>4 DEF Range

\* It keeps the order of the list.
LEMMA PickOrdered ==
  ASSUME NEW X, NEW ts \in Seq(X), NEW S \in SUBSET DOMAIN ts, Ordered(ts)
  PROVE  Ordered(Pick(ts, S))
<1> DEFINE N == Cardinality(S)
<1>1. DOMAIN Pick(ts, S) = 1 .. N
  BY PickFacts
<1>2. PICK pos : Places(ts, S, pos)
  BY PickFacts, Zenon
<1>3. pos \in [1 .. N -> S] /\ \A k \in 1 .. N : Pick(ts, S)[k] = ts[pos[k]]
  BY <1>2 DEF Places
<1>4. \A k, l \in 1 .. N : k < l => pos[k] < pos[l]
  BY <1>2 DEF Places
<1> HIDE DEF N
<1>5. ASSUME NEW k \in 1 .. N, NEW l \in 1 .. N, k < l
      PROVE  Before(Pick(ts, S)[k], Pick(ts, S)[l])
  <2>1. pos[k] \in DOMAIN ts /\ pos[l] \in DOMAIN ts /\ pos[k] < pos[l]
    BY <1>3, <1>4, <1>5
  <2>2. Before(ts[pos[k]], ts[pos[l]])
    BY <2>1 DEF Ordered
  <2> QED
    BY <1>3, <2>2
<1> QED
  BY <1>1, <1>5 DEF Ordered

\* Equally many, by a bijection.
LEMMA PickCount ==
  ASSUME NEW X, NEW ts \in Seq(X), NEW S \in SUBSET DOMAIN ts, NEW c
  PROVE  Cardinality(Waiting(Pick(ts, S), c))
           = Cardinality({i \in S : ts[i].ch = c})
<1> DEFINE N == Cardinality(S)
<1>1. DOMAIN Pick(ts, S) = 1 .. N /\ N \in Nat
  BY PickFacts
<1>2. PICK pos : Places(ts, S, pos)
  BY PickFacts, Zenon
<1>3. pos \in [1 .. N -> S] /\ \A k \in 1 .. N : Pick(ts, S)[k] = ts[pos[k]]
  BY <1>2 DEF Places
<1>4. \A k, l \in 1 .. N : k < l => pos[k] < pos[l]
  BY <1>2 DEF Places
<1>5. \A i \in S : \E k \in 1 .. N : pos[k] = i
  BY <1>2 DEF Places
<1> DEFINE W == Waiting(Pick(ts, S), c)
           V == {i \in S : ts[i].ch = c}
<1>6. S \subseteq Nat
  BY SeqFacts
<1> HIDE DEF N
<1>7. W = {k \in 1 .. N : ts[pos[k]].ch = c}
  BY <1>1, <1>3 DEF Waiting
<1>8. IsFiniteSet(W)
  <2>1. IsFiniteSet(1 .. N) /\ W \in SUBSET (1 .. N)
    BY <1>1, <1>7, FS_Interval
  <2> QED
    BY <2>1, FS_Subset, Zenon
<1> DEFINE f == [k \in W |-> pos[k]]
<1>9. f \in [W -> V]
  BY <1>7, <1>3
<1>10. \A k, l \in W : f[k] = f[l] => k = l
  <2> SUFFICES ASSUME NEW k \in W, NEW l \in W, pos[k] = pos[l] PROVE k = l
    OBVIOUS
  <2>1. k \in 1 .. N /\ l \in 1 .. N /\ k \in Nat /\ l \in Nat /\ pos[k] \in Nat
    BY <1>1, <1>3, <1>6, <1>7
  <2>2. ~(k < l) /\ ~(l < k)
    BY <1>4, <2>1
  <2> QED
    BY <2>1, <2>2
<1>11. \A i \in V : \E k \in W : f[k] = i
  BY <1>7, <1>5
<1> HIDE DEF f, W, V
<1>12. f \in Bijection(W, V)
  BY <1>9, <1>10, <1>11 DEF Bijection, Injection, Surjection, IsInjective
<1> QED
  BY <1>8, <1>12, FS_Bijection DEF ExistsBijection, W, V

\* The pushes that wait for a channel can be counted.
LEMMA WaitingFinite ==
  ASSUME NEW X, NEW s \in Seq(X), NEW c
  PROVE  IsFiniteSet(Waiting(s, c)) /\ Cardinality(Waiting(s, c)) \in Nat
<1>1. IsFiniteSet(DOMAIN s) /\ Waiting(s, c) \in SUBSET DOMAIN s
  BY SeqFacts DEF Waiting
<1>2. IsFiniteSet(Waiting(s, c))
  BY <1>1, FS_Subset
<1> QED
  BY <1>2, FS_CardinalityType

\* The counts of two lists add up.
LEMMA CountConcat ==
  ASSUME NEW X, NEW s \in Seq(X), NEW t \in Seq(X), NEW c
  PROVE  Cardinality(Waiting(s \o t, c))
           = Cardinality(Waiting(s, c)) + Cardinality(Waiting(t, c))
<1> DEFINE A == Waiting(s, c)
           B0 == Waiting(t, c)
           B1 == {Len(s) + i : i \in B0}
<1>1. /\ Len(s) \in Nat /\ Len(t) \in Nat
      /\ DOMAIN s = 1 .. Len(s) /\ DOMAIN t = 1 .. Len(t)
      /\ DOMAIN (s \o t) = 1 .. Len(s) + Len(t)
      /\ \A i \in 1 .. Len(s) : (s \o t)[i] = s[i]
      /\ \A i \in 1 .. Len(t) : (s \o t)[Len(s) + i] = t[i]
  OBVIOUS
<1>2. \A i \in 1 .. Len(s) + Len(t) :
        i \in 1 .. Len(s) \/ \E j \in 1 .. Len(t) : i = Len(s) + j
  <2> SUFFICES ASSUME NEW i \in 1 .. Len(s) + Len(t), i \notin 1 .. Len(s)
               PROVE  \E j \in 1 .. Len(t) : i = Len(s) + j
    OBVIOUS
  <2>1. i - Len(s) \in 1 .. Len(t) /\ i = Len(s) + (i - Len(s))
    BY <1>1
  <2> QED
    BY <2>1, Zenon
<1>3. \A j \in 1 .. Len(t) :
        Len(s) + j \in 1 .. Len(s) + Len(t) /\ Len(s) + j \notin 1 .. Len(s)
  BY <1>1
<1>4. \A i \in 1 .. Len(s) : i \in 1 .. Len(s) + Len(t)
  BY <1>1
<1>5. Waiting(s \o t, c) = A \cup B1
  <2>1. ASSUME NEW i \in Waiting(s \o t, c) PROVE i \in A \cup B1
    <3>1. i \in 1 .. Len(s) + Len(t) /\ (s \o t)[i].ch = c
      BY <1>1 DEF Waiting
    <3>2. CASE i \in 1 .. Len(s)
      BY <1>1, <3>1, <3>2 DEF Waiting
    <3>3. ASSUME NEW j \in 1 .. Len(t), i = Len(s) + j PROVE i \in B1
      BY <1>1, <3>1, <3>3 DEF Waiting
    <3> QED
      BY <1>2, <3>1, <3>2, <3>3
  <2>2. ASSUME NEW i \in A PROVE i \in Waiting(s \o t, c)
    BY <1>1, <1>4 DEF Waiting
  <2>3. ASSUME NEW j \in B0 PROVE Len(s) + j \in Waiting(s \o t, c)
    BY <1>1, <1>3 DEF Waiting
  <2> QED
    BY <2>1, <2>2, <2>3
<1>6. A \cap B1 = {}
  BY <1>1, <1>3 DEF Waiting
<1>7. IsFiniteSet(A) /\ IsFiniteSet(B0)
  BY WaitingFinite
<1>8. IsFiniteSet(B1) /\ Cardinality(B1) = Cardinality(B0)
  <2> DEFINE f == [i \in B0 |-> Len(s) + i]
  <2>1. B0 \subseteq Nat
    BY <1>1 DEF Waiting
  <2> HIDE DEF B0
  <2>2. f \in [B0 -> B1] /\ \A i \in B1 : \E j \in B0 : f[j] = i
    OBVIOUS
  <2>3. \A i, j \in B0 : f[i] = f[j] => i = j
    BY <1>1, <2>1
  <2> HIDE DEF f, B1
  <2>4. f \in Bijection(B0, B1)
    BY <2>2, <2>3 DEF Bijection, Injection, Surjection, IsInjective
  <2> QED
    BY <1>7, <2>4, FS_Bijection DEF ExistsBijection
<1> HIDE DEF A, B0, B1
<1>9. Cardinality(A \cup B1) = Cardinality(A) + Cardinality(B1)
  <2>1. Cardinality(A \cup B1)
          = Cardinality(A) + Cardinality(B1) - Cardinality(A \cap B1)
    BY <1>7, <1>8, FS_Union
  <2>2. Cardinality(A) \in Nat /\ Cardinality(B1) \in Nat /\ Cardinality({}) = 0
    BY <1>7, <1>8, FS_CardinalityType, FS_EmptySet
  <2>3. Cardinality(A \cap B1) = 0
    BY <1>6, <2>2, Zenon
  <2> QED
    BY <2>1, <2>2, <2>3
<1> QED
  BY <1>5, <1>8, <1>9 DEF A, B0

\* The items of a concatenation.
LEMMA ConcatRange ==
  ASSUME NEW X, NEW s \in Seq(X), NEW t \in Seq(X)
  PROVE  Range(s \o t) = Range(s) \cup Range(t)
<1>1. /\ Len(s) \in Nat /\ Len(t) \in Nat
      /\ DOMAIN s = 1 .. Len(s) /\ DOMAIN t = 1 .. Len(t)
      /\ DOMAIN (s \o t) = 1 .. Len(s) + Len(t)
      /\ \A i \in 1 .. Len(s) : (s \o t)[i] = s[i]
      /\ \A i \in 1 .. Len(t) : (s \o t)[Len(s) + i] = t[i]
  OBVIOUS
<1>2. ASSUME NEW i \in 1 .. Len(s) + Len(t)
      PROVE  (s \o t)[i] \in Range(s) \cup Range(t)
  <2>1. CASE i \in 1 .. Len(s)
    BY <1>1, <2>1 DEF Range
  <2>2. CASE i \notin 1 .. Len(s)
    <3>1. i - Len(s) \in 1 .. Len(t) /\ i = Len(s) + (i - Len(s))
      BY <1>1, <2>2
    <3>2. (s \o t)[i] = t[i - Len(s)]
      BY <1>1, <3>1
    <3> QED
      BY <1>1, <3>1, <3>2 DEF Range
  <2> QED
    BY <2>1, <2>2
<1>3. \A i \in 1 .. Len(s) : i \in 1 .. Len(s) + Len(t)
  BY <1>1
<1>4. \A i \in 1 .. Len(t) : Len(s) + i \in 1 .. Len(s) + Len(t)
  BY <1>1
<1>5. Range(s) \subseteq Range(s \o t)
  BY <1>1, <1>3 DEF Range
<1>6. Range(t) \subseteq Range(s \o t)
  BY <1>1, <1>4, Zenon DEF Range
<1>7. Range(s \o t) \subseteq Range(s) \cup Range(t)
  BY <1>1, <1>2 DEF Range
<1> QED
  BY <1>5, <1>6, <1>7

\* A concatenation is ordered when the first list is ahead of the second.
LEMMA ConcatOrdered ==
  ASSUME NEW X, NEW s \in Seq(X), NEW t \in Seq(X),
         Ordered(s), Ordered(t), Ahead(Range(s), Range(t))
  PROVE  Ordered(s \o t)
<1>1. /\ Len(s) \in Nat /\ Len(t) \in Nat
      /\ DOMAIN s = 1 .. Len(s) /\ DOMAIN t = 1 .. Len(t)
      /\ DOMAIN (s \o t) = 1 .. Len(s) + Len(t)
      /\ \A i \in 1 .. Len(s) : (s \o t)[i] = s[i]
      /\ \A i \in 1 .. Len(t) : (s \o t)[Len(s) + i] = t[i]
  OBVIOUS
<1>2. SUFFICES ASSUME NEW i \in 1 .. Len(s) + Len(t),
                      NEW j \in 1 .. Len(s) + Len(t), i < j
               PROVE  Before((s \o t)[i], (s \o t)[j])
  BY <1>1 DEF Ordered
<1>3. \A k \in 1 .. Len(s) + Len(t) : k \notin 1 .. Len(s) =>
        /\ k - Len(s) \in 1 .. Len(t) /\ k = Len(s) + (k - Len(s))
  BY <1>1
<1>4. CASE j \in 1 .. Len(s)
  <2>1. i \in 1 .. Len(s)
    BY <1>1, <1>2, <1>4
  <2> QED
    BY <1>1, <1>2, <1>4, <2>1 DEF Ordered
<1>5. CASE i \in 1 .. Len(s) /\ j \notin 1 .. Len(s)
  <2>1. (s \o t)[i] = s[i] /\ (s \o t)[j] = t[j - Len(s)]
    BY <1>1, <1>3, <1>5
  <2> QED
    BY <1>1, <1>3, <1>5, <2>1, Zenon DEF Ahead, Range
<1>6. CASE i \notin 1 .. Len(s) /\ j \notin 1 .. Len(s)
  <2>1. (s \o t)[i] = t[i - Len(s)] /\ (s \o t)[j] = t[j - Len(s)]
    BY <1>1, <1>3, <1>6
  <2>2. i - Len(s) < j - Len(s)
    BY <1>1, <1>2
  <2> QED
    BY <1>1, <1>3, <1>6, <2>1, <2>2 DEF Ordered
<1> QED
  BY <1>4, <1>5, <1>6

\* The head of a list counts for its own channel only.
LEMMA CountTail ==
  ASSUME NEW X, NEW s \in Seq(X), s # << >>, NEW c
  PROVE  Cardinality(Waiting(s, c))
           = Cardinality(Waiting(Tail(s), c)) + (IF Head(s).ch = c THEN 1 ELSE 0)
<1>1. s = <<Head(s)>> \o Tail(s) /\ <<Head(s)>> \in Seq(X) /\ Tail(s) \in Seq(X)
  OBVIOUS
<1>2. Waiting(<<Head(s)>>, c) = IF Head(s).ch = c THEN {1} ELSE {}
  BY DEF Waiting
<1>3. Cardinality(Waiting(<<Head(s)>>, c)) = IF Head(s).ch = c THEN 1 ELSE 0
  BY <1>2, FS_Singleton, FS_EmptySet, Zenon
<1>4. Cardinality(Waiting(Tail(s), c)) \in Nat
  BY <1>1, WaitingFinite, Zenon
<1>5. Cardinality(Waiting(s, c))
        = Cardinality(Waiting(<<Head(s)>>, c)) + Cardinality(Waiting(Tail(s), c))
  BY <1>1, CountConcat, ZenonT(30)
<1> QED
  BY <1>3, <1>4, <1>5

\* The rank of an item: positive, and larger for a later item of the channel.
LEMMA RankFacts ==
  ASSUME NEW X, NEW ts \in Seq(X)
  PROVE  /\ \A i \in DOMAIN ts : Rank(ts, i) \in Nat \ {0}
         /\ \A i, j \in DOMAIN ts :
              i < j /\ ts[i].ch = ts[j].ch => Rank(ts, i) < Rank(ts, j)
<1> DEFINE upto(i) == {j \in 1 .. i : ts[j].ch = ts[i].ch}
<1>1. DOMAIN ts \subseteq Nat /\ \A i \in DOMAIN ts : i >= 1
  BY SeqFacts
<1>2. \A i \in DOMAIN ts : Rank(ts, i) = Cardinality(upto(i))
  BY DEF Rank
<1>3. \A i \in DOMAIN ts : IsFiniteSet(upto(i)) /\ i \in upto(i)
  <2> SUFFICES ASSUME NEW i \in DOMAIN ts PROVE IsFiniteSet(upto(i)) /\ i \in upto(i)
    OBVIOUS
  <2>1. IsFiniteSet(1 .. i) /\ i \in 1 .. i
    BY <1>1, FS_Interval
  <2>2. upto(i) \in SUBSET (1 .. i) /\ i \in upto(i)
    BY <2>1
  <2> QED
    BY <2>1, <2>2, FS_Subset
<1>4. ASSUME NEW i \in DOMAIN ts, NEW j \in DOMAIN ts, i < j,
             ts[i].ch = ts[j].ch
      PROVE  upto(i) \in SUBSET upto(j) /\ j \notin upto(i)
  <2>1. \A x \in 1 .. i : x \in 1 .. j
    BY <1>1, <1>4
  <2>2. j \notin 1 .. i
    BY <1>1, <1>4
  <2> QED
    BY <1>4, <2>1, <2>2
<1> HIDE DEF upto
<1>5. \A i \in DOMAIN ts : Cardinality(upto(i)) \in Nat /\ Cardinality(upto(i)) # 0
  BY <1>3, FS_CardinalityType, FS_EmptySet
<1>6. ASSUME NEW i \in DOMAIN ts, NEW j \in DOMAIN ts, i < j,
             ts[i].ch = ts[j].ch
      PROVE  Cardinality(upto(i)) < Cardinality(upto(j))
  <2>1. upto(i) \in SUBSET upto(j) /\ upto(i) # upto(j)
    BY <1>3, <1>4, <1>6
  <2>2. Cardinality(upto(i)) <= Cardinality(upto(j))
        /\ Cardinality(upto(i)) # Cardinality(upto(j))
    BY <1>3, <2>1, FS_Subset
  <2> QED
    BY <1>5, <2>2
<1> QED
  BY <1>2, <1>5, <1>6

\* Of each channel push_transactions takes the items at the front, and no more
\* of them than there are credits.
LEMMA PushedPrefix ==
  ASSUME NEW X, NEW ts \in Seq(X), NEW wp, NEW rp,
         NEW i \in Pushed(ts, wp, rp), NEW j \in DOMAIN ts,
         j \notin Pushed(ts, wp, rp), ts[i].ch = ts[j].ch,
         Credits(wp, rp, ts[i].ch) \in Nat
  PROVE  i < j
<1>1. /\ i \in DOMAIN ts /\ DOMAIN ts = 1 .. Len(ts) /\ Len(ts) \in Nat
  BY SeqFacts DEF Pushed
<1>2. SUFFICES ASSUME j < i PROVE j \in Pushed(ts, wp, rp)
  <2>1. i # j
    OBVIOUS
  <2> QED
    BY <1>1, <2>1
<1>3. Rank(ts, j) < Rank(ts, i) /\ Rank(ts, i) \in Nat /\ Rank(ts, j) \in Nat
  BY <1>1, <1>2, RankFacts
<1>4. Rank(ts, i) <= Credits(wp, rp, ts[i].ch)
  BY <1>1 DEF Pushed
<1>5. Rank(ts, j) <= Credits(wp, rp, ts[j].ch)
  BY <1>3, <1>4
<1>6. CASE Greedy
  BY <1>5, <1>6 DEF Pushed
<1>7. CASE ~Greedy
  <2>1. 1 .. j \subseteq 1 .. i
    BY <1>1, <1>2
  <2> QED
    BY <1>7, <2>1 DEF Pushed
<1> QED
  BY <1>6, <1>7

\* Of each channel no more items leave transactions_ than there are credits.
LEMMA PushedCount ==
  ASSUME NEW X, NEW ts \in Seq(X), NEW wp, NEW rp, NEW c,
         Credits(wp, rp, c) \in Nat
  PROVE  LET V == {i \in Pushed(ts, wp, rp) : ts[i].ch = c}
         IN  Cardinality(V) <= Credits(wp, rp, c) /\ Cardinality(V) \in Nat
<1> DEFINE V == {i \in Pushed(ts, wp, rp) : ts[i].ch = c}
           m == Credits(wp, rp, c)
           f == [i \in V |-> Rank(ts, i)]
<1>1. \A i \in V : i \in DOMAIN ts /\ i \in Nat /\ ts[i].ch = c /\ Rank(ts, i) <= m
  <2> SUFFICES ASSUME NEW i \in V
               PROVE  i \in DOMAIN ts /\ i \in Nat /\ ts[i].ch = c /\ Rank(ts, i) <= m
    OBVIOUS
  <2>1. i \in DOMAIN ts /\ ts[i].ch = c
    BY DEF Pushed
  <2>2. i \in 1 .. i /\ i \in Nat
    BY <2>1, SeqFacts
  <2> QED
    BY <2>1, <2>2 DEF Pushed
<1> HIDE DEF m, V
<1>2. \A i \in V : Rank(ts, i) \in 1 .. m
  BY <1>1, RankFacts DEF m
<1>3. \A i, j \in V : Rank(ts, i) = Rank(ts, j) => i = j
  <2> SUFFICES ASSUME NEW i \in V, NEW j \in V, Rank(ts, i) = Rank(ts, j)
               PROVE  i = j
    OBVIOUS
  <2>1. /\ i \in DOMAIN ts /\ j \in DOMAIN ts /\ i \in Nat /\ j \in Nat
        /\ ts[i].ch = ts[j].ch /\ Rank(ts, i) \in Nat
    BY <1>1, <1>2 DEF m
  <2>2. ~(i < j) /\ ~(j < i)
    BY <2>1, RankFacts
  <2> QED
    BY <2>1, <2>2
<1>4. f \in Injection(V, 1 .. m)
  BY <1>2, <1>3 DEF Injection, IsInjective
<1>5. IsFiniteSet(1 .. m) /\ Cardinality(1 .. m) = m
  BY FS_Interval DEF m
<1>6. IsFiniteSet(V) /\ Cardinality(V) <= m
  BY <1>4, <1>5, FS_Injection
<1>7. Cardinality(V) \in Nat
  BY <1>6, FS_CardinalityType, Zenon
<1> QED
  BY <1>6, <1>7 DEF V, m

\* A list from which some items were taken is the rest and what was taken.
LEMMA PushSets ==
  ASSUME TypeOK, NEW ts \in Seq(Item), NEW rp, push_transactions(ts, rp),
         \A c \in Ch : Credits(wptr, rp, c) \in Nat,
         Ordered(ts), Ordered(callbacks), Ahead(Range(callbacks), Range(ts))
  PROVE  /\ transactions' \in Seq(Item) /\ callbacks' \in Seq(Item)
         /\ Range(callbacks) \subseteq Range(callbacks')
         /\ Pend' = Range(callbacks) \cup Range(ts)
         /\ Ordered(callbacks') /\ Ordered(transactions')
         /\ Ahead(Range(callbacks'), Range(transactions'))
<1> DEFINE S == Pushed(ts, wptr, rp)
           P == Pick(ts, S)
           Q == Pick(ts, DOMAIN ts \ S)
<1>1. S \in SUBSET DOMAIN ts /\ DOMAIN ts \ S \in SUBSET DOMAIN ts
  BY DEF Pushed
<1>2. transactions' = Q /\ callbacks' = callbacks \o P
  BY DEF push_transactions
<1>3. callbacks \in Seq(Item)
  BY DEF TypeOK
<1>4. \A i \in S, j \in DOMAIN ts \ S : ts[i].ch = ts[j].ch => i < j
  <2> SUFFICES ASSUME NEW i \in S, NEW j \in DOMAIN ts \ S, ts[i].ch = ts[j].ch
               PROVE  i < j
    BY Zenon
  <2>1. ts[i] \in Item
    BY <1>1, SeqFacts, Zenon
  <2>2. Credits(wptr, rp, ts[i].ch) \in Nat
    BY <2>1, Zenon DEF Item
  <2> QED
    BY <2>2, PushedPrefix
<1> HIDE DEF S
<1>5. P \in Seq(Item) /\ Q \in Seq(Item) /\ Ordered(P) /\ Ordered(Q)
  BY <1>1, PickFacts, PickOrdered, Zenon
<1>6. Range(P) = {ts[i] : i \in S} /\ Range(Q) = {ts[i] : i \in DOMAIN ts \ S}
  BY <1>1, PickRange, Zenon
<1>7. Range(ts) = Range(P) \cup Range(Q)
  BY <1>1, <1>6, Zenon DEF Range
<1> HIDE DEF P, Q
<1>8. Range(callbacks \o P) = Range(callbacks) \cup Range(P)
  BY <1>3, <1>5, ConcatRange
<1>9. Ahead(Range(P), Range(Q))
  <2> SUFFICES ASSUME NEW i \in S, NEW j \in DOMAIN ts \ S
               PROVE  Before(ts[i], ts[j])
    BY <1>6 DEF Ahead
  <2>1. CASE ts[i].ch # ts[j].ch
    BY <2>1 DEF Before
  <2>2. CASE ts[i].ch = ts[j].ch
    BY <1>1, <1>4, <2>2, Zenon DEF Ordered
  <2> QED
    BY <2>1, <2>2, Zenon
<1>10. Ordered(callbacks \o P)
  BY <1>3, <1>5, <1>7, ConcatOrdered DEF Ahead
<1> QED
  BY <1>2, <1>3, <1>5, <1>7, <1>8, <1>9, <1>10, SMTT(30) DEF Pend, Ahead

\* The empty list.
LEMMA EmptyFacts ==
  /\ << >> \in Seq(Item) /\ Range(<< >>) = {} /\ Ordered(<< >>) /\ Len(<< >>) = 0
  /\ \A c \in Ch : Cardinality(Waiting(<< >>, c)) = 0
<1>1. << >> \in Seq(Item) /\ DOMAIN << >> = {} /\ Len(<< >>) = 0
  OBVIOUS
<1>2. \A c \in Ch : Waiting(<< >>, c) = {}
  BY <1>1 DEF Waiting
<1>3. Cardinality({}) = 0
  BY FS_EmptySet
<1> QED
  BY <1>1, <1>2, <1>3 DEF Range, Ordered

\* Taking the head of a list.
LEMMA HeadTail ==
  ASSUME NEW s \in Seq(Item), s # << >>
  PROVE  /\ Head(s) \in Item /\ Tail(s) \in Seq(Item) /\ Len(Tail(s)) = Len(s) - 1
         /\ Range(s) = {Head(s)} \cup Range(Tail(s))
         /\ Ordered(s) => Ordered(Tail(s)) /\ Ahead({Head(s)}, Range(Tail(s)))
<1>1. /\ Head(s) = s[1] /\ s[1] \in Item /\ Tail(s) \in Seq(Item)
      /\ Len(Tail(s)) = Len(s) - 1 /\ Len(s) \in Nat \ {0}
      /\ DOMAIN s = 1 .. Len(s) /\ DOMAIN Tail(s) = 1 .. Len(s) - 1
      /\ \A i \in 1 .. Len(s) - 1 : Tail(s)[i] = s[i + 1]
  OBVIOUS
<1>2. Range(s) = {Head(s)} \cup Range(Tail(s))
  <2>1. \A i \in DOMAIN s : s[i] \in {Head(s)} \cup Range(Tail(s))
    <3> SUFFICES ASSUME NEW i \in DOMAIN s, i # 1
                 PROVE  s[i] \in Range(Tail(s))
      BY <1>1
    <3>1. i - 1 \in DOMAIN Tail(s) /\ Tail(s)[i - 1] = s[i]
      BY <1>1
    <3> QED
      BY <3>1 DEF Range
  <2>2. \A i \in DOMAIN Tail(s) : i + 1 \in DOMAIN s /\ Tail(s)[i] = s[i + 1]
    BY <1>1
  <2>3. 1 \in DOMAIN s
    BY <1>1
  <2> QED
    BY <1>1, <2>1, <2>2, <2>3, Zenon DEF Range
<1>3. ASSUME Ordered(s)
      PROVE  Ordered(Tail(s)) /\ Ahead({Head(s)}, Range(Tail(s)))
  <2>1. \A i \in DOMAIN Tail(s) : i \in Nat /\ i + 1 \in DOMAIN s /\ 1 < i + 1
    BY <1>1
  <2>2. Ordered(Tail(s))
    <3> SUFFICES ASSUME NEW i \in DOMAIN Tail(s), NEW j \in DOMAIN Tail(s), i < j
                 PROVE  Before(Tail(s)[i], Tail(s)[j])
      BY DEF Ordered
    <3>1. i + 1 < j + 1 /\ Tail(s)[i] = s[i + 1] /\ Tail(s)[j] = s[j + 1]
      BY <1>1, <2>1
    <3> QED
      BY <1>3, <2>1, <3>1, Zenon DEF Ordered
  <2>3. Ahead({Head(s)}, Range(Tail(s)))
    <3> SUFFICES ASSUME NEW i \in DOMAIN Tail(s) PROVE Before(s[1], Tail(s)[i])
      BY <1>1 DEF Ahead, Range
    <3>1. 1 \in DOMAIN s /\ Tail(s)[i] = s[i + 1]
      BY <1>1
    <3> QED
      BY <1>3, <2>1, <3>1, Zenon DEF Ordered
  <2> QED
    BY <2>2, <2>3
<1> QED
  BY <1>1, <1>2, <1>3

\* Appending an item that comes after all others keeps the order.
LEMMA AppendFacts ==
  ASSUME NEW s \in Seq(Item), NEW x \in Item
  PROVE  /\ Append(s, x) \in Seq(Item) /\ Len(Append(s, x)) = Len(s) + 1
         /\ Range(Append(s, x)) = Range(s) \cup {x}
         /\ Ordered(s) /\ Ahead(Range(s), {x}) => Ordered(Append(s, x))
<1> DEFINE a == Append(s, x)
<1>1. /\ a \in Seq(Item) /\ Len(a) = Len(s) + 1 /\ Len(s) \in Nat
      /\ DOMAIN s = 1 .. Len(s) /\ DOMAIN a = 1 .. Len(s) + 1
      /\ \A i \in DOMAIN s : a[i] = s[i]
      /\ a[Len(s) + 1] = x
  OBVIOUS
<1> HIDE DEF a
<1>2. \A i \in DOMAIN a : i \in DOMAIN s \/ i = Len(s) + 1
  BY <1>1
<1>3. DOMAIN s \subseteq DOMAIN a /\ Len(s) + 1 \in DOMAIN a
  BY <1>1, SMTT(30)
<1>4. Range(a) = Range(s) \cup {x}
  BY <1>1, <1>2, <1>3 DEF Range
<1>5. ASSUME Ordered(s), Ahead(Range(s), {x})
      PROVE  Ordered(a)
  <2> SUFFICES ASSUME NEW i \in DOMAIN a, NEW j \in DOMAIN a, i < j
               PROVE  Before(a[i], a[j])
    BY Zenon DEF Ordered
  <2>1. i \in DOMAIN s
    BY <1>1
  <2>2. CASE j \in DOMAIN s
    BY <1>1, <1>5, <2>1, <2>2, Zenon DEF Ordered
  <2>3. CASE j = Len(s) + 1
    BY <1>1, <1>5, <2>1, <2>3, Zenon DEF Ahead, Range
  <2> QED
    BY <1>2, <2>2, <2>3
<1> QED
  BY <1>1, <1>4, <1>5 DEF a

\* A list without its i-th item.
LEMMA WithoutFacts ==
  ASSUME NEW X, NEW s \in Seq(X), NEW i
  PROVE  /\ Without(s, i) \in Seq(X)
         /\ Range(Without(s, i)) = {s[j] : j \in DOMAIN s \ {i}}
         /\ Ordered(s) => Ordered(Without(s, i))
<1>1. DOMAIN s \ {i} \in SUBSET DOMAIN s
  OBVIOUS
<1> QED
  BY <1>1, PickFacts, PickRange, PickOrdered DEF Without

\* Where an appended item is.
LEMMA AppendAt ==
  ASSUME NEW X, NEW s \in Seq(X), NEW x \in X
  PROVE  /\ Append(s, x) \in Seq(X)
         /\ Len(s) + 1 \in DOMAIN Append(s, x) /\ Append(s, x)[Len(s) + 1] = x
         /\ \A j \in 1 .. Len(s) : j \in DOMAIN s /\ Append(s, x)[j] = s[j]
         /\ (Len(s) + 1) - 1 = Len(s)
OBVIOUS
---------------------------------------------------------------------------
(* Credits.                                                                *)

\* The distance of two pointers, without the modulus.
LEMMA DistFacts ==
  ASSUME NEW p \in Ptr, NEW r \in Ptr
  PROVE  /\ Dist(p, r) \in 0 .. PtrMax - 1
         /\ Dist(p, r) = IF r <= p THEN p - r ELSE p + PtrMax - r
<1>1. p \in Nat /\ r \in Nat /\ p < PtrMax /\ r < PtrMax
  BY DepthAssumption DEF Ptr
<1>2. p + PtrMax - r \in Nat /\ p + PtrMax - r < 2 * PtrMax
  BY <1>1, DepthAssumption, SMTT(30)
<1>3. Dist(p, r) = IF p + PtrMax - r < PtrMax THEN p + PtrMax - r
                   ELSE p + PtrMax - r - PtrMax
  BY <1>1, <1>2, DepthAssumption, SMTT(30) DEF Dist
<1> QED
  BY <1>1, <1>3, DepthAssumption

\* Moving the front pointer by k adds k as long as it does not catch up.
LEMMA DistGrows ==
  ASSUME NEW p \in Ptr, NEW r \in Ptr, NEW k \in Nat, Dist(p, r) + k < PtrMax
  PROVE  /\ (p + k) % PtrMax \in Ptr
         /\ Dist((p + k) % PtrMax, r) = Dist(p, r) + k
<1>1. p \in Nat /\ r \in Nat /\ p < PtrMax /\ r < PtrMax
  BY DepthAssumption DEF Ptr
<1>2. Dist(p, r) = IF r <= p THEN p - r ELSE p + PtrMax - r
  BY DistFacts
<1>3. k < PtrMax /\ p + k < 2 * PtrMax /\ p + k \in Nat
  BY <1>1, <1>2, DepthAssumption
<1>4. (p + k) % PtrMax = IF p + k < PtrMax THEN p + k ELSE p + k - PtrMax
  BY <1>1, <1>3, DepthAssumption, SMTT(30)
<1>5. (p + k) % PtrMax \in Ptr
  BY <1>1, <1>3, <1>4, DepthAssumption DEF Ptr
<1> DEFINE q == (p + k) % PtrMax
<1> HIDE DEF q
<1>6. Dist(q, r) = IF r <= q THEN q - r ELSE q + PtrMax - r
  BY <1>5, DistFacts DEF q
<1> QED
  BY <1>1, <1>2, <1>3, <1>4, <1>5, <1>6, DepthAssumption DEF q

\* Moving the rear pointer takes one away as long as they differ.
LEMMA DistShrinks ==
  ASSUME NEW p \in Ptr, NEW r \in Ptr, Dist(p, r) > 0
  PROVE  /\ (r + 1) % PtrMax \in Ptr
         /\ Dist(p, (r + 1) % PtrMax) = Dist(p, r) - 1
<1>1. p \in Nat /\ r \in Nat /\ p < PtrMax /\ r < PtrMax
  BY DepthAssumption DEF Ptr
<1>2. Dist(p, r) = IF r <= p THEN p - r ELSE p + PtrMax - r
  BY DistFacts
<1>3. (r + 1) % PtrMax = IF r + 1 < PtrMax THEN r + 1 ELSE r + 1 - PtrMax
  BY <1>1, DepthAssumption, SMTT(30)
<1>4. (r + 1) % PtrMax \in Ptr
  BY <1>1, <1>3, DepthAssumption DEF Ptr
<1> DEFINE q == (r + 1) % PtrMax
<1> HIDE DEF q
<1>5. Dist(p, q) = IF q <= p THEN p - q ELSE p + PtrMax - q
  BY <1>4, DistFacts DEF q
<1>6. q = IF r + 1 < PtrMax THEN r + 1 ELSE 0
  BY <1>1, <1>3, DepthAssumption, SMTT(30) DEF q
<1>7. Dist(p, q) = Dist(p, r) - 1
  BY <1>1, <1>2, <1>5, <1>6, DepthAssumption, SMTT(30)
<1> QED
  BY <1>4, <1>7 DEF q

\* Credits are natural numbers, what the used slots leave.
LEMMA CreditsNat ==
  ASSUME TypeOK, NEW rp \in [Ch -> Ptr], NEW c \in Ch
  PROVE  /\ Credits(wptr, rp, c) \in Nat
         /\ Credits(wptr, rp, c) = IF Dist(wptr[c], rp[c]) >= QMax THEN 0
                                   ELSE QMax - Dist(wptr[c], rp[c])
<1>1. wptr[c] \in Ptr /\ rp[c] \in Ptr
  BY DEF TypeOK
<1>2. Credits(wptr, rp, c) = IF Dist(wptr[c], rp[c]) >= QMax THEN 0
                             ELSE QMax - Dist(wptr[c], rp[c])
  BY DEF Credits, Dist
<1>3. Dist(wptr[c], rp[c]) \in Nat
  BY <1>1, DistFacts, DepthAssumption
<1> QED
  BY <1>2, <1>3, DepthAssumption

\* What was started can be counted.
LEMMA StartedNat ==
  ASSUME TypeOK, NEW c \in Ch
  PROVE  /\ Len(queue[c]) \in Nat /\ Cardinality(Waiting(callbacks, c)) \in Nat
         /\ Started(c) \in Nat
<1>1. queue[c] \in Seq(Item) /\ callbacks \in Seq(Item)
  BY DEF TypeOK
<1>2. Len(queue[c]) \in Nat
  BY <1>1
<1>3. Cardinality(Waiting(callbacks, c)) \in Nat
  BY <1>1, WaitingFinite, Zenon
<1> QED
  BY <1>2, <1>3 DEF Started

\* push_transactions spends no more credits than there are.
LEMMA PushAccounts ==
  ASSUME TypeOK, NEW ts \in Seq(Item), NEW rp \in [Ch -> Ptr],
         push_transactions(ts, rp), AccountsFor(rp),
         UNCHANGED <<queue, qrptr, up>>
  PROVE  wptr' \in [Ch -> Ptr] /\ rptr' = rp /\ Accounts'
<1> DEFINE S == Pushed(ts, wptr, rp)
           Of(c) == Cardinality({i \in S : ts[i].ch = c})
           P == Pick(ts, S)
<1>1. /\ callbacks' = callbacks \o P
      /\ wptr' = [c \in Ch |-> (wptr[c] + Of(c)) % PtrMax]
      /\ rptr' = rp
  BY DEF push_transactions
<1>2. S \in SUBSET DOMAIN ts /\ callbacks \in Seq(Item)
  BY Zenon DEF Pushed, TypeOK
<1>3. P \in Seq(Item)
  BY <1>2, PickFacts, ZenonT(30)
<1>4. \A c \in Ch : Of(c) \in Nat /\ Of(c) <= Credits(wptr, rp, c)
  BY CreditsNat, PushedCount
<1>5. \A c \in Ch : Cardinality(Waiting(P, c)) = Of(c)
  BY <1>2, PickCount, SMTT(30)
<1>6. \A c \in Ch : Cardinality(Waiting(callbacks', c))
                      = Cardinality(Waiting(callbacks, c)) + Of(c)
  BY <1>1, <1>2, <1>3, <1>5, CountConcat, SMTT(30)
<1> HIDE DEF S, Of, P
<1>7. CASE up
  <2> SUFFICES ASSUME NEW c \in Ch
               PROVE  /\ (wptr[c] + Of(c)) % PtrMax \in Ptr
                      /\ Dist(wptr'[c], rp[c]) = Dist(qrptr[c], rp[c]) + Started(c)'
                      /\ Dist(wptr'[c], rp[c]) <= QMax
    BY <1>1, <1>7 DEF Accounts, AccountsFor
  <2>1. wptr[c] \in Ptr /\ rp[c] \in Ptr /\ qrptr[c] \in Ptr
    BY Zenon DEF TypeOK
  <2>2. /\ Dist(wptr[c], rp[c]) \in Nat /\ Dist(qrptr[c], rp[c]) \in Nat
    BY <2>1, DistFacts, DepthAssumption, SMTT(30)
  <2>3. /\ Dist(wptr[c], rp[c]) = Dist(qrptr[c], rp[c]) + Started(c)
        /\ Dist(wptr[c], rp[c]) <= QMax
    BY <1>7, Zenon DEF AccountsFor
  <2>4. Of(c) \in Nat /\ Dist(wptr[c], rp[c]) + Of(c) <= QMax
    BY <1>4, <2>2, <2>3, CreditsNat, DepthAssumption, SMTT(30)
  <2>5. /\ (wptr[c] + Of(c)) % PtrMax \in Ptr
        /\ Dist((wptr[c] + Of(c)) % PtrMax, rp[c]) = Dist(wptr[c], rp[c]) + Of(c)
    BY <2>1, <2>2, <2>4, DistGrows, DepthAssumption
  <2>6. wptr'[c] = (wptr[c] + Of(c)) % PtrMax
    BY <1>1, Zenon
  <2>7. Started(c)' = Started(c) + Of(c)
    BY <1>6, <2>4, StartedNat, SMTT(30) DEF Started
  <2> QED
    BY <2>2, <2>3, <2>4, <2>5, <2>6, <2>7, StartedNat, SMTT(30)
<1>8. CASE ~up
  <2>1. \A c \in Ch : wptr[c] = QMax /\ rp[c] = 0 /\ qrptr[c] = 0
                      /\ queue[c] = << >> /\ callbacks = << >>
    BY <1>8, Zenon DEF AccountsFor
  <2>2. QMax \in Ptr /\ 0 \in Ptr
    BY DepthAssumption DEF Ptr
  <2>3. Dist(QMax, 0) = QMax
    BY <2>2, DistFacts, DepthAssumption, SMTT(30)
  <2>4. \A c \in Ch : Credits(wptr, rp, c) = 0
    BY <2>1, <2>3, CreditsNat, DepthAssumption, SMTT(30)
  <2>5. \A c \in Ch : Of(c) = 0
    BY <1>4, <2>4
  <2>6. QMax % PtrMax = QMax
    BY DepthAssumption, SMTT(30)
  <2>7. \A c \in Ch : wptr'[c] = QMax
    BY <1>1, <2>1, <2>5, <2>6, DepthAssumption, SMTT(30)
  <2>8. S = {}
    <3> SUFFICES ASSUME NEW i \in S PROVE FALSE
      BY Zenon
    <3>1. i \in DOMAIN ts /\ ts[i] \in Item /\ i \in 1 .. i
      BY <1>2, SeqFacts, SMTT(30)
    <3>2. Rank(ts, i) <= Credits(wptr, rp, ts[i].ch)
      BY <3>1 DEF S, Pushed
    <3>3. Credits(wptr, rp, ts[i].ch) = 0
      BY <2>4, <3>1, Zenon DEF Item
    <3>4. Rank(ts, i) \in Nat \ {0}
      BY <3>1, RankFacts, Zenon
    <3> QED
      BY <3>2, <3>3, <3>4
  <2>9. Len(P) = 0
    BY <1>2, <2>8, PickFacts, FS_EmptySet DEF P
  <2>10. P = << >>
    BY <1>3, <2>9, SMTT(30)
  <2>11. callbacks' = << >>
    BY <1>1, <2>1, <2>10, SMTT(30) DEF Ch
  <2>12. wptr' \in [Ch -> Ptr]
    BY <1>1, <2>1, <2>2, <2>5, <2>6, DepthAssumption, SMTT(30)
  <2> QED
    BY <1>1, <1>8, <2>1, <2>7, <2>11, <2>12, Zenon DEF Accounts, AccountsFor
<1> QED
  BY <1>7, <1>8 DEF TypeOK
---------------------------------------------------------------------------
(* The order of the items on their channels.                               *)

\* The fields of an item.
LEMMA ItemFacts ==
  \A t \in Item : t.ch \in Ch /\ t.n \in Nat /\ t.id \in Ids /\ t.left \in Nat
                  /\ t.attr \in Attrs
BY BoundAssumption DEF Item

\* Everything alive is an item.
LEMMA AliveItems ==
  ASSUME TypeOK
  PROVE  /\ Alive \subseteq Item
         /\ Range(callbacks) \subseteq Item /\ Range(transactions) \subseteq Item
         /\ Pend \subseteq Item /\ Fifo \subseteq Item /\ Dev \subseteq Item
         /\ Range(dut.aw) \subseteq Item /\ Range(dut.w) \subseteq Item
<1>1. /\ callbacks \in Seq(Item) /\ transactions \in Seq(Item)
      /\ dut.aw \in Seq(Item) /\ dut.w \in Seq(Item) /\ dut.reads \subseteq Item
      /\ \A c \in Ch : queue[c] \in Seq(Item)
  BY Zenon DEF TypeOK
<1>2. /\ Range(callbacks) \subseteq Item /\ Range(transactions) \subseteq Item
      /\ Range(dut.aw) \subseteq Item /\ Range(dut.w) \subseteq Item
      /\ \A c \in Ch : Range(queue[c]) \subseteq Item
  BY <1>1, SeqFacts, Zenon
<1> QED
  BY <1>1, <1>2, Zenon DEF Alive, Pend, Fifo, Dev

\* The i-th item of a list of increasing numbers that comes before all others
\* has the i-th number.
LEMMA Enumerates ==
  ASSUME NEW s \in Seq(Item), NEW X \in SUBSET Nat, NEW i \in DOMAIN s,
         \A j, k \in DOMAIN s : j < k => s[j].n < s[k].n,
         \A j \in DOMAIN s : s[j].n \in X,
         \A x \in X : \/ \E j \in DOMAIN s : x = s[j].n
                      \/ \A j \in DOMAIN s : s[j].n < x
  PROVE  LET L == {x \in X : x <= s[i].n}
         IN  IsFiniteSet(L) /\ Cardinality(L) = i
<1> DEFINE L == {x \in X : x <= s[i].n}
           f == [j \in 1 .. i |-> s[j].n]
<1>1. DOMAIN s = 1 .. Len(s) /\ Len(s) \in Nat /\ \A j \in DOMAIN s : s[j].n \in Nat
  BY SeqFacts, ItemFacts, Zenon
<1>2. i \in Nat /\ \A j \in 1 .. i : j \in DOMAIN s /\ j <= i
  BY <1>1
<1>3. \A j \in 1 .. i : s[j].n \in L
  <2> SUFFICES ASSUME NEW j \in 1 .. i PROVE s[j].n <= s[i].n
    BY <1>2, Zenon
  <2>1. CASE j = i
    BY <1>1, <2>1, SMTT(30)
  <2>2. CASE j # i
    <3>1. j < i
      BY <1>2, <2>2, SMTT(30)
    <3> QED
      BY <1>1, <1>2, <3>1, SMTT(30)
  <2> QED
    BY <2>1, <2>2, Zenon
<1>4. \A j, k \in 1 .. i : s[j].n = s[k].n => j = k
  <2> SUFFICES ASSUME NEW j \in 1 .. i, NEW k \in 1 .. i, s[j].n = s[k].n
               PROVE  j = k
    BY Zenon
  <2>1. ~(j < k) /\ ~(k < j)
    BY <1>1, <1>2, SMTT(30)
  <2> QED
    BY <1>2, <2>1
<1>5. \A x \in L : \E j \in 1 .. i : s[j].n = x
  <2> SUFFICES ASSUME NEW x \in L PROVE \E j \in 1 .. i : s[j].n = x
    BY Zenon
  <2>1. ~(s[i].n < x) /\ x \in X
    BY <1>1, SMTT(30)
  <2>2. PICK j \in DOMAIN s : x = s[j].n
    BY <2>1, Zenon
  <2>3. ~(i < j)
    BY <2>1, <2>2, Zenon
  <2>4. j \in 1 .. i
    BY <1>1, <1>2, <2>3, SMTT(30)
  <2> QED
    BY <2>2, <2>4
<1>6. IsFiniteSet(1 .. i) /\ Cardinality(1 .. i) = i
  BY <1>2, FS_Interval
<1> HIDE DEF L
<1>7. f \in Bijection(1 .. i, L)
  BY <1>3, <1>4, <1>5, Zenon DEF Bijection, Injection, Surjection, IsInjective
<1>8. IsFiniteSet(L) /\ Cardinality(L) = Cardinality(1 .. i)
  BY <1>6, <1>7, FS_Bijection DEF ExistsBijection
<1> QED
  BY <1>6, <1>8, Zenon DEF L

\* The i-th address and the i-th burst at the device are of one write.
LEMMA SameOrder ==
  ASSUME TypeOK, InLine, Paired
  PROVE  WriteOrder
<1> DEFINE X == {t.n : t \in {s \in Alive : s.ch = "aw"}}
           Y == {t.n : t \in {s \in Alive : s.ch = "w" /\ s.left = 0}}
<1>1. X = Y /\ X \in SUBSET Nat
  BY AliveItems, ItemFacts, Zenon DEF Paired
<1>2. /\ dut.aw \in Seq(Item) /\ dut.w \in Seq(Item)
      /\ Range(dut.aw) \subseteq Dev /\ Range(dut.w) \subseteq Dev
      /\ Dev \subseteq Alive
      /\ \A j \in DOMAIN dut.aw : dut.aw[j] \in Range(dut.aw)
      /\ \A j \in DOMAIN dut.w : dut.w[j] \in Range(dut.w)
  BY ZenonT(40) DEF TypeOK, Dev, Alive, Range
<1>3. /\ \A j \in DOMAIN dut.aw : dut.aw[j].ch = "aw" /\ dut.aw[j].n \in Nat
      /\ \A j \in DOMAIN dut.w : dut.w[j].ch = "w" /\ dut.w[j].left = 0
                                  /\ dut.w[j].n \in Nat
  BY <1>2, AliveItems, ItemFacts, ZenonT(40) DEF TypeOK
<1>4. /\ \A j, k \in DOMAIN dut.aw : j < k => dut.aw[j].n < dut.aw[k].n
      /\ \A j \in DOMAIN dut.aw : dut.aw[j].n \in X
      /\ \A x \in X : \/ \E j \in DOMAIN dut.aw : x = dut.aw[j].n
                      \/ \A j \in DOMAIN dut.aw : dut.aw[j].n < x
  <2>1. \A j, k \in DOMAIN dut.aw : j < k => dut.aw[j].n < dut.aw[k].n
    BY <1>3, SMTT(30) DEF InLine, Ordered, Before
  <2>2. \A j \in DOMAIN dut.aw : dut.aw[j].n \in X
    BY <1>2, <1>3, Zenon
  <2>3. ASSUME NEW t \in Alive, t.ch = "aw"
        PROVE  \/ \E j \in DOMAIN dut.aw : t.n = dut.aw[j].n
               \/ \A j \in DOMAIN dut.aw : dut.aw[j].n < t.n
    <3>1. t \in Range(dut.aw) \/ t \in Fifo \cup Pend
      BY <2>3, Zenon DEF Alive, Dev, TypeOK
    <3>2. CASE t \in Range(dut.aw)
      BY <3>2, Zenon DEF Range
    <3>3. CASE t \in Fifo \cup Pend
      BY <1>2, <1>3, <2>3, <3>3, ZenonT(30) DEF InLine, Ahead, Before
    <3> QED
      BY <3>1, <3>2, <3>3
  <2> QED
    BY <2>1, <2>2, <2>3, Zenon
<1>5. /\ \A j, k \in DOMAIN dut.w : j < k => dut.w[j].n < dut.w[k].n
      /\ \A j \in DOMAIN dut.w : dut.w[j].n \in Y
      /\ \A x \in Y : \/ \E j \in DOMAIN dut.w : x = dut.w[j].n
                      \/ \A j \in DOMAIN dut.w : dut.w[j].n < x
  <2>1. \A j, k \in DOMAIN dut.w : j < k => dut.w[j].n < dut.w[k].n
    BY <1>3, SMTT(30) DEF InLine, Ordered, Before
  <2>2. \A j \in DOMAIN dut.w : dut.w[j].n \in Y
    BY <1>2, <1>3
  <2>3. ASSUME NEW t \in Alive, t.ch = "w", t.left = 0
        PROVE  \/ \E j \in DOMAIN dut.w : t.n = dut.w[j].n
               \/ \A j \in DOMAIN dut.w : dut.w[j].n < t.n
    <3>1. t \in Range(dut.w) \/ t \in Fifo \cup Pend
      BY <2>3, Zenon DEF Alive, Dev, TypeOK
    <3>2. CASE t \in Range(dut.w)
      BY <3>2 DEF Range
    <3>3. CASE t \in Fifo \cup Pend
      BY <1>2, <1>3, <2>3, <3>3, SMTT(30) DEF InLine, Ahead, Before
    <3> QED
      BY <3>1, <3>2, <3>3, Zenon
  <2> QED
    BY <2>1, <2>2, <2>3, Zenon
<1> HIDE DEF X, Y
<1>6. SUFFICES ASSUME NEW i \in DOMAIN dut.aw \cap DOMAIN dut.w
               PROVE  dut.aw[i].n = dut.w[i].n
  BY Zenon DEF WriteOrder
<1> DEFINE a == dut.aw[i].n
           b == dut.w[i].n
           A == {x \in X : x <= a}
           W == {x \in X : x <= b}
<1>7. IsFiniteSet(A) /\ Cardinality(A) = i
  BY <1>1, <1>2, <1>4, <1>6, Enumerates, ZenonT(30)
<1>8. IsFiniteSet(W) /\ Cardinality(W) = i
  BY <1>1, <1>2, <1>5, <1>6, Enumerates, Zenon
<1>9. a \in X /\ b \in X /\ a \in Nat /\ b \in Nat
  BY <1>1, <1>3, <1>4, <1>5, <1>6
<1> HIDE DEF a, b
<1>10. ~(a < b)
  <2> SUFFICES ASSUME a < b PROVE FALSE
    OBVIOUS
  <2>1. \A x \in X : x \in Nat /\ (x <= a => x <= b)
    BY <1>1, <1>9, SMTT(30)
  <2>2. A \in SUBSET W
    BY <2>1
  <2>3. b \in W /\ b \notin A
    BY <1>9, SMTT(30)
  <2> HIDE DEF A, W
  <2> QED
    BY <1>7, <1>8, <2>2, <2>3, FS_Subset, Zenon
<1>11. ~(b < a)
  <2> SUFFICES ASSUME b < a PROVE FALSE
    OBVIOUS
  <2>1. \A x \in X : x \in Nat /\ (x <= b => x <= a)
    BY <1>1, <1>9
  <2>2. W \in SUBSET A
    BY <2>1, Zenon
  <2>3. a \in A /\ a \notin W
    BY <1>9
  <2> HIDE DEF A, W
  <2> QED
    BY <1>7, <1>8, <2>2, <2>3, FS_Subset, Zenon
<1> QED
  BY <1>9, <1>10, <1>11 DEF a, b
---------------------------------------------------------------------------
(* What a step does to the items that are alive.                           *)

\* Nothing that the invariant is about disappears in a step that is Kept.
LEMMA AliveKept ==
  ASSUME Owners, Paired, Gathered, UNCHANGED <<ids, attr, n, read_data>>, Kept
  PROVE  Owners' /\ Paired' /\ Gathered'
<1>1. Owners'
  BY Zenon DEF Owners, Kept
<1>2. Gathered'
  BY DEF Gathered, Kept
<1>3. /\ {s \in Alive : s.ch = "aw"} = {s \in Alive' : s.ch = "aw"}
      /\ {s \in Alive : s.ch = "w" /\ s.left = 0} = {s \in Alive' : s.ch = "w" /\ s.left = 0}
  BY DEF Kept
<1>4. Paired'
  BY <1>3, Zenon DEF Paired
<1> QED
  BY <1>1, <1>2, <1>4

\* All items of one request disappear; its id may then become free.
LEMMA Retire ==
  ASSUME TypeOK, Owners, Paired, Gathered, NEW t \in Alive,
         Alive' = {s \in Alive : s.n # t.n},
         UNCHANGED <<attr, n>>,
         \/ UNCHANGED <<ids, read_data>>
         \/ ids' = ids \cup {t.id} /\ UNCHANGED read_data /\ t.ch # "ar"
         \/ ids' = ids \cup {t.id} /\ read_data' = [read_data EXCEPT ![t.id] = << >>]
  PROVE  Owners' /\ Paired' /\ Gathered'
<1>1. \A s \in Alive' : s \in Alive /\ s.n # t.n /\ s.id # t.id
  BY DEF Owners
<1>2. Owners'
  BY <1>1 DEF Owners
<1> DEFINE A(S) == {u.n : u \in {s \in S : s.ch = "aw"}}
           W(S) == {u.n : u \in {s \in S : s.ch = "w" /\ s.left = 0}}
<1>3. A(Alive') = A(Alive) \ {t.n} /\ W(Alive') = W(Alive) \ {t.n}
  OBVIOUS
<1>4. A(Alive) = W(Alive)
  BY Zenon DEF Paired
<1>5. Paired'
  BY <1>3, <1>4, ZenonT(40) DEF Paired
<1>6. read_data \in [Ids -> Seq(Nat)] /\ t.id \in Ids
  BY AliveItems, ItemFacts, Zenon DEF TypeOK
<1>7. t.ch # "ar" => read_data[t.id] = << >>
  BY <1>6 DEF Gathered
<1>8. \A i \in Ids : read_data'[i] # << >> =>
        /\ read_data'[i] = read_data[i]
        /\ i # t.id \/ ids' = ids
  BY <1>6, <1>7
<1>9. \A i \in Ids : i # t.id => (i \in ids' <=> i \in ids)
  BY Zenon
<1>10. Gathered'
  BY <1>1, <1>8, <1>9, SMTT(30) DEF Gathered
<1> QED
  BY <1>2, <1>5, <1>10, Zenon

\* A read that gets a beat goes on with one fewer.
LEMMA Advance ==
  ASSUME TypeOK, Owners, Paired, Gathered, NEW t \in Alive, t.ch = "ar",
         NEW u \in Item, u.ch = "ar" /\ u.n = t.n /\ u.id = t.id /\ u.attr = t.attr,
         u.left # 0, \A s \in Alive : s.n = t.n => s = t,
         Alive' = {s \in Alive : s.n # t.n} \cup {u},
         UNCHANGED <<attr, n, ids>>,
         \/ UNCHANGED read_data
         \/ read_data' = [read_data EXCEPT ![t.id] = Append(@, t.n)]
  PROVE  Owners' /\ Paired' /\ Gathered'
<1>1. \A s \in Alive' : s = u \/ (s \in Alive /\ s.n # t.n /\ s.id # t.id)
  BY Zenon DEF Owners
<1>2. Owners'
  BY <1>1 DEF Owners
<1>3. /\ {s \in Alive : s.ch = "aw"} = {s \in Alive' : s.ch = "aw"}
      /\ {s \in Alive : s.ch = "w" /\ s.left = 0} = {s \in Alive' : s.ch = "w" /\ s.left = 0}
  BY ZenonT(40)
<1>4. Paired'
  BY <1>3, ZenonT(40) DEF Paired
<1>5. read_data \in [Ids -> Seq(Nat)] /\ t.id \in Ids /\ t.n \in Nat /\ t.id \notin ids
  BY AliveItems, ItemFacts, ZenonT(40) DEF TypeOK, Owners
<1>6. \A k \in DOMAIN read_data'[t.id] : read_data'[t.id][k] = t.n
  <2>1. \A k \in DOMAIN read_data[t.id] : read_data[t.id][k] = t.n
    BY <1>5, SMTT(30) DEF Gathered
  <2>2. CASE UNCHANGED read_data
    BY <2>1, <2>2
  <2>3. CASE read_data' = [read_data EXCEPT ![t.id] = Append(@, t.n)]
    BY <1>5, <2>1, <2>3
  <2> QED
    BY <2>2, <2>3
<1>7. \A i \in Ids : i # t.id => read_data'[i] = read_data[i]
  BY <1>5, Zenon
<1>8. Gathered'
  BY <1>1, <1>5, <1>6, <1>7, SMTT(30) DEF Gathered
<1> QED
  BY <1>2, <1>4, <1>8

\* A request is added under a number and an id of its own.
LEMMA Enter ==
  ASSUME TypeOK, Owners, Paired, Gathered, NEW id \in ids, NEW a \in Attrs,
         NEW New \in SUBSET Item, Alive' = Alive \cup New,
         \A s \in New : s.n = n + 1 /\ s.id = id /\ s.attr = a /\ (s.ch = "ar" => s.left # 0),
         \A s, t \in New : s.ch = "ar" <=> t.ch = "ar",
         (\E s \in New : s.ch = "aw") <=> (\E s \in New : s.ch = "w" /\ s.left = 0),
         n' = n + 1, Claim(id, a), UNCHANGED read_data
  PROVE  Owners' /\ Paired' /\ Gathered'
<1>1. /\ \A s \in Alive : s.n \in Nat /\ s.n <= n /\ s.n # n + 1 /\ s.id # id /\ s.id \in Ids
      /\ n \in Nat
  BY AliveItems, ItemFacts, SMTT(30) DEF TypeOK, Owners
<1>2. /\ attr'[id] = a /\ \A i \in Ids : i # id => attr'[i] = attr[i]
      /\ ids' = ids \ {id}
  BY DEF TypeOK, Claim
<1>3. \A s \in Alive' : /\ s.n <= n' /\ s.id \notin ids' /\ s.attr = attr'[s.id]
                        /\ s.ch = "ar" => s.left # 0
  BY <1>1, <1>2, SMTT(30) DEF Owners
<1>4. \A s, t \in Alive' : /\ s.id = t.id <=> s.n = t.n
                           /\ s.n = t.n => (s.ch = "ar" <=> t.ch = "ar")
  BY <1>1, SMTT(30) DEF Owners
<1>5. Owners'
  BY <1>3, <1>4, Zenon DEF Owners
<1>6. Paired'
  <2> DEFINE A(S) == {t.n : t \in {s \in S : s.ch = "aw"}}
             W(S) == {t.n : t \in {s \in S : s.ch = "w" /\ s.left = 0}}
  <2>1. A(Alive') = A(Alive) \cup A(New) /\ W(Alive') = W(Alive) \cup W(New)
    OBVIOUS
  <2>2. A(New) = W(New)
    OBVIOUS
  <2> QED
    BY <2>1, <2>2, Zenon DEF Paired
<1>7. \A i \in Ids : read_data'[i] # << >> => i # id /\ i \notin ids
  BY Zenon DEF Gathered
<1>8. Gathered'
  BY <1>2, <1>7, ZenonT(30) DEF Gathered
<1> QED
  BY <1>5, <1>6, <1>8
===========================================================================
