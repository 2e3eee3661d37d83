------------------------- MODULE MmrRouterProofs --------------------------
(***************************************************************************)
(* The MMR router on top of the AXI master that it shares with other       *)
(* clients.  Every step of the composition is a step of the master or      *)
(* leaves it alone, so the master's invariant is kept; on top of it stands *)
(* what each coroutine knows about the transaction it waits for.           *)
(***************************************************************************)
EXTENDS MmrRouter, AxiMstProofs
\* The channel on which a transaction of coroutine k is answered for.
Chan(k) == IF k = "read" THEN "ar" ELSE "aw"

Asked(k) ==
  /\ \E t \in Alive : t.ch = Chan(k) /\ t.n = mine[k].n /\ t.id = mine[k].id
  /\ \A i \in DOMAIN channel[k] : channel[k][i].id # mine[k].id

Answered(k) ==
  \E i \in DOMAIN channel[k] :
    /\ channel[k][i].id = mine[k].id /\ channel[k][i].n = mine[k].n
    /\ \A j \in 1 .. i - 1 : channel[k][j].id # mine[k].id

Dropped(k) ==
  /\ error /\ mine[k].id \notin ids
  /\ \A t \in Alive : t.id # mine[k].id
  /\ \A i \in DOMAIN channel[k] : channel[k][i].id # mine[k].id

\* What coroutine k knows about the transaction it waits for.
Watch(k) == Asked(k) \/ Answered(k) \/ Dropped(k)

Knows(k) ==
  /\ mine[k].n <= n
  /\ \A m \in taken[k] : m <= mine[k].n
  /\ IF pc[k] = "wait"
     THEN (\A m \in taken[k] : m < mine[k].n) /\ Watch(k)
     ELSE taken[k] # {} => mine[k].n \in taken[k]

RTypeOK ==
  /\ pc \in [Kinds -> {"idle", "issue", "wait"}]
  /\ mine \in [Kinds -> [id : Ids \cup {None}, n : Nat]]
  /\ channel \in [Kinds -> Seq([id : Ids, n : Nat, resp : Resp])]
  /\ taken \in [Kinds -> SUBSET Nat]

RInv == IInv /\ RTypeOK /\ \A k \in Kinds : Knows(k)
---------------------------------------------------------------------------
\* At first nobody waits.
LEMMA RInitRInv == RInit => RInv
<1> SUFFICES ASSUME RInit PROVE RInv
  OBVIOUS
<1>1. IInv
  BY InitIInv DEF RInit
<1>2. RTypeOK
  BY DEF RInit, RTypeOK
<1>3. n = 0 /\ \A k \in Kinds : mine[k].n = 0 /\ taken[k] = {} /\ pc[k] = "idle"
  BY DEF RInit, Init
<1> QED
  BY <1>1, <1>2, <1>3 DEF RInv, Knows

\* Steps that keep the requests that are under way keep what the coroutines
\* know.
LEMMA WatchKept ==
  ASSUME NEW k \in Kinds, Kept, Watch(k),
         UNCHANGED <<mine[k], channel[k], ids, error>>
  PROVE  Watch(k)'
<1>1. Chan(k) # "w"
  BY Zenon DEF Chan
<1>2. CASE Asked(k)
  BY <1>1, <1>2 DEF Watch, Asked, Kept
<1>3. CASE Answered(k)
  BY <1>3, Zenon DEF Watch, Answered
<1>4. CASE Dropped(k)
  BY <1>4 DEF Watch, Dropped, Kept
<1> QED
  BY <1>2, <1>3, <1>4, Zenon DEF Watch

\* A request of somebody else changes nothing that k knows.
LEMMA WatchAsk ==
  ASSUME NEW k \in Kinds, NEW id \in ids, NEW c, Adds(c, id), Watch(k),
         UNCHANGED <<mine[k], channel[k], error>>, ids' \subseteq ids
  PROVE  Watch(k)'
<1>1. CASE Asked(k)
  BY <1>1, Zenon DEF Watch, Asked, Adds
<1>2. CASE Answered(k)
  BY <1>2 DEF Watch, Answered
<1>3. CASE Dropped(k)
  BY <1>3 DEF Watch, Dropped, Adds
<1> QED
  BY <1>1, <1>2, <1>3 DEF Watch

Kind(t) == IF t.ch = "ar" THEN "read" ELSE "write"

\* What the transactor publishes are responses of the right type.
LEMMA Published ==
  ASSUME RTypeOK, NEW t \in Item, NEW resp \in Resp, UNCHANGED <<pc, mine, taken>>,
         channel' = IF Bad(t.id, resp) THEN channel
                    ELSE [channel EXCEPT ![Kind(t)] =
                            Append(@, [id |-> t.id, n |-> t.n, resp |-> resp])]
  PROVE  RTypeOK'
<1> DEFINE x == [id |-> t.id, n |-> t.n, resp |-> resp]
           X == [id : Ids, n : Nat, resp : Resp]
<1>1. x \in X /\ Kind(t) \in Kinds
  BY ItemFacts DEF Kind, Kinds
<1> HIDE DEF x, X
<1>2. channel \in [Kinds -> Seq(X)]
  BY Zenon DEF RTypeOK, X
<1>3. Append(channel[Kind(t)], x) \in Seq(X)
  BY <1>1, <1>2, AppendAt
<1>4. channel' \in [Kinds -> Seq(X)]
  BY <1>1, <1>2, <1>3, Zenon DEF x
<1> QED
  BY <1>4, Zenon DEF RTypeOK, X

\* The last response of request t.
LEMMA WatchLast ==
  ASSUME NEW k \in Kinds, RInv, Watch(k), NEW t \in Alive, NEW resp \in Resp,
         Alive' = {s \in Alive : s.n # t.n},
         channel' = IF Bad(t.id, resp) THEN channel
                    ELSE [channel EXCEPT ![Kind(t)] =
                            Append(@, [id |-> t.id, n |-> t.n, resp |-> resp])],
         Bad(t.id, resp) => error' /\ ids' = ids,
         error => error', ids' \subseteq ids \cup {t.id}, mine' = mine
  PROVE  Watch(k)'
<1> DEFINE x == [id |-> t.id, n |-> t.n, resp |-> resp]
           ch == channel[k]
<1>1. IInv /\ Owners /\ TypeOK /\ t.id \in Ids /\ t.n \in Nat /\ t.id \notin ids
  BY AliveItems, ItemFacts, Zenon DEF RInv, IInv, Owners
<1>2. /\ channel \in [Kinds -> Seq([id : Ids, n : Nat, resp : Resp])]
      /\ ch \in Seq([id : Ids, n : Nat, resp : Resp])
      /\ x \in [id : Ids, n : Nat, resp : Resp] /\ x.id = t.id /\ x.n = t.n
  BY <1>1, Zenon DEF RInv, RTypeOK
<1>3. /\ Bad(t.id, resp) \/ k # Kind(t) => channel'[k] = ch
      /\ ~Bad(t.id, resp) /\ k = Kind(t) => channel'[k] = Append(ch, x)
  BY <1>2 DEF Kind, Kinds
<1> DEFINE Extends(d) ==
             /\ DOMAIN ch \subseteq DOMAIN d /\ \A i \in DOMAIN ch : d[i] = ch[i]
             /\ \A i \in DOMAIN d : i \in DOMAIN ch \/ d[i].id = t.id
<1> HIDE DEF ch, x
<1>4. Extends(channel'[k])
  <2>1. Extends(ch)
    BY Zenon
  <2>2. Extends(Append(ch, x))
    BY <1>2, SMTT(30)
  <2> QED
    BY <1>3, <2>1, <2>2, Zenon
<1>5. CASE Asked(k)
  <2>1. PICK s \in Alive : s.ch = Chan(k) /\ s.n = mine[k].n /\ s.id = mine[k].id
    BY <1>5, Zenon DEF Asked
  <2>2. \A i \in DOMAIN ch : ch[i].id # mine[k].id
    BY <1>5, Zenon DEF Asked, ch
  <2>3. CASE s.n = t.n /\ Bad(t.id, resp)
    <3>1. t.id = mine[k].id
      BY <1>1, <2>1, <2>3, Zenon DEF Owners
    <3>2. \A y \in Alive' : y.id # t.id
      BY <1>1, Zenon DEF Owners
    <3> QED
      BY <1>1, <1>3, <2>2, <2>3, <3>1, <3>2, ZenonT(40) DEF Watch, Dropped
  <2>4. CASE s.n = t.n /\ ~Bad(t.id, resp)
    <3>1. t.id = mine[k].id /\ k = Kind(t)
      BY <1>1, <2>1, <2>4, ZenonT(40) DEF Owners, Kind, Chan, Kinds
    <3>2. channel'[k] = Append(ch, x)
      BY <1>3, <2>4, <3>1, Zenon
    <3> DEFINE q == Len(ch) + 1
    <3>3. /\ q \in DOMAIN Append(ch, x) /\ Append(ch, x)[q] = x
          /\ \A j \in 1 .. q - 1 : j \in DOMAIN ch /\ Append(ch, x)[j] = ch[j]
      BY <1>2, SMTT(30)
    <3> HIDE DEF q
    <3>4. /\ q \in DOMAIN channel'[k]
          /\ channel'[k][q].id = mine[k].id /\ channel'[k][q].n = mine[k].n
          /\ \A j \in 1 .. q - 1 : channel'[k][j].id # mine[k].id
      BY <1>2, <2>1, <2>2, <2>4, <3>1, <3>2, <3>3, ZenonT(40)
    <3> QED
      BY <3>4, Zenon DEF Watch, Answered
  <2>5. CASE s.n # t.n
    <3>1. s \in Alive' /\ t.id # mine[k].id
      BY <1>1, <2>1, <2>5, ZenonT(40) DEF Owners
    <3> QED
      BY <1>4, <2>1, <2>2, <3>1, Zenon DEF Watch, Asked
  <2> QED
    BY <2>3, <2>4, <2>5
<1>6. CASE Answered(k)
  <2>1. PICK i \in DOMAIN ch : /\ ch[i].id = mine[k].id /\ ch[i].n = mine[k].n
                               /\ \A j \in 1 .. i - 1 : ch[j].id # mine[k].id
    BY <1>6, Zenon DEF Answered, ch
  <2>2. \A j \in 1 .. i - 1 : j \in DOMAIN ch
    BY <1>2, SMTT(30)
  <2>3. /\ i \in DOMAIN channel'[k] /\ channel'[k][i] = ch[i]
        /\ \A j \in 1 .. i - 1 : channel'[k][j] = ch[j]
    BY <1>4, <2>2
  <2> QED
    BY <2>1, <2>3, ZenonT(30) DEF Watch, Answered
<1>7. CASE Dropped(k)
  <2>1. t.id # mine[k].id /\ \A i \in DOMAIN ch : ch[i].id # mine[k].id
    BY <1>7 DEF Dropped, ch
  <2> QED
    BY <1>4, <1>7, <2>1, Zenon DEF Watch, Dropped
<1> QED
  BY <1>5, <1>6, <1>7 DEF Watch

\* A response that leaves the read t going.
LEMMA WatchMore ==
  ASSUME NEW k \in Kinds, Watch(k), NEW t \in Alive, NEW u,
         Alive' = {s \in Alive : s.n # t.n} \cup {u},
         u.ch = t.ch /\ u.n = t.n /\ u.id = t.id, \A s \in Alive : s.n = t.n => s = t,
         error => error', UNCHANGED <<ids, mine, channel>>
  PROVE  Watch(k)'
<1>1. CASE Asked(k)
  BY <1>1, Zenon DEF Watch, Asked
<1>2. CASE Answered(k)
  BY <1>2, Zenon DEF Watch, Answered
<1>3. CASE Dropped(k)
  BY <1>3, Zenon DEF Watch, Dropped
<1> QED
  BY <1>1, <1>2, <1>3, Zenon DEF Watch

\* A response of the device, published unless it was dropped.
LEMMA RespondStep ==
  ASSUME RInv, Respond
  PROVE  RInv'
<1>1. IInv /\ RTypeOK /\ TypeOK /\ InLine /\ Owners
  BY Zenon DEF RInv, IInv
<1>2. UNCHANGED <<pc, mine, taken>>
  BY ZenonT(40) DEF Respond
<1>3. ASSUME NEW i \in 1 .. Len(dut.aw), NEW r \in Resp, B(i, r),
             Publish("write", dut.aw[i].id, dut.aw[i].n, r)
      PROVE  IInv' /\ n' = n /\ (\A k \in Kinds : Watch(k) => Watch(k)') /\ RTypeOK'
  <2> DEFINE t == dut.aw[i]
  <2>1. IInv' /\ Alive' = {s \in Alive : s.n # t.n}
    BY <1>1, <1>3, BStep
  <2>2. t \in Alive /\ t.ch = "aw"
    BY <1>1, SMTT(30) DEF TypeOK, Alive, Dev, Range
  <2>3. /\ n' = n /\ (error => error') /\ ids' \subseteq ids \cup {t.id}
        /\ Bad(t.id, r) => error' /\ ids' = ids
    BY <1>3 DEF B, cpp
  <2> HIDE DEF t
  <2>4. channel' = IF Bad(t.id, r) THEN channel
                   ELSE [channel EXCEPT ![Kind(t)] =
                           Append(@, [id |-> t.id, n |-> t.n, resp |-> r])]
    BY <1>3, <2>2 DEF Publish, Kind, t
  <2>5. \A k \in Kinds : Watch(k) => Watch(k)'
    BY <1>2, <2>1, <2>2, <2>3, <2>4, WatchLast, ZenonT(40)
  <2>6. RTypeOK'
    BY <1>1, <1>2, <2>2, <2>4, AliveItems, Published
  <2> QED
    BY <2>1, <2>3, <2>5, <2>6, Zenon
<1>4. ASSUME NEW t \in dut.reads, NEW r \in Resp, R(t, r),
             IF t.left = 1 THEN Publish("read", t.id, t.n, r) ELSE UNCHANGED channel
      PROVE  IInv' /\ n' = n /\ (\A k \in Kinds : Watch(k) => Watch(k)') /\ RTypeOK'
  <2> DEFINE u == [t EXCEPT !.left = @ - 1]
  <2>1. /\ IInv'
        /\ Alive' = {s \in Alive : s.n # t.n} \cup (IF t.left = 1 THEN {} ELSE {u})
    BY <1>1, <1>4, RStep
  <2>2. t \in Alive /\ t.ch = "ar" /\ t \in Item
    BY <1>1 DEF TypeOK, Alive, Dev
  <2>3. /\ n' = n /\ (error => error')
        /\ ids' \subseteq ids \cup {t.id} /\ (t.left # 1 => ids' = ids)
        /\ Bad(t.id, r) => error' /\ ids' = ids
    BY <1>4, ZenonT(40) DEF R, cpp, Collect
  <2>4. CASE t.left = 1
    <3>1. channel' = IF Bad(t.id, r) THEN channel
                     ELSE [channel EXCEPT ![Kind(t)] =
                             Append(@, [id |-> t.id, n |-> t.n, resp |-> r])]
      BY <1>4, <2>2, <2>4, Zenon DEF Publish, Kind
    <3>2. Alive' = {s \in Alive : s.n # t.n}
      BY <2>1, <2>4, ZenonT(30)
    <3>3. \A k \in Kinds : Watch(k) => Watch(k)'
      BY <1>2, <2>2, <2>3, <3>1, <3>2, WatchLast, Zenon
    <3>4. RTypeOK'
      BY <1>1, <1>2, <2>2, <3>1, Published, Zenon
    <3> QED
      BY <2>1, <2>3, <3>3, <3>4, Zenon
  <2>5. CASE t.left # 1
    <3>1. Alive' = {s \in Alive : s.n # t.n} \cup {u} /\ channel' = channel
      BY <1>4, <2>1, <2>5, Zenon
    <3>2. u.ch = t.ch /\ u.n = t.n /\ u.id = t.id
      BY <2>2, Zenon DEF Item
    <3>3. \A s \in Alive : s.n = t.n => s = t
      BY <1>1, <1>4, OneRead, ZenonT(40)
    <3>4. \A k \in Kinds : Watch(k) => Watch(k)'
      BY <1>2, <2>2, <2>3, <2>5, <3>1, <3>2, <3>3, WatchMore, Zenon
    <3>5. RTypeOK'
      BY <1>1, <1>2, <3>1, Zenon DEF RTypeOK
    <3> QED
      BY <2>1, <2>3, <3>4, <3>5
  <2> QED
    BY <2>4, <2>5, Zenon
<1>5. IInv' /\ n' = n /\ (\A k \in Kinds : Watch(k) => Watch(k)') /\ RTypeOK'
  BY <1>3, <1>4 DEF Respond
<1> QED
  BY <1>2, <1>5, Zenon DEF RInv, Knows

\* A step of a coroutine: start, issue and drain, give up, or take a response.
LEMMA RouterStep ==
  ASSUME RInv, NEW k \in Kinds, Router(k)
  PROVE  RInv'
<1>1. IInv /\ RTypeOK /\ \A j \in Kinds : Knows(j)
  BY Zenon DEF RInv
<1>2. /\ pc \in [Kinds -> {"idle", "issue", "wait"}]
      /\ mine \in [Kinds -> [id : Ids \cup {None}, n : Nat]]
      /\ channel \in [Kinds -> Seq([id : Ids, n : Nat, resp : Resp])]
      /\ taken \in [Kinds -> SUBSET Nat]
  BY <1>1, Zenon DEF RTypeOK
<1>3. ASSUME UNCHANGED vars
      PROVE  /\ IInv' /\ n' = n
             /\ \A j \in Kinds : UNCHANGED <<mine[j], channel[j]>> => (Watch(j) => Watch(j)')
  <2>1. IInv'
    BY <1>1, <1>3, NextIInv, Zenon
  <2>2. UNCHANGED <<Alive, ids, error, n>>
    BY <1>3 DEF vars, cpp, sv, results, Alive, Pend, Fifo, Dev
  <2> QED
    BY <2>1, <2>2 DEF Watch, Asked, Answered, Dropped
<1>4. ASSUME NEW p \in 1 .. MaxParts, Start(k, p) PROVE RInv'
  <2>1. RTypeOK'
    BY <1>2, <1>4, ZenonT(40) DEF Start, RTypeOK
  <2>2. \A j \in Kinds : Knows(j)'
    BY <1>1, <1>2, <1>3, <1>4, Zenon DEF Start, Knows
  <2> QED
    BY <1>3, <1>4, <2>1, <2>2 DEF RInv, Start
<1>5. CASE NoId(k)
  <2>1. RTypeOK'
    BY <1>2, <1>5, ZenonT(40) DEF NoId, Finish, RTypeOK
  <2>2. \A j \in Kinds : Knows(j)'
    BY <1>1, <1>2, <1>3, <1>5, Zenon DEF NoId, Finish, Knows
  <2> QED
    BY <1>3, <1>5, <2>1, <2>2 DEF RInv, NoId
<1>6. CASE Take(k)
  <2> DEFINE Match == {i \in DOMAIN channel[k] : channel[k][i].id = mine[k].id}
             i == CHOOSE j \in Match : \A m \in Match : j <= m
             r == channel[k][i]
  <2>1. /\ pc[k] = "wait" /\ Match # {}
        /\ channel' = [channel EXCEPT ![k] = Without(@, i)]
        /\ taken' = [taken EXCEPT ![k] = @ \cup {r.n}]
        /\ pc' = [pc EXCEPT ![k] = "issue"] \/ pc' = [pc EXCEPT ![k] = "idle"]
        /\ UNCHANGED <<vars, mine>>
    BY <1>6, ZenonT(40) DEF Take, Finish
  <2>2. Answered(k)
    BY <1>1, <2>1 DEF Knows, Watch, Asked, Dropped
  <2>3. r.n = mine[k].n
    <3>1. PICK a \in DOMAIN channel[k] :
             /\ channel[k][a].id = mine[k].id /\ channel[k][a].n = mine[k].n
             /\ \A j \in 1 .. a - 1 : channel[k][j].id # mine[k].id
      BY <2>2, Zenon DEF Answered
    <3>2. DOMAIN channel[k] \subseteq Nat \ {0}
      BY <1>2, SMTT(30)
    <3>3. a \in Match /\ \A m \in Match : a <= m
      BY <3>1, <3>2
    <3>4. i \in Match /\ \A m \in Match : i <= m
      BY <3>3, ZenonT(40)
    <3>5. i = a
      BY <3>2, <3>3, <3>4, SMTT(30)
    <3> QED
      BY <3>1, <3>5, Zenon
  <2> HIDE DEF r, i, Match
  <2>4. RTypeOK'
    <3>1. Without(channel[k], i) \in Seq([id : Ids, n : Nat, resp : Resp])
      BY <1>2, WithoutFacts, Zenon
    <3>2. mine[k].n \in Nat
      BY <1>2
    <3> QED
      BY <1>2, <2>1, <2>3, <3>1, <3>2, ZenonT(40) DEF RTypeOK
  <2>5. \A j \in Kinds : Knows(j)'
    <3> SUFFICES ASSUME NEW j \in Kinds PROVE Knows(j)'
      BY ZenonT(40)
    <3>1. CASE j = k
      <4>1. pc'[k] # "wait" /\ taken'[k] = taken[k] \cup {mine[k].n}
        BY <1>2, <2>1, <2>3, ZenonT(40)
      <4>2. mine[k].n \in Nat
        BY <1>2, Zenon
      <4> QED
        BY <1>1, <1>3, <2>1, <3>1, <4>1, <4>2, SMTT(30) DEF Knows
    <3>2. CASE j # k
      <4>1. UNCHANGED <<pc[j], mine[j], channel[j], taken[j]>>
        BY <1>2, <2>1, <3>2, ZenonT(40)
      <4> QED
        BY <1>1, <1>3, <2>1, <4>1, Zenon DEF Knows
    <3> QED
      BY <3>1, <3>2, Zenon
  <2> QED
    BY <1>3, <2>1, <2>4, <2>5 DEF RInv
<1>7. ASSUME NEW id \in Ids, NEW a \in Attrs, Issue(k, id, a) PROVE RInv'
  <2>1. IInv' /\ Adds(Chan(k), id)
    <3>1. 1 \in 1 .. MaxBeats
      BY BoundAssumption, SMTT(30)
    <3>2. CASE k = "read"
      BY <1>1, <1>7, <3>1, <3>2, ReadStep, Zenon DEF Issue, Chan
    <3>3. CASE k # "read"
      BY <1>1, <1>7, <3>1, <3>3, WriteStep DEF Issue, Chan
    <3> QED
      BY <3>2, <3>3
  <2>2. id \in ids /\ ids' \subseteq ids /\ n' = n + 1 /\ error' = error /\ n \in Nat
    BY <1>1, <1>7, ZenonT(40) DEF Issue, Read, Write, Claim, next_id, results, IInv, TypeOK
  <2>3. /\ mine' = [mine EXCEPT ![k] = [id |-> id, n |-> n + 1]]
        /\ pc' = [pc EXCEPT ![k] = "wait"]
        /\ channel' = [channel EXCEPT ![k] = << >>]
        /\ taken' = taken
    BY <1>7, <2>2, Zenon DEF Issue, Drain
  <2>4. RTypeOK'
    <3>1. [id |-> id, n |-> n + 1] \in [id : Ids \cup {None}, n : Nat]
      BY <2>2, SMTT(30)
    <3>2. << >> \in Seq([id : Ids, n : Nat, resp : Resp])
      BY SMTT(30)
    <3> QED
      BY <1>2, <2>3, <3>1, <3>2, Zenon DEF RTypeOK
  <2>5. Knows(k)'
    <3>1. /\ mine'[k].id = id /\ mine'[k].n = n + 1 /\ pc'[k] = "wait"
          /\ DOMAIN channel'[k] = {}
      BY <1>2, <2>3, SMTT(30)
    <3>2. Asked(k)'
      BY <2>1, <3>1, Zenon DEF Asked, Adds, Chan
    <3>3. \A m \in taken[k] : m < n + 1
      <4>1. mine[k].n \in Nat /\ mine[k].n <= n /\ \A m \in taken[k] : m \in Nat /\ m <= mine[k].n
        BY <1>1, <1>2, ZenonT(40) DEF Knows
      <4> QED
        BY <2>2, <4>1
    <3> QED
      BY <1>2, <2>2, <2>3, <3>1, <3>2, <3>3, SMTT(30) DEF Knows, Watch
  <2>6. ASSUME NEW j \in Kinds, j # k PROVE Knows(j)'
    <3>1. UNCHANGED <<pc[j], mine[j], channel[j], taken[j]>>
      BY <1>2, <2>3, <2>6
    <3>2. Watch(j) => Watch(j)'
      BY <2>1, <2>2, <3>1, WatchAsk, Zenon
    <3>3. mine[j].n <= n => mine[j].n <= n'
      BY <1>2, <2>2
    <3> QED
      BY <1>1, <3>1, <3>2, <3>3, Zenon DEF Knows
  <2> QED
    BY <2>1, <2>4, <2>5, <2>6, Zenon DEF RInv
<1> QED
  BY <1>4, <1>5, <1>6, <1>7 DEF Router

\* Steps of the others, of the hardware, and none.
LEMMA BesideStep ==
  ASSUME RInv, UNCHANGED rvars, IInv', n' \in Nat, n <= n',
         \A k \in Kinds : Watch(k) => Watch(k)'
  PROVE  RInv'
<1>1. UNCHANGED <<pc, mine, channel, taken>>
  BY Zenon DEF rvars
<1>2. RTypeOK'
  BY <1>1, Zenon DEF RInv, RTypeOK
<1>3. \A k \in Kinds : mine[k].n \in Nat /\ n \in Nat
  BY DEF RInv, RTypeOK, IInv, TypeOK
<1>4. \A k \in Kinds : mine[k].n <= n => mine[k].n <= n'
  BY <1>3, SMTT(30)
<1>5. \A k \in Kinds : Knows(k)'
  BY <1>1, <1>4, Zenon DEF RInv, Knows
<1> QED
  BY <1>2, <1>5 DEF RInv

\* The invariant of the composition is inductive.
LEMMA RNextRInv ==
  ASSUME RInv, [RNext]_allvars
  PROVE  RInv'
<1>1. IInv /\ n \in Nat
  BY Zenon DEF RInv, IInv, TypeOK
<1>2. ASSUME NEW k \in Kinds, Router(k) PROVE RInv'
  BY <1>2, RouterStep, Zenon
<1>3. CASE Respond
  BY <1>3, RespondStep, Zenon
<1>4. CASE Others
  <2>1. PICK id \in Ids, a \in Attrs, b \in 1 .. MaxBeats : Read(id, a, b) \/ Write(id, a, b)
    BY <1>4, Zenon DEF Others, Ask
  <2>2. IInv' /\ (Adds("ar", id) \/ Adds("aw", id))
    BY <1>1, <2>1, ReadStep, WriteStep, Zenon
  <2>3. id \in ids /\ ids' \subseteq ids /\ n' = n + 1 /\ error' = error
    BY <2>1, Zenon DEF Read, Write, Claim, next_id, results
  <2>4. UNCHANGED rvars /\ UNCHANGED <<mine, channel>>
    BY <1>4, Zenon DEF Others, rvars
  <2>5. \A k \in Kinds : Watch(k) => Watch(k)'
    BY <2>2, <2>3, <2>4, WatchAsk, Zenon
  <2> QED
    BY <1>1, <2>2, <2>3, <2>4, <2>5, BesideStep, SMTT(30)
<1>5. CASE (Reset \/ Hardware) /\ UNCHANGED rvars
  <2>1. IInv' /\ Kept
    BY <1>1, <1>5, ResetStep, FlushStep, AcceptStep, QPtrStep, Zenon DEF Hardware
  <2>2. UNCHANGED <<ids, error, n, mine, channel>>
    BY <1>5, ZenonT(40) DEF Reset, Hardware, Flush, Accept, QPtr, cpp, results, rvars
  <2>3. \A k \in Kinds : Watch(k) => Watch(k)'
    BY <2>1, <2>2, WatchKept, Zenon
  <2> QED
    BY <1>1, <1>5, <2>1, <2>2, <2>3, BesideStep, SMTT(30)
<1>6. CASE UNCHANGED allvars
  <2>1. UNCHANGED vars /\ UNCHANGED rvars
    BY <1>6, ZenonT(40) DEF allvars
  <2>2. IInv'
    BY <1>1, <2>1, NextIInv, Zenon
  <2>3. UNCHANGED <<Alive, ids, error, n, mine, channel>>
    BY <2>1, ZenonT(30) DEF vars, rvars, cpp, sv, results, Alive, Pend, Fifo, Dev
  <2>4. \A k \in Kinds : Watch(k) => Watch(k)'
    BY <2>3 DEF Watch, Asked, Answered, Dropped
  <2> QED
    BY <1>1, <2>1, <2>2, <2>3, <2>4, BesideStep
<1> QED
  BY <1>2, <1>3, <1>4, <1>5, <1>6 DEF RNext

\* The invariant implies that every response is its request's own.
LEMMA Routed ==
  ASSUME RInv
  PROVE  OwnResponse
<1>1. IInv /\ TypeOK /\ \A k \in Kinds : Knows(k)
  BY DEF RInv, IInv
<1>2. OwnVerdict
  BY <1>1, Zenon DEF IInv, OwnVerdict
<1>3. OwnCompletion
  BY <1>1, Zenon DEF Knows, OwnCompletion
<1>4. \A t \in Alive : t.ch # "w" => t \in Under
  BY <1>1, ZenonT(40) DEF Alive, Under, Pend, Fifo, Dev, TypeOK
<1>5. ASSUME NEW k \in Kinds, pc[k] = "wait"
      PROVE  \/ error
             \/ \E t \in Under : t.n = mine[k].n
             \/ \E i \in DOMAIN channel[k] : channel[k][i].n = mine[k].n
  <2>1. Watch(k)
    BY <1>1, <1>5, Zenon DEF Knows
  <2>2. Chan(k) # "w"
    BY DEF Chan
  <2> QED
    BY <1>4, <2>1, <2>2, Zenon DEF Watch, Asked, Answered, Dropped
<1>6. NeverLost
  BY <1>5, Zenon DEF NeverLost
<1> QED
  BY <1>2, <1>3, <1>6, Zenon DEF OwnResponse

\* A response is judged by its own request's expectations, the router takes
\* only the completion of the transaction it waits for, and its drain never
\* loses that completion, whatever the other clients of the master ask.
THEOREM OwnResponses == RSpec => []OwnResponse
<1>1. RInit => RInv
  BY RInitRInv
<1>2. RInv /\ [RNext]_allvars => RInv'
  BY RNextRInv, Zenon
<1>3. RInv => OwnResponse
  BY Routed, Zenon
<1> QED
  BY <1>1, <1>2, <1>3, PTL DEF RSpec

\* The master's own promises hold with the router among its clients.
THEOREM BooksRightRouted == RSpec => [](CreditsAndIds /\ WriteOrder)
<1>1. RInit => RInv
  BY RInitRInv
<1>2. RInv /\ [RNext]_allvars => RInv'
  BY RNextRInv
<1>3. RInv => CreditsAndIds /\ WriteOrder
  BY Books, SameOrder DEF RInv, IInv
<1> QED
  BY <1>1, <1>2, <1>3, PTL DEF RSpec
===========================================================================
