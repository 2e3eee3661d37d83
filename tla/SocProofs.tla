----------------------------- MODULE SocProofs -----------------------------
(***************************************************************************)
(* Proofs about the system around the core: the interrupts injected into   *)
(* it, for any number of harts, write IDs and settings of the sequences;   *)
(* the copy of memory in Whisper, for any lines, bytes and values, with    *)
(* and without the memory model (FLAGS_mcm); and the exclusive access      *)
(* monitor, for every set of harts and addresses, every granule layout and *)
(* every setting of the knobs.                                             *)
(***************************************************************************)
EXTENDS IntrSequences, Eam, SysmodMem, TLAPS

(* The MSIs. *)

SeqMembers ==
  [drive_msi_in_curr_hart : BOOLEAN, deferred : BOOLEAN, left : Int,
   msi_wait_timeout_ : Int, intr_count_ : Int]

MsiHistory ==
  [random : Nat, sent : Nat, chosen : [IntrHarts -> Nat], triggered : [IntrHarts -> Nat],
   hung : BOOLEAN, directed : BOOLEAN, lost : BOOLEAN]

MsiTypes ==
  /\ seq \in [IntrHarts -> SeqMembers]
  /\ out \in 0 .. RangeIds
  /\ msi \in MsiHistory

\* No directed MSI is under way between two steps: what is lost is the
\* sequences' own.
MsisInv ==
  /\ MsiTypes /\ ~msi.directed
  /\ MsisThrottled

\* Every draw of a guest file has a candidate, and gives one file or two.
LEMMA SecondFile ==
  ASSUME NEW vgein \in 0 .. 5, NEW hgeie \in SUBSET (1 .. 5)
  PROVE  /\ EnabledSecond(vgein, hgeie) # {}
         /\ DisabledSecond(vgein, hgeie) # {}
         /\ VsIds \ {vgein} # {}
<1>1. 1 .. 5 \subseteq VsIds
  BY IntrAssumption DEF VsIds
<1>2. PICK x \in 1 .. 5 : x # vgein
  <2>1. 1 # vgein \/ 2 # vgein
    OBVIOUS
  <2>2. 1 \in 1 .. 5 /\ 2 \in 1 .. 5
    OBVIOUS
  <2>3. QED BY <2>1, <2>2
<1>3. EnabledSecond(vgein, hgeie) # {}
  <2>1. CASE hgeie \ {vgein} = {}
    BY <1>1, <1>2, <2>1, Zenon DEF EnabledSecond
  <2>2. CASE hgeie \ {vgein} # {}
    <3>1. PICK y \in hgeie : y # vgein
      BY <2>2, Zenon
    <3>2. QED BY <1>1, <3>1 DEF EnabledSecond
  <2>3. QED BY <2>1, <2>2
<1>4. DisabledSecond(vgein, hgeie) # {}
  <2>1. CASE hgeie \ {vgein} = (1 .. 5) \ {vgein}
    BY <1>1, <1>2, <2>1 DEF DisabledSecond
  <2>2. CASE hgeie \ {vgein} # (1 .. 5) \ {vgein}
    <3>1. PICK y \in 1 .. 5 : y # vgein /\ y \notin hgeie
      BY <2>2, Zenon
    <3>2. QED BY <1>1, <3>1 DEF DisabledSecond
  <2>3. QED BY <2>1, <2>2
<1>5. QED BY <1>1, <1>2, <1>3, <1>4

\* One of the branches of send_msi writes one file or two, and ends.
DrawEnds(draw) == draw # {} /\ \A w \in draw : Len(w) \in 1 .. 2

\* A draw from a set with candidates ends, with one file or with two.
LEMMA PairsEnd ==
  ASSUME NEW S, S # {}, NEW v
  PROVE  DrawEnds({<<x>> : x \in S}) /\ DrawEnds({<<v, x>> : x \in S})
<1>1. \A x : Len(<<x>>) = 1 /\ Len(<<v, x>>) = 2
  OBVIOUS
<1>2. PICK y : y \in S
  OBVIOUS
<1>3. {<<x>> : x \in S} # {} /\ {<<v, x>> : x \in S} # {}
  BY <1>2, Zenon
<1>4. QED BY <1>1, <1>3 DEF DrawEnds

\* Every branch of send_msi's draw ends.
LEMMA DrawsEnd ==
  ASSUME NEW file, NEW disable \in BOOLEAN, NEW misaH \in BOOLEAN,
         NEW vgein \in 0 .. 5, NEW hgeie \in SUBSET (1 .. 5),
         NEW b \in DOMAIN send_msi(file, disable, misaH, vgein, hgeie)
  PROVE  DrawEnds(send_msi(file, disable, misaH, vgein, hgeie)[b])
<1>1. CASE file = "VS" /\ misaH /\ ~disable
  <2>1. send_msi(file, disable, misaH, vgein, hgeie) = VgeinWrites(vgein, hgeie)
    BY <1>1 DEF send_msi
  <2> DEFINE D1 == {<<vgein>>}
             D2 == {<<x>> : x \in VsIds \ {vgein}}
             D3 == {<<vgein, x>> : x \in EnabledSecond(vgein, hgeie)}
             D4 == {<<vgein, x>> : x \in DisabledSecond(vgein, hgeie)}
  <2>2. VgeinWrites(vgein, hgeie) = <<D1, D2, D3, D4>>
    BY DEF VgeinWrites
  <2>3. DrawEnds(D1)
    BY DEF DrawEnds
  <2>4. DrawEnds(D2)
    BY SecondFile, PairsEnd, Zenon
  <2>5. DrawEnds(D3)
    BY SecondFile, PairsEnd, Zenon
  <2>6. DrawEnds(D4)
    BY SecondFile, PairsEnd, Zenon
  <2> HIDE DEF D1, D2, D3, D4
  <2>7. b \in 1 .. 4
    BY <2>1, <2>2
  <2>8. QED BY <2>1, <2>2, <2>3, <2>4, <2>5, <2>6, <2>7
<1>2. CASE ~(file = "VS" /\ misaH /\ ~disable)
  <2>1. send_msi(file, disable, misaH, vgein, hgeie) = << {<<0>>} >>
    BY <1>2 DEF send_msi
  <2>2. DrawEnds({<<0>>})
    BY DEF DrawEnds
  <2>3. b = 1
    BY <2>1
  <2>4. QED BY <2>1, <2>2, <2>3
<1>3. QED BY <1>1, <1>2

\* A send ends, with one or two writes.
LEMMA SendEnds ==
  ASSUME NEW file, NEW disable \in BOOLEAN, NEW o \in Outcomes(file, disable)
  PROVE  o.hangs = FALSE /\ o.writes \in 1 .. 2
<1>1. \A draw : DrawEnds(draw) => Outcome(draw).hangs = FALSE /\ Outcome(draw).writes \in 1 .. 2
  <2> TAKE draw
  <2> HAVE DrawEnds(draw)
  <2>1. draw # {} /\ (CHOOSE w \in draw : TRUE) \in draw
    BY DEF DrawEnds
  <2>2. Outcome(draw).writes = Len(CHOOSE w \in draw : TRUE) /\ Outcome(draw).hangs = FALSE
    BY <2>1, Zenon DEF Outcome
  <2>3. QED BY <2>1, <2>2 DEF DrawEnds
<1>2. \E misaH \in BOOLEAN, vgein \in 0 .. 5, hgeie \in SUBSET (1 .. 5) :
         \E b \in DOMAIN send_msi(file, disable, misaH, vgein, hgeie) :
           o = Outcome(send_msi(file, disable, misaH, vgein, hgeie)[b])
  BY DEF Outcomes
<1>3. PICK misaH \in BOOLEAN, vgein \in 0 .. 5, hgeie \in SUBSET (1 .. 5) :
         \E b \in DOMAIN send_msi(file, disable, misaH, vgein, hgeie) :
           o = Outcome(send_msi(file, disable, misaH, vgein, hgeie)[b])
  BY <1>2
<1>4. PICK b \in DOMAIN send_msi(file, disable, misaH, vgein, hgeie) :
         o = Outcome(send_msi(file, disable, misaH, vgein, hgeie)[b])
  BY <1>3
<1>5. QED BY <1>1, <1>4, DrawsEnd, Zenon

-----------------------------------------------------------------------------
\* What a send with history m leaves in the history.
SentAs(m, t) ==
  /\ t \in MsiHistory /\ ~t.hung /\ ~t.directed
  /\ FLAGS_msi_backpressure_threshold > Ids - RangeIds => ~t.lost
  /\ t.random = m.random /\ t.chosen = m.chosen /\ t.triggered = m.triggered

\* A send that is directed, or that found more free IDs than the threshold, ends;
\* it loses no MSI of a sequence if the threshold leaves out the other ranges.
LEMMA SendFits ==
  ASSUME NEW i \in IntrHarts, NEW file, NEW disable \in BOOLEAN, NEW s, NEW m \in MsiHistory,
         out \in 0 .. RangeIds, m.directed \/ ~Backpressured,
         FLAGS_msi_backpressure_threshold > Ids - RangeIds => ~m.lost,
         Send(i, file, disable, s, m)
  PROVE  out' \in 0 .. RangeIds /\ seq' = [seq EXCEPT ![i] = s] /\ SentAs(m, msi')
<1>1. PICK o \in Outcomes(file, disable) :
        /\ out' = out + (IF o.writes <= RangeFree THEN o.writes ELSE RangeFree)
        /\ seq' = [seq EXCEPT ![i] = s]
        /\ msi' = [m EXCEPT !.sent = @ + 1, !.hung = o.hangs, !.directed = FALSE,
                            !.lost = @ \/ (~m.directed /\ o.writes > RangeFree)]
  BY Zenon DEF Send
<1>2. o.hangs = FALSE /\ o.writes \in 1 .. 2
  BY SendEnds, Zenon
<1>3. out' \in 0 .. RangeIds
  BY <1>1, <1>2, IntrAssumption DEF RangeFree
<1>4. FLAGS_msi_backpressure_threshold > Ids - RangeIds /\ ~m.directed => ~(o.writes > RangeFree)
  BY <1>2, IntrAssumption DEF Backpressured, FreeIds, RangeFree
<1>5. PICK ov \in BOOLEAN : ov = (m.lost \/ (~m.directed /\ o.writes > RangeFree))
  BY Zenon
<1>6. FLAGS_msi_backpressure_threshold > Ids - RangeIds => ~ov
  BY <1>4, <1>5, Zenon
<1> DEFINE n == m.sent + 1
<1>a. n \in Nat
  BY DEF MsiHistory
<1>7. msi' = [m EXCEPT !.sent = n, !.hung = FALSE, !.directed = FALSE, !.lost = ov]
  BY <1>1, <1>2, <1>5, Zenon
<1> HIDE DEF n
<1>8. msi' \in MsiHistory
  BY <1>7, <1>a, Zenon DEF MsiHistory
<1>9. /\ msi'.hung = FALSE /\ msi'.directed = FALSE /\ msi'.lost = ov
      /\ msi'.random = m.random /\ msi'.chosen = m.chosen /\ msi'.triggered = m.triggered
  BY <1>7 DEF MsiHistory
<1>10. SentAs(m, msi')
  BY <1>6, <1>8, <1>9 DEF SentAs
<1>11. QED BY <1>1, <1>3, <1>10

\* The check of the back-pressure leaves a deferred MSI deferred.
LEMMA CheckKeeps ==
  ASSUME NEW s \in SeqMembers
  PROVE  /\ check_axi_backpressure(s) \in SeqMembers
         /\ check_axi_backpressure(s).deferred = s.deferred
BY DEF check_axi_backpressure, SeqMembers

\* There is a hart 0, whose sequence hears the tick of sysmod.
LEMMA ZeroHart == 0 \in IntrHarts
BY IntrAssumption DEF IntrHarts

\* A tick sends at random, or not at all.
LEMMA TickKeeps ==
  ASSUME MsisInv, on_sysmod_tick
  PROVE  MsisInv'
<1> DEFINE s == [seq[0] EXCEPT !.left = IF @ = 0 THEN 0 ELSE @ - 1]
           c == check_axi_backpressure(s)
<1>1. seq[0] \in SeqMembers /\ seq \in [IntrHarts -> SeqMembers] /\ out \in 0 .. RangeIds
      /\ msi \in MsiHistory
  BY ZeroHart DEF MsisInv, MsiTypes
<1>2. s \in SeqMembers /\ s.deferred = seq[0].deferred
  BY <1>1 DEF SeqMembers
<1>3. c \in SeqMembers /\ c.deferred = seq[0].deferred
  BY <1>2, CheckKeeps, Zenon
<1>4. \A x \in SeqMembers : x.deferred = seq[0].deferred /\ seq' = [seq EXCEPT ![0] = x]
        => seq' \in [IntrHarts -> SeqMembers] /\ \A i \in IntrHarts : seq'[i].deferred = seq[i].deferred
  BY <1>1, ZeroHart
<1>5. CASE (seq' = [seq EXCEPT ![0] = s] \/ seq' = [seq EXCEPT ![0] = c])
           /\ UNCHANGED <<out, msi>>
  <2>1. seq' \in [IntrHarts -> SeqMembers] /\ \A i \in IntrHarts : seq'[i].deferred = seq[i].deferred
    <3> HIDE DEF s, c
    <3> QED BY <1>2, <1>3, <1>4, <1>5
  <2>2. QED BY <1>5, <2>1 DEF MsisInv, MsiTypes, MsisThrottled
<1>6. ASSUME ~Backpressured, NEW file \in Files, NEW d \in 1 .. MaxDelay,
             Send(0, file, FALSE,
                  [c EXCEPT !.left = d,
                     !.intr_count_ = IF FLAGS_max_intr_count > 0 THEN @ + 1 ELSE @],
                  [msi EXCEPT !.random = @ + 1])
      PROVE  MsisInv'
  <2> DEFINE x == [c EXCEPT !.left = d,
                     !.intr_count_ = IF FLAGS_max_intr_count > 0 THEN @ + 1 ELSE @]
             m == [msi EXCEPT !.random = @ + 1]
  <2>1. x \in SeqMembers /\ x.deferred = seq[0].deferred
    <3> HIDE DEF c
    <3>1. d \in Int
      BY IntrAssumption
    <3> DEFINE n == IF FLAGS_max_intr_count > 0 THEN c.intr_count_ + 1 ELSE c.intr_count_
    <3>2. n \in Int
      BY <1>3 DEF SeqMembers
    <3>3. x = [c EXCEPT !.left = d, !.intr_count_ = n]
      BY <1>3 DEF SeqMembers
    <3> HIDE DEF n, x
    <3>4. QED BY <1>3, <3>1, <3>2, <3>3, Zenon DEF SeqMembers
  <2>2. m \in MsiHistory /\ m.lost = msi.lost /\ m.chosen = msi.chosen
        /\ m.triggered = msi.triggered
    BY <1>1 DEF MsiHistory
  <2>3. FLAGS_msi_backpressure_threshold > Ids - RangeIds => ~msi.lost
    BY DEF MsisInv, MsisThrottled
  <2>4. Send(0, file, FALSE, x, m)
    BY <1>6, Zenon
  <2> HIDE DEF x, m
  <2>5. out' \in 0 .. RangeIds /\ seq' = [seq EXCEPT ![0] = x] /\ SentAs(m, msi')
    BY <1>1, <1>6, <2>2, <2>3, <2>4, SendFits, ZeroHart, Zenon
  <2>6. QED BY <1>4, <2>1, <2>2, <2>5, Zenon DEF SentAs, MsisInv, MsiTypes, MsisThrottled
<1> HIDE DEF c
<1>7. QED BY <1>5, <1>6, Zenon DEF on_sysmod_tick, c

\* A directed MSI is none of the sequence's own.
LEMMA DirectedKeeps ==
  ASSUME MsisInv, on_directed_msi
  PROVE  MsisInv'
<1>1. seq \in [IntrHarts -> SeqMembers] /\ out \in 0 .. RangeIds /\ msi \in MsiHistory
  BY DEF MsisInv, MsiTypes
<1>2. CASE UNCHANGED <<seq, out, msi>>
  BY <1>2 DEF MsisInv, MsiTypes, MsisThrottled
<1>3. ASSUME NEW file, NEW disable \in BOOLEAN,
             Send(0, file, disable, seq[0], [msi EXCEPT !.directed = TRUE])
      PROVE  MsisInv'
  <2> DEFINE m == [msi EXCEPT !.directed = TRUE]
  <2>1. m \in MsiHistory /\ m.lost = msi.lost /\ m.chosen = msi.chosen
        /\ m.triggered = msi.triggered /\ m.directed
    BY <1>1, Zenon DEF MsiHistory
  <2>2. FLAGS_msi_backpressure_threshold > Ids - RangeIds => ~msi.lost
    BY DEF MsisInv, MsisThrottled
  <2>3. Send(0, file, disable, seq[0], m)
    BY <1>3
  <2> HIDE DEF m
  <2>4. out' \in 0 .. RangeIds /\ seq' = [seq EXCEPT ![0] = seq[0]] /\ SentAs(m, msi')
    BY <1>1, <2>1, <2>2, <2>3, SendFits, ZeroHart
  <2>5. seq' = seq
    BY <1>1, <2>4, ZeroHart
  <2>6. QED BY <1>1, <2>1, <2>4, <2>5, Zenon DEF SentAs, MsisInv, MsiTypes, MsisThrottled
<1>4. QED BY <1>2, <1>3, Zenon DEF on_directed_msi

\* A trigger is chosen, deferred or sent, and sent once.
LEMMA TriggerKeeps ==
  ASSUME MsisInv, NEW i \in IntrHarts, interrupt_trigger(i)
  PROVE  MsisInv'
<1> DEFINE s == seq[i]
           c == check_axi_backpressure(s)
           fresh == ~s.deferred /\ s.drive_msi_in_curr_hart
           m == [msi EXCEPT !.chosen[i] = IF fresh THEN @ + 1 ELSE @]
           n == msi.triggered[i] + 1
<1>1. s \in SeqMembers /\ seq \in [IntrHarts -> SeqMembers] /\ out \in 0 .. RangeIds /\ msi \in MsiHistory
  BY DEF MsisInv, MsiTypes
<1>2. c \in SeqMembers
  <2> HIDE DEF s
  <2> QED BY <1>1, CheckKeeps
<1>3. /\ \A j \in IntrHarts : msi.triggered[j] + (IF seq[j].deferred THEN 1 ELSE 0) = msi.chosen[j]
      /\ FLAGS_msi_backpressure_threshold > Ids - RangeIds => ~msi.lost
      /\ ~msi.hung /\ ~msi.directed
  BY DEF MsisInv, MsisThrottled
<1>4. msi.triggered \in [IntrHarts -> Nat] /\ msi.chosen \in [IntrHarts -> Nat]
  BY <1>1 DEF MsiHistory
<1>5. n \in Nat
  BY <1>4
<1>6. (IF fresh THEN msi.chosen[i] + 1 ELSE msi.chosen[i]) = n
  <2>1. s.deferred \/ s.drive_msi_in_curr_hart
    BY DEF interrupt_trigger
  <2>2. msi.triggered[i] + (IF s.deferred THEN 1 ELSE 0) = msi.chosen[i]
    BY <1>3
  <2>3. msi.triggered[i] \in Nat /\ msi.chosen[i] \in Nat
    BY <1>4
  <2>4. QED BY <2>1, <2>2, <2>3
<1>7. m = [msi EXCEPT !.chosen = [@ EXCEPT ![i] = n]]
  BY <1>6
<1> HIDE DEF m, n
<1>8. /\ m \in MsiHistory /\ m.chosen = [msi.chosen EXCEPT ![i] = n]
      /\ m.triggered = msi.triggered /\ m.lost = msi.lost /\ m.directed = msi.directed
      /\ m.hung = msi.hung
  <2> DEFINE ch == [msi.chosen EXCEPT ![i] = n]
  <2>1. ch \in [IntrHarts -> Nat]
    BY <1>4, <1>5
  <2>2. m = [msi EXCEPT !.chosen = ch]
    BY <1>7
  <2> HIDE DEF ch
  <2>3. QED BY <1>1, <2>1, <2>2 DEF MsiHistory, ch
<1>9. CASE seq' = [seq EXCEPT ![i] = [c EXCEPT !.deferred = TRUE]] /\ msi' = m /\ UNCHANGED out
  <2> DEFINE x == [c EXCEPT !.deferred = TRUE]
  <2>1. x \in SeqMembers /\ x.deferred
    <3> HIDE DEF c
    <3> QED BY <1>2, Zenon DEF SeqMembers
  <2> HIDE DEF x
  <2>2. seq' = [seq EXCEPT ![i] = x]
    BY <1>9 DEF x
  <2>3. seq' \in [IntrHarts -> SeqMembers]
    BY <1>1, <2>1, <2>2
  <2>4. ASSUME NEW j \in IntrHarts
        PROVE  m.triggered[j] + (IF seq'[j].deferred THEN 1 ELSE 0) = m.chosen[j]
    <3>1. CASE j = i
      BY <1>1, <1>4, <1>5, <1>8, <2>1, <2>2, <3>1 DEF n
    <3>2. CASE j # i
      BY <1>1, <1>3, <1>4, <1>8, <2>2, <3>2
    <3>3. QED BY <3>1, <3>2
  <2>5. QED BY <1>1, <1>3, <1>8, <1>9, <2>3, <2>4, Zenon DEF MsisInv, MsiTypes, MsisThrottled
<1>10. ASSUME ~Backpressured, NEW file \in Files,
              Send(i, file, FALSE, [c EXCEPT !.deferred = FALSE], [m EXCEPT !.triggered[i] = @ + 1])
       PROVE  MsisInv'
  <2> DEFINE x == [c EXCEPT !.deferred = FALSE]
             tr == [msi.triggered EXCEPT ![i] = n]
             t == [m EXCEPT !.triggered = tr]
  <2>1. x \in SeqMembers /\ ~x.deferred
    <3> HIDE DEF c
    <3> QED BY <1>2, Zenon DEF SeqMembers
  <2>2. tr \in [IntrHarts -> Nat]
    BY <1>4, <1>5
  <2>3. [m EXCEPT !.triggered[i] = @ + 1] = t
    BY <1>8 DEF n
  <2>4. Send(i, file, FALSE, x, t)
    BY <1>10, <2>3, Zenon
  <2>5. t \in MsiHistory /\ t.lost = msi.lost /\ t.directed = msi.directed
        /\ t.chosen = m.chosen /\ t.triggered = tr
    <3> HIDE DEF tr
    <3> QED BY <1>8, <2>2 DEF MsiHistory
  <2> HIDE DEF x, tr, t
  <2>6. out' \in 0 .. RangeIds /\ seq' = [seq EXCEPT ![i] = x] /\ SentAs(t, msi')
    BY <1>1, <1>3, <1>10, <2>4, <2>5, SendFits, Zenon
  <2>7. seq' \in [IntrHarts -> SeqMembers]
    BY <1>1, <2>1, <2>6
  <2>8. ASSUME NEW j \in IntrHarts
        PROVE  t.triggered[j] + (IF seq'[j].deferred THEN 1 ELSE 0) = t.chosen[j]
    <3>1. CASE j = i
      BY <1>1, <1>4, <1>5, <1>8, <2>1, <2>5, <2>6, <3>1 DEF tr
    <3>2. CASE j # i
      BY <1>1, <1>3, <1>4, <1>8, <2>5, <2>6, <3>2 DEF tr
    <3>3. QED BY <3>1, <3>2
  <2>9. QED BY <2>5, <2>6, <2>7, <2>8 DEF SentAs, MsisInv, MsiTypes, MsisThrottled
<1>11. QED BY <1>9, <1>10, Zenon DEF interrupt_trigger, m

\* What a trigger selects disturbs no MSI that is deferred.
LEMMA CaptureKeeps ==
  ASSUME MsisInv, NEW sel \in SUBSET IntrHarts, capture_trigger_info(sel)
  PROVE  MsisInv'
<1> DEFINE x(j) == [seq[j] EXCEPT !.drive_msi_in_curr_hart = (sel = {j})]
<1>1. ASSUME NEW j \in IntrHarts
      PROVE  x(j) \in SeqMembers /\ x(j).deferred = seq[j].deferred
  <2>1. PICK b \in BOOLEAN : b = (sel = {j})
    BY Zenon
  <2>2. x(j) = [seq[j] EXCEPT !.drive_msi_in_curr_hart = b]
    BY <2>1
  <2>3. seq[j] \in SeqMembers
    BY DEF MsisInv, MsiTypes
  <2> HIDE DEF x
  <2>4. QED BY <2>2, <2>3 DEF SeqMembers
<1>2. seq' = [j \in IntrHarts |-> x(j)] /\ UNCHANGED <<out, msi>>
  BY DEF capture_trigger_info
<1> HIDE DEF x
<1>3. /\ seq' \in [IntrHarts -> SeqMembers]
      /\ \A j \in IntrHarts : seq'[j].deferred = seq[j].deferred
  BY <1>1, <1>2
<1>4. QED BY <1>2, <1>3 DEF MsisInv, MsiTypes, MsisThrottled

\* No MSI has been sent at first.
LEMMA MsisStart == IntrInit => MsisInv
BY IntrAssumption DEF IntrInit, SeqStart, MsiStart, MsisInv, MsiTypes, SeqMembers, MsiHistory,
                      MsisThrottled

\* The invariant is inductive.
LEMMA MsisStep ==
  ASSUME MsisInv, [IntrNext]_intrVars
  PROVE  MsisInv'
<1>1. CASE UNCHANGED <<seq, out, msi>>
  BY <1>1 DEF MsisInv, MsiTypes, MsisThrottled
<1>2. CASE on_sysmod_tick
  BY <1>2, TickKeeps
<1>3. CASE on_directed_msi
  BY <1>3, DirectedKeeps
<1>4. ASSUME NEW sel \in SUBSET IntrHarts, capture_trigger_info(sel) PROVE MsisInv'
  BY <1>4, CaptureKeeps
<1>5. ASSUME NEW i \in IntrHarts, interrupt_trigger(i) PROVE MsisInv'
  BY <1>5, TriggerKeeps
<1>6. CASE OtherRequest \/ Response
  BY <1>6, IntrAssumption DEF OtherRequest, Response, RangeFree, MsisInv, MsiTypes, MsisThrottled
<1>7. ASSUME NEW i \in IntrHarts, NEW k \in Driven, random_mode(i, k) \/ Deassert(i, k)
      PROVE  UNCHANGED <<seq, out, msi>>
  BY <1>7 DEF random_mode, Deassert
<1>8. ASSUME NEW i \in IntrHarts, Drive(i) PROVE UNCHANGED <<seq, out, msi>>
  BY <1>8 DEF Drive
<1>9. ASSUME NEW v \in BOOLEAN, WriteEnable(v) PROVE UNCHANGED <<seq, out, msi>>
  BY <1>9 DEF WriteEnable
<1>10. QED BY <1>1, <1>2, <1>3, <1>4, <1>5, <1>6, <1>7, <1>8, <1>9 DEF IntrNext, intrVars

\* Whatever the CSRs of the guests hold and however slow the master answers, no
\* draw of send_msi hangs, no MSI of the sequences is dropped for want of an ID
\* when the threshold exceeds the IDs outside their range, and each triggered MSI
\* belongs to one trigger that selected its hart alone (on_sysmod_tick,
\* interrupt_trigger, check_axi_backpressure, next_id).
THEOREM MsisRight == IntrSpec => []MsisThrottled
<1>1. MsisInv => MsisThrottled
  BY DEF MsisInv
<1>2. QED BY <1>1, MsisStart, MsisStep, PTL DEF IntrSpec

-----------------------------------------------------------------------------
(* The pins. *)

Callbacks == Kinds \X {0, 1}

\* The last level of kind k in queue q is the one asked for, w; with none queued
\* the pin l has it.
Follows(q, l, w, k) ==
  \/ (\A i \in 1 .. Len(q) : q[i][1] # k) /\ l = w
  \/ \E i \in 1 .. Len(q) : q[i] = <<k, w>> /\ \A j \in i + 1 .. Len(q) : q[j][1] # k

LineTypes ==
  /\ cbs \in [IntrHarts -> Seq(Callbacks)]
  /\ lines \in [IntrHarts -> [Kinds -> {0, 1}]] /\ want \in [IntrHarts -> [Kinds -> {0, 1}]]
  /\ intr_enable_flag_ \in BOOLEAN /\ opened \in BOOLEAN

\* Nothing random has been injected.
Quiet ==
  /\ ~intr_enable_flag_ /\ msi.random = 0
  /\ \A i \in IntrHarts :
       /\ \A k \in Kinds : lines[i][k] = 0
       /\ \A j \in 1 .. Len(cbs[i]) : cbs[i][j][2] = 0

LinesInv ==
  /\ MsisInv /\ LineTypes
  /\ \A i \in IntrHarts, k \in Kinds : Follows(cbs[i], lines[i][k], want[i][k], k)
  /\ FLAGS_trickbox_write_enables_intr /\ ~opened => Quiet

\* A level pushed last is the one asked for; the other kind is not concerned.
LEMMA Queued ==
  ASSUME NEW q \in Seq(Callbacks), NEW l, NEW w, NEW v, NEW k \in Kinds
  PROVE  /\ Follows(q \o << <<k, v>> >>, l, v, k)
         /\ \A x \in Kinds : x # k /\ Follows(q, l, w, x)
              => Follows(q \o << <<k, v>> >>, l, w, x)
<1> DEFINE r == q \o << <<k, v>> >>
           n == Len(q)
<1>1. /\ n \in Nat /\ Len(r) = n + 1 /\ r[n + 1] = <<k, v>>
      /\ \A i \in 1 .. n : r[i] = q[i]
  OBVIOUS
<1> HIDE DEF r, n
<1>2. Follows(r, l, v, k)
  BY <1>1 DEF Follows
<1>3. ASSUME NEW x \in Kinds, x # k, Follows(q, l, w, x)
      PROVE  Follows(r, l, w, x)
  <2>1. r[n + 1][1] # x
    BY <1>1, <1>3
  <2>2. CASE (\A i \in 1 .. n : q[i][1] # x) /\ l = w
    BY <1>1, <2>1, <2>2 DEF Follows
  <2>3. CASE \E i \in 1 .. n : q[i] = <<x, w>> /\ \A j \in i + 1 .. n : q[j][1] # x
    BY <1>1, <2>1, <2>3 DEF Follows
  <2>4. QED BY <1>3, <2>2, <2>3 DEF Follows, n
<1>4. QED BY <1>2, <1>3 DEF r

\* Driving the oldest level leaves the pin on its way to the level asked for.
LEMMA Drained ==
  ASSUME NEW q \in Seq(Callbacks), q # <<>>, NEW l, NEW w, NEW k \in Kinds,
         Follows(q, l, w, k)
  PROVE  Follows(Tail(q), IF Head(q)[1] = k THEN Head(q)[2] ELSE l, w, k)
<1> DEFINE r == Tail(q)
           n == Len(q)
           p == IF q[1][1] = k THEN q[1][2] ELSE l
<1>1. /\ n \in Nat \ {0} /\ Len(r) = n - 1 /\ \A i \in 1 .. n - 1 : r[i] = q[i + 1]
      /\ Head(q) = q[1]
  OBVIOUS
<1> HIDE DEF r, n
<1>2. CASE (\A i \in 1 .. n : q[i][1] # k) /\ l = w
  <2>1. p = w
    BY <1>1, <1>2
  <2>2. \A i \in 1 .. n - 1 : r[i][1] # k
    BY <1>1, <1>2
  <2>3. QED BY <1>1, <2>1, <2>2 DEF Follows, r
<1>3. ASSUME NEW i \in 1 .. n, q[i] = <<k, w>>, \A j \in i + 1 .. n : q[j][1] # k
      PROVE  Follows(r, p, w, k)
  <2>1. CASE i = 1
    <3>1. p = w
      BY <1>3, <2>1
    <3>2. \A j \in 1 .. n - 1 : r[j][1] # k
      BY <1>1, <1>3, <2>1
    <3>3. QED BY <1>1, <3>1, <3>2 DEF Follows
  <2>2. CASE i # 1
    <3>1. i - 1 \in 1 .. n - 1 /\ r[i - 1] = <<k, w>>
      BY <1>1, <1>3, <2>2
    <3>2. \A j \in (i - 1) + 1 .. n - 1 : r[j][1] # k
      BY <1>1, <1>3
    <3>3. QED BY <1>1, <3>1, <3>2 DEF Follows
  <2>3. QED BY <2>1, <2>2
<1>4. QED BY <1>1, <1>2, <1>3 DEF Follows, n, r

\* Steps that touch neither pins nor gate keep the invariant.
LEMMA Undisturbed ==
  ASSUME LinesInv, MsisInv',
         UNCHANGED <<intr_enable_flag_, cbs, lines, want, opened>>, msi'.random = msi.random
  PROVE  LinesInv'
BY DEF LinesInv, LineTypes, Quiet

\* A push of one kind appends one level.
LEMMA OnePushed ==
  ASSUME LinesInv, NEW i \in IntrHarts, NEW k \in Kinds, NEW v, Push(i, {k}, v)
  PROVE  cbs' = [cbs EXCEPT ![i] = @ \o << <<k, v>> >>]
<1>1. cbs[i] \in Seq(Callbacks)
  BY DEF LinesInv, LineTypes
<1>2. CASE k = "nmi"
  <2>1. (cbs[i] \o << <<"nmi", v>> >>) \o <<>> = cbs[i] \o << <<"nmi", v>> >>
    BY <1>1
  <2>2. QED BY <1>2, <2>1 DEF Push
<1>3. CASE k = "mti"
  <2>1. cbs[i] \o <<>> = cbs[i]
    BY <1>1
  <2>2. QED BY <1>3, <2>1 DEF Push
<1>4. QED BY <1>2, <1>3 DEF Kinds

\* A send does not count itself as random.
LEMMA SendRandom ==
  ASSUME NEW i, NEW file, NEW disable, NEW s, NEW m \in MsiHistory,
         Send(i, file, disable, s, m)
  PROVE  msi'.random = m.random
BY DEF Send, MsiHistory

\* Random MSIs are counted only while the gate is open.
LEMMA RandomGated ==
  ASSUME LinesInv, IntrNext
  PROVE  msi'.random = msi.random \/ (IntrEnabled /\ on_sysmod_tick)
<1>1. msi \in MsiHistory
  BY DEF LinesInv, MsisInv, MsiTypes
<1>2. CASE on_sysmod_tick
  BY <1>2, Zenon DEF on_sysmod_tick
<1>3. CASE on_directed_msi
  <2>1. [msi EXCEPT !.directed = TRUE] \in MsiHistory
        /\ [msi EXCEPT !.directed = TRUE].random = msi.random
    BY <1>1, Zenon DEF MsiHistory
  <2>2. QED BY <1>3, <2>1, SendRandom, Zenon DEF on_directed_msi
<1>4. ASSUME NEW i \in IntrHarts, interrupt_trigger(i) PROVE msi'.random = msi.random
  <2> DEFINE m == [msi EXCEPT !.chosen[i] =
                     IF ~seq[i].deferred /\ seq[i].drive_msi_in_curr_hart THEN @ + 1 ELSE @]
             t == [m EXCEPT !.triggered[i] = @ + 1]
  <2>1. m \in MsiHistory /\ m.random = msi.random
    <3> DEFINE ch == [msi.chosen EXCEPT ![i] =
                        IF ~seq[i].deferred /\ seq[i].drive_msi_in_curr_hart THEN @ + 1 ELSE @]
    <3>1. ch \in [IntrHarts -> Nat]
      BY <1>1 DEF MsiHistory
    <3>2. m = [msi EXCEPT !.chosen = ch]
      OBVIOUS
    <3> HIDE DEF ch, m
    <3>3. QED BY <1>1, <3>1, <3>2 DEF MsiHistory
  <2> HIDE DEF m
  <2>2. t \in MsiHistory /\ t.random = m.random
    <3> DEFINE tr == [m.triggered EXCEPT ![i] = @ + 1]
    <3>1. tr \in [IntrHarts -> Nat]
      BY <2>1 DEF MsiHistory
    <3>2. t = [m EXCEPT !.triggered = tr]
      OBVIOUS
    <3> HIDE DEF tr, t
    <3>3. QED BY <2>1, <3>1, <3>2 DEF MsiHistory
  <2> HIDE DEF t
  <2>3. msi' = m \/ \E file, s : Send(i, file, FALSE, s, t)
    BY <1>4, Zenon DEF interrupt_trigger, m, t
  <2>4. QED BY <2>1, <2>2, <2>3, SendRandom, Zenon
<1>5. QED BY <1>2, <1>3, <1>4, Zenon DEF IntrNext, capture_trigger_info, OtherRequest,
                                  Response, random_mode, Deassert, Drive, WriteEnable

\* One level v of kind k is queued at hart i's location and asked for.
LEMMA PushKeeps ==
  ASSUME LinesInv, NEW i \in IntrHarts, NEW k \in Kinds, NEW v \in {0, 1},
         cbs' = [cbs EXCEPT ![i] = @ \o << <<k, v>> >>],
         want' = [want EXCEPT ![i][k] = v],
         UNCHANGED <<seq, out, intr_enable_flag_, lines, opened, msi>>,
         FLAGS_trickbox_write_enables_intr /\ ~opened => v = 0
  PROVE  LinesInv'
<1>1. cbs[i] \in Seq(Callbacks) /\ cbs \in [IntrHarts -> Seq(Callbacks)]
      /\ want \in [IntrHarts -> [Kinds -> {0, 1}]]
  BY DEF LinesInv, LineTypes
<1>2. cbs[i] \o << <<k, v>> >> \in Seq(Callbacks)
  <2>1. <<k, v>> \in Callbacks
    BY DEF Callbacks
  <2>2. QED BY <1>1, <2>1
<1>3. /\ cbs' \in [IntrHarts -> Seq(Callbacks)] /\ cbs'[i] = cbs[i] \o << <<k, v>> >>
      /\ \A j \in IntrHarts : j # i => cbs'[j] = cbs[j]
  BY <1>1, <1>2
<1>4. /\ want' \in [IntrHarts -> [Kinds -> {0, 1}]] /\ want'[i][k] = v
      /\ \A j \in IntrHarts, x \in Kinds : j # i \/ x # k => want'[j][x] = want[j][x]
  BY <1>1
<1>5. LineTypes'
  BY <1>3, <1>4 DEF LinesInv, LineTypes
<1>6. ASSUME NEW j \in IntrHarts, NEW x \in Kinds
      PROVE  Follows(cbs'[j], lines[j][x], want'[j][x], x)
  <2>0. Follows(cbs[j], lines[j][x], want[j][x], x)
    BY DEF LinesInv
  <2>1. CASE j # i
    BY <1>3, <1>4, <2>0, <2>1
  <2>2. CASE j = i /\ x = k
    BY <1>1, <1>3, <1>4, <2>2, Queued
  <2>3. CASE j = i /\ x # k
    BY <1>1, <1>3, <1>4, <2>0, <2>3, Queued, Zenon
  <2>4. QED BY <2>1, <2>2, <2>3
<1>7. ASSUME Quiet, v = 0 PROVE Quiet'
  <2>1. ASSUME NEW j \in IntrHarts, NEW n \in 1 .. Len(cbs'[j])
        PROVE  cbs'[j][n][2] = 0
    <3>1. CASE j # i
      BY <1>3, <1>7, <3>1 DEF Quiet
    <3>2. CASE j = i
      BY <1>1, <1>3, <1>7, <3>2 DEF Quiet
    <3>3. QED BY <3>1, <3>2
  <2>2. QED BY <1>7, <2>1 DEF Quiet
<1>8. MsisInv'
  BY DEF LinesInv, MsisInv, MsiTypes, MsisThrottled
<1>9. QED BY <1>5, <1>6, <1>7, <1>8 DEF LinesInv

\* Draining the queue of a hart keeps the invariant.
LEMMA DriveKeeps ==
  ASSUME LinesInv, NEW i \in IntrHarts, Drive(i)
  PROVE  LinesInv'
<1> DEFINE k == Head(cbs[i])[1]
           v == Head(cbs[i])[2]
<1>1. cbs[i] \in Seq(Callbacks) /\ cbs \in [IntrHarts -> Seq(Callbacks)] /\ cbs[i] # <<>>
      /\ lines \in [IntrHarts -> [Kinds -> {0, 1}]]
  BY DEF LinesInv, LineTypes, Drive
<1>2. Head(cbs[i]) \in Callbacks /\ Tail(cbs[i]) \in Seq(Callbacks)
  BY <1>1
<1>3. k \in Kinds /\ v \in {0, 1}
  BY <1>2 DEF Callbacks
<1>4. /\ cbs' = [cbs EXCEPT ![i] = Tail(cbs[i])] /\ lines' = [lines EXCEPT ![i][k] = v]
      /\ UNCHANGED <<seq, out, intr_enable_flag_, want, opened, msi>>
  BY DEF Drive
<1>5. /\ cbs' \in [IntrHarts -> Seq(Callbacks)] /\ cbs'[i] = Tail(cbs[i])
      /\ \A j \in IntrHarts : j # i => cbs'[j] = cbs[j]
  BY <1>1, <1>2, <1>4
<1> HIDE DEF k, v
<1>6. /\ lines' \in [IntrHarts -> [Kinds -> {0, 1}]]
      /\ \A j \in IntrHarts, x \in Kinds :
           lines'[j][x] = IF j = i /\ x = k THEN v ELSE lines[j][x]
  BY <1>1, <1>3, <1>4
<1>7. LineTypes'
  BY <1>4, <1>5, <1>6 DEF LinesInv, LineTypes
<1>8. ASSUME NEW j \in IntrHarts, NEW x \in Kinds
      PROVE  Follows(cbs'[j], lines'[j][x], want'[j][x], x)
  <2>0. Follows(cbs[j], lines[j][x], want[j][x], x)
    BY DEF LinesInv
  <2>1. CASE j # i
    BY <1>4, <1>5, <1>6, <2>0, <2>1
  <2>2. CASE j = i
    <3>1. lines'[j][x] = IF Head(cbs[i])[1] = x THEN Head(cbs[i])[2] ELSE lines[i][x]
      BY <1>6, <2>2 DEF k, v
    <3>2. QED BY <1>1, <1>4, <1>5, <2>0, <2>2, <3>1, Drained
  <2>3. QED BY <2>1, <2>2
<1>9. ASSUME Quiet PROVE Quiet'
  <2>1. v = 0
    BY <1>1, <1>9 DEF Quiet, v
  <2>2. ASSUME NEW j \in IntrHarts, NEW n \in 1 .. Len(cbs'[j])
        PROVE  cbs'[j][n][2] = 0
    <3>1. CASE j # i
      BY <1>5, <1>9, <3>1 DEF Quiet
    <3>2. CASE j = i
      <4>1. n + 1 \in 1 .. Len(cbs[i]) /\ Tail(cbs[i])[n] = cbs[i][n + 1]
        BY <1>1, <1>5, <3>2
      <4>2. \A x \in 1 .. Len(cbs[i]) : cbs[i][x][2] = 0
        BY <1>9 DEF Quiet
      <4>3. cbs'[j][n] = cbs[i][n + 1]
        BY <1>5, <3>2, <4>1, Zenon
      <4>4. QED BY <4>1, <4>2, <4>3
    <3>3. QED BY <3>1, <3>2
  <2>3. QED BY <1>4, <1>6, <1>9, <2>1, <2>2 DEF Quiet
<1>10. MsisInv'
  BY <1>4 DEF LinesInv, MsisInv, MsiTypes, MsisThrottled
<1>11. QED BY <1>4, <1>7, <1>8, <1>9, <1>10 DEF LinesInv

\* With any number of queued requests, a pin without one has the level asked for
\* last, and no random interrupt comes before the test opens the gate (nmi, mti,
\* random_mode, interrupter::write).
THEOREM PinsFollowRequests == IntrSpec => []LinesFollow
<1>1. IntrInit => LinesInv
  <2> SUFFICES ASSUME IntrInit PROVE LinesInv
    OBVIOUS
  <2>1. MsisInv
    BY MsisStart
  <2>2. /\ cbs \in [IntrHarts -> Seq(Callbacks)]
        /\ \A i \in IntrHarts : cbs[i] = <<>> /\ Len(cbs[i]) = 0
        /\ \A i \in IntrHarts, k \in Kinds : lines[i][k] = 0 /\ want[i][k] = 0
    BY DEF IntrInit
  <2>3. LineTypes
    BY <2>2, Zenon DEF IntrInit, LineTypes
  <2>4. Quiet
    BY <2>2 DEF IntrInit, MsiStart, Quiet
  <2>5. QED BY <2>1, <2>2, <2>3, <2>4 DEF LinesInv, Follows
<1>2. LinesInv /\ [IntrNext]_intrVars => LinesInv'
  <2> SUFFICES ASSUME LinesInv, [IntrNext]_intrVars PROVE LinesInv'
    OBVIOUS
  <2>0. MsisInv /\ MsisInv'
    BY MsisStep DEF LinesInv
  <2>1. CASE UNCHANGED intrVars
    BY <2>0, <2>1, Undisturbed DEF intrVars
  <2>2. CASE IntrNext /\ UNCHANGED <<intr_enable_flag_, cbs, lines, want, opened>>
    <3>1. CASE msi'.random = msi.random
      BY <2>0, <2>2, <3>1, Undisturbed
    <3>2. CASE IntrEnabled
      BY <2>0, <2>2, <3>2 DEF LinesInv, LineTypes, Quiet, IntrEnabled
    <3>3. QED BY <2>2, <3>1, <3>2, RandomGated
  <2>3. ASSUME NEW i \in IntrHarts, NEW k \in Driven, random_mode(i, k) PROVE LinesInv'
    <3>1. k \in Kinds
      BY IntrAssumption DEF Kinds
    <3>2. cbs' = [cbs EXCEPT ![i] = @ \o << <<k, 1>> >>]
      BY <2>3, <3>1, OnePushed, Zenon DEF random_mode
    <3>3. ~(FLAGS_trickbox_write_enables_intr /\ ~opened)
      BY <2>3 DEF random_mode, IntrEnabled, LinesInv, Quiet
    <3>4. QED BY <2>3, <3>1, <3>2, <3>3, PushKeeps, Zenon DEF random_mode
  <2>4. ASSUME NEW i \in IntrHarts, NEW k \in Driven, Deassert(i, k) PROVE LinesInv'
    <3>1. k \in Kinds
      BY IntrAssumption DEF Kinds
    <3>2. {x \in Kinds : Listens[x] = Signals[k]} = {k}
      BY <3>1 DEF Kinds, Listens, Signals
    <3>3. cbs' = [cbs EXCEPT ![i] = @ \o << <<k, 0>> >>]
      BY <2>4, <3>1, <3>2, OnePushed, Zenon DEF Deassert
    <3>4. QED BY <2>4, <3>1, <3>3, PushKeeps, Zenon DEF Deassert
  <2>5. ASSUME NEW i \in IntrHarts, Drive(i) PROVE LinesInv'
    BY <2>5, DriveKeeps
  <2>6. ASSUME NEW v \in BOOLEAN, WriteEnable(v) PROVE LinesInv'
    BY <2>0, <2>6 DEF WriteEnable, LinesInv, LineTypes, Quiet
  <2>7. QED BY <2>1, <2>2, <2>3, <2>4, <2>5, <2>6, Zenon
            DEF IntrNext, on_sysmod_tick, on_directed_msi, capture_trigger_info,
                interrupt_trigger, OtherRequest, Response
<1>3. LinesInv => LinesFollow
  <2> SUFFICES ASSUME LinesInv PROVE LinesFollow
    OBVIOUS
  <2>1. \A i \in IntrHarts : DOMAIN cbs[i] = 1 .. Len(cbs[i])
    BY DEF LinesInv, LineTypes
  <2>2. ASSUME NEW i \in IntrHarts, NEW k \in Kinds, \A j \in DOMAIN cbs[i] : cbs[i][j][1] # k
        PROVE  lines[i][k] = want[i][k]
    <3>1. Follows(cbs[i], lines[i][k], want[i][k], k)
      BY DEF LinesInv
    <3>2. QED BY <2>1, <2>2, <3>1 DEF Follows
  <2>3. QED BY <2>2 DEF LinesInv, LinesFollow, Quiet
<1>4. QED BY <1>1, <1>2, <1>3, PTL DEF IntrSpec

-----------------------------------------------------------------------------
(* The copy of memory in Whisper. *)

MemTypes ==
  /\ mem \in [PhysAddrs -> Data \cup {NoLine}]
  /\ whisper \in [PhysAddrs -> [Bytes -> Values \cup {0}]]
  /\ cache \in [Lines -> Data \cup {NoLine}]
  /\ inval \in [Lines -> {"no", "old", "new"}]

\* What the core would load from a line.
Loaded(l) == IF cache[l] = NoLine THEN mem[LineAddr(l)] ELSE cache[l]

\* Whisper has what the core would load until the line is dropped, and not
\* only between invalidations: a load that is reported before the drop either
\* pokes bytes Whisper has already or leaves it alone.
Same == \A l \in Lines : Filled(l) /\ inval[l] # "new" => whisper[LineAddr(l)] = Loaded(l)

\* Only lines that memory holds are dirty or invalidated, invalidations take
\* time only with the memory model, and a dropped line is not dirty.
MemHeld == \A l \in Lines :
  /\ cache[l] # NoLine => Filled(l)
  /\ inval[l] # "no" => Filled(l) /\ FLAGS_mcm
  /\ inval[l] = "new" => cache[l] = NoLine

MemInv == MemTypes /\ Same /\ MemHeld /\ agree

\* Each line has one address without PA mask bits.
LEMMA PlainAddr ==
  /\ \A l \in Lines : LineAddr(l) \in PhysAddrs
  /\ \A l, m \in Lines : LineAddr(l) = LineAddr(m) => l = m
  /\ \A a \in PhysAddrs : a[1] \in Lines /\ clear_pa_mask(a) = LineAddr(a[1])
  BY Zenon DEF LineAddr, PhysAddrs, clear_pa_mask

\* A line with data is not the mark of an absent one.
LEMMA NotEmpty ==
  ASSUME NEW b \in Bytes, NEW d, DOMAIN d = Bytes
  PROVE  d # NoLine
  BY DEF NoLine

\* Memory and Whisper start empty.
LEMMA MemStart == MemInit => MemInv
  BY PlainAddr DEF MemInit, MemInv, MemTypes, Same, MemHeld, Loaded, Filled

\* A line that memory and Whisper are given together, while it is clean.
LEMMA BothWritten ==
  ASSUME MemInv, NEW l \in Lines, NEW d \in Data,
         cache[l] = NoLine, inval[l] = "no",
         mem' = [mem EXCEPT ![LineAddr(l)] = d],
         whisper' = [whisper EXCEPT ![LineAddr(l)] = d],
         UNCHANGED <<cache, inval, agree>>
  PROVE  MemInv'
<1>1. MemTypes'
  BY PlainAddr DEF MemInv, MemTypes, Data
<1>2. Same'
  BY PlainAddr DEF MemInv, MemTypes, Same, Loaded, Filled
<1>3. MemHeld'
  BY PlainAddr DEF MemInv, MemTypes, MemHeld, Filled
<1> QED BY <1>1, <1>2, <1>3 DEF MemInv

\* A store of the core makes the line dirty and pokes Whisper.
LEMMA StoreStep ==
  ASSUME MemInv, NEW l \in Lines, NEW b \in Bytes, NEW v \in Values, Store(l, b, v)
  PROVE  MemInv'
<1> DEFINE old == Loaded(l)
<1>0. /\ Filled(l) /\ inval[l] = "no"
      /\ cache' = [cache EXCEPT ![l] = [old EXCEPT ![b] = v]]
      /\ whisper' = [whisper EXCEPT ![LineAddr(l)][b] = v]
      /\ UNCHANGED <<mem, inval, agree>>
  BY DEF Store, Loaded
<1>1. old \in Data /\ whisper[LineAddr(l)] = old
  BY <1>0, PlainAddr DEF MemInv, MemTypes, Same, Loaded, Filled
<1>2. [old EXCEPT ![b] = v] \in Data /\ [old EXCEPT ![b] = v] # NoLine
  <2>1. [old EXCEPT ![b] = v] \in Data
    BY <1>1 DEF Data
  <2>2. DOMAIN [old EXCEPT ![b] = v] = Bytes
    BY <2>1 DEF Data
  <2> QED BY <2>1, <2>2, NotEmpty
<1>3. whisper' = [whisper EXCEPT ![LineAddr(l)] = [old EXCEPT ![b] = v]]
  BY <1>0, <1>1, PlainAddr DEF MemInv, MemTypes
<1> HIDE DEF old
<1>4. MemTypes'
  BY <1>0, <1>2, <1>3, PlainAddr DEF MemInv, MemTypes, Data
<1>5. Same'
  BY <1>0, <1>2, <1>3, PlainAddr, ZenonT(40) DEF MemInv, MemTypes, Same, Loaded, Filled
<1>6. MemHeld'
  BY <1>0, <1>2, PlainAddr DEF MemInv, MemTypes, MemHeld, Filled
<1> QED BY <1>0, <1>4, <1>5, <1>6 DEF MemInv

\* A dirty line is written back.
LEMMA WriteBackStep ==
  ASSUME MemInv, NEW a \in PhysAddrs, WriteBack(a)
  PROVE  MemInv'
<1>1. MemTypes'
  BY PlainAddr DEF MemInv, MemTypes, WriteBack
<1>2. Same'
  BY PlainAddr DEF MemInv, MemTypes, Same, MemHeld, Loaded, Filled, WriteBack
<1>3. MemHeld'
  BY PlainAddr DEF MemInv, MemTypes, MemHeld, Filled, WriteBack
<1> QED BY <1>1, <1>2, <1>3 DEF MemInv, WriteBack

\* A cbo.inval starts, and without the memory model ends at once.
LEMMA CboInvalStep ==
  ASSUME MemInv, NEW a \in PhysAddrs, CboInval(a)
  PROVE  MemInv'
<1> DEFINE l == a[1]
<1>0. l \in Lines /\ clear_pa_mask(a) = LineAddr(l)
  BY PlainAddr
<1>1. CASE FLAGS_mcm
  <2>1. /\ inval' = [inval EXCEPT ![l] = "old"]
        /\ UNCHANGED <<mem, whisper, cache, agree>>
        /\ Filled(l) /\ inval[l] = "no"
    BY <1>1, McmAssumption DEF CboInval, store_inval_crsp
  <2> HIDE DEF l
  <2>2. MemTypes'
    BY <1>0, <2>1 DEF MemInv, MemTypes
  <2>3. Same'
    BY <1>0, <2>1 DEF MemInv, MemTypes, Same, Loaded, Filled
  <2>4. MemHeld'
    BY <1>0, <1>1, <2>1 DEF MemInv, MemTypes, MemHeld, Filled
  <2> QED BY <2>1, <2>2, <2>3, <2>4 DEF MemInv
<1>2. CASE ~FLAGS_mcm
  <2>1. /\ cache' = [cache EXCEPT ![l] = NoLine]
        /\ whisper' = [whisper EXCEPT ![LineAddr(l)] = mem[LineAddr(l)]]
        /\ UNCHANGED <<mem, inval, agree>>
        /\ Filled(l) /\ inval[l] = "no"
    BY <1>0, <1>2, McmAssumption, Zenon DEF CboInval, store_inval_crsp
  <2> HIDE DEF l
  <2>2. mem[LineAddr(l)] \in Data
    BY <1>0, <2>1, PlainAddr DEF MemInv, MemTypes, Filled
  <2>3. MemTypes'
    BY <1>0, <2>1, <2>2, PlainAddr DEF MemInv, MemTypes, Data
  <2>4. Same'
    BY <1>0, <2>1, PlainAddr DEF MemInv, MemTypes, Same, Loaded, Filled
  <2>5. MemHeld'
    BY <1>0, <2>1, PlainAddr DEF MemInv, MemTypes, MemHeld, Filled
  <2> QED BY <2>1, <2>3, <2>4, <2>5 DEF MemInv
<1> QED BY <1>1, <1>2

\* The core drops the line.
LEMMA DropStep ==
  ASSUME MemInv, NEW l \in Lines, Drop(l)
  PROVE  MemInv'
<1>1. MemTypes'
  BY DEF MemInv, MemTypes, Drop
<1>2. Same'
  BY DEF MemInv, MemTypes, Same, Loaded, Filled, Drop
<1>3. MemHeld'
  BY DEF MemInv, MemTypes, MemHeld, Filled, Drop
<1> QED BY <1>1, <1>2, <1>3 DEF MemInv, Drop

\* The response of the cbo.inval makes Whisper follow memory.
LEMMA CrspStep ==
  ASSUME MemInv, NEW a \in PhysAddrs, Crsp(a)
  PROVE  MemInv'
<1> DEFINE l == a[1]
<1>0. l \in Lines /\ clear_pa_mask(a) = LineAddr(l)
  BY PlainAddr
<1>1. inval[l] = "new" /\ Filled(l) /\ FLAGS_mcm /\ cache[l] = NoLine
  BY <1>0 DEF Crsp, MemInv, MemHeld
<1>2. /\ whisper' = [whisper EXCEPT ![LineAddr(l)] = mem[LineAddr(l)]]
      /\ inval' = [inval EXCEPT ![l] = "no"]
      /\ UNCHANGED <<mem, cache, agree>>
  BY <1>0, <1>1 DEF Crsp, store_inval_crsp
<1> HIDE DEF l
<1>3. mem[LineAddr(l)] \in Data
  BY <1>0, <1>1, PlainAddr DEF MemInv, MemTypes, Filled
<1>4. MemTypes'
  BY <1>0, <1>2, <1>3, PlainAddr DEF MemInv, MemTypes, Data
<1>5. Same'
  BY <1>0, <1>1, <1>2, PlainAddr DEF MemInv, MemTypes, Same, Loaded, Filled
<1>6. MemHeld'
  BY <1>0, <1>2, PlainAddr DEF MemInv, MemTypes, MemHeld, Filled
<1> QED BY <1>2, <1>4, <1>5, <1>6 DEF MemInv

\* A load, which fills an unwritten line and pokes Whisper when it must.
LEMMA LoadStep ==
  ASSUME MemInv, NEW a \in PhysAddrs, NEW bs \in SUBSET Bytes, NEW amo \in BOOLEAN,
         Load(a, bs, amo)
  PROVE  MemInv'
<1> DEFINE l == a[1]
           d == IF inval[l] = "old" /\ cache[l] # NoLine
                THEN cache[l] ELSE mem[LineAddr(l)]
<1>0. l \in Lines /\ clear_pa_mask(a) = LineAddr(l)
  BY PlainAddr
<1>1. /\ inval[l] # "no" /\ Filled(l)
      /\ store_inval_load(a, bs, d, amo)
      /\ agree' = (agree /\ \A b \in bs : whisper'[LineAddr(l)][b] = d[b])
      /\ UNCHANGED <<mem, cache, inval>>
  BY <1>0 DEF Load, MemInv, MemHeld
<1>2. d = Loaded(l)
  BY <1>0, <1>1 DEF MemInv, MemTypes, MemHeld, Loaded
<1>3. d \in Data
  BY <1>0, <1>1, <1>2, PlainAddr DEF MemInv, MemTypes, Loaded, Filled
<1>4. mem[LineAddr(l)] \in Data
  BY <1>0, <1>1, PlainAddr DEF MemInv, MemTypes, Filled
<1>5. CASE amo \/ \A b \in bs : d[b] = mem[LineAddr(l)][b]
  \* The bytes that are poked are those that were loaded.
  <2> DEFINE w == [b \in Bytes |-> IF b \in bs THEN d[b] ELSE whisper[LineAddr(l)][b]]
  <2>1. whisper' = [whisper EXCEPT ![LineAddr(l)] = w]
    <3> DEFINE v == IF amo THEN d ELSE mem[LineAddr(l)]
               w0 == [b \in Bytes |-> IF b \in bs THEN v[b] ELSE whisper[LineAddr(l)][b]]
    <3>1. whisper' = [whisper EXCEPT ![LineAddr(l)] = w0]
      BY <1>0, <1>1, <1>5, PlainAddr DEF store_inval_load, MemInv, MemTypes
    <3>2. \A b \in bs : v[b] = d[b]
      BY <1>5
    <3>3. w0 = w
      BY <3>2
    <3> QED BY <3>1, <3>3, ZenonT(40)
  <2>2. w \in [Bytes -> Values \cup {0}] /\ \A b \in bs : w[b] = d[b]
    BY <1>0, <1>3, PlainAddr, SMTT(30) DEF MemInv, MemTypes, Data
  <2>3. whisper[LineAddr(l)] = d => w = d
    BY <1>3 DEF Data
  <2>4. whisper'[LineAddr(l)] = w
    BY <1>0, <2>1, PlainAddr, Zenon DEF MemInv, MemTypes
  <2>5. agree'
    BY <1>1, <2>2, <2>4, Zenon DEF MemInv
  <2> HIDE DEF l, d, w
  <2>6. MemTypes'
    BY <1>0, <1>1, <2>1, <2>2, PlainAddr, Zenon DEF MemInv, MemTypes
  <2>7. Same'
    BY <1>0, <1>1, <1>2, <2>1, <2>3, PlainAddr DEF MemInv, MemTypes, Same, Loaded, Filled
  <2>8. MemHeld'
    BY <1>1, Zenon DEF MemInv, MemHeld, Filled
  <2> QED BY <2>5, <2>6, <2>7, <2>8 DEF MemInv
<1>6. CASE ~(amo \/ \A b \in bs : d[b] = mem[LineAddr(l)][b])
  \* The load read the line that is yet to go, which Whisper still has.
  <2>1. UNCHANGED whisper
    BY <1>0, <1>1, <1>6 DEF store_inval_load
  <2>2. inval[l] = "old"
    BY <1>0, <1>1, <1>6, Zenon DEF MemInv, MemTypes
  <2>3. whisper[LineAddr(l)] = d
    BY <1>0, <1>1, <1>2, <2>2, Zenon DEF MemInv, Same
  <2>4. agree'
    BY <1>1, <2>1, <2>3, Zenon DEF MemInv
  <2> HIDE DEF l, d
  <2> QED BY <1>1, <2>1, <2>4, Zenon DEF MemInv, MemTypes, Same, MemHeld, Loaded, Filled
<1> QED BY <1>5, <1>6

\* The invariant is inductive.
LEMMA MemStep ==
  ASSUME MemInv, [MemNext]_memVars
  PROVE  MemInv'
<1>1. ASSUME NEW l \in Lines, NEW d \in Data,
             uninitialized_read(l, d) \/ backdoor_write(l, d)
      PROVE  MemInv'
  <2>1. cache[l] = NoLine /\ inval[l] = "no"
    BY <1>1, Zenon DEF uninitialized_read, backdoor_write, MemInv, MemTypes, MemHeld
  <2> QED BY <1>1, <2>1, BothWritten DEF uninitialized_read, UninitPoked, backdoor_write
<1>2. CASE UNCHANGED memVars
  BY <1>2 DEF memVars, MemInv, MemTypes, Same, MemHeld, Loaded, Filled
<1> QED
  BY <1>1, <1>2, StoreStep, WriteBackStep, CboInvalStep, CrspStep, DropStep, LoadStep
  DEF MemNext

\* With and without the memory model, whatever lines are invalidated, written
\* back, written by the back door or read before they were written, Whisper's
\* memory holds what the core would load, and every load reported during a
\* cbo.inval returned the bytes Whisper then holds (store_inval_load,
\* store_inval_crsp, backdoor_write).
THEOREM MemoryKept == MemSpec => []WhisperMemory
<1>1. MemInit => MemInv
  BY MemStart
<1>2. MemInv /\ [MemNext]_memVars => MemInv'
  BY MemStep
<1>3. MemInv => WhisperMemory
  BY DEF MemInv, Same, Loaded, WhisperMemory
<1> QED BY <1>1, <1>2, <1>3, PTL DEF MemSpec
-----------------------------------------------------------------------------
(* Exclusive accesses. *)

\* A valid entry belongs to an exclusive read that nothing spoiled.
Fresh == \A h \in Harts : valid[h] => h \notin spoiled

\* The injected failures are the tries since the last programming.
Injected == tb_fail_injected = tries

EamInv == TypeOK /\ Fresh /\ Injected

USE GranuleAssumption, PatternAssumption, KnobAssumption

LEMMA SomeAddrType == SomeAddr \in Addrs
  BY DEF SomeAddr

LEMMA EamStart == Init => EamInv
<1> SUFFICES ASSUME Init PROVE EamInv
  OBVIOUS
<1>1. TypeOK
  <2>1. valid \in [Harts -> BOOLEAN]
    BY DEF Init
  <2>2. /\ rsv_addr \in [Harts -> Addrs] /\ tb_fail_addr \in Addrs
        /\ rsv_cycle \in [Harts -> Nat]
    BY SomeAddrType DEF Init
  <2>3. /\ excl_wr_count \in 0 .. PatternPass + PatternFail - 1
        /\ tb_fail_cnt \in Nat /\ tb_fail_injected \in 0 .. tb_fail_cnt
        /\ tries \in 0 .. tb_fail_cnt /\ forced_fails \in Nat
        /\ now \in Nat
    BY DEF Init
  <2>4. tb_fail_en \in BOOLEAN /\ spoiled \subseteq Harts /\ passed \subseteq Harts
    BY Zenon DEF Init
  <2> QED BY <2>1, <2>2, <2>3, <2>4 DEF TypeOK
<1>2. Fresh
  BY DEF Init, Fresh
<1>3. Injected
  BY DEF Init, Injected
<1> QED BY <1>1, <1>2, <1>3 DEF EamInv

LEMMA ReadStep ==
  ASSUME EamInv, NEW h \in Harts, NEW x \in Addrs, ExclusiveRead(h, x)
  PROVE  EamInv'
<1>1. TypeOK'
  <2>1. valid' \in [Harts -> BOOLEAN] /\ rsv_addr' \in [Harts -> Addrs]
    BY ZenonT(40) DEF EamInv, TypeOK, ExclusiveRead
  <2>2. rsv_cycle' \in [Harts -> Nat]
    BY SMTT(30) DEF EamInv, TypeOK, ExclusiveRead
  <2>3. spoiled' \subseteq Harts /\ passed' \subseteq Harts
    BY Zenon DEF EamInv, TypeOK, ExclusiveRead
  <2> QED BY <2>1, <2>2, <2>3 DEF EamInv, TypeOK, ExclusiveRead, tb, counts
<1>2. Fresh'
  BY Zenon DEF EamInv, Fresh, TypeOK, ExclusiveRead
<1>3. Injected'
  BY Zenon DEF EamInv, Injected, ExclusiveRead, tb
<1> QED BY <1>1, <1>2, <1>3 DEF EamInv

LEMMA WriteStep ==
  ASSUME EamInv, NEW h \in Harts, NEW x \in Addrs, Write(h, x)
  PROVE  EamInv'
<1>1. TypeOK'
  <2>1. valid' \in [Harts -> BOOLEAN]
    BY Zenon DEF EamInv, TypeOK, Write
  <2>2. spoiled' \subseteq Harts /\ passed' \subseteq Harts
    BY Zenon DEF EamInv, TypeOK, Write, Overlapped
  <2> QED BY <2>1, <2>2, Zenon DEF EamInv, TypeOK, Write, tb, counts
<1>2. Fresh'
  BY ZenonT(40) DEF EamInv, Fresh, TypeOK, Write, Kill
<1>3. Injected'
  BY DEF EamInv, Injected, Write, tb
<1> QED BY <1>1, <1>2, <1>3 DEF EamInv

LEMMA ExclusiveWriteStep ==
  ASSUME EamInv, NEW h \in Harts, NEW x \in Addrs, ExclusiveWrite(h, x)
  PROVE  EamInv'
<1>1. Injected'
  BY Zenon DEF EamInv, Injected, ExclusiveWrite, TbFail
<1>2. TypeOK'
  <2>1. valid' \in [Harts -> BOOLEAN]
    BY Zenon DEF EamInv, TypeOK, ExclusiveWrite
  <2>2. spoiled' \subseteq Harts /\ passed' \subseteq Harts
    BY Zenon DEF EamInv, TypeOK, ExclusiveWrite, Overlapped
  <2>3. excl_wr_count' \in 0 .. PatternPass + PatternFail - 1
    BY SMTT(30) DEF EamInv, TypeOK, ExclusiveWrite
  <2>4. tries' \in 0 .. tb_fail_cnt'
    BY SMTT(30) DEF EamInv, TypeOK, ExclusiveWrite
  <2>5. tb_fail_injected' \in 0 .. tb_fail_cnt'
    BY <1>1, <2>4, Zenon DEF Injected
  <2>6. forced_fails' \in Nat
    BY SMTT(30) DEF EamInv, TypeOK, ExclusiveWrite, Bump
  <2> QED BY <2>1, <2>2, <2>3, <2>4, <2>5, <2>6, Zenon
          DEF EamInv, TypeOK, ExclusiveWrite
<1>3. Fresh'
  BY ZenonT(40) DEF EamInv, Fresh, TypeOK, ExclusiveWrite, Kill
<1> QED BY <1>1, <1>2, <1>3, Zenon DEF EamInv

LEMMA ProgramStep == EamInv /\ Program => EamInv'
<1> SUFFICES ASSUME EamInv, Program PROVE EamInv'
  BY Zenon
<1>1. Injected' /\ tries' \in 0 .. tb_fail_cnt' /\ tb_fail_cnt' \in Nat
      /\ tb_fail_addr' \in Addrs
  <2>1. CASE \E c \in FailCnts : SetFailCnt(c)
    BY <2>1, SMTT(30) DEF EamInv, TypeOK, Injected, SetFailCnt
  <2>2. CASE \E x \in Addrs : SetFailAddr(x)
    BY <2>2, SMTT(30) DEF EamInv, TypeOK, Injected, SetFailAddr
  <2>3. CASE \E b \in BOOLEAN : SetFailEn(b)
    BY <2>3 DEF EamInv, TypeOK, Injected, SetFailEn
  <2> QED BY <2>1, <2>2, <2>3, Zenon DEF Program
<1>2. tb_fail_en' \in BOOLEAN
  BY ZenonT(40) DEF EamInv, TypeOK, Program, SetFailCnt, SetFailAddr, SetFailEn
<1>3. TypeOK'
  <2>1. tb_fail_injected' \in 0 .. tb_fail_cnt'
    BY <1>1, Zenon DEF Injected
  <2>2. passed' \subseteq Harts
    BY Zenon DEF Program
  <2> QED BY <1>1, <1>2, <2>1, <2>2 DEF EamInv, TypeOK, Program, table, counts
<1>4. Fresh'
  BY DEF EamInv, Fresh, Program, table
<1> QED BY <1>1, <1>3, <1>4, Zenon DEF EamInv

LEMMA TickStep == EamInv /\ Tick => EamInv'
<1> SUFFICES ASSUME EamInv, Tick PROVE EamInv'
  OBVIOUS
<1>1. passed' \subseteq Harts /\ now' \in Nat
  BY SMTT(30) DEF EamInv, TypeOK, Tick
<1>2. TypeOK'
  BY <1>1, Zenon DEF EamInv, TypeOK, Tick, table, tb, counts
<1>3. Fresh' /\ Injected'
  BY DEF EamInv, Fresh, Injected, Tick, table, tb
<1> QED BY <1>2, <1>3, Zenon DEF EamInv

LEMMA EamStep == EamInv /\ [Next]_vars => EamInv'
<1> SUFFICES ASSUME EamInv, [Next]_vars PROVE EamInv'
  BY Zenon
<1>1. CASE Next
  BY <1>1, ReadStep, WriteStep, ExclusiveWriteStep, ProgramStep, TickStep, Zenon
     DEF Next
<1>2. CASE UNCHANGED vars
  BY <1>2 DEF vars, table, tb, counts, EamInv, TypeOK, Fresh, Injected
<1> QED BY <1>1, <1>2

LEMMA EamInductive == Spec => []EamInv
  BY EamStart, EamStep, PTL DEF Spec

\* The reservation table, the knobs and the trickbox counters keep their
\* types; in particular no more failures are injected than programmed.
THEOREM TypeCorrect == Spec => []TypeOK
<1>1. EamInv => TypeOK
  BY Zenon DEF EamInv
<1> QED BY EamInductive, <1>1, PTL

\* Which hart passes in a step, and why.
LEMMA WhoPasses ==
  ASSUME [Next]_vars, passed' # passed \/ ~UNCHANGED vars
  PROVE  \/ passed' = {}
         \/ \E h \in Harts, x \in Addrs : passed' = {h} /\ Pass(h, x)
  BY ZenonT(40) DEF Next, vars, ExclusiveRead, Write, ExclusiveWrite, Program, Tick

\* Exclusive read and exclusive write of a hart are atomic (on_addr): for
\* any number of harts, no write to the granule lies between them.
THEOREM ExclusiveAtomic == Spec => Atomic
<1>1. EamInv /\ [Next]_vars => [passed' \cap spoiled = {}]_vars
  <2> SUFFICES ASSUME EamInv, [Next]_vars, ~UNCHANGED vars
               PROVE  passed' \cap spoiled = {}
    OBVIOUS
  <2>1. CASE passed' = {}
    BY <2>1, Zenon
  <2>2. ASSUME NEW h \in Harts, NEW x \in Addrs, passed' = {h}, Pass(h, x)
        PROVE  passed' \cap spoiled = {}
    BY <2>2, Zenon DEF EamInv, Fresh, Pass, Match
  <2> QED BY <2>1, <2>2, WhoPasses, Zenon
<1> QED BY EamInductive, <1>1, PTL DEF Spec, Atomic

\* The programmed number of failures comes before any success, for every
\* sequence of programming and exclusive writes.
THEOREM FailuresFirst == Spec => FailsFirst
<1> DEFINE Ok == \A h \in passed' :
              tb_fail_en /\ Granule(rsv_addr[h]) = Granule(tb_fail_addr)
                => tries = tb_fail_cnt
<1>1. EamInv /\ [Next]_vars => [Ok]_vars
  <2> SUFFICES ASSUME EamInv, [Next]_vars, ~UNCHANGED vars
               PROVE  Ok
    BY Zenon
  <2>1. CASE passed' = {}
    BY <2>1, Zenon
  <2>2. ASSUME NEW h \in Harts, NEW x \in Addrs, passed' = {h}, Pass(h, x)
        PROVE  Ok
    <3>1. rsv_addr[h] = x /\ ~TbFail(x)
      BY <2>2, Zenon DEF Pass, Match
    <3>2. tb_fail_injected = tries /\ tries \in 0 .. tb_fail_cnt
          /\ tb_fail_cnt \in Nat
      BY Zenon DEF EamInv, Injected, TypeOK
    <3>3. ASSUME tb_fail_en, Granule(x) = Granule(tb_fail_addr)
          PROVE  tries = tb_fail_cnt
      <4>1. ~(tb_fail_injected < tb_fail_cnt)
        BY <3>1, <3>3 DEF TbFail
      <4> QED BY <4>1, <3>2
    <3> QED BY <2>2, <3>1, <3>3, Zenon
  <2> QED BY <2>1, <2>2, WhoPasses, Zenon
<1> QED BY EamInductive, <1>1, PTL DEF Spec, FailsFirst
=============================================================================
