---------------------------- MODULE BusErrorList ----------------------------
(***************************************************************************)
(* The error responses of the software AXI slave: the list of address      *)
(* ranges with their counters (src/common/bus_error_list.h) and its use in *)
(* src/transactors/axi_sw/axi.cpp.  A range answers its first accesses     *)
(* with errors (threshold mode) or follows a repeating pattern of normal   *)
(* and error responses; reads and writes are counted apart.  The slave has *)
(* two such lists, used alike: this is one of them.                        *)
(***************************************************************************)
EXTENDS Naturals, Sequences, FiniteSets, SequencesExt

CONSTANTS
  Tokens,      \* what FLAGS_axi_resp_*_addr may list: [single, lo, hi]
  MaxTokens,   \* bound: tokens in a list
  LineBytes,   \* 64 in the code
  Addrs, Thresholds,
  Patterns,    \* [normal, error]; both 0: no pattern
  FLAGS_axi_err_after_test_start,
  MaxCount     \* bound: accesses a range takes since it was configured

Types == {"READ", "WRITE"}

VARIABLES
  address_list_, threshold, pattern, error_en_,
  flags,       \* FLAGS_axi_resp_*_addr
  seen,        \* accesses to each range since the list was set up (history)
  agree        \* every response was the expected one (history)

vars == <<address_list_, threshold, pattern, error_en_, flags, seen, agree>>

Zero == [t \in Types |-> 0]

-----------------------------------------------------------------------------
(* The list.                                                               *)

\* Mutant: entries are kept in the order they are given.
insert_last(list, lo, hi) ==
  Append(list, [lo |-> lo, hi |-> hi, counters |-> Zero, pattern_positions |-> Zero])

\* Before the first entry that does not start below lo (lower_bound).
insert(list, lo, hi) ==
  LET below == Cardinality({i \in DOMAIN list : list[i].lo < lo})
  IN InsertAt(list, below + 1,
       [lo |-> lo, hi |-> hi, counters |-> Zero, pattern_positions |-> Zero])

Line(a) == (a \div LineBytes) * LineBytes

\* A single address stands for its cache line.
RangeOf(k) ==
  IF k.single THEN <<Line(k.lo), Line(k.lo) + LineBytes - 1>> ELSE <<k.lo, k.hi>>

parse(tokens) ==
  FoldLeft(LAMBDA list, k : insert(list, RangeOf(k)[1], RangeOf(k)[2]), <<>>, tokens)

\* The entry that covers addr, as a set of at most one index: only the last one
\* that starts at or below addr is looked at (upper_bound).
find_entry(addr) ==
  LET n == Cardinality({i \in DOMAIN address_list_ : address_list_[i].lo <= addr})
  IN {i \in {n} \ {0} : addr <= address_list_[i].hi}

find(addr) == find_entry(addr) # {}

PatternMode == pattern.normal > 0 /\ pattern.error > 0

\* check_inject_error of entry i
check_inject_error(i, t) ==
  IF PatternMode
  THEN address_list_[i].pattern_positions[t] % (pattern.normal + pattern.error)
         >= pattern.normal
  ELSE address_list_[i].counters[t] < threshold

\* incr_count of entry i
incr_count(i, t) ==
  IF PatternMode THEN [address_list_[i] EXCEPT !.pattern_positions[t] = @ + 1]
  ELSE [address_list_[i] EXCEPT !.counters[t] = @ + 1]

-----------------------------------------------------------------------------
(* The slave.                                                              *)

Lists == UNION {[1 .. n -> Tokens] : n \in 0 .. MaxTokens}

Ranges == {RangeOf(k) : k \in Tokens}

Unseen == [r \in Ranges |-> Zero]

\* The constructor.
Init ==
  /\ flags \in Lists /\ threshold \in Thresholds /\ pattern \in Patterns
  /\ address_list_ = parse(flags)
  /\ error_en_ = ~FLAGS_axi_err_after_test_start
  /\ seen = Unseen /\ agree = TRUE

\* configure_error_rpc: new lists from the flags as they are now.
configure_error ==
  /\ \E f \in Lists, h \in Thresholds, p \in Patterns :
       /\ flags' = f /\ threshold' = h /\ pattern' = p
       /\ address_list_' = parse(f)
  /\ seen' = Unseen
  /\ UNCHANGED <<error_en_, agree>>

enable_error == error_en_' = TRUE /\ UNCHANGED
  <<address_list_, threshold, pattern, flags, seen, agree>>

disable_error == error_en_' = FALSE /\ UNCHANGED
  <<address_list_, threshold, pattern, flags, seen, agree>>

Listed == {RangeOf(flags[i]) : i \in DOMAIN flags}
Covering(a) == {r \in Listed : r[1] <= a /\ a <= r[2]}

\* What the next access to range r should get.  The accesses are counted for the
\* range as a whole, where the comment at the head of bus_error_list.h and the
\* help texts of the thresholds speak of each address.
Expected(r, t) ==
  IF PatternMode
  THEN seen[r][t] % (pattern.normal + pattern.error) >= pattern.normal
  ELSE seen[r][t] < threshold

\* The last beat of an access: check, then count, then the response.
Access(addr, t) ==
  LET hit == error_en_ /\ find(addr)
      err == hit /\ \E i \in find_entry(addr) : check_inject_error(i, t)
  IN /\ \A r \in Covering(addr) : seen[r][t] < MaxCount
     /\ address_list_' = [i \in DOMAIN address_list_ |->
          IF hit /\ i \in find_entry(addr) THEN incr_count(i, t) ELSE address_list_[i]]
     /\ seen' = [r \in Ranges |->
          IF error_en_ /\ r \in Covering(addr) THEN [seen[r] EXCEPT ![t] = @ + 1]
          ELSE seen[r]]
     /\ agree' = (agree /\
          err = (error_en_ /\ \E r \in Covering(addr) : Expected(r, t)))
     /\ UNCHANGED <<threshold, pattern, error_en_, flags>>

Next == \/ configure_error
        \/ enable_error
        \/ disable_error
        \/ \E a \in Addrs, t \in Types : Access(a, t)

Spec == Init /\ [][Next]_vars

-----------------------------------------------------------------------------
\* The ranges are disjoint or equal, as FLAGS_axi_resp_*_addr should list them.
Disjoint ==
  \A r, s \in Ranges : r = s \/ r[2] < s[1] \/ s[2] < r[1]

\* In whatever order disjoint ranges are listed, and however the list is set up
\* again, switched off and on, each range answers with errors those accesses to
\* any of its addresses, counted together, that its threshold or pattern says,
\* and no others (insert, find_entry, check_inject_error, incr_count and their
\* use in axi.cpp).
InjectsAsConfigured == Disjoint => agree

=============================================================================
