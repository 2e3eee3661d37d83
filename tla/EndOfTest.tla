----------------------------- MODULE EndOfTest -----------------------------
(***************************************************************************)
(* How a test's own end is noticed: the end-of-test messages of cosim.sv   *)
(* (a store to tohost, the instruction limit), eot.cpp that judges them    *)
(* and may compare the memories first, and the HTIF device that sees the   *)
(* same store on the bus.  Both ask sysmod to terminate.                   *)
(*                                                                         *)
(* A hart stores 1 (pass) or 3 (exit code 1) to tohost.  A line of the     *)
(* memory comparison is plain or in the secure region.                     *)
(***************************************************************************)
EXTENDS Naturals, FiniteSets, Sequences

CONSTANTS Harts,          \* the enabled harts
          OtherId,        \* a hart id that is not enabled
          FLAGS_max_instr, NRET,
          Plain, Secure,  \* the lines that Whisper has written
          MaxStores       \* tohost stores in a behaviour

VARIABLES flags,          \* eot, payload_has_hart_id, eot_mem_check with +mcm
          icnt,           \* cosim.sv: instruction_cnt of each hart
          e,              \* eot
          h,              \* htif
          bus,            \* stores on their way to the HTIF device
          differs,        \* lines where the memories differ in the end
          errors,         \* errors logged
          term,           \* terminate signals: who, passed
          stored,         \* history: <<hart, value>> of the stores to tohost
          arrived         \* history: <<id, value>> of HTIF's writes, in order

vars == <<flags, icnt, e, h, bus, differs, errors, term, stored, arrived>>

Flags == [eot : {"tohost", "tohost_all", "max_instr"}, payload_has_hart_id : BOOLEAN,
          eot_mem_check : BOOLEAN]

\* eot's members, with what the message being processed logs and signals.
EotStart ==
  [ended_ |-> FALSE, terminated_harts_ |-> {}, eot_mem_checks_done_ |-> FALSE,
   mem_lines_ |-> {}, snoop |-> FALSE, errors |-> {}, term |-> <<>>, at_limit |-> FALSE]

HtifStart == [passed_ |-> 0, failed_ |-> 0, passed_harts_ |-> {}, failed_harts_ |-> {}]

Init ==
  /\ flags \in Flags /\ icnt = [i \in Harts |-> 0]
  /\ e = EotStart /\ h = HtifStart /\ bus = <<>>
  /\ differs \in IF flags.eot_mem_check THEN SUBSET (Plain \cup Secure) ELSE {{}}
  /\ errors = {} /\ term = <<>> /\ stored = {} /\ arrived = <<>>
-----------------------------------------------------------------------------
(* eot.cpp                                                                 *)

Terminate(x) == [x EXCEPT !.term = Append(@, [who |-> "eot"])]

\* The lines that are compared: the secure bit of an address is set before its
\* range is checked, and takes it out of the memory.
mem_checks_snoop(x) ==
  IF Plain = {} THEN Terminate([x EXCEPT !.eot_mem_checks_done_ = TRUE])
  ELSE [x EXCEPT !.mem_lines_ = Plain, !.snoop = TRUE]

\* MUTANT of eot_terminate: a test that passed ends at once.
TerminateAtOnce(x, passed) == Terminate(x)

eot_terminate(x, passed) ==
  IF ~flags.eot_mem_check \/ ~passed \/ x.eot_mem_checks_done_ THEN Terminate(x)
  ELSE mem_checks_snoop(x)

process_eoti(x, hart, icount, data, max) ==
  CASE x.ended_ -> x
    [] ~x.ended_ /\ max /\ icount > FLAGS_max_instr ->
         eot_terminate([x EXCEPT !.ended_ = TRUE,
                         !.errors = IF flags.eot = "max_instr" THEN {} ELSE {"limit"}], TRUE)
    [] OTHER ->
         IF data \div 2 # 0
         THEN eot_terminate([x EXCEPT !.ended_ = TRUE, !.errors = {"exit code"}], FALSE)
         ELSE LET y == [x EXCEPT !.terminated_harts_ = @ \cup {hart},
                                 !.at_limit = @ \/ data = 0]
              IN  IF flags.eot # "tohost_all"
                     \/ Cardinality(y.terminated_harts_) >= Cardinality(Harts)
                  THEN eot_terminate([y EXCEPT !.ended_ = TRUE], TRUE)
                  ELSE y

\* The caches are written back: mem_checks compares until the first
\* difference, and the test ends either way.
mem_checks(x) ==
  LET bad == x.mem_lines_ \cap differs # {}
  IN  eot_terminate([x EXCEPT !.eot_mem_checks_done_ = TRUE, !.snoop = FALSE,
                              !.errors = IF bad THEN {"mismatch"} ELSE {}], ~bad)

\* What eot logs and signals leaves its record.
Apply(x) ==
  /\ e' = [x EXCEPT !.errors = {}, !.term = <<>>]
  /\ errors' = errors \cup x.errors
  /\ term' = term \o x.term
-----------------------------------------------------------------------------
(* cosim.sv: one clock of a hart with k retires, the first of them in      *)
(* slot 0 or not, and a store of value to tohost or none (0).              *)

\* The limit is compared with the count before each of the slots.
eot_max_instr(i, k, slot0) ==
  FLAGS_max_instr > 0 /\ FLAGS_max_instr \in icnt[i] + (IF slot0 THEN 1 ELSE 0) .. icnt[i] + k

Clock(i, k, slot0, value) ==
  LET max == eot_max_instr(i, k, slot0)
      found == max \/ (value # 0 /\ flags.eot # "max_instr")
  IN  /\ (k = 0 => ~slot0) /\ (k = NRET => slot0)
      /\ value # 0 => Len(bus) + Len(arrived) < MaxStores
      /\ icnt[i] + k <= FLAGS_max_instr + 1
      /\ icnt' = [icnt EXCEPT ![i] = @ + k]
      /\ stored' = IF value # 0 THEN stored \cup {<<i, value>>} ELSE stored
      /\ bus' = IF value # 0 THEN Append(bus, <<i, value>>) ELSE bus
      /\ IF found THEN Apply(process_eoti(e, i, icnt[i] + k,
                               IF flags.eot # "max_instr" THEN value ELSE 0, max))
         ELSE UNCHANGED <<e, errors, term>>
      /\ UNCHANGED <<flags, h, differs, arrived>>

SnoopMem ==
  /\ e.snoop
  /\ Apply(mem_checks(e))
  /\ UNCHANGED <<flags, icnt, h, bus, differs, stored, arrived>>
-----------------------------------------------------------------------------
(* htif.cpp: a write of a status to tohost (device 0, command 0).          *)

Exit(x, id, value) ==
  IF value = 1
  THEN [x EXCEPT !.passed_harts_ = @ \cup {id},
                 !.passed_ = IF id \in x.passed_harts_ THEN @ ELSE @ + 1]
  ELSE [x EXCEPT !.failed_harts_ = @ \cup {id},
                 !.failed_ = IF id \in x.failed_harts_ THEN @ ELSE @ + 1]

HtifTerm(passed) == [who |-> "htif", passed |-> passed, at |-> Len(arrived) + 1]

\* id is the hart of the payload with +payload_has_hart_id.
write(id, value) ==
  LET legal == ~flags.payload_has_hart_id \/ id \in Harts
      x == CASE flags.payload_has_hart_id /\ legal -> Exit(h, id, value)
             [] flags.payload_has_hart_id /\ ~legal -> h
             [] OTHER -> IF value = 1 THEN [h EXCEPT !.passed_ = @ + 1]
                         ELSE [h EXCEPT !.failed_ = @ + 1]
      byHart == flags.payload_has_hart_id /\ legal /\
                Cardinality(x.passed_harts_) + Cardinality(x.failed_harts_) = Cardinality(Harts)
      first == ~flags.payload_has_hart_id /\ value = 1 /\ flags.eot # "tohost_all"
      all == flags.eot = "tohost_all" /\ x.passed_ + x.failed_ = Cardinality(Harts)
  IN  /\ h' = x /\ arrived' = Append(arrived, <<id, value>>)
      /\ errors' = errors \cup (IF legal THEN {} ELSE {"illegal id"})
                          \cup (IF legal /\ value # 1 THEN {"exit code"} ELSE {})
      /\ term' = term \o (IF byHart THEN <<HtifTerm(x.failed_harts_ = {})>> ELSE <<>>)
                      \o (IF first THEN <<HtifTerm(TRUE)>> ELSE <<>>)
                      \o (IF all THEN <<HtifTerm(x.failed_ = 0)>> ELSE <<>>)

\* The store arrives; its payload names its hart, or a wrong one.
HtifWrite(wrong) ==
  /\ bus # <<>>
  /\ wrong => flags.payload_has_hart_id
  /\ write(IF wrong THEN OtherId ELSE Head(bus)[1], Head(bus)[2])
  /\ bus' = Tail(bus)
  /\ UNCHANGED <<flags, icnt, e, differs, stored>>

Next ==
  \/ \E i \in Harts, k \in 0 .. NRET, slot0 \in BOOLEAN, value \in {0, 1, 3} :
       Clock(i, k, slot0, value)
  \/ SnoopMem
  \/ \E wrong \in BOOLEAN : HtifWrite(wrong)

Spec == Init /\ [][Next]_vars
-----------------------------------------------------------------------------
ByEot == {i \in DOMAIN term : term[i].who = "eot"}
Passed == ByEot # {} /\ errors \cap {"exit code", "limit", "mismatch"} = {}

\* eot.h:30, "eot=tohost -- Look for mem store to 'tohost' address =
\* success/fail": a test that eot ends and logs nothing against has stored a
\* pass to tohost, on every hart with +eot=tohost_all.
PassNeedsTohost ==
  Passed /\ flags.eot # "max_instr" =>
    LET done == {i \in Harts : <<i, 1>> \in stored}
    IN  IF flags.eot = "tohost_all" THEN done = Harts ELSE done # {}

\* The same, less the end at the very instruction of the limit.  eot asks for
\* the end once however many messages follow (ended_), and with the memory
\* comparison only after the lines that differ were reported.
EotEndsRight ==
  /\ PassNeedsTohost \/ e.at_limit
  /\ Cardinality(ByEot) <= 1
  /\ ByEot # {} /\ flags.eot_mem_check /\ differs \cap Plain # {} =>
       errors \cap {"exit code", "limit", "mismatch"} # {}

\* With the hart in the payload or +eot=tohost_all, HTIF ends the test with a
\* pass exactly when no failing status arrived before, and with the hart in
\* the payload only after as many different exits as there are harts.
HtifEndsRight ==
  \A i \in DOMAIN term :
    term[i].who = "htif" /\ (flags.payload_has_hart_id \/ flags.eot = "tohost_all") =>
      LET seen == {a \in {arrived[j] : j \in 1 .. term[i].at} :
                     flags.payload_has_hart_id => a[1] \in Harts}
      IN  /\ term[i].passed <=> \A a \in seen : a[2] = 1
          /\ flags.payload_has_hart_id => Cardinality(seen) >= Cardinality(Harts)

=============================================================================
