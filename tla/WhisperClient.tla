--------------------------- MODULE WhisperClient ---------------------------
(***************************************************************************)
(* The client of the Whisper instruction-set simulator                     *)
(* (src/cosim/whisper_if/whisper_client.cpp).  All harts and all callers   *)
(* share one request message: a call assigns the fields it needs and the   *)
(* others keep what an earlier call left in them.  The hart number is      *)
(* translated in place just before the message is handed over.             *)
(*                                                                         *)
(* Every value of a call is abstracted to one marker v, the same for all   *)
(* the fields that the call assigns; Whisper's answer is any.              *)
(***************************************************************************)
EXTENDS Naturals, FiniteSets, Sequences, Functions

CONSTANTS NumHarts,      \* FLAGS_num_harts
          HartCount,     \* system_->hartCount(), NumHarts at least
          HartLists,     \* values of +hart_mhartid, as the list of its numbers
          Cosim          \* FLAGS_cosim

\* The platform has at least one hart in Whisper for each of its own.
ASSUME HartsAssumption ==
  NumHarts \in Nat /\ HartCount \in Nat /\ NumHarts <= HartCount /\ HartLists \subseteq Seq(Nat)

VARIABLES server_, whisper_hart_index, req, reply,
          last   \* the last call: its entry, marker and result

clientVars == <<server_, whisper_hart_index, req, reply, last>>

Harts == 0 .. NumHarts - 1
Marks == {0, 1}
Fields == {"resource", "address", "size", "value", "buffer", "flags", "time",
           "instrTag"}
Answers == {"Valid", "Invalid"}

\* A call: its name, the message type and the fields it assigns besides hart
\* and type (the tag is a note in the log); own: it has a reply message of its
\* own; wide: it is given more than eight bytes, which Whisper takes from the
\* buffer.
Call(name, type, sets) ==
  [name |-> name, type |-> type, sets |-> sets, own |-> FALSE, wide |-> FALSE]
Own(call) == [call EXCEPT !.own = TRUE]
Wide(call) == [call EXCEPT !.wide = TRUE]
-----------------------------------------------------------------------------
\* whisperPeek, PeekCsr, PeekPc, PeekGpr, PeekFpr, PeekVpr
PeekCalls ==
  {Call("Peek", "Peek", {"resource", "address"}),
   Call("PeekPc", "Peek", {"resource"})}

\* MUTANT of PokeCalls: the skip-memory and cache flags of a poke are left over.
PokesFlagless ==
  {Call("InjectException", "InjectException", {"flags", "address", "resource", "value"}),
   Call("Poke", "Poke", {"resource", "address", "value", "time"}),
   Call("PokeMem", "Poke", {"resource", "address", "value", "time", "size"})}

\* whisperInjectException, Poke, PokeMem
PokeCalls ==
  {Call("InjectException", "InjectException", {"flags", "address", "resource", "value"}),
   Call("Poke", "Poke", {"flags", "resource", "address", "value", "time"}),
   Call("PokeMem", "Poke",
        {"flags", "resource", "address", "value", "time", "size"})}

\* whisperStep, SimpleStep, Change, GetLastLdStAddress
StepCalls ==
  {Call("Step", "Step", {"instrTag", "time"}),
   Own(Call("SimpleStep", "Step", {"instrTag", "time"})),
   Call("Change", "Change", {}),
   Own(Call("GetLastLdStAddress", "Peek", {"resource", "address"}))}

Access == {"time", "size", "address", "instrTag", "resource"}

\* whisperMcmRead, McmVecRead, McmVecInsert, McmInsert; a vector call of at
\* most eight bytes is the scalar one, a wide scalar one fills with zero.
McmReadCalls ==
  {Call("McmRead", "McmRead", Access \cup {"flags", "value"}),
   Wide(Own(Call("McmVecRead", "McmRead", Access \cup {"flags", "buffer"}))),
   Call("McmInsert", "McmInsert", Access \cup {"value"}),
   Wide(Call("McmInsert", "McmInsert", Access \cup {"value", "buffer"})),
   Wide(Own(Call("McmVecInsert", "McmInsert", Access \cup {"buffer"})))}

\* whisperMcmVecBypass, McmBypass, McmWrite
McmWriteCalls ==
  {Call("McmBypass", "McmBypass", Access \cup {"flags", "value"}),
   Wide(Call("McmBypass", "McmBypass", Access \cup {"flags", "value", "buffer"})),
   Wide(Own(Call("McmVecBypass", "McmBypass", Access \cup {"flags", "buffer"}))),
   Call("McmWrite", "McmWrite", {"time", "address", "size", "flags", "buffer"})}

\* whisperMcmIFetch, SkipReadDataCheck, IEvict, DEvict, DWriteback, DFetch,
\* Decode, End
McmCacheCalls ==
  {Call(n, n, {"time", "address"}) :
     n \in {"McmIFetch", "McmIEvict", "McmDEvict", "McmDFetch"}}
  \cup {Call("McmDWriteback", "McmDWriteback",
             {"time", "address", "size", "buffer", "value"}),
        Call("McmDecode", "McmDecode", {"time", "address", "instrTag", "size"}),
        Call("McmSkipReadChk", "McmSkipReadChk", {"value", "size", "address"}),
        Call("McmEnd", "McmEnd", {"time"})}

\* whisperTranslate, CancelLr, Reset, EnterDebug, ExitDebug, CheckInterrupt,
\* GetSeiPin, Nmi, ClearNmi, ClearNmiCause
ControlCalls ==
  {Call(n, n, {}) : n \in {"CancelLr", "EnterDebug", "ExitDebug"}}
  \cup {Own(Call("CheckInterrupt", "CheckInterrupt", {})),
        Own(Call("GetSeiPin", "Peek", {"resource", "address"})),
        Call("Translate", "Translate", {"address", "flags"}),
        Call("Reset", "Reset", {"address"}),
        Call("Nmi", "Nmi", {"time", "value"}),
        Call("ClearNmi", "ClearNmi", {"time", "flags"}),
        Call("ClearNmiCause", "ClearNmi", {"time", "value", "flags"})}

\* The calls that configure registers.  whisperSetAmoAllow and the other
\* setters are one or two Pokes.
Calls == PeekCalls \cup PokeCalls \cup StepCalls \cup McmReadCalls
         \cup McmWriteCalls \cup McmCacheCalls \cup ControlCalls

\* What the server reads from a message of call c: nothing but the type
\* tells it which fields hold a value.
Needed(c) ==
  CASE c.name = "PeekPc" -> {"resource"}
    [] c.type = "Peek" /\ c.name # "PeekPc" -> {"resource", "address"}
    [] c.type = "Poke" ->
         {"resource", "address", "value", "flags", "time"}
         \cup IF c.name = "PokeMem" THEN {"size"} ELSE {}
    [] c.type = "Step" -> {"instrTag", "time"}
    [] c.type = "InjectException" -> {"flags", "address", "resource", "value"}
    [] c.type \in {"McmRead", "McmBypass"} ->
         Access \cup {"flags", IF c.wide THEN "buffer" ELSE "value"}
    [] c.type = "McmInsert" -> Access \cup {IF c.wide THEN "buffer" ELSE "value"}
    [] c.type = "McmWrite" -> {"time", "address", "size", "flags", "buffer"}
    [] c.type = "Nmi" -> {"value"}
    [] c.name = "ClearNmiCause" -> {"value", "flags"}
    [] c.type = "ClearNmi" /\ c.name # "ClearNmiCause" -> {"flags"}
    [] c.type \in {"McmIFetch", "McmIEvict", "McmDEvict", "McmDFetch"} -> {"time", "address"}
    [] OTHER -> c.sets
-----------------------------------------------------------------------------
Unanswered(v) == [call |-> Call("none", "none", {}), v |-> v,
                  answered |-> FALSE, valid |-> FALSE]

ClientInit ==
  /\ server_ = FALSE /\ whisper_hart_index = << >>
  /\ req = [f \in Fields |-> 0] /\ reply = "Invalid"
  /\ last = Unanswered(0)

whisperHart(h) ==
  IF h < Len(whisper_hart_index) THEN whisper_hart_index[h + 1] ELSE h

\* One entry for each hart, each a hart of Whisper's, none twice.
ListValid(list) ==
  /\ Len(list) = NumHarts
  /\ \A i \in DOMAIN list : list[i] < HartCount
  /\ IsInjective(list)

\* A valid list is completed by the remaining harts in ascending order.
Completed(list) ==
  LET rest == (0 .. HartCount - 1) \ Range(list)
  IN [i \in 1 .. HartCount |->
        IF i <= NumHarts THEN list[i]
        ELSE CHOOSE h \in rest : Cardinality({g \in rest : g < h}) = i - NumHarts - 1]

\* whisperConnect: a standalone run that fails leaves everything as it was
\* (failed).  An empty or a rejected list keeps the table of an earlier
\* connection.
Connect(failed, list) ==
  /\ IF failed
     THEN UNCHANGED <<server_, whisper_hart_index>>
     ELSE /\ server_' = TRUE
          /\ whisper_hart_index' = IF list # << >> /\ ListValid(list)
                                   THEN Completed(list) ELSE whisper_hart_index
  /\ UNCHANGED <<req, reply, last>>

\* whisperCommand: without cosim or a server the messages stay as they are.
whisperCommand(c, v, answer) ==
  IF Cosim /\ server_
  THEN /\ reply' = IF c.own THEN reply ELSE answer
       /\ last' = [call |-> c, v |-> v, answered |-> TRUE, valid |-> answer = "Valid"]
  ELSE /\ UNCHANGED reply
       /\ last' = [call |-> c, v |-> v, answered |-> FALSE,
                   valid |-> ~c.own /\ reply = "Valid"]

Do(c, v, answer) ==
  /\ req' = [f \in Fields |-> IF f \in c.sets THEN v ELSE req[f]]
  /\ whisperCommand(c, v, answer)
  /\ UNCHANGED <<server_, whisper_hart_index>>

\* whisperMcmWrite of more bytes than the buffer holds gives up half way.
McmWriteTooLong(v) ==
  /\ req' = [f \in Fields |->
               IF f \in {"time", "address", "size", "flags"} THEN v ELSE req[f]]
  /\ last' = Unanswered(v)
  /\ UNCHANGED <<server_, whisper_hart_index, reply>>

ClientNext ==
  \/ \E failed \in BOOLEAN, list \in HartLists : Connect(failed, list)
  \/ \E c \in Calls, v \in Marks, answer \in Answers : Do(c, v, answer)
  \/ \E v \in Marks : McmWriteTooLong(v)

ClientSpec == ClientInit /\ [][ClientNext]_clientVars
-----------------------------------------------------------------------------
\* Whisper gets what the caller passed: every field that the message type
\* reads holds the value of this call and not that of an earlier one, by any
\* caller, in the shared request (whisperPoke, whisperMcmRead and the others).
NothingLeftOver ==
  last.answered => \A f \in Needed(last.call) : req[f] = last.v

\* Two harts never run on one Whisper hart, whatever lists were given and
\* rejected (whisper_hart_index), and a message goes to the hart it is for.
HartsApart ==
  /\ \A g, h \in Harts : whisperHart(g) = whisperHart(h) => g = h
  /\ \A h \in Harts : whisperHart(h) < HartCount

\* A call that reports a valid answer was answered by Whisper: the answer
\* in the shared reply is not that of an earlier call.
ValidIsAnswered == last.valid => last.answered

\* All three: the callers, who share the client and its messages, do not
\* disturb one another (whisperCommand and its callers, parseHartList).
CallsApart == NothingLeftOver /\ HartsApart /\ ValidIsAnswered
=============================================================================
