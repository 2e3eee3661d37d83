------------------------------ MODULE Debugger ------------------------------
(***************************************************************************)
(* The debugger of the trickbox (debugger.h, debugger.cpp), which plays    *)
(* files of commands for the debug module, and the port of sysmod.sv that  *)
(* hands them over.  With FLAGS_random_dbg_entry it picks the files itself *)
(* and sends a command trigger for every checkpoint in them; without it    *)
(* the test asks for the file and for the triggers.                        *)
(*                                                                         *)
(* A file is the sequence of its lines that become a command ("cmd") or a  *)
(* checkpoint ("cp"); comments and the switches of the func_bits become    *)
(* none.  A tick is the unit of time.  timer_ stands still once nothing    *)
(* waits for it, since it is only compared with what was computed from it. *)
(***************************************************************************)
EXTENDS Integers, Sequences

CONSTANTS
  FLAGS_random_dbg_entry, FLAGS_dbg_max_snippets, FLAGS_random_dbg_start_delay,
  FLAGS_dbg_delay_min, FLAGS_dbg_delay_max,
  Files,            \* [rows, ndm, opens]: lines, "ndm" in the name, readable
  TickClks,         \* clocks from a tick to the next
  DutResets,        \* TRUE: the DUT may ask for a reset, and tick at any clock
  MaxLoads, MaxExecs, MaxBuilds

VARIABLES
  d,                \* the debugger
  reset_state,      \* reset_state.txt begins with "Ndm-Reset"
  dmi_cbs,          \* callbacks that call sysmod_dmi_write
  port,             \* dmi_write_begin, dmi_write_end, dm_wdata of sysmod.sv
  since,            \* clocks since the last tick
  dm                \* history: what was loaded, and what the debug module got

vars == <<d, reset_state, dmi_cbs, port, since, dm>>

DebugDelays == FLAGS_dbg_delay_min .. FLAGS_dbg_delay_max
CmdDelays == LET span == FLAGS_dbg_delay_max - FLAGS_dbg_delay_min
             IN  5 * FLAGS_dbg_delay_min .. 5 * FLAGS_dbg_delay_min + span

StartDelays == IF FLAGS_dbg_delay_min = 0 THEN {0} ELSE DebugDelays

\* The constructor and the reset() it calls, with r the drawn delay.
Built(ndm, r) ==
  [timer_ |-> 0, timer_rand_debug |-> FLAGS_random_dbg_start_delay + r,
   cmd_trigger_rand_debug |-> 0, checkpoint_triggers_pending |-> 0,
   rand_dbg_entry_cmd_trigger |-> FALSE, file_parsing_done |-> FALSE,
   file_parsing_in_progress |-> FALSE, cmd_trigger_in_progress |-> FALSE,
   snippets_driven |-> IF ndm THEN FLAGS_dbg_max_snippets ELSE 0,
   ndm_reset_occured |-> ndm, dmi_cmd_q |-> << >>, cmd_exc_trig_rcv |-> FALSE,
   error |-> FALSE]

Go == [op |-> "go"]
NoData == [op |-> "none"]

Init ==
  /\ \E r \in StartDelays : d = Built(FALSE, r)
  /\ reset_state = FALSE /\ dmi_cbs = << >> /\ since = 0
  /\ port = [begin |-> FALSE, end |-> FALSE, data |-> NoData]
  /\ dm = [loads |-> 0, loaded |-> 0, next |-> 1, cps |-> 0, gos |-> 0,
           open |-> FALSE, paired |-> TRUE, quiet |-> FALSE, again |-> FALSE, execs |-> 0, builds |-> 1]
-----------------------------------------------------------------------------
(* Handlers, from the debugger to the debugger.                            *)

\* A checkpoint ends every random snippet.
Rows(f) == IF FLAGS_random_dbg_entry THEN Append(f.rows, "cp") ELSE f.rows

\* The commands of a file, numbered from the n-th on.
Commands(f, n) ==
  [i \in DOMAIN Rows(f) |-> [op |-> Rows(f)[i], id |-> n + i, first |-> i = 1]]

parse_dmi_from_csv(x, f) ==
  LET y == IF f.ndm THEN [x EXCEPT !.snippets_driven = FLAGS_dbg_max_snippets] ELSE x
  IN  IF f.opens
      THEN [y EXCEPT !.dmi_cmd_q = @ \o Commands(f, dm.loaded),
                     !.file_parsing_done = TRUE]
      ELSE [y EXCEPT !.error = TRUE]

StartsSnippet(x) ==
  /\ x.timer_ >= x.timer_rand_debug /\ x.checkpoint_triggers_pending = 0
  /\ ~x.cmd_trigger_in_progress /\ ~x.file_parsing_in_progress

\* f is the file that file_idx stands for, rd and rc are the drawn delays.
checkDebugEvents(x, f, rd, rc) ==
  LET start == StartsSnippet(x)
      y == IF start /\ x.snippets_driven < FLAGS_dbg_max_snippets
           THEN [parse_dmi_from_csv(x, f) EXCEPT !.snippets_driven = @ + 1,
                                                 !.file_parsing_in_progress = TRUE]
           ELSE x
      z == IF start /\ y.file_parsing_done /\ y.file_parsing_in_progress
           THEN [y EXCEPT !.cmd_trigger_rand_debug = y.timer_ + rc,
                          !.file_parsing_in_progress = FALSE,
                          !.cmd_trigger_in_progress = TRUE]
           ELSE y
      left == z.checkpoint_triggers_pending - 1
  IN  IF ~(/\ z.timer_ >= z.cmd_trigger_rand_debug /\ z.dmi_cmd_q = << >>
           /\ z.file_parsing_done /\ z.cmd_trigger_in_progress)
      THEN z
      ELSE IF z.checkpoint_triggers_pending = 0
      THEN [z EXCEPT !.timer_rand_debug = z.timer_ + rd, !.cmd_trigger_in_progress = FALSE]
      ELSE [z EXCEPT !.rand_dbg_entry_cmd_trigger = TRUE,
                     !.checkpoint_triggers_pending = left,
                     !.cmd_trigger_rand_debug = IF left > 0 THEN z.timer_ + rc ELSE @]

\* What tick sends: the test's trigger, else its own, else the next command.
Sent(x) == IF x.cmd_exc_trig_rcv \/ x.rand_dbg_entry_cmd_trigger THEN <<Go>>
           ELSE IF x.dmi_cmd_q = << >> THEN << >> ELSE <<Head(x.dmi_cmd_q)>>

drive_csv_dmi_cmds(x) ==
  IF x.rand_dbg_entry_cmd_trigger THEN [x EXCEPT !.rand_dbg_entry_cmd_trigger = FALSE]
  ELSE IF x.dmi_cmd_q = << >> THEN x
  ELSE [x EXCEPT !.dmi_cmd_q = Tail(@),
                 !.checkpoint_triggers_pending =
                   IF Head(x.dmi_cmd_q).op = "cp" THEN @ + 1 ELSE @]

Awaited(x) == x.timer_ < 6 \/ x.timer_ < x.timer_rand_debug \/ x.timer_ < x.cmd_trigger_rand_debug
-----------------------------------------------------------------------------
(* Actions.                                                                *)

\* Loading f is noted when a handler has loaded it.
Note(loads, f) ==
  dm' = IF ~loads THEN dm
        ELSE [dm EXCEPT !.loads = @ + 1, !.again = @ \/ dm.quiet,
                        !.loaded = @ + IF f.opens THEN Len(Rows(f)) ELSE 0]

\* The tick message: debugger::tick, then is_dut_reset_req when req is set,
\* for which the message comes at any clock.
Tick(req) ==
  /\ req \in IF DutResets THEN BOOLEAN ELSE {FALSE}
  /\ req \/ since = TickClks
  /\ \E f \in Files, rd \in DebugDelays, rc \in CmdDelays :
       LET x == [d EXCEPT !.timer_ = IF Awaited(d) THEN @ + 1 ELSE @]
           runs == x.timer_ > 5
           y == IF runs /\ FLAGS_random_dbg_entry THEN checkDebugEvents(x, f, rd, rc) ELSE x
           z == IF ~runs THEN y
                ELSE IF y.cmd_exc_trig_rcv THEN [y EXCEPT !.cmd_exc_trig_rcv = FALSE]
                ELSE drive_csv_dmi_cmds(y)
       IN  /\ d' = [z EXCEPT !.ndm_reset_occured = @ \/ req]
           /\ dmi_cbs' = IF runs THEN dmi_cbs \o Sent(y) ELSE dmi_cbs
           /\ Note(~x.file_parsing_in_progress
                   /\ (y.file_parsing_in_progress \/ y.snippets_driven > x.snippets_driven), f)
  /\ reset_state' = (reset_state \/ req)
  /\ since' = 0
  /\ UNCHANGED port

\* debugger::write of the test: the command trigger, kept for the next tick.
WriteExec ==
  /\ ~FLAGS_random_dbg_entry /\ dm.execs < MaxExecs
  /\ d' = [d EXCEPT !.cmd_exc_trig_rcv = TRUE]
  /\ dm' = [dm EXCEPT !.execs = @ + 1]
  /\ UNCHANGED <<reset_state, dmi_cbs, port, since>>

\* debugger::write of the test: load the file, unless the DUT was reset.
WriteLoad ==
  /\ ~FLAGS_random_dbg_entry /\ dm.loads < MaxLoads
  /\ \E f \in Files :
       /\ d' = IF d.ndm_reset_occured THEN d ELSE parse_dmi_from_csv(d, f)
       /\ Note(~d.ndm_reset_occured, f)
  /\ UNCHANGED <<reset_state, dmi_cbs, port, since>>

\* The debug module takes a command or a trigger.
Taken(c) ==
  IF c.op = "go"
  THEN [dm EXCEPT !.gos = @ + 1, !.open = FALSE,
                  !.paired = @ /\ dm.gos < dm.cps /\ dm.next = dm.loaded + 1]
  ELSE [dm EXCEPT !.next = IF c.id = @ THEN @ + 1 ELSE 0, !.open = TRUE,
                  !.cps = IF c.op = "cp" THEN @ + 1 ELSE @,
                  !.paired = @ /\ (c.first => dm.gos = dm.cps /\ ~dm.open)]

\* The logic of sysmod.sv at one edge, without the data it drives.
Posedge(p) == IF p.end THEN [p EXCEPT !.begin = FALSE, !.end = FALSE]
              ELSE IF p.begin THEN [p EXCEPT !.end = TRUE] ELSE p

\* A clock: the callbacks run, before or after the logic of the edge.
Clock ==
  /\ \E first \in BOOLEAN :
       LET called(p) == IF dmi_cbs = << >> THEN p
                        ELSE [p EXCEPT !.begin = TRUE, !.data = dmi_cbs[Len(dmi_cbs)]]
           p == IF first THEN called(port) ELSE port
       IN  /\ port' = IF first THEN Posedge(p) ELSE called(Posedge(p))
           /\ dm' = IF p.begin /\ ~p.end THEN Taken(p.data) ELSE dm
  /\ dmi_cbs' = << >>
  /\ since' = IF since < TickClks THEN since + 1 ELSE since
  /\ UNCHANGED <<d, reset_state>>

\* A rerun builds the devices anew, after the callbacks of the last run; only
\* the file reset_state.txt is left of it.
Rebuild ==
  /\ dm.builds < MaxBuilds /\ dmi_cbs = << >> /\ ~port.begin
  /\ \E r \in StartDelays : d' = Built(reset_state, r)
  /\ dm' = [dm EXCEPT !.builds = @ + 1, !.loads = 0, !.loaded = 0, !.next = 1,
                      !.cps = 0, !.gos = 0, !.open = FALSE, !.quiet = reset_state]
  /\ UNCHANGED <<reset_state, dmi_cbs, port, since>>

Next == (\E req \in BOOLEAN : Tick(req)) \/ WriteExec \/ WriteLoad \/ Clock \/ Rebuild

Spec == Init /\ [][Next]_vars /\ WF_vars(Tick(FALSE)) /\ WF_vars(Clock)
-----------------------------------------------------------------------------
\* Until the DUT asks for a reset, when ticks come too fast for the port, the
\* debug module gets the commands of the loaded files in their order, each of
\* them once (drive_csv_dmi_cmds, sysmod_dmi_write).
CommandsKept == ~reset_state => dm.next \in 1 .. dm.loaded + 1

\* A random snippet begins only when every checkpoint of the last one had its
\* trigger, the last of them after all its commands, and a trigger comes only
\* when no command is on its way ("Add a dummy check-point to ensure all DMI commands part of the
\* previous trigger is executed").
CheckpointsPaired == FLAGS_random_dbg_entry /\ ~reset_state => dm.paired

\* After a reset that the DUT asked for, a debugger that is built for the next
\* run plays no file, whoever asks for it (reset_state.txt).
NoneAfterReset == ~dm.again

DebuggerRight == CommandsKept /\ CheckpointsPaired /\ NoneAfterReset

\* Nothing is left to play: the snippets are, and each of their checkpoints had
\* its trigger, also when the file ends with commands (checkDebugEvents).
Played ==
  \/ d.error \/ reset_state
  \/ /\ d.snippets_driven >= FLAGS_dbg_max_snippets
     /\ dm.next = dm.loaded + 1 /\ dm.gos = dm.cps /\ ~dm.open

\* The random snippets are all played in the end.
SnippetsPlayed == []<>Played
=============================================================================
