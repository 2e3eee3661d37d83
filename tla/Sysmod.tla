------------------------------- MODULE Sysmod -------------------------------
(***************************************************************************)
(* The system module (src/sysmod/sysmod.cpp, device.h): the devices it     *)
(* builds from the memory map and the ones a project adds, the routing of  *)
(* the transactors' reads and writes to the device that owns the address,  *)
(* and the clock ticks it hands to every device.                           *)
(*                                                                         *)
(* An address is a small number with the STEE bit (FLAGS_pa_mask) beside   *)
(* it.  A signal on sysmod's location reaches every configured device      *)
(* whose has_addr holds: a synchronous one answers at once, an             *)
(* asynchronous one is a coroutine that takes one request at a time from   *)
(* its channel and answers it later.                                       *)
(***************************************************************************)
EXTENDS Naturals, Sequences, FiniteSets, SequencesExt

CONSTANTS Memmap,       \* the entries: [tag, type, addr, size]
          Projects,     \* the devices add_device may be given: same records
          Addrs,        \* the addresses accessed
          FLAGS_cosim, FLAGS_stee,
          FLAGS_sysmod_tick_update_threshold,
          Advances,     \* what one tick message advances by
          MaxTotal,     \* bound: ticks received
          MaxAccesses   \* bound: accesses made

VARIABLES devices_, external_devices_, composed, stee,
          error,        \* an error was logged
          cosim_init_, ticks_,
          total,        \* ticks received
          given,        \* ticks each device was given, by tag
          before,       \* ticks handed out before the trickbox got any
          made,         \* accesses made: [addr, secure], in order
          answers,      \* how often each was answered
          waiting       \* accesses in an asynchronous device's channel

members == <<devices_, external_devices_, composed, stee, error>>
clock == <<cosim_init_, ticks_, total, given, before>>
traffic == <<made, answers, waiting>>
vars == <<devices_, external_devices_, composed, stee, error,
          cosim_init_, ticks_, total, given, before, made, answers, waiting>>

All == devices_ \o external_devices_

Tags == {d.tag : d \in Memmap \cup Projects}

Init == /\ devices_ = <<>> /\ external_devices_ = <<>>
        /\ composed = FALSE /\ stee = FALSE /\ error = FALSE
        /\ cosim_init_ = ~FLAGS_cosim /\ ticks_ = 0 /\ total = 0
        /\ given = [t \in Tags |-> 0] /\ before = 0
        /\ made = <<>> /\ answers = <<>> /\ waiting = <<>>

has_addr(d, a) == a >= d.addr /\ a < d.addr + d.size

-----------------------------------------------------------------------------
\* compose() and set_secure_region(), called once from configure().  An entry
\* of type "external" only reserves its range.
compose ==
  /\ ~composed
  /\ composed' = TRUE
  /\ devices_' = SetToSeq({d \in Memmap : d.type # "external"})
  /\ stee' = FLAGS_stee
  /\ UNCHANGED <<external_devices_, error, clock, traffic>>

Overlaps(x, d) == x.size > 0 /\ x.addr < d.addr + d.size
                             /\ d.addr < x.addr + x.size

Reserved(e, d) == /\ e.type = "external" /\ e.addr <= d.addr
                  /\ d.addr + d.size <= e.addr + e.size

\* Mutant: the overlap test of add_device looks at the first address only.
AcceptsStart(d) ==
  /\ \A x \in ToSet(All) : x.tag # d.tag
  /\ d.size > 0 => /\ \E e \in Memmap : Reserved(e, d)
                   /\ \A x \in ToSet(All) : ~has_addr(x, d.addr)

Accepts(d) ==
  /\ \A x \in ToSet(All) : x.tag # d.tag
  /\ d.size > 0 => /\ \E e \in Memmap : Reserved(e, d)
                   /\ \A x \in ToSet(All) : ~Overlaps(x, d)

\* A component's configure() may run before or after sysmod's own, and before
\* the first tick or access.
add_device(d) ==
  /\ made = <<>> /\ total = 0 /\ d \notin ToSet(external_devices_)
  /\ IF Accepts(d)
     THEN external_devices_' = Append(external_devices_, d) /\ UNCHANGED error
     ELSE error' = TRUE /\ UNCHANGED external_devices_
  /\ UNCHANGED <<devices_, composed, stee, clock, traffic>>

-----------------------------------------------------------------------------
\* dev(addr): whether a device is found.  The STEE bit is dropped only once a
\* secure region was given, so it makes the address unmapped before that.
Mapped(a, secure) ==
  (secure => stee) /\ \E d \in ToSet(All) : has_addr(d, a)

\* The devices of async type keep the request in their channel.
Owners(a) == {d \in ToSet(All) : has_addr(d, a)}
Slow(ds) == {d \in ds : d.type = "mmr_txn_router"}

\* The transactors' write_t and read_t handlers.  dev() never returns null (an
\* unmapped address is an error and the fallback device), so the request is
\* always signalled, with the STEE bit cleared.
Access(a, secure) ==
  /\ composed /\ Len(made) < MaxAccesses
  /\ made' = Append(made, [addr |-> a, secure |-> secure])
  /\ error' = (error \/ ~Mapped(a, secure))
  /\ answers' = Append(answers, Cardinality(Owners(a) \ Slow(Owners(a))))
  /\ waiting' = waiting \o SetToSeq({[at |-> d.tag, n |-> Len(made) + 1] :
                                     d \in Slow(Owners(a))})
  /\ UNCHANGED <<devices_, external_devices_, composed, stee, clock>>

\* An asynchronous device is done with the oldest request of its channel.
Respond ==
  \E i \in DOMAIN waiting :
    /\ \A j \in 1..(i - 1) : waiting[j].at # waiting[i].at
    /\ answers' = [answers EXCEPT ![waiting[i].n] = @ + 1]
    /\ waiting' = RemoveAt(waiting, i)
    /\ UNCHANGED <<members, clock, made>>

-----------------------------------------------------------------------------
\* Whisper is connected: store_dm_rand, and the trickbox is ticked from now on.
whisper_connected ==
  /\ composed /\ ~cosim_init_
  /\ cosim_init_' = TRUE
  /\ before' = total - ticks_
  /\ UNCHANGED <<members, ticks_, total, given, traffic>>

Remainder(t) == t % FLAGS_sysmod_tick_update_threshold

tick(advance) ==
  /\ composed /\ total + advance <= MaxTotal
  /\ total' = total + advance
  /\ LET t    == ticks_ + advance
         due  == t >= FLAGS_sysmod_tick_update_threshold
         step == IF due THEN t - Remainder(t) ELSE 0
     IN /\ ticks_' = IF due THEN Remainder(t) ELSE t
        /\ given' = [g \in Tags |->
             IF /\ g \in {d.tag : d \in ToSet(All)}
                /\ cosim_init_ \/ g # "trickbox"
             THEN given[g] + step ELSE given[g]]
  /\ UNCHANGED <<members, cosim_init_, before, traffic>>

Next == \/ compose
        \/ \E d \in Projects : add_device(d)
        \/ \E a \in Addrs, s \in BOOLEAN : Access(a, s)
        \/ Respond
        \/ whisper_connected
        \/ \E n \in Advances : tick(n)

Spec == Init /\ [][Next]_vars

-----------------------------------------------------------------------------
\* Every access to an address some device owns is answered by one device and
\* once, or waits in that one's channel: whichever devices a project added, in
\* whatever order, none shares an address with another (add_device, dev,
\* device.h's handlers).
OneAnswer ==
  \A n \in DOMAIN made : Owners(made[n].addr) # {} =>
    answers[n] + Cardinality({i \in DOMAIN waiting : waiting[i].n = n}) = 1

\* The threshold delays ticks and loses none: a device has been given all that
\* was received (the trickbox: since Whisper was connected), except for a rest
\* below the threshold.
TicksKept ==
  /\ ticks_ < FLAGS_sysmod_tick_update_threshold
  /\ \A d \in ToSet(All) :
       IF d.tag = "trickbox"
       THEN cosim_init_ => given[d.tag] + before + ticks_ = total
       ELSE given[d.tag] + ticks_ = total

=============================================================================
