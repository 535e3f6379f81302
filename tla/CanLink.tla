------------------------------ MODULE CanLink ------------------------------
(***************************************************************************)
(* sim_vehicle and can_rx, the two ends of a CAN interface: what the       *)
(* transmitter of the database puts on the bus, what the kernel's filters  *)
(* let through to the raw socket of the receiver, and how the receiver     *)
(* tells a quiet bus from a live one.                                      *)
(*                                                                         *)
(* A frame is its identifier, its format and its kind; a standard          *)
(* identifier is below Width, an extended one below Width * Width, so the  *)
(* low bits of an extended one can look like a standard one.  Time is the  *)
(* tick of 100 ms of both programs, the timeout of epoll and the sleep of  *)
(* the transmitter.                                                        *)
(***************************************************************************)
EXTENDS Integers, Sequences, TLC

CONSTANTS Messages,    \* the database: a sequence of [id, extended]
          Others,      \* the frames other nodes may send
          Width,       \* the standard identifiers are 0 .. Width - 1
          Cycles,      \* the cycle limit of the transmitter, bounds the runs
          Limit,       \* the frame limit of the receiver, 0 for none
          StaleAfter,  \* ticks without a frame before the signals are stale
          QueueLimit   \* frames the kernel holds for the socket

VARIABLES
  cycle, at, resting,      \* transmitter: its cycle, its next message, its sleep
  link,                    \* socket: how far it is set up, its filters, its queue
  phase, waited,           \* receiver: where its loop is, time in epoll_wait
  received, stale,         \* ReceiverState
  silence,                 \* ticks since last_frame, up to StaleAfter + 2
  surprised,               \* an identifier that is in no entry was received
  stopped                  \* g_stop of the receiver

sender == <<cycle, at, resting>>
receiver == <<phase, waited, received, stale, silence, surprised>>
linkVars == <<sender, link, receiver, stopped>>

-----------------------------------------------------------------------------
\* The identifier word on the wire and back; the format is one of its flags.
ToCanId(frame) ==
  [frame EXCEPT !.id = @ % (IF frame.extended THEN Width * Width ELSE Width)]

FromCanId(raw) ==
  [raw EXCEPT !.id = @ % (IF raw.extended THEN Width * Width ELSE Width)]

IsValid(frame) == frame.id < (IF frame.extended THEN Width * Width ELSE Width)

Find(id, extended) ==
  {m \in {Messages[i] : i \in DOMAIN Messages} : m.id = id /\ m.extended = extended}

\* set_filters: an entry of an extended message compares the flag of the
\* format too, an entry of a standard message only its eleven bits.
Passes(filter, raw) ==
  IF filter.extended
  THEN raw.extended /\ raw.id = filter.id
  ELSE raw.id % Width = filter.id

KernelFilters == {[id |-> Messages[i].id, extended |-> Messages[i].extended] :
                    i \in DOMAIN Messages}

\* The kernel queues what the socket asked for, and drops what does not fit:
\* from bind on everything, from set_filters on what some filter lets through,
\* error frames by a mask of their own.
Delivered(raw) ==
  IF /\ link.up >= 1
     /\ IF raw.error THEN link.errors
        ELSE link.filters = "all" \/ \E f \in KernelFilters : Passes(f, raw)
     /\ Len(link.queue) < QueueLimit
  THEN [link EXCEPT !.queue = Append(@, raw)]
  ELSE link

-----------------------------------------------------------------------------
\* sim_vehicle, what build() may return: a reading may be missing or a value be
\* refused, and then there is no frame.
Build(message) == {<<>>, <<message>>}

\* What send() may do: it refuses an identifier out of range, and the interface
\* may be busy or gone.
Send(frame) ==
  {link} \cup (IF IsValid(frame) THEN {Delivered([error |-> FALSE] @@ ToCanId(frame))} ELSE {})

Transmit ==
  /\ resting = FALSE /\ cycle < Cycles /\ at \in DOMAIN Messages
  /\ at' = at + 1
  /\ \E built \in Build(Messages[at]) : link' \in IF built = <<>> THEN {link} ELSE Send(built[1])
  /\ UNCHANGED <<cycle, resting, receiver, stopped>>

CycleEnds ==
  /\ resting = FALSE /\ cycle < Cycles /\ at \notin DOMAIN Messages
  /\ cycle' = cycle + 1 /\ at' = 1 /\ resting' = TRUE
  /\ UNCHANGED <<link, receiver, stopped>>

\* Any other node of the bus, and a controller that reports an error.
SomebodySends ==
  /\ \E frame \in Others : link' = Delivered(frame)
  /\ UNCHANGED <<sender, receiver, stopped>>

-----------------------------------------------------------------------------
\* can_rx, main: each call of the set-up is a step, and each may fail and end
\* the program, except the request for error frames, whose answer is dropped.
Calls == <<"open", "set_non_blocking", "enable_error_frames", "set_filters", "watch">>

Returns(call, result) ==
  /\ phase = "starting" /\ Calls[link.up + 1] = call
  /\ link' = [result EXCEPT !.up = @ + 1]
  /\ phase' = IF link.up + 1 = Len(Calls) THEN "wait" ELSE phase

Fails(call) ==
  /\ phase = "starting" /\ Calls[link.up + 1] = call
  /\ phase' = "over" /\ UNCHANGED link

Open == Returns("open", link) \/ Fails("open")
SetNonBlocking == Returns("set_non_blocking", link) \/ Fails("set_non_blocking")
EnableErrorFrames == \E granted \in BOOLEAN :
  Returns("enable_error_frames", [link EXCEPT !.errors = granted])
SetFilters == Returns("set_filters", [link EXCEPT !.filters = "database"]) \/ Fails("set_filters")
Watch == Returns("watch", link) \/ Fails("watch")

SetUp ==
  /\ Open \/ SetNonBlocking \/ EnableErrorFrames \/ SetFilters \/ Watch
  /\ silence' = 0
  /\ UNCHANGED <<sender, waited, received, stale, surprised, stopped>>

\* epoll_wait answers with the socket, with nothing after a tick, or with
\* nothing because a signal came.
Woken ==
  /\ phase = "wait"
  /\ \/ link.queue # <<>> /\ phase' = "drain"
     \/ link.queue = <<>> /\ (waited \/ stopped) /\ phase' = "check"
  /\ UNCHANGED <<sender, link, waited, received, stale, silence, surprised, stopped>>

\* Mutated form: the signals stay stale.
SignOfLifeStillStale ==
  /\ silence' = 0 /\ stale' = stale
  /\ received' = IF received > Limit THEN received ELSE received + 1

\* A data frame is a sign of life, whatever message it belongs to. The count
\* of frames is compared with the limit only, and kept up to one above it.
SignOfLife ==
  /\ silence' = 0 /\ stale' = FALSE
  /\ received' = IF received > Limit THEN received ELSE received + 1

\* What receive() may return: the frame at the head of the queue, or none since
\* there is none or the read fails.
Receive ==
  {<<>>} \cup (IF link.queue = <<>> THEN {} ELSE {<<FromCanId(Head(link.queue))>>})

\* drain: one receive() per step until there is no frame. An error frame is
\* reported, and nothing else.
Drain ==
  /\ phase = "drain"
  /\ \E result \in Receive :
       IF result = <<>>
       THEN phase' = "check" /\ UNCHANGED <<link, received, stale, silence, surprised>>
       ELSE /\ link' = [link EXCEPT !.queue = Tail(@)]
            /\ IF result[1].error
               THEN UNCHANGED <<received, stale, silence, surprised>>
               ELSE /\ SignOfLife
                    /\ surprised' = (surprised \/ Find(result[1].id, result[1].extended) = {})
            /\ UNCHANGED phase
  /\ UNCHANGED <<sender, waited, stopped>>

\* The end of the loop's body, and its condition, which is looked at nowhere
\* else: drain() may take the count of frames past the limit.
Check ==
  /\ phase = "check"
  /\ stale' = (stale \/ silence > StaleAfter)
  /\ phase' = IF stopped \/ (Limit # 0 /\ received >= Limit) THEN "over" ELSE "wait"
  /\ waited' = FALSE
  /\ UNCHANGED <<sender, link, received, silence, surprised, stopped>>

Signal ==
  /\ ~stopped /\ stopped' = TRUE
  /\ UNCHANGED <<sender, link, receiver>>

\* A tick passes while the receiver is anywhere but in a wait that is over.
Tick ==
  /\ phase \notin {"starting", "over"} /\ (phase = "wait" => ~waited /\ link.queue = <<>>)
  /\ silence' = IF silence > StaleAfter + 1 THEN silence ELSE silence + 1
  /\ waited' = (phase = "wait")
  /\ resting' = FALSE
  /\ UNCHANGED <<cycle, at, link, phase, received, stale, surprised, stopped>>

LinkInit ==
  /\ cycle = 0 /\ at = 1 /\ resting = FALSE
  /\ link = [up |-> 0, errors |-> FALSE, filters |-> "all", queue |-> <<>>]
  /\ phase = "starting" /\ waited = FALSE
  /\ received = 0 /\ stale = FALSE /\ silence = 0 /\ surprised = FALSE
  /\ stopped = FALSE

LinkNext ==
  \/ Transmit \/ CycleEnds \/ SomebodySends
  \/ SetUp \/ Woken \/ Drain \/ Check \/ Signal \/ Tick

LinkSpec == LinkInit /\ [][LinkNext]_linkVars

-----------------------------------------------------------------------------
\* What the receiver says of the bus is true whenever it goes to sleep: stale
\* only after the silence of kStaleAfter, and live only if that silence is not
\* older than the tick the wait may have taken (can_rx, main.cpp:219-236).
StaleAgrees ==
  phase = "wait" => IF stale THEN silence > StaleAfter ELSE silence <= StaleAfter + 1

\* "Reachable only if the filters were widened by hand" (can_rx,
\* main.cpp:139): no frame that is in no entry of the database gets here.
FiltersHold == ~surprised
=============================================================================
