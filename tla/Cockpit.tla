------------------------------ MODULE Cockpit -------------------------------
(***************************************************************************)
(* The thread model of the cockpit: rx, decode and ui, a queue between     *)
(* each two of them, and the main thread that shuts them down from the     *)
(* upstream end.  An operation of a queue is one step, as QueueContract    *)
(* says of BoundedQueue; a frame is whether it decodes, a state is its     *)
(* sequence number.                                                        *)
(***************************************************************************)
EXTENDS Integers, Sequences

CONSTANTS FramesToSend, FrameSlots, StateSlots

VARIABLES tick,             \* run_rx: loop counter
          frames, states,   \* the two queues, [items, closed]
          decoding,         \* run_decode: "pop", "push", "make room", "push again", "done"
          sequence,         \* run_decode: number of the state at hand
          ui,               \* run_ui: "pop" or "done"
          joined,           \* what main() waits for: "rx", "decode", "ui", "report"
          stats             \* Stats, and the states that were really discarded

cockpitVars == <<tick, frames, states, decoding, sequence, ui, joined, stats>>

Count(counters) == stats' = [c \in DOMAIN stats |-> IF c \in counters THEN stats[c] + 1 ELSE stats[c]]

IsFull(queue, slots) == Len(queue.items) >= slots
Pushed(queue, item) == [queue EXCEPT !.items = Append(@, item)]
Popped(queue) == [queue EXCEPT !.items = Tail(@)]
Drained(queue) == queue.closed /\ queue.items = <<>>

\* run_rx never waits: a frame that finds no room is dropped and counted. It
\* stands for a SocketCAN loop (main.cpp:81), whose frames may lack a signal.
Receive ==
  /\ tick < FramesToSend /\ tick' = tick + 1
  /\ \E good \in BOOLEAN :
       IF IsFull(frames, FrameSlots)
       THEN Count({"dropped"}) /\ UNCHANGED frames
       ELSE Count({"produced"}) /\ frames' = Pushed(frames, good)
  /\ UNCHANGED <<states, decoding, sequence, ui, joined>>

\* run_decode waits for a frame, and ends when its queue is closed and empty.
DecodeNext ==
  /\ decoding = "pop"
  /\ \/ /\ frames.items # <<>> /\ frames' = Popped(frames)
        /\ IF Head(frames.items)
           THEN decoding' = "push" /\ sequence' = sequence + 1 /\ Count({"decoded"})
           ELSE Count({"failures"}) /\ UNCHANGED <<decoding, sequence>>
     \/ Drained(frames) /\ decoding' = "done" /\ UNCHANGED <<frames, sequence, stats>>
  /\ UNCHANGED <<tick, states, ui, joined>>

\* ... and never waits for the ui: a full queue loses its oldest state.
PushState ==
  /\ decoding = "push"
  /\ IF IsFull(states, StateSlots)
     THEN decoding' = "make room" /\ UNCHANGED states
     ELSE /\ decoding' = "pop"
          /\ states' = IF states.closed THEN states ELSE Pushed(states, sequence)
  /\ UNCHANGED <<tick, frames, sequence, ui, joined, stats>>

\* try_pop(), whose answer nobody looks at: the ui may have emptied the queue.
MakeRoom ==
  /\ decoding = "make room" /\ decoding' = "push again"
  /\ states' = IF states.items = <<>> THEN states ELSE Popped(states)
  /\ stats' = [stats EXCEPT !.discarded = IF states.items = <<>> THEN @ ELSE @ + 1]
  /\ UNCHANGED <<tick, frames, sequence, ui, joined>>

PushAgain ==
  /\ decoding = "push again" /\ decoding' = "pop"
  /\ states' = IF IsFull(states, StateSlots) \/ states.closed THEN states
               ELSE Pushed(states, sequence)
  /\ Count({"overwritten"})
  /\ UNCHANGED <<tick, frames, sequence, ui, joined>>

Display ==
  /\ ui = "pop"
  /\ \/ states.items # <<>> /\ states' = Popped(states) /\ Count({"displayed"}) /\ UNCHANGED ui
     \/ Drained(states) /\ ui' = "done" /\ UNCHANGED <<states, stats>>
  /\ UNCHANGED <<tick, frames, decoding, sequence, joined>>

\* Mutated form: both queues are closed as soon as the bus is silent.
ShutdownAtOnce ==
  /\ \/ joined = "rx" /\ tick = FramesToSend /\ joined' = "decode"
        /\ frames' = [frames EXCEPT !.closed = TRUE]
        /\ states' = [states EXCEPT !.closed = TRUE]
     \/ joined = "decode" /\ decoding = "done" /\ joined' = "ui" /\ UNCHANGED <<frames, states>>
     \/ joined = "ui" /\ ui = "done" /\ joined' = "report" /\ UNCHANGED <<frames, states>>
  /\ UNCHANGED <<tick, decoding, sequence, ui, stats>>

\* run(): join, then close the queue of the next thread.
Shutdown ==
  /\ \/ joined = "rx" /\ tick = FramesToSend /\ joined' = "decode"
        /\ frames' = [frames EXCEPT !.closed = TRUE] /\ UNCHANGED states
     \/ joined = "decode" /\ decoding = "done" /\ joined' = "ui"
        /\ states' = [states EXCEPT !.closed = TRUE] /\ UNCHANGED frames
     \/ joined = "ui" /\ ui = "done" /\ joined' = "report" /\ UNCHANGED <<frames, states>>
  /\ UNCHANGED <<tick, decoding, sequence, ui, stats>>

CockpitInit ==
  /\ tick = 0 /\ sequence = 0 /\ decoding = "pop" /\ ui = "pop" /\ joined = "rx"
  /\ frames = [items |-> <<>>, closed |-> FALSE] /\ states = frames
  /\ stats = [c \in {"produced", "dropped", "decoded", "failures", "overwritten", "discarded",
                     "displayed"} |-> 0]

\* One thread.
Decoder == DecodeNext \/ PushState \/ MakeRoom \/ PushAgain

CockpitNext == Receive \/ Decoder \/ Display \/ Shutdown

\* Every thread is scheduled; the queues wake whoever waits (BoundedQueue).
CockpitFairness ==
  /\ WF_cockpitVars(Receive) /\ WF_cockpitVars(Display) /\ WF_cockpitVars(Shutdown)
  /\ WF_cockpitVars(Decoder)

CockpitSpec == CockpitInit /\ [][CockpitNext]_cockpitVars /\ CockpitFairness

-----------------------------------------------------------------------------
\* "Closing `states` before the decoder has drained `frames` would throw away
\* work that was already accepted" (main.cpp:181): at the report everything
\* that was received was decoded or counted as a failure, and every state that
\* was decoded was displayed or made room for another.
NoWorkThrownAway ==
  joined = "report" =>
    /\ stats.produced = stats.decoded + stats.failures
    /\ stats.decoded = stats.displayed + stats.discarded

\* The report is reached, whatever the speeds of the three threads.
CockpitEnds == <>(joined = "report")

\* "Every decoded state was either shown or explicitly overwritten, and both
\* are counted" (main.cpp:205-214, which returns 1 when it is not so).
AccountingBalances ==
  joined = "report" => stats.decoded = stats.displayed + stats.overwritten
=============================================================================
