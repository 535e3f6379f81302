------------------------------- MODULE QtLoop -------------------------------
(***************************************************************************)
(* The event loop of qt_loop's window: three ways to do the same long      *)
(* work, the worker thread of the third, the monitor that measures the     *)
(* loop, and the destructor that stops the thread.                         *)
(*                                                                         *)
(* An event that was posted, to the window or to the worker, waits in a    *)
(* queue; a slot runs to its end before the next event.  Time is counted   *)
(* in intervals of the monitor.                                            *)
(***************************************************************************)
EXTENDS Integers, Sequences

CONSTANTS Chunks, Steps,    \* kChunks of 10 ms, kSteps of the worker
          Freeze,           \* intervals that kWork takes at once, more than two
          MaxClicks         \* bounds the runs: clicks of the user

VARIABLES events, clicks,   \* posted to the window; clicks so far
          enabled,          \* the three work buttons
          left,             \* chunks_left_, 0 when chunk_timer_ does not run
          posted,           \* work_requested is on its way to the worker
          step,             \* Worker::run: the next step, Idle, or Entering
          cancelled,
          window,           \* "open", then the steps of ~Window
          wasted,           \* steps of the worker after it was cancelled
          gap, stalls, frozen  \* monitor: intervals since its last tick, stalled()
                               \* signals; the times the loop was blocked

loopVars == <<events, clicks, enabled, left, posted, step, cancelled, window, wasted,
              gap, stalls, frozen>>
workers == <<posted, step, cancelled>>
monitor == <<gap, stalls, frozen>>

Buttons == {"block", "chunk", "offload"}
Idle == 0
Entering == -1

\* A press of the mouse is queued, not lost, whatever the loop is doing.
Press ==
  /\ window = "open" /\ clicks < MaxClicks /\ clicks' = clicks + 1
  /\ \E b \in Buttons : events' = Append(events, b)
  /\ UNCHANGED <<enabled, left, workers, window, wasted, monitor>>

\* Mutated form: the buttons stay live.
SetBusyNot(busy) == enabled' = TRUE

\* set_busy().
SetBusy(busy) == enabled' = ~busy

\* block_the_loop(): the work itself is for the next trip round the loop.
Block ==
  /\ SetBusy(TRUE) /\ events' = Append(Tail(events), "shot")
  /\ UNCHANGED <<left, posted, monitor>>
StartChunked ==
  /\ SetBusy(TRUE) /\ left' = Chunks /\ events' = Tail(events)
  /\ UNCHANGED <<posted, monitor>>
StartWorker ==
  /\ SetBusy(TRUE) /\ posted' = TRUE /\ events' = Tail(events)
  /\ UNCHANGED <<left, monitor>>
Frozen ==
  /\ SetBusy(FALSE) /\ events' = Tail(events)
  /\ gap' = gap + Freeze /\ frozen' = frozen + 1
  /\ UNCHANGED <<left, posted, stalls>>
Finished == SetBusy(FALSE) /\ events' = Tail(events) /\ UNCHANGED <<left, posted, monitor>>
Ignored == events' = Tail(events) /\ UNCHANGED <<enabled, left, posted, monitor>>

\* One event of the window, and the slot it is connected to; a disabled button
\* swallows its click.
Turn ==
  /\ window = "open" /\ events # <<>>
  /\ LET event == Head(events) IN
     CASE event = "shot" -> Frozen
       [] event = "finished" -> Finished
       [] event = "block" /\ enabled -> Block
       [] event = "chunk" /\ enabled -> StartChunked
       [] event = "offload" /\ enabled -> StartWorker
       [] OTHER -> Ignored
  /\ UNCHANGED <<clicks, step, cancelled, window, wasted>>

\* run_one_chunk(): a timer of interval 0 fires when nothing else waits.
RunOneChunk ==
  /\ window = "open" /\ left > 0 /\ events = <<>> /\ gap = 0
  /\ left' = left - 1 /\ gap' = 1
  /\ IF left = 1 THEN SetBusy(FALSE) ELSE UNCHANGED enabled
  /\ UNCHANGED <<events, clicks, workers, window, wasted, stalls, frozen>>

\* LoopMonitor::on_tick(): what a blocked loop missed comes as one gap.
OnTick ==
  /\ window = "open" /\ gap > 0 /\ gap' = 0
  /\ stalls' = IF gap - 1 > 1 THEN stalls + 1 ELSE stalls
  /\ UNCHANGED <<events, clicks, enabled, left, workers, window, wasted, frozen>>

-----------------------------------------------------------------------------
\* The worker's thread takes the request, and run() clears the flag first.
TakeWork ==
  /\ posted /\ step = Idle /\ window \in {"open", "cancelled"}
  /\ posted' = FALSE /\ step' = Entering
  /\ UNCHANGED <<events, clicks, enabled, left, cancelled, window, wasted, monitor>>

EnterRun ==
  /\ step = Entering /\ step' = 1 /\ cancelled' = FALSE
  /\ UNCHANGED <<events, clicks, enabled, left, posted, window, wasted, monitor>>

\* One round of the loop of run(): look at the flag, sleep, report.
WorkOn ==
  /\ step \in 1..(Steps + 1)
  /\ IF cancelled \/ step > Steps
     THEN /\ step' = Idle /\ events' = Append(events, "finished")
          /\ UNCHANGED wasted
     ELSE /\ step' = step + 1
          /\ wasted' = IF window = "open" THEN wasted ELSE wasted + 1
          /\ UNCHANGED events
  /\ UNCHANGED <<clicks, enabled, left, posted, cancelled, window, monitor>>

\* ~Window: cancel(), quit(), wait().
Destroy ==
  /\ \/ window = "open" /\ window' = "cancelled" /\ cancelled' = TRUE
     \/ window = "cancelled" /\ window' = "waiting" /\ UNCHANGED cancelled
     \/ window = "waiting" /\ step = Idle /\ window' = "gone" /\ UNCHANGED cancelled
  /\ UNCHANGED <<events, clicks, enabled, left, posted, step, wasted, monitor>>

LoopInit ==
  /\ events = <<>> /\ clicks = 0 /\ enabled = TRUE /\ left = 0
  /\ posted = FALSE /\ step = Idle /\ cancelled = FALSE
  /\ window = "open" /\ wasted = 0 /\ gap = 0 /\ stalls = 0 /\ frozen = 0

\* The second thread.
Worker == TakeWork \/ EnterRun \/ WorkOn

LoopNext == Press \/ Turn \/ RunOneChunk \/ OnTick \/ Worker \/ Destroy

LoopFairness ==
  /\ WF_loopVars(Turn) /\ WF_loopVars(RunOneChunk) /\ WF_loopVars(OnTick)
  /\ WF_loopVars(Worker)
  /\ WF_loopVars(window # "open" /\ Destroy)

LoopSpec == LoopInit /\ [][LoopNext]_loopVars /\ LoopFairness

-----------------------------------------------------------------------------
Working == {w \in {"shot", "chunks", "worker"} :
              CASE w = "shot" -> \E i \in DOMAIN events : events[i] = "shot"
                [] w = "chunks" -> left > 0
                [] w = "worker" -> posted \/ step # Idle}

\* One long work at a time, and the buttons are dead exactly while it lasts
\* (set_busy(), window.cpp:186-192); and what the monitor reports as a stall
\* is the blocked loop, never a chunk or the worker (loop_monitor.cpp:45-60).
OneWorkAtATime ==
  window = "open" =>
    /\ \A v, w \in Working : v = w
    /\ Working # {} => ~enabled
    /\ stalls <= frozen

\* The window comes alive again after every work, and a window that is closed
\* goes away, although its worker is in the middle of a slot.
WorkEnds == ~enabled ~> (enabled \/ window = "gone")

\* "quit() ends the thread's event loop but cannot interrupt a slot already
\* running inside it -- which is why Worker has a cancel() flag, and why
\* without it wait() would sit here for up to three seconds"
\* (window.cpp:122-126): after cancel() the worker does at most the step it
\* is in.
CancelIsHeard == wasted <= 1
=============================================================================
