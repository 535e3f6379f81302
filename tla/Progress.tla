------------------------------ MODULE Progress ------------------------------
(***************************************************************************)
(* The parts that have to go on as well as to be safe, one at a time: a    *)
(* behaviour is one of the part that its first state chooses, and every    *)
(* other part stays as it began, at which all its properties hold.         *)
(***************************************************************************)
EXTENDS SharedRing, FiniteSets

CONSTANTS
    FramesToSend, FrameSlots, StateSlots,   \* of Cockpit
    Chunks, Steps, Freeze, MaxClicks,       \* of QtLoop
    Workers, Jobs, Parents,                 \* of WorkQueue
    Producers, Consumers, PermitSlots,      \* of SemaphoreQueue
    ItemsEach,
    Setters,                                \* of Future
    QueueProducers, QueueConsumers,         \* of BoundedQueue
    QueueClosers, QueueCapacity, Values,
    Sockets, MaxEvents, MaxId, Tasks, Again,    \* of Loop
    RoundTrips                              \* of EchoBench

\* BoundedQueue refuses a capacity of zero.
ASSUME PipelineAssumption ==
    /\ FramesToSend \in Nat
    /\ FrameSlots \in Nat \ {0} /\ StateSlots \in Nat \ {0}

ASSUME WindowAssumption ==
    Chunks \in Nat \ {0} /\ Steps \in Nat /\ Freeze \in Nat /\ MaxClicks \in Nat

\* A pool has a worker, and a job that submits another has one to submit.
ASSUME PoolAssumption ==
    /\ Workers # {}
    /\ Jobs \cap {"check", "asleep", "exit"} = {}
    /\ Parents \subseteq Jobs /\ (Parents # {} => Jobs \ Parents # {})

ASSUME PermitsAssumption ==
    IsFiniteSet(Producers) /\ IsFiniteSet(Consumers) /\ PermitSlots \in Nat /\ ItemsEach \in Nat

ASSUME PromiseAssumption == "none" \notin Setters

ASSUME QueueAssumption ==
    /\ IsFiniteSet(QueueProducers) /\ IsFiniteSet(QueueConsumers) /\ IsFiniteSet(QueueClosers)
    /\ QueueCapacity \in Nat \ {0} /\ None \notin Values

\* The socket of service discovery is the first, and 0 is none.
ASSUME RuntimeAssumption ==
    /\ 1 \in Sockets /\ Sockets \subseteq Nat \ {0}
    /\ MaxEvents \in Nat \ {0} /\ MaxId \in Nat \ {0} /\ Again \subseteq Tasks

ASSUME BenchAssumption == RoundTrips \in Nat \ {0}

VARIABLES
    part,
    cContenders, cPhase, cPosition, cWinners, cTrace, cTec, cRec, cWindows, cBusOff, cDoing,
    cRound, cTries, cStatus,
    pTick, pFrames, pStates, pDecoding, pSequence, pUi, pJoined, pStats,
    qEvents, qClicks, qEnabled, qLeft, qPosted, qStep, qCancelled, qWindow, qWasted, qGap,
    qStalls, qFrozen,
    wUser, wQueue, wStop, wNotices, wAt, wFate, wOwner,
    sSize, sSlotsFree, sItemsReady, sShut, sProducer, sPushed, sConsumer, sCloser,
    fRetrieved, fAnswer, fSetter, fReader, fNotified,
    uSlots, uHead, uTail, uCount, uClosed, uPc, uArg, uRet,
    lOpen, lReadable, lPolled, lReady, lWatches, lWatchByFd, lNextId, lTicks, lPosted, lPhase,
    lRest, lRunning,
    bParent, bChild, bNames, bListening, bConnected, bToChild, bToParent, bSamples

busVars == <<cContenders, cPhase, cPosition, cWinners, cTrace, cTec, cRec, cWindows,
    cBusOff, cDoing, cRound, cTries, cStatus>>
pipelineVars == <<pTick, pFrames, pStates, pDecoding, pSequence, pUi, pJoined, pStats>>
windowVars == <<qEvents, qClicks, qEnabled, qLeft, qPosted, qStep, qCancelled, qWindow,
    qWasted, qGap, qStalls, qFrozen>>
poolVars == <<wUser, wQueue, wStop, wNotices, wAt, wFate, wOwner>>
permitsVars == <<sSize, sSlotsFree, sItemsReady, sShut, sProducer, sPushed, sConsumer,
    sCloser>>
promiseVars == <<fRetrieved, fAnswer, fSetter, fReader, fNotified>>
queueVars == <<uSlots, uHead, uTail, uCount, uClosed, uPc, uArg, uRet>>
runtimeVars == <<lOpen, lReadable, lPolled, lReady, lWatches, lWatchByFd, lNextId, lTicks,
    lPosted, lPhase, lRest, lRunning>>
benchVars == <<bParent, bChild, bNames, bListening, bConnected, bToChild, bToParent,
    bSamples>>
progressVars == <<part, vars, busVars, pipelineVars, windowVars, poolVars, permitsVars,
    promiseVars, queueVars, runtimeVars, benchVars>>

\* can_bus, which has no parameters.
Bus == INSTANCE CanBus WITH contenders <- cContenders, phase <- cPhase, position <- cPosition,
          winners <- cWinners, trace <- cTrace, tec <- cTec, rec <- cRec, windows <- cWindows,
          busOff <- cBusOff, doing <- cDoing, round <- cRound, tries <- cTries, status <- cStatus

Pipeline == INSTANCE Cockpit WITH
               tick <- pTick, frames <- pFrames, states <- pStates, decoding <- pDecoding,
               sequence <- pSequence, ui <- pUi, joined <- pJoined, stats <- pStats

Window == INSTANCE QtLoop WITH
             events <- qEvents, clicks <- qClicks, enabled <- qEnabled, left <- qLeft,
             posted <- qPosted, step <- qStep, cancelled <- qCancelled, window <- qWindow,
             wasted <- qWasted, gap <- qGap, stalls <- qStalls, frozen <- qFrozen

Pool == INSTANCE WorkQueue WITH
           user <- wUser, queue <- wQueue, stop <- wStop, notices <- wNotices, at <- wAt,
           fate <- wFate, owner <- wOwner

Permits == INSTANCE SemaphoreQueue WITH
              Capacity <- PermitSlots, Rounds <- ItemsEach,
              size <- sSize, slotsFree <- sSlotsFree, itemsReady <- sItemsReady, shut <- sShut,
              producer <- sProducer, pushed <- sPushed, consumer <- sConsumer, closer <- sCloser

Promise == INSTANCE Future WITH
              retrieved <- fRetrieved, answer <- fAnswer, setter <- fSetter, reader <- fReader,
              notified <- fNotified

Queue == INSTANCE BoundedQueue WITH
            Producers <- QueueProducers, Consumers <- QueueConsumers, Closers <- QueueClosers,
            Capacity <- QueueCapacity, slots <- uSlots, head <- uHead, tail <- uTail,
            count <- uCount, closed <- uClosed, pc <- uPc, arg <- uArg, ret <- uRet

Runtime == INSTANCE Loop WITH
              open <- lOpen, readable <- lReadable, polled <- lPolled, ready <- lReady,
              watches <- lWatches, watch_by_fd <- lWatchByFd, next_id <- lNextId,
              ticks <- lTicks, posted <- lPosted, phase <- lPhase, rest <- lRest,
              running <- lRunning

Bench == INSTANCE EchoBench WITH
            parent <- bParent, child <- bChild, names <- bNames, listening <- bListening,
            connected <- bConnected, toChild <- bToChild, toParent <- bToParent,
            samples <- bSamples

-----------------------------------------------------------------------------
Is(p) == part = p
Parts == {"ring", "bus", "pipeline", "window", "pool", "permits", "promise", "queue", "runtime",
          "bench"}

\* A part that is not chosen begins in one of its states only.
ProgressInit ==
    /\ part \in Parts
    /\ Init /\ (Is("ring") \/ creator = "producer")
    /\ Bus!CanBusInit
    /\ Pipeline!CockpitInit
    /\ Window!LoopInit
    /\ Pool!WorkInit /\ (Is("pool") \/ wUser = "ThreadPool")
    /\ Permits!SemaphoreInit
    /\ Promise!FutureInit
    /\ Queue!Init
    /\ Runtime!LoopInit
    /\ Bench!BenchInit /\ (Is("bench") \/ bNames = {})

ProgressNext ==
    /\ UNCHANGED part
    /\ IF Is("ring") THEN Next ELSE UNCHANGED vars
    /\ IF Is("bus") THEN Bus!CanBusNext ELSE UNCHANGED busVars
    /\ IF Is("pipeline") THEN Pipeline!CockpitNext ELSE UNCHANGED pipelineVars
    /\ IF Is("window") THEN Window!LoopNext ELSE UNCHANGED windowVars
    /\ IF Is("pool") THEN Pool!WorkNext ELSE UNCHANGED poolVars
    /\ IF Is("permits") THEN Permits!SemaphoreNext ELSE UNCHANGED permitsVars
    /\ IF Is("promise") THEN Promise!FutureNext ELSE UNCHANGED promiseVars
    /\ IF Is("queue") THEN Queue!Next ELSE UNCHANGED queueVars
    /\ IF Is("runtime") THEN Runtime!LoopNext ELSE UNCHANGED runtimeVars
    /\ IF Is("bench") THEN Bench!BenchNext ELSE UNCHANGED benchVars

-----------------------------------------------------------------------------
(***************************************************************************)
(* The fairness of each part as its module states it, for the part that is *)
(* chosen.                                                                 *)
(***************************************************************************)
Fairly ==
    /\ WF_vars(Is("ring") /\ Visibility)
    /\ WF_vars(/\ Is("ring") /\ attached["producer"] # None
               /\ TryPush(head[attached["producer"]]))
    /\ WF_vars(/\ Is("ring")
               /\ \/ CopyIn(1, "first", "second") \/ CopyIn(2, "second", "publish")
                  \/ PublishTail)
    /\ WF_vars(/\ Is("ring") /\ attached["consumer"] # None
               /\ TryPop(tail[attached["consumer"]]))
    /\ WF_vars(Is("ring") /\ (CopyOut \/ PublishHead))
    /\ WF_busVars(Is("bus") /\ Bus!CanBusNext)
    /\ WF_pipelineVars(Is("pipeline") /\ Pipeline!Receive)
    /\ WF_pipelineVars(Is("pipeline") /\ Pipeline!Display)
    /\ WF_pipelineVars(Is("pipeline") /\ Pipeline!Shutdown)
    /\ WF_pipelineVars(Is("pipeline") /\ Pipeline!Decoder)
    /\ WF_windowVars(Is("window") /\ Window!Turn)
    /\ WF_windowVars(Is("window") /\ Window!RunOneChunk)
    /\ WF_windowVars(Is("window") /\ Window!OnTick)
    /\ WF_windowVars(Is("window") /\ Window!Worker)
    /\ WF_windowVars(Is("window") /\ qWindow # "open" /\ Window!Destroy)
    /\ \A w \in Workers :
          /\ WF_poolVars(Is("pool") /\ Pool!Consume(w))
          /\ WF_poolVars(Is("pool") /\ Pool!Finish(w))
    /\ WF_poolVars(Is("pool") /\ Pool!Notify)
    /\ WF_poolVars(Is("pool") /\ Pool!Joined)
    /\ WF_permitsVars(Is("permits") /\ Permits!SemaphoreNext)
    /\ WF_promiseVars(Is("promise") /\ Promise!GetFuture)
    /\ WF_promiseVars(Is("promise") /\ Promise!Get)
    /\ WF_promiseVars(Is("promise") /\ Promise!Wake)
    /\ \A s \in Setters : WF_promiseVars(Is("promise") /\ Promise!NotifyAll(s))
    /\ \A t \in Queue!Threads : WF_queueVars(Is("queue") /\ Queue!Step(t))
    /\ WF_runtimeVars(Is("runtime") /\ Runtime!Proceeds)
    /\ WF_benchVars(Is("bench") /\ Bench!ParentSteps)
    /\ WF_benchVars(Is("bench") /\ Bench!ChildSteps)

ProgressSpec == ProgressInit /\ [][ProgressNext]_progressVars /\ Fairly

-----------------------------------------------------------------------------
(***************************************************************************)
(* Properties, besides those of SharedRing. Each is explained in the       *)
(* module that defines it.                                                 *)
(***************************************************************************)
\* No queue loses what it accepted, at shutdown or before, and a promise is
\* answered once (cockpit, blocking_queue.hpp, thread_pool.hpp,
\* bounded_queue.hpp, future.hpp).
NothingIsLost ==
    Pipeline!NoWorkThrownAway /\ Pool!NothingLeftBehind /\ Permits!PermitsAddUp /\ Promise!OneAnswer

\* The window has one work at a time and says so (window.cpp, worker.cpp,
\* loop_monitor.cpp).
OneWorkAtATime == Window!OneWorkAtATime

\* What is watched is open, and names lead to what they name (runtime.cpp,
\* unix_socket.cpp, ipc_bench).
TablesAgree == Runtime!WatchesAgree /\ Bench!EchoesAndNames

\* Everything that was pushed arrives (shared_ring.cpp).
Delivers == Arrives /\ RoomIsSeen

\* Whoever shuts a queue down sees its threads end, and whoever waits for an
\* answer that is given gets it.
ThreadsEnd ==
    /\ Is("pipeline") => Pipeline!CockpitEnds
    /\ Pool!ClosingEnds /\ Pool!AcceptedJobsEnd
    /\ Is("permits") => Permits!AllConsumersLeave
    /\ Promise!AnswerArrives /\ Queue!ShutdownCompletes
    /\ Window!WorkEnds

\* Nobody sleeps on the blocking queue past an item or a free slot
\* (bounded_queue.hpp).
WakeupsArrive == Queue!WakeupsArrive

\* No socket starves, and the two demonstrations come to their ends.
ProgramsGoOn ==
    /\ Runtime!EverySocketIsServed
    /\ Is("bus") => Bus!CanBusSucceeds
    /\ Is("bench") => Bench!BenchEnds
=============================================================================
