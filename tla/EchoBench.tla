----------------------------- MODULE EchoBench -----------------------------
(***************************************************************************)
(* ipc_bench: a parent and the child it forks send messages to and fro,    *)
(* first over a UnixSocket, then over two SharedRings.  The endpoint and   *)
(* the regions have names in the file system which only their creator      *)
(* removes; the child is a copy of the parent that leaves by _exit().      *)
(*                                                                         *)
(* A message is the number of its round trip.  The rings' own steps are    *)
(* those of SharedRing; here a push or a pop is one step.                  *)
(***************************************************************************)
EXTENDS Integers, Sequences

CONSTANTS RoundTrips    \* kWarmup + kIterations

VARIABLES
    parent, child,      \* place, round trip and message of each process
    names,              \* what is in the file system
    listening,          \* a socket listens at the endpoint
    connected,          \* "no", "waiting" to be accepted, "yes"
    toChild, toParent,  \* messages under way
    samples             \* of both measurements

channels == <<toChild, toParent>>
benchVars == <<parent, child, names, listening, connected, channels, samples>>

Process(at) == [at |-> at, round |-> 0, message |-> 0]
NoProcess == Process("none")
Moves(process, at) == [process EXCEPT !.at = at]
Both == {"down", "up"}

BenchInit ==
    /\ parent = Process("listen") /\ child = NoProcess
    /\ names \in SUBSET {"stale"}     \* an endpoint that a crash left behind
    /\ listening = FALSE /\ connected = "no" /\ toChild = <<>> /\ toParent = <<>>
    /\ samples = [socket |-> 0, ring |-> 0]

\* A measurement that did not begin leaves the program with an error, and its
\* objects remove the names they own.
GivesUp ==
    /\ parent' = Moves(parent, "failed")
    /\ names' = {} /\ listening' = FALSE

\* UnixSocket::listen(): a stale endpoint is removed first.  Each call may fail.
Listen ==
    /\ parent.at = "listen"
    /\ \/ GivesUp
       \/ parent' = Moves(parent, "failed") /\ UNCHANGED <<names, listening>>
       \/ parent' = Moves(parent, "fork") /\ names' = {"endpoint"} /\ listening' = TRUE
    /\ UNCHANGED <<child, connected, channels, samples>>

\* Nobody looks whether fork() failed; the child begins where its code does.
Fork ==
    /\ parent.at \in {"fork", "fork ring"}
    /\ parent' = Moves(parent, IF parent.at = "fork" THEN "accept" ELSE "push")
    /\ child' \in {Process("failed"), Process(IF parent.at = "fork" THEN "connect" ELSE "open")}
    /\ UNCHANGED <<names, listening, connected, channels, samples>>

\* _exit(): the copies of the parent's objects are not destroyed.
Exit(status) ==
    /\ child' = [child EXCEPT !.at = status]
    /\ UNCHANGED names

\* UnixSocket::connect().
Connect ==
    /\ child.at = "connect"
    /\ \/ Exit("failed") /\ UNCHANGED connected
       \/ /\ "endpoint" \in names /\ listening
          /\ child' = Moves(child, "receive") /\ connected' = "waiting" /\ UNCHANGED names
    /\ UNCHANGED <<parent, listening, channels, samples>>

Accept ==
    /\ parent.at = "accept" /\ connected = "waiting"
    /\ \/ parent' = Moves(parent, "send") /\ connected' = "yes" /\ UNCHANGED <<names, listening>>
       \/ GivesUp /\ connected' = "closed"
    /\ UNCHANGED <<child, channels, samples>>

\* send() and receive() of the parent's round trip; an error ends the loop.
Send ==
    /\ parent.at = "send"
    /\ \/ /\ connected = "yes"
          /\ toChild' = Append(toChild, parent.round)
          /\ parent' = [parent EXCEPT !.at = "receive", !.message = parent.round]
       \/ parent' = Moves(parent, "wait") /\ UNCHANGED toChild
    /\ UNCHANGED <<child, names, listening, connected, toParent, samples>>

Next(at, end) ==
    [parent EXCEPT !.at = IF parent.round + 1 = RoundTrips THEN end ELSE at,
                   !.round = @ + 1, !.message = Head(toParent)]

\* recv() answers 0.
PeerClosed == toParent = <<>> /\ connected = "closed"

Receive ==
    /\ parent.at = "receive"
    /\ \/ /\ toParent # <<>>
          /\ toParent' = Tail(toParent)
          /\ parent' = Next("send", "wait")
          /\ samples' = [samples EXCEPT !.socket = @ + 1]
       \/ /\ PeerClosed
          /\ parent' = Moves(parent, "wait") /\ UNCHANGED <<toParent, samples>>
    /\ UNCHANGED <<child, names, listening, connected, toChild>>

\* socket_echo_child(): all that arrives goes back, and a failure ends it.
Echo ==
    /\ child.at = "receive" /\ connected \in {"yes", "closed"}
    /\ \/ /\ toChild # <<>> /\ connected = "yes"
          /\ toChild' = Tail(toChild) /\ toParent' = Append(toParent, Head(toChild))
          /\ child' = [child EXCEPT !.round = @ + 1,
                                    !.at = IF child.round + 1 = RoundTrips THEN "done" ELSE @]
          /\ UNCHANGED <<names, connected>>
       \/ /\ Exit("failed") /\ connected' = "closed" /\ UNCHANGED channels
    /\ UNCHANGED <<parent, listening, samples>>

\* waitpid(), after which what the parent opened is closed; its own end is
\* open until then, so a child that still receives waits, too.
WaitForChild ==
    /\ parent.at = "wait" /\ child.at \in {"done", "failed"}
    /\ names' = {} /\ listening' = FALSE /\ connected' = "no" /\ toChild' = <<>> /\ toParent' = <<>>
    /\ parent' = Process(IF samples.socket = 0 THEN "failed" ELSE "create")
    /\ UNCHANGED <<child, samples>>

-----------------------------------------------------------------------------
\* Two SharedRing::create(), one per direction.
Create ==
    /\ parent.at = "create"
    /\ \/ GivesUp /\ UNCHANGED child
       \/ parent' = Moves(parent, "fork ring") /\ names' = Both /\ child' = NoProcess /\ UNCHANGED listening
    /\ UNCHANGED <<connected, channels, samples>>

\* Two SharedRing::open().
Open ==
    /\ child.at = "open"
    /\ \/ Exit("failed")
       \/ Both \subseteq names /\ child' = Moves(child, "pop") /\ UNCHANGED names
    /\ UNCHANGED <<parent, listening, connected, channels, samples>>

\* try_push() of the parent, who then spins on try_pop().
RingPush ==
    /\ parent.at = "push"
    /\ toChild' = Append(toChild, parent.round)
    /\ parent' = [parent EXCEPT !.at = "pop", !.message = parent.round]
    /\ UNCHANGED <<child, names, listening, connected, toParent, samples>>

RingPop ==
    /\ parent.at = "pop" /\ toParent # <<>>
    /\ toParent' = Tail(toParent)
    /\ parent' = Next("push", "wait ring")
    /\ samples' = [samples EXCEPT !.ring = @ + 1]
    /\ UNCHANGED <<child, names, listening, connected, toChild>>

\* ring_echo_child() spins on try_pop(), then on try_push().
RingEcho ==
    /\ child.at = "pop" /\ toChild # <<>>
    /\ toChild' = Tail(toChild) /\ toParent' = Append(toParent, Head(toChild))
    /\ child' = [child EXCEPT !.round = @ + 1,
                              !.at = IF child.round + 1 = RoundTrips THEN "done" ELSE @]
    /\ UNCHANGED <<parent, names, listening, connected, samples>>

WaitForRingChild ==
    /\ parent.at = "wait ring" /\ child.at = "done"
    /\ parent' = Moves(parent, "reported") /\ names' = {}
    /\ UNCHANGED <<child, listening, connected, channels, samples>>

ParentSteps ==
    \/ Listen \/ Fork \/ Accept \/ Send \/ Receive \/ WaitForChild
    \/ Create \/ RingPush \/ RingPop \/ WaitForRingChild
ChildSteps == Connect \/ Echo \/ Open \/ RingEcho

BenchNext == ParentSteps \/ ChildSteps

\* Two processes, each of which the system schedules.
BenchFairness == WF_benchVars(ParentSteps) /\ WF_benchVars(ChildSteps)

BenchSpec == BenchInit /\ [][BenchNext]_benchVars /\ BenchFairness

-----------------------------------------------------------------------------
\* Every answer is the message of its round trip, in both transports; the names
\* are there as long as the other process has still to open them, and none is
\* left at the end, whoever failed: the child's copies of the listener and of
\* the rings do not remove them (unix_socket.cpp 118-122, ipc_bench 87-102).
EchoesAndNames ==
    /\ parent.at \in {"send", "push", "wait ring"} /\ parent.round > 0 =>
          parent.message = parent.round - 1
    /\ child.at = "connect" => "endpoint" \in names
    /\ child.at = "open" => Both \subseteq names
    /\ parent.at \in {"failed", "reported"} => names \subseteq {"stale"}

\* The program ends, unless its child did before they were connected: then it
\* accepts or spins for ever (ipc_bench 115, 190-193), and a round trip that
\* broke off leaves both waiting for each other (142-144).
BenchEnds ==
    <>(\/ parent.at \in {"failed", "reported"}
       \/ child.at = "failed" /\ parent.at \in {"accept", "push", "pop"}
       \/ parent.at = "wait" /\ child.at = "receive")
=============================================================================
