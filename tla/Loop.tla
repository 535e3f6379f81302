-------------------------------- MODULE Loop --------------------------------
(***************************************************************************)
(* The loop of the av_mw Runtime on its Poller: sockets, ticks and posted  *)
(* tasks, whose handlers watch, unwatch, close and open sockets and post   *)
(* while the loop goes through what it found.  The numbers of closed       *)
(* sockets are used again, the lowest first.                               *)
(***************************************************************************)
EXTENDS Integers, Sequences

CONSTANTS
    Sockets,        \* fd numbers
    MaxEvents,      \* kMaxEventsPerWait
    MaxId,          \* bounds the watches ever made
    Tasks,          \* tasks that may be posted
    Again           \* of these, those that post themselves again

VARIABLES
    open, readable, \* fds of open sockets, and of those with something to read
    polled, ready,  \* the epoll set, and its list of those that became readable
    watches,        \* Runtime's watches, id to fd (0: no such watch)
    watch_by_fd,
    next_id,
    ticks,          \* on_tick() handlers still registered
    posted,
    phase,          \* of poll()
    rest,           \* what this phase of it has still to go through
    running         \* a handler is being called

kernel == <<open, readable, polled, ready>>
tables == <<watches, watch_by_fd, next_id>>
loopVars == <<kernel, tables, ticks, posted, phase, rest, running>>

Within(s, set) == SelectSeq(s, LAMBDA fd : fd \in set)
Upto(s, n) == IF Len(s) <= n THEN s ELSE SubSeq(s, 1, n)
After(s, n) == IF Len(s) <= n THEN <<>> ELSE SubSeq(s, n + 1, Len(s))

\* Runtime::create() watches the SD socket first.
LoopInit ==
    /\ open = {1} /\ readable = {} /\ polled = {1} /\ ready = <<>>
    /\ watches = [id \in 1 .. MaxId |-> IF id = 1 THEN 1 ELSE 0]
    /\ watch_by_fd = [fd \in Sockets |-> IF fd = 1 THEN 1 ELSE 0]
    /\ next_id = 2 /\ ticks = {"tick"} /\ posted = <<>>
    /\ phase = "idle" /\ rest = <<>> /\ running = FALSE

\* A datagram arrives.
Datagram(fd) ==
    /\ fd \in open \ readable
    /\ readable' = readable \cup {fd}
    /\ ready' = IF fd \in polled THEN Append(Within(ready, Sockets \ {fd}), fd) ELSE ready
    /\ UNCHANGED <<open, polled, tables, ticks, posted, phase, rest, running>>

-----------------------------------------------------------------------------
\* Mutated form: edge-triggered, what is reported once is not put back and
\* the rest of the list is lost.
WaitEdge ==
    LET now == Within(ready, readable) IN
    rest' = Upto(now, MaxEvents) /\ ready' = <<>>

\* epoll_wait(): as many as fit; level-triggered, they go to the end of the
\* list and are dropped there once nothing is left to read.
Wait ==
    LET now == Within(ready, readable) IN
    /\ rest' = Upto(now, MaxEvents)
    /\ ready' = After(now, MaxEvents) \o Upto(now, MaxEvents)

\* poll() waits, without sleeping when something has been posted; the timeout
\* ends it with nothing, and what a signal ends is waited for again.
BeginPoll ==
    /\ phase = "idle" /\ phase' = "dispatch"
    /\ Wait
    /\ UNCHANGED <<open, readable, polled, tables, ticks, posted, running>>

\* dispatch(): the fd's present watch, if it has one, is called, and its
\* handler reads until nothing is left.
Dispatch ==
    /\ phase = "dispatch" /\ ~running /\ rest # <<>>
    /\ rest' = Tail(rest)
    /\ LET fd == Head(rest) IN
       IF watch_by_fd[fd] = 0 \/ watches[watch_by_fd[fd]] = 0 THEN UNCHANGED <<readable, running>>
       ELSE readable' = readable \ {fd} /\ running' = TRUE
    /\ UNCHANGED <<open, polled, ready, tables, ticks, posted, phase>>

\* run_ticks(), over the ids there were.
BeginTicks ==
    /\ phase = "dispatch" /\ ~running /\ rest = <<>>
    /\ phase' = "ticks"
    /\ rest' = IF ticks = {} THEN <<>> ELSE <<"tick">>
    /\ UNCHANGED <<kernel, tables, ticks, posted, running>>

Tick ==
    /\ phase = "ticks" /\ ~running /\ rest # <<>>
    /\ rest' = Tail(rest)
    /\ running' = (Head(rest) \in ticks)
    /\ UNCHANGED <<kernel, tables, ticks, posted, phase>>

\* run_posted(): what is posted from here on waits for the next poll().
Swap == rest' = posted /\ posted' = <<>>

BeginPosted ==
    /\ phase = "ticks" /\ ~running /\ rest = <<>>
    /\ phase' = "posted" /\ Swap
    /\ UNCHANGED <<kernel, tables, ticks, running>>

RunPosted ==
    /\ phase = "posted" /\ ~running /\ rest # <<>>
    /\ rest' = Tail(rest)
    /\ posted' = IF Head(rest) \in Again THEN Append(posted, Head(rest)) ELSE posted
    /\ running' = TRUE
    /\ UNCHANGED <<kernel, tables, ticks, phase>>

EndPoll ==
    /\ phase = "posted" /\ ~running /\ rest = <<>>
    /\ phase' = "idle"
    /\ UNCHANGED <<kernel, tables, ticks, posted, rest, running>>

-----------------------------------------------------------------------------
\* What a handler may do, and an application between two polls.
MayCall == running \/ phase = "idle"

\* follow_events(): a socket of the lowest free number, and watch(), which
\* fails when epoll_ctl() does.
Follow ==
    /\ MayCall /\ next_id <= MaxId
    /\ \E fd \in Sockets \ open :
         /\ \A other \in Sockets \ open : fd <= other
         /\ open' = open \cup {fd}
         /\ \/ /\ polled' = polled \cup {fd}
               /\ watches' = [watches EXCEPT ![next_id] = fd]
               /\ watch_by_fd' = [watch_by_fd EXCEPT ![fd] = next_id]
               /\ next_id' = next_id + 1
            \/ UNCHANGED <<polled, tables>>
    /\ UNCHANGED <<readable, ready, ticks, posted, phase, rest, running>>

\* Mutated form: the table by fd keeps the watch.
UnwatchKeepsFd(id) ==
    /\ polled' = polled \ {watches[id]}
    /\ ready' = Within(ready, Sockets \ {watches[id]})
    /\ watches' = [watches EXCEPT ![id] = 0]
    /\ UNCHANGED watch_by_fd

\* Runtime::unwatch() and Poller::unwatch().
Unwatch(id) ==
    LET fd == watches[id] IN
    /\ polled' = polled \ {fd}
    /\ ready' = Within(ready, Sockets \ {fd})
    /\ watch_by_fd' = IF watch_by_fd[fd] = id THEN [watch_by_fd EXCEPT ![fd] = 0] ELSE watch_by_fd
    /\ watches' = [watches EXCEPT ![id] = 0]

\* drop_events() and close(): unwatched first, closed afterwards; also a socket
\* whose watch() failed, and never the SD socket.
Drop ==
    /\ MayCall
    /\ \/ \E id \in 2 .. MaxId :
            /\ watches[id] # 0
            /\ Unwatch(id)
            /\ open' = open \ {watches[id]} /\ readable' = readable \ {watches[id]}
       \/ \E fd \in open \ polled :
            /\ open' = open \ {fd} /\ readable' = readable \ {fd}
            /\ UNCHANGED <<polled, ready, watches, watch_by_fd>>
    /\ UNCHANGED <<next_id, ticks, posted, phase, rest, running>>

CancelTick ==
    /\ MayCall /\ ticks # {} /\ ticks' = {}
    /\ UNCHANGED <<kernel, tables, posted, phase, rest, running>>

Post(task) ==
    /\ MayCall /\ task \notin {posted[i] : i \in DOMAIN posted}
    /\ task \notin {rest[i] : i \in DOMAIN rest}
    /\ posted' = Append(posted, task)
    /\ UNCHANGED <<kernel, tables, ticks, phase, rest, running>>

Return ==
    /\ running /\ running' = FALSE
    /\ UNCHANGED <<kernel, tables, ticks, posted, phase, rest>>

Proceeds ==
    \/ BeginPoll \/ Dispatch \/ BeginTicks \/ Tick \/ BeginPosted \/ RunPosted \/ EndPoll \/ Return

LoopNext ==
    \/ Proceeds \/ Follow \/ Drop \/ CancelTick
    \/ \E fd \in Sockets : Datagram(fd)
    \/ \E task \in Tasks : Post(task)

\* The application polls again and again, and no handler blocks.
LoopFairness == WF_loopVars(Proceeds)

LoopSpec == LoopInit /\ [][LoopNext]_loopVars /\ LoopFairness

-----------------------------------------------------------------------------
\* Every watch there is has an open socket of its own that is polled, both
\* tables agree, and nothing else is polled: no handler is called for a socket
\* it has closed, and none is forgotten, whichever handler drops which watch
\* and whichever number a new socket gets (runtime.cpp 111-137, 408-430).
WatchesAgree ==
    /\ polled = {watches[id] : id \in 1 .. MaxId} \ {0}
    /\ polled \subseteq open
    /\ \A fd \in Sockets, id \in 1 .. MaxId : watch_by_fd[fd] = id <=> watches[id] = fd

\* What arrives at a watched socket is read, or nobody watches it any more:
\* no event beyond the 64 of one wait is lost, and tasks that post themselves
\* again do not keep the loop from its sockets (poller.cpp 23-26, runtime.cpp
\* 155-163).
EverySocketIsServed ==
    \A fd \in Sockets : fd \in readable /\ fd \in polled ~> fd \notin readable \/ fd \notin polled
=============================================================================
