---------------------------- MODULE MemoryOrder ----------------------------
(***************************************************************************)
(* The memory order demonstrations and the lock-free ring, on the machine  *)
(* they are built for (x86-64): a store waits in its core's buffer, in the *)
(* order of the program, and reaches memory later; a load looks into its   *)
(* own buffer first.  A seq_cst store and a barrier drain the buffer,      *)
(* release and acquire need nothing there.                                 *)
(*                                                                         *)
(* Each experiment is one program of two threads, a list of instructions   *)
(* in the module's order; memory holds what both share.                    *)
(***************************************************************************)
EXTENDS Integers, Sequences

CONSTANTS
    Rounds,         \* rounds of the store buffer litmus
    Capacity,       \* slots of the ring
    Items           \* bounds what is pushed

VARIABLES
    experiment,     \* which program runs, and in which variant
    memory,
    buffer,         \* the stores of each thread that have not arrived
    thread,         \* place and registers of each thread
    popped,         \* what the ring's consumer has read, in that order
    destroyed       \* elements the ring's destructor destroyed

memoryVars == <<experiment, memory, buffer, thread, popped, destroyed>>

Both == {"t0", "t1"}
Var(name) == [name |-> name, nr |-> 0]
Slot(i) == [name |-> "slot", nr |-> i % Capacity]
Locations == [name : {"x", "y", "data", "ready", "head", "tail"}, nr : {0}]
             \cup [name : {"slot"}, nr : 0 .. Capacity - 1]
Other(t) == IF t = "t0" THEN "t1" ELSE "t0"

\* What a thread reads at a location: its own latest store, or memory.
Load(t, location) ==
    LET own == {i \in DOMAIN buffer[t] : buffer[t][i].to = location} IN
    IF own = {} THEN memory[location]
    ELSE buffer[t][CHOOSE i \in own : \A j \in own : j <= i].value

Drained(t) == buffer[t] = <<>>
Store(t, location, value) ==
    buffer' = [buffer EXCEPT ![t] = Append(@, [to |-> location, value |-> value])]

\* The oldest store arrives.
Arrive(t) ==
    /\ ~Drained(t)
    /\ memory' = [memory EXCEPT ![Head(buffer[t]).to] = Head(buffer[t]).value]
    /\ buffer' = [buffer EXCEPT ![t] = Tail(@)]
    /\ UNCHANGED <<experiment, thread, popped, destroyed>>

Goes(t, place) == thread' = [thread EXCEPT ![t].at = place]
Here(name, t, place) == experiment.name = name /\ thread[t].at = place
Unshared == UNCHANGED <<experiment, memory, popped, destroyed>>

-----------------------------------------------------------------------------
\* store_buffer_litmus(): each thread stores its own flag ...
Flag(t) == Var(IF t = "t0" THEN "x" ELSE "y")

LitmusStore(t) ==
    /\ Here("litmus", t, "start")
    /\ Store(t, Flag(t), 1)
    /\ Goes(t, "stored") /\ Unshared

\* ... and loads the other's, after its own store has arrived if that was
\* seq_cst (xchg or mfence).
MayLoad(t) == experiment.seqCst => Drained(t)

LitmusLoad(t) ==
    /\ Here("litmus", t, "stored") /\ MayLoad(t)
    /\ thread' = [thread EXCEPT ![t].at = "loaded", ![t].register = Load(t, Flag(Other(t)))]
    /\ UNCHANGED buffer /\ Unshared

\* Both barriers: main counts the round and resets the flags for the next.
Barrier ==
    /\ experiment.name = "litmus" /\ experiment.round < Rounds
    /\ \A t \in Both : thread[t].at = "loaded" /\ Drained(t)
    /\ experiment' = [experiment EXCEPT !.round = @ + 1,
           !.zeroZero = @ + (IF \A t \in Both : thread[t].register = 0 THEN 1 ELSE 0)]
    /\ memory' = [memory EXCEPT ![Var("x")] = 0, ![Var("y")] = 0]
    /\ thread' = [t \in Both |-> [at |-> "start", register |-> -1]]
    /\ UNCHANGED <<buffer, popped, destroyed>>

-----------------------------------------------------------------------------
\* release_acquire_message() and wait_notify_message(): t0 writes the payload,
\* then publishes it; t1 spins, or parks until it is notified.
MessageWrite ==
    /\ Here("message", "t0", "start")
    /\ Store("t0", Var("data"), 42) /\ Goes("t0", "written") /\ Unshared
MessagePublish ==
    /\ Here("message", "t0", "written")
    /\ Store("t0", Var("ready"), 1) /\ Goes("t0", "published") /\ Unshared

\* Looks at the flag; notify_one() makes its store visible before it wakes.
MessageLook ==
    /\ Here("message", "t1", "start")
    /\ IF Load("t1", Var("ready")) = 1 THEN Goes("t1", "ready")
       ELSE experiment.parks /\ Goes("t1", "parked")
    /\ UNCHANGED buffer /\ Unshared
MessageNotify ==
    /\ Here("message", "t0", "published") /\ experiment.parks /\ Drained("t0")
    /\ thread' = [thread EXCEPT !["t0"].at = "notified",
                                !["t1"].at = IF @ = "parked" THEN "start" ELSE @]
    /\ UNCHANGED buffer /\ Unshared
MessageRead ==
    /\ Here("message", "t1", "ready")
    /\ thread' = [thread EXCEPT !["t1"] = [at |-> "done", register |-> Load("t1", Var("data"))]]
    /\ UNCHANGED buffer /\ Unshared

-----------------------------------------------------------------------------
\* SpscRing: t0 pushes 1, 2, ..., t1 pops.  emplace() reads its own tail and
\* the consumer's head.
Full(tail, head) == tail - head = Capacity

PushLook ==
    /\ Here("ring", "t0", "start") /\ Load("t0", Var("tail")) < Items
    /\ ~Full(Load("t0", Var("tail")), Load("t0", Var("head")))
    /\ Goes("t0", "room") /\ UNCHANGED buffer /\ Unshared

\* Mutated form: the new tail is stored before the element.
PublishFirst ==
    LET tail == Load("t0", Var("tail")) IN
    buffer' = [buffer EXCEPT !["t0"] = @ \o <<[to |-> Var("tail"), value |-> tail + 1],
                                              [to |-> Slot(tail), value |-> tail + 1]>>]

\* The element is constructed, then the new tail is published.
Publish ==
    LET tail == Load("t0", Var("tail")) IN
    buffer' = [buffer EXCEPT !["t0"] = @ \o <<[to |-> Slot(tail), value |-> tail + 1],
                                              [to |-> Var("tail"), value |-> tail + 1]>>]

Push == Here("ring", "t0", "room") /\ Publish /\ Goes("t0", "start") /\ Unshared

\* pop() sees an element, moves it out, then frees its slot.
PopLook ==
    /\ Here("ring", "t1", "start") /\ Load("t1", Var("head")) # Load("t1", Var("tail"))
    /\ Goes("t1", "item") /\ UNCHANGED buffer /\ Unshared
PopRead ==
    /\ Here("ring", "t1", "item")
    /\ popped' = Append(popped, Load("t1", Slot(Load("t1", Var("head")))))
    /\ Goes("t1", "read") /\ UNCHANGED <<experiment, memory, buffer, destroyed>>
PopFree ==
    /\ Here("ring", "t1", "read")
    /\ Store("t1", Var("head"), Load("t1", Var("head")) + 1)
    /\ Goes("t1", "start") /\ Unshared

\* ~SpscRing(), both threads joined: what is still in flight is destroyed.
DestroyRing ==
    /\ \A t \in Both : Here("ring", t, "start") /\ Drained(t)
    /\ destroyed' = {memory[Slot(i)] : i \in memory[Var("head")] .. memory[Var("tail")] - 1}
    /\ thread' = [t \in Both |-> [thread[t] EXCEPT !.at = "joined"]]
    /\ UNCHANGED <<experiment, memory, buffer, popped>>

MemoryInit ==
    /\ experiment \in [name : {"litmus"}, seqCst : BOOLEAN, round : {0}, zeroZero : {0}]
                      \cup [name : {"message"}, parks : BOOLEAN] \cup [name : {"ring"}]
    /\ memory = [l \in Locations |-> 0]
    /\ buffer = [t \in Both |-> <<>>]
    /\ thread = [t \in Both |-> [at |-> "start", register |-> -1]]
    /\ popped = <<>> /\ destroyed = {}

MemoryNext ==
    \/ \E t \in Both : Arrive(t) \/ LitmusStore(t) \/ LitmusLoad(t)
    \/ Barrier
    \/ MessageWrite \/ MessagePublish \/ MessageLook \/ MessageNotify \/ MessageRead
    \/ PushLook \/ Push \/ PopLook \/ PopRead \/ PopFree \/ DestroyRing

MemorySpec == MemoryInit /\ [][MemoryNext]_memoryVars

-----------------------------------------------------------------------------
\* Under seq_cst no round ends with both threads having read 0; what the flag
\* publishes is there when the flag is seen (memory_order_litmus.hpp 39-49,
\* 88-118).
OrderIsKept ==
    /\ experiment.name = "litmus" /\ experiment.seqCst => experiment.zeroZero = 0
    /\ thread["t1"].at = "done" => thread["t1"].register = 42

\* The ring's consumer reads what was pushed, in that order and each element
\* once, and every other element is destroyed with the ring (spsc_ring.hpp).
RingInOrder ==
    /\ \A i \in DOMAIN popped : popped[i] = i
    /\ thread["t0"].at = "joined" => destroyed = Len(popped) + 1 .. memory[Var("tail")]
=============================================================================
