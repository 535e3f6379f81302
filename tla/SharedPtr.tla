----------------------------- MODULE SharedPtr -----------------------------
(***************************************************************************)
(* shared_ptr and weak_ptr by hand: the control block with its two counts, *)
(* and threads that copy, drop, observe and lock at the same time, one     *)
(* atomic operation per step.  The object may observe itself, so that its  *)
(* destructor drops a weak_ptr.                                            *)
(***************************************************************************)
EXTENDS Integers

CONSTANTS
    Threads,
    First,          \* the thread that makes the object
    MaxHandles      \* bounds the handles of either kind per thread

VARIABLES
    strong, weak,   \* ControlBlock
    object,         \* "alive", or "dead" once deleted
    block,          \* how often the control block has been deleted
    owners,         \* SharedPtr handles of each thread
    watchers,       \* WeakPtr handles of each thread
    inner,          \* the object's own WeakPtr
    step            \* what each thread is in the middle of

counts == <<strong, weak>>
handles == <<owners, watchers>>
pointerVars == <<counts, object, block, handles, inner, step>>

Idle == [at |-> "idle", seen |-> 0]
At(place, seen) == [at |-> place, seen |-> seen]
Moves(t, place, seen) == step' = [step EXCEPT ![t] = At(place, seen)]
Holds(count, t, change) == [count EXCEPT ![t] = @ + change]

\* SharedPtr(T*): the strong side holds one collective weak reference.
PointerInit ==
    /\ inner \in BOOLEAN
    /\ strong = 1 /\ weak = IF inner THEN 2 ELSE 1
    /\ object = "alive" /\ block = 0
    /\ owners = [t \in Threads |-> IF t = First THEN 1 ELSE 0]
    /\ watchers = [t \in Threads |-> 0]
    /\ step = [t \in Threads |-> Idle]

\* SharedPtr(const SharedPtr&).
Copy(t) ==
    /\ step[t] = Idle /\ owners[t] \in 1 .. MaxHandles - 1
    /\ strong' = strong + 1 /\ owners' = Holds(owners, t, 1)
    /\ UNCHANGED <<weak, object, block, watchers, inner, step>>

\* SharedPtr(SharedPtr&&), to another thread: no count changes.
Move(t, u) ==
    /\ step[t] = Idle /\ step[u] = Idle /\ t # u
    /\ owners[t] > 0 /\ owners[u] < MaxHandles
    /\ owners' = Holds(Holds(owners, t, -1), u, 1)
    /\ UNCHANGED <<counts, object, block, watchers, inner, step>>

\* WeakPtr(const SharedPtr&) and WeakPtr(const WeakPtr&).
Observe(t) ==
    /\ step[t] = Idle /\ owners[t] + watchers[t] > 0 /\ watchers[t] < MaxHandles
    /\ weak' = weak + 1 /\ watchers' = Holds(watchers, t, 1)
    /\ UNCHANGED <<strong, object, block, owners, inner, step>>

\* fetch_sub answers with the value before.
Last(before) == before = 1

\* SharedPtr::release(), the count; copy-and-swap assignment is a Copy and this.
Release(t) ==
    /\ step[t] = Idle /\ owners[t] > 0
    /\ strong' = strong - 1 /\ owners' = Holds(owners, t, -1)
    /\ IF Last(strong) THEN Moves(t, "delete object", 0) ELSE UNCHANGED step
    /\ UNCHANGED <<weak, object, block, watchers, inner>>

\* delete ptr_: the destructor drops what the object observed itself with.
DeleteObject(t) ==
    /\ step[t].at = "delete object"
    /\ object' = "dead"
    /\ weak' = IF inner THEN weak - 1 ELSE weak
    /\ block' = IF inner /\ Last(weak) THEN block + 1 ELSE block
    /\ inner' = FALSE
    /\ Moves(t, "collective", 0)
    /\ UNCHANGED <<strong, handles>>

\* The collective reference goes only after the destructor.
DropCollective(t) ==
    /\ step[t].at = "collective"
    /\ weak' = weak - 1
    /\ step' = [step EXCEPT ![t] = IF Last(weak) THEN At("delete block", 0) ELSE Idle]
    /\ UNCHANGED <<strong, object, block, handles, inner>>

\* WeakPtr::release(), the count.
Forget(t) ==
    /\ step[t] = Idle /\ watchers[t] > 0
    /\ weak' = weak - 1 /\ watchers' = Holds(watchers, t, -1)
    /\ IF Last(weak) THEN Moves(t, "delete block", 0) ELSE UNCHANGED step
    /\ UNCHANGED <<strong, object, block, owners, inner>>

DeleteBlock(t) ==
    /\ step[t].at = "delete block"
    /\ block' = block + 1
    /\ step' = [step EXCEPT ![t] = Idle]
    /\ UNCHANGED <<counts, object, handles, inner>>

\* WeakPtr::lock(): expired, or the count it will try to raise.
Lock(t) ==
    /\ step[t] = Idle /\ watchers[t] > 0 /\ owners[t] < MaxHandles /\ strong # 0
    /\ Moves(t, "lock", strong)
    /\ UNCHANGED <<counts, object, block, handles, inner>>

\* Mutated form: what it saw is not compared.
RaiseUnlessExpired(t) ==
    /\ step[t].at = "lock"
    /\ strong' = strong + 1 /\ owners' = Holds(owners, t, 1)
    /\ step' = [step EXCEPT ![t] = Idle]
    /\ UNCHANGED <<weak, object, block, watchers, inner>>

\* compare_exchange_weak: it fails when the count has changed, or for no
\* reason, and then holds the count there is.
Raise(t) ==
    /\ step[t].at = "lock"
    /\ \/ /\ strong = step[t].seen
          /\ strong' = strong + 1 /\ owners' = Holds(owners, t, 1)
          /\ step' = [step EXCEPT ![t] = Idle]
       \/ /\ step' = [step EXCEPT ![t] = IF strong = 0 THEN Idle ELSE At("lock", strong)]
          /\ UNCHANGED <<strong, owners>>
    /\ UNCHANGED <<weak, object, block, watchers, inner>>

PointerNext ==
    \E t \in Threads :
        \/ Copy(t) \/ Observe(t) \/ Release(t) \/ DeleteObject(t) \/ DropCollective(t)
        \/ Forget(t) \/ DeleteBlock(t) \/ Lock(t) \/ Raise(t)
        \/ \E u \in Threads : Move(t, u)

PointerSpec == PointerInit /\ [][PointerNext]_pointerVars

-----------------------------------------------------------------------------
\* Whoever has a SharedPtr has an object, and whoever has a handle or is in the
\* middle of an operation has a control block: the destructor that drops the
\* last WeakPtr does not free it under release(), the defect smart_ptr.hpp
\* 51-57 tells of, and lock() does not raise the dead (147-157).
NothingDangles ==
    /\ (\E t \in Threads : owners[t] > 0) => object = "alive"
    /\ (\E t \in Threads : owners[t] + watchers[t] > 0 \/ step[t] # Idle) => block = 0

\* When the last handle has gone the object and the block have gone too, and
\* each of them once.
AllIsFreed ==
    (\A t \in Threads : owners[t] + watchers[t] = 0 /\ step[t] = Idle) =>
        object = "dead" /\ block = 1
=============================================================================
