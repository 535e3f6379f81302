----------------------------- MODULE SharedRing -----------------------------
(***************************************************************************)
(* av::ipc::SharedRing: a single-producer single-consumer ring in POSIX    *)
(* shared memory, with its creation, opening and removal, and processes    *)
(* that die and come back.                                                 *)
(*                                                                         *)
(* One name, and two processes: one creates the ring, the other opens it.  *)
(* Every creation that gets past shm_open makes a new region; the name     *)
(* leads to the latest one until it is unlinked, and a process that is     *)
(* attached keeps its region however the name fares.                       *)
(*                                                                         *)
(* The memory model is that of C++.  A load of the other side's counter    *)
(* may return an old value, but never one older than was loaded before;    *)
(* having loaded a value with acquire, a process is ordered after all that *)
(* the other one did before it stored that value with release (seen).      *)
(* memcpy copies word by word: two words are enough to see a torn message. *)
(* The system calls of create() and open() order what was done before.     *)
(***************************************************************************)
EXTENDS Integers

CONSTANTS
    Capacity,
    None,
    Torn,           \* a message made of two
    MaxRegions,     \* regions made over time
    MaxMessages,    \* pushes into one region
    StoresInOrder   \* whether plain stores become visible in program order

Roles == {"producer", "consumer"}

ASSUME SizesAssumption ==
    /\ Capacity \in Nat \ {0}
    /\ MaxRegions \in Nat
    /\ MaxMessages \in Nat
    /\ StoresInOrder \in BOOLEAN

ASSUME NoneAssumption == None \notin Int /\ Torn \notin Int /\ None # Torn

Regions == 1 .. MaxRegions
Messages == 0 .. MaxMessages - 1
Words == Messages \cup {None}

\* The stores of create() into the header, in program order.
HeaderStores == <<"tail", "head", "capacity", "element_size">>
HeaderFields == {"tail", "head", "capacity", "element_size"}

VARIABLES
    creator,        \* the role of the process that creates the ring
    name,           \* the region the name leads to, or None
    made,           \* regions made so far
    sized,          \* those with a length
    written,        \* those whose header was stored
    unseen,         \* header fields whose store is not visible yet
    tail, head,     \* the counters
    slots,          \* two words each
    attached,       \* role -> its region, or None
    owned,          \* role -> the region it will unlink, or None
    step,           \* role -> where it is
    seen,           \* role -> the other side's counter, as last loaded
    word,           \* the first word copied out by the consumer
    delivered       \* region -> the last message given to the application

shm == <<creator, name, made, sized, written>>
counters == <<tail, head>>
roles == <<attached, owned, step, seen>>
vars == <<shm, unseen, counters, slots, roles, word, delivered>>

Other(p) == IF p = "producer" THEN "consumer" ELSE "producer"

Init ==
    /\ creator \in Roles
    /\ name = None
    /\ made = 0
    /\ sized = {}
    /\ written = {}
    /\ unseen = [r \in Regions |-> {}]
    /\ tail = [r \in Regions |-> 0]
    /\ head = [r \in Regions |-> 0]
    /\ slots = [r \in Regions |-> [i \in 0 .. Capacity - 1 |-> [w \in 1 .. 2 |-> None]]]
    /\ attached = [p \in Roles |-> None]
    /\ owned = [p \in Roles |-> None]
    /\ step = [p \in Roles |-> "out"]
    /\ seen = [p \in Roles |-> 0]
    /\ word = None
    /\ delivered = [r \in Regions |-> None]

At(p, here) == step[p] = here
Goto(p, there) == step' = [step EXCEPT ![p] = there]

\* The counter of the other role.
Theirs(p, r) == IF p = "producer" THEN head[r] ELSE tail[r]

(***************************************************************************)
(* create()                                                                *)
(***************************************************************************)
\* shm_open(O_CREAT | O_EXCL): refused while the name exists.
ShmCreate ==
    /\ At(creator, "out")
    /\ name = None /\ made < MaxRegions
    /\ made' = made + 1
    /\ name' = made'
    /\ attached' = [attached EXCEPT ![creator] = made']
    /\ Goto(creator, "made")
    /\ UNCHANGED <<creator, sized, written, unseen, counters, slots, owned, seen, word, delivered>>

\* ftruncate() or mmap() fails: the name is removed again.
CreateFails ==
    /\ At(creator, "made") \/ At(creator, "sized")
    /\ name' = None
    /\ attached' = [attached EXCEPT ![creator] = None]
    /\ Goto(creator, "out")
    /\ UNCHANGED <<creator, made, sized, written, unseen, counters, slots, owned, seen, word, delivered>>

Truncate ==
    /\ At(creator, "made")
    /\ sized' = sized \cup {attached[creator]}
    /\ Goto(creator, "sized")
    /\ UNCHANGED <<creator, name, made, written, unseen, counters, slots, attached, owned, seen, word, delivered>>

\* mmap(), the header, and the ring is the caller's.
WriteHeader ==
    LET r == attached[creator] IN
    /\ At(creator, "sized")
    /\ written' = written \cup {r}
    /\ unseen' = [unseen EXCEPT ![r] = HeaderFields]
    /\ owned' = [owned EXCEPT ![creator] = r]
    /\ seen' = [seen EXCEPT ![creator] = 0]
    /\ Goto(creator, "idle")
    /\ UNCHANGED <<creator, name, made, sized, counters, slots, attached, word, delivered>>

\* A store of the header becomes visible to the other process.
Appears(r, field) ==
    /\ field \in unseen[r]
    /\ StoresInOrder =>
          \A i, j \in DOMAIN HeaderStores :
              (HeaderStores[j] = field /\ i < j) => HeaderStores[i] \notin unseen[r]
    /\ unseen' = [unseen EXCEPT ![r] = @ \ {field}]
    /\ tail' = IF field = "tail" THEN [tail EXCEPT ![r] = 0] ELSE tail
    /\ head' = IF field = "head" THEN [head EXCEPT ![r] = 0] ELSE head
    /\ UNCHANGED <<shm, slots, roles, word, delivered>>

(***************************************************************************)
(* open()                                                                  *)
(***************************************************************************)
ShmOpen ==
    LET p == Other(creator) IN
    /\ At(p, "out")
    /\ name # None
    /\ attached' = [attached EXCEPT ![p] = name]
    /\ Goto(p, "opened")
    /\ UNCHANGED <<shm, unseen, counters, slots, owned, seen, word, delivered>>

\* A region is refused if it has no length, or if it has no header yet.
HeaderIsThere(r) ==
    /\ r \in sized
    /\ r \in written
    /\ {"element_size", "capacity"} \cap unseen[r] = {}

Attach ==
    LET p == Other(creator) IN
    /\ At(p, "opened")
    /\ IF HeaderIsThere(attached[p])
       THEN /\ seen' = [seen EXCEPT ![p] = Theirs(p, attached[p])]
            /\ Goto(p, "idle")
            /\ UNCHANGED attached
       ELSE /\ attached' = [attached EXCEPT ![p] = None]
            /\ Goto(p, "out")
            /\ UNCHANGED seen
    /\ UNCHANGED <<shm, unseen, counters, slots, owned, word, delivered>>

(***************************************************************************)
(* try_push() and try_pop()                                                *)
(***************************************************************************)
\* What an acquire load of the other side's counter may return.
Loads(p, r) == {Theirs(p, r)} \cup {n \in Messages : seen[p] <= n /\ n < Theirs(p, r)}

\* Mutated form: a relaxed load gives the value, but no order.
AcquireRelaxed(p, n) == UNCHANGED seen

Acquire(p, n) == seen' = [seen EXCEPT ![p] = n]

\* Mutated form: full only once the count is above the capacity.
MayPushOneMore(r, n) == tail[r] - n <= Capacity

MayPush(r, n) == tail[r] - n < Capacity
\* Mutated form: empty at one message already.
MayPopLeavesOne(r, n) == n - head[r] > 1

MayPop(r, n) == n # head[r]

TryPush(n) ==
    LET r == attached["producer"] IN
    /\ At("producer", "idle")
    /\ tail[r] < MaxMessages
    /\ n \in Loads("producer", r)
    /\ Acquire("producer", n)
    /\ IF MayPush(r, n) THEN Goto("producer", "first") ELSE UNCHANGED step
    /\ UNCHANGED <<shm, unseen, counters, slots, attached, owned, word, delivered>>

TryPop(n) ==
    LET r == attached["consumer"] IN
    /\ At("consumer", "idle")
    /\ n \in Loads("consumer", r)
    /\ Acquire("consumer", n)
    /\ IF MayPop(r, n) THEN Goto("consumer", "first") ELSE UNCHANGED step
    /\ UNCHANGED <<shm, unseen, counters, slots, attached, owned, word, delivered>>

\* memcpy() into the slot, one word after the other.
CopyIn(i, from, to) ==
    LET r == attached["producer"] IN
    /\ At("producer", from)
    /\ slots' = [slots EXCEPT ![r][tail[r] % Capacity][i] = tail[r]]
    /\ Goto("producer", to)
    /\ UNCHANGED <<shm, unseen, counters, attached, owned, seen, word, delivered>>

\* memcpy() out of it: the first word is kept, the second looked at when the
\* pop ends.
CopyOut ==
    LET r == attached["consumer"] IN
    /\ At("consumer", "first")
    /\ word' = slots[r][head[r] % Capacity][1]
    /\ Goto("consumer", "second")
    /\ UNCHANGED <<shm, unseen, counters, slots, attached, owned, seen, delivered>>

\* The release store of tail.  What the creator stored into the header before
\* is visible by then.
PublishTail ==
    LET r == attached["producer"] IN
    /\ At("producer", "publish")
    /\ creator = "producer" => unseen[r] = {}
    /\ tail' = [tail EXCEPT ![r] = @ + 1]
    /\ Goto("producer", "idle")
    /\ UNCHANGED <<shm, unseen, head, slots, attached, owned, seen, word, delivered>>

\* The second word, the release store of head, and the message is handed over.
PublishHead ==
    LET r == attached["consumer"]
        second == slots[r][head[r] % Capacity][2] IN
    /\ At("consumer", "second")
    /\ creator = "consumer" => unseen[r] = {}
    /\ delivered' = [delivered EXCEPT ![r] = IF word = second THEN word ELSE Torn]
    /\ head' = [head EXCEPT ![r] = @ + 1]
    /\ word' = None
    /\ Goto("consumer", "idle")
    /\ UNCHANGED <<shm, unseen, tail, slots, attached, owned, seen>>

(***************************************************************************)
(* The end of a ring                                                       *)
(***************************************************************************)
\* Mutated form: whoever goes away unlinks.
UnmapUnlinks(p) ==
    /\ At(p, "idle")
    /\ attached' = [attached EXCEPT ![p] = None]
    /\ Goto(p, "unlink")
    /\ UNCHANGED <<shm, unseen, counters, slots, owned, seen, word, delivered>>

\* ~SharedMapping(): munmap(), and then shm_unlink() by whoever owns the name.
Unmap(p) ==
    /\ At(p, "idle")
    /\ attached' = [attached EXCEPT ![p] = None]
    /\ Goto(p, IF owned[p] = None THEN "out" ELSE "unlink")
    /\ UNCHANGED <<shm, unseen, counters, slots, owned, seen, word, delivered>>

Unlink(p) ==
    /\ At(p, "unlink")
    /\ name' = None
    /\ owned' = [owned EXCEPT ![p] = None]
    /\ Goto(p, "out")
    /\ UNCHANGED <<creator, made, sized, written, unseen, counters, slots, attached, seen, word, delivered>>

\* The process dies wherever it is, and may be started again.
Crash(p) ==
    /\ step[p] # "out"
    /\ attached' = [attached EXCEPT ![p] = None]
    /\ owned' = [owned EXCEPT ![p] = None]
    /\ Goto(p, "out")
    /\ word' = IF p = "consumer" THEN None ELSE word
    /\ UNCHANGED <<shm, unseen, counters, slots, seen, delivered>>

-----------------------------------------------------------------------------
Lifecycle ==
    \/ ShmCreate \/ CreateFails \/ Truncate \/ WriteHeader
    \/ ShmOpen \/ Attach
    \/ \E p \in Roles : Unmap(p) \/ Unlink(p) \/ Crash(p)

Visibility == \E r \in Regions, field \in HeaderFields : Appears(r, field)

Push ==
    \/ \E n \in 0 .. MaxMessages : TryPush(n)
    \/ CopyIn(1, "first", "second")
    \/ CopyIn(2, "second", "publish")
    \/ PublishTail

Pop ==
    \/ \E n \in 0 .. MaxMessages : TryPop(n)
    \/ CopyOut
    \/ PublishHead

Next == Lifecycle \/ Visibility \/ Push \/ Pop

Spec == Init /\ [][Next]_vars

(***************************************************************************)
(* Both sides try again and again, as ipc_bench does, and a store becomes  *)
(* visible in the end: trying for ever means loading the latest value at   *)
(* some point.                                                             *)
(***************************************************************************)
Fairness ==
    /\ WF_vars(Visibility)
    /\ WF_vars(attached["producer"] # None /\ TryPush(head[attached["producer"]]))
    /\ WF_vars(CopyIn(1, "first", "second") \/ CopyIn(2, "second", "publish") \/ PublishTail)
    /\ WF_vars(attached["consumer"] # None /\ TryPop(tail[attached["consumer"]]))
    /\ WF_vars(CopyOut \/ PublishHead)

FairSpec == Spec /\ Fairness

-----------------------------------------------------------------------------
(***************************************************************************)
(* Properties                                                              *)
(***************************************************************************)
\* Every variable has its type; a process is attached to a region that was
\* made, and beyond open() only to one with a header.
TypeInvariant ==
    /\ made \in 0 .. MaxRegions
    /\ name \in 1 .. made \cup {None}
    /\ sized \subseteq 1 .. made /\ written \subseteq sized
    /\ unseen \in [Regions -> SUBSET HeaderFields]
    /\ tail \in [Regions -> 0 .. MaxMessages]
    /\ head \in [Regions -> 0 .. MaxMessages]
    /\ slots \in [Regions -> [0 .. Capacity - 1 -> [1 .. 2 -> Words]]]
    /\ attached \in [Roles -> 1 .. made \cup {None}]
    /\ owned \in [Roles -> 1 .. made \cup {None}]
    /\ step \in [Roles -> {"out", "made", "sized", "opened", "idle", "first", "second", "publish",
                           "unlink"}]
    /\ seen \in [Roles -> 0 .. MaxMessages]
    /\ word \in Words
    /\ delivered \in [Regions -> Words \cup {Torn}]
    /\ \A p \in Roles : step[p] \in {"idle", "first", "second", "publish"} => attached[p] \in written

InRing(p, r) == attached[p] = r /\ step[p] \in {"idle", "first", "second", "publish"}
Copying(p) == step[p] \in {"first", "second"}

\* No slot is written while it may still be read, nor read while it may still
\* be written: whoever copies is ordered after the other side's last use of the
\* slot.  Being later is not enough, it has to have loaded the counter that
\* says so with acquire.
NoRace ==
    /\ Copying("producer") =>
          seen["producer"] + Capacity > tail[attached["producer"]]
    /\ Copying("consumer") =>
          seen["consumer"] > head[attached["consumer"]]

\* Each region is a FIFO channel, whichever side dies in the middle of a copy
\* and comes back.
Contract == INSTANCE RingContract WITH sent <- tail, received <- head

ImplementsContract == Contract!Spec

\* While the creator has its ring, the name leads to it: no peer that goes away,
\* and no earlier ring, takes the name along (shared_ring.hpp:38-40).
NameLeadsToRing ==
    step[creator] \in {"idle", "first", "second", "publish"} => name = attached[creator]

\* What is pushed arrives, unless the consumer goes away.
Arrives ==
    \A r \in Regions, n \in Messages :
        tail[r] > n /\ InRing("consumer", r) ~> head[r] > n \/ ~InRing("consumer", r)

\* A producer that keeps trying does not find the ring full for ever while a
\* consumer empties it.
RoomIsSeen ==
    \A r \in Regions, n \in Messages :
        tail[r] = n /\ InRing("producer", r) /\ InRing("consumer", r)
            ~> tail[r] > n \/ ~InRing("producer", r) \/ ~InRing("consumer", r)
=============================================================================
