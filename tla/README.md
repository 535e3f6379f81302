# TLA+ models of the algorithms repository

This directory models the concurrent and distributed core of the repository, and
the algorithms it rests on, in TLA+, checks them with TLC and proves part of them
with TLAPS. Read it together with the sources: every definition is tied to the
lines it stands for by the `map` of `PROJECT.json`.

- [Inventory](#inventory)
- [Modules](#modules)
- [Runs](#runs)
- [Findings](#findings)
- [Disagreements without a run](#disagreements-without-a-run)
- [Proofs](#proofs)
- [Not modelled](#not-modelled)

## Inventory

The repository is a collection. `automotive/` is a program of its own, a small
in-vehicle middleware with its applications, and holds most of the logic that
runs concurrently or across processes. The others are collections of exercises.

| component | state it keeps | operations | talks to | modules |
|---|---|---|---|---|
| `av_conc` `BoundedQueue` | ring of slots, head, tail, count, `closed_`, a mutex, two condition variables | `push`, `try_push`, `pop`, `try_pop`, `close` | the threads of `cockpit` | `BoundedQueue` |
| `av_mw` `Runtime`: discovery, with the registry of `av_service` | records with leases, interests, offers, posted tasks, `last_find` | `find`, `cancel_find`, `offer`, `stop_offer`, and `poll` for them | the multicast group; handlers of `Proxy` and `Skeleton` | `Discovery` |
| `av_mw` `Runtime`: reboots | session id and reboot flag; last session id per sender | `send_sd`, `note_reboot` | as above | `Reboot` |
| `av_mw` `Runtime`: loop, `av_ipc` `Poller` | watches, epoll set, ticks, posted tasks | `watch`, `unwatch`, `post`, `dispatch`, `wait` | the kernel, every handler | `Loop` |
| `av_mw` `Proxy` | pending calls, session counter, availability, event group, handlers | `call`, `subscribe`, `on_availability`, destruction, the runtime's callbacks | `Runtime`, a server, the application | `Proxy` |
| `av_mw` `Skeleton`, `vehicle`, `svc_server`, `svc_client` | method handlers, the offer, statistics | `on_method`, `offer`, `stop_offer`, `notify`, requests | each other by UDP | `Services` |
| `av_service` and tunnel formats | none | serialise, parse | everything on the wire | `Codecs` |
| `av_ipc` `SharedRing`, `SharedMapping` | head, tail and slots in shared memory, a name | `create`, `open`, `try_push`, `try_pop`, unmapping | two processes | `SharedRing` |
| `av_ipc` `UnixSocket`, `ipc_bench` | descriptors, names in the file system | `listen`, `connect`, `accept`, send, receive | a parent and its child | `EchoBench` |
| `av_can` arbitration, error state, `can_bus` | bit position and contenders; TEC, REC, bus-off | `arbitrate`, `on`, `reset` | nodes of a bus | `Arbitration`, `ErrorState`, `CanBus` |
| `av_can` bits, signals, frames | a payload | `extract_bits`, `insert_bits`, `encode`, `decode`, lengths | every program with signals | `Signals` |
| `av_can` DBC | messages, signals, remarks | `parse` | the same | `Dbc` |
| `av_can` `CanSocket`, `sim_vehicle`, `can_rx` | filters, the kernel's queue, staleness | send, receive, the two loops | one CAN interface | `CanLink` |
| `av_can` tunnel, `av_eth` `UdpSocket`, `eth_gw`, `eth_sub` | sequence numbers, batch, the datagram held back | `publish`, `observe`, the two programs | multicast | `Tunnel`, `Gateway` |
| `cockpit` | two queues, counters | three threads and a shutdown | `BoundedQueue` | `Cockpit` |
| `av_qt`, `qt_loop` | event queue, worker, monitor | buttons, signals, `cancel`, destruction | Qt | `QtLoop` |
| `cplus_review` phase 5 | queues, pools, promises, ring, litmus tests | all of theirs | threads | `WorkQueue`, `SemaphoreQueue`, `Future`, `MemoryOrder` |
| `cplus_review` smart pointers | two counts in a control block | copy, drop, observe, `lock` | threads | `SharedPtr` |
| `bptree-from-scratch` | pages | insert, remove, split, merge, look up | - | `BTreePages` |
| `spine`, `av_log`, the other exercises, `hello-typescript`, `leetcode` | - | - | - | see [Not modelled](#not-modelled) |

What is hard, and what makes each part correct:

- **Bounded queue.** Notifications are sent after the unlock, wake-ups may be
  spurious. Correct means: FIFO, nothing lost or duplicated, no wake-up lost, and
  `close()` lets everybody go after what was queued has been consumed.
- **Discovery and reboots.** Processes that start, stop, crash and restart in any
  order, an unreliable multicast, leases. Correct means: what clients are told is
  what their registry says, a dead service is noticed, a live one found and kept,
  and nobody is said to have restarted who has not.
- **Proxy, Skeleton, Loop.** One thread, but every handler is application code
  that may call back into the object or destroy it, inside loops over its own
  tables. Correct means: exactly one completion per call, never from inside
  `call()`, no retries, silence after destruction, an answer to every request, no
  handler for a descriptor that was closed, no socket that starves.
- **Shared ring, ipc_bench.** Two processes, weak memory, creation racing with
  opening, creators that die and leave names behind.
- **Tunnel and gateway.** Datagrams lost, duplicated and reordered, numbers that
  wrap, a gateway that restarts at 0, batches with a limit.
- **CAN.** Mixed frame formats in one race; a node's way to bus-off and back;
  signals that cross bytes and signs; a database of which one line is wrong; a
  receiver that has to tell silence from traffic it does not want.
- **Cockpit, Qt window, concurrency exercises.** A shutdown order that loses no
  work, wake-ups, work that is cancelled before it has begun, answers given
  once.
- **Smart pointers, memory orders, B+ tree pages.** A dead object that is raised,
  stores that overtake each other, separators that hide keys.

The `hazards` of `PROJECT.json` list these at their lines, with the properties
that would catch them going wrong.

## Modules

### The middleware

`BoundedQueue.tla` is `av::conc::BoundedQueue` at the grain of its mutex: a
step of a thread is what it does while holding the lock, or one notification.
`Push`, `TryPush`, `Pop`, `TryPop` and `Close` are preceded by the call itself
(`CallPush`, ...) and followed by `NotifyOne` or `NotifyAll`, because the code
unlocks before it notifies. A thread on a condition variable is a member of a
waiting set; it is woken by a notification or by `SpuriousWake`, and then looks
at its predicate again. `slots`, `head`, `tail` and `count` are the ring itself.
`QueueContract.tla` is what a caller may rely on, an atomic FIFO of bounded
length that can be closed; `BoundedQueue` implements it under the mapping of the
ring to a sequence (`Content`). What an operation returned is in `ret`, which is
"Pending" from its call to its end. `Cockpit` uses the queue as the contract says.

`Discovery.tla` is service discovery for one service instance: servers (`Offer`,
`StopOffer`, `ServerPoll`, `AnswerFind`), clients (`Find`, `CancelFind`,
`ClientPoll`, `ReadSd`), the multicast group as a set of datagrams, and ticks.
`poll()` reads the datagrams that are ready, one `ReadSd` or `AnswerFind` each,
and then does what the clock asks for in the order of `runtime.cpp:383-400`:
leases, finds, offers, posted tasks; nothing another process sees lies between
these, so they are one action. `known` and `lease` are the client's record, `told`
is what the interest's handler heard last. With `Prompt = FALSE` a datagram may be
lost, duplicated, delayed and reordered at will, and sending may fail. With
`Prompt = TRUE` what is sent arrives before the next tick and every process polls
in every tick; at most `MaxLosses` offers in a row are lost. Only then can one
speak about times.

`Reboot.tla` is the part of discovery messages that `Discovery` leaves out:
session ids, the reboot flag, restarts, and what `note_reboot()` makes of them.
`SenderKey` is the host of a sender (`Host`), since every runtime of a host sends
from the discovery port; `NoFalseReboot` therefore excepts hosts with two servers,
and says that their clients, whose finds have the same key, do not matter.

`Loop.tla` is `Runtime::poll()` around the descriptors: the two tables of
watches, the epoll set, `dispatch()` over the descriptors it collected, ticks and
posted tasks. Handlers are steps that may watch, unwatch, close, open a socket
that gets the number of a closed one, cancel ticks and post.

`Proxy.tla` is `av::mw::Proxy` inside `poll()`; `where` says which part of it the
thread is in. While `inside` is TRUE the thread runs a handler of the
application, which may do anything: `Call`, `Subscribe`, `OnAvailability`,
`Close`. The loops over the sessions to fail are `batch`, taken one session at a
time, so that a handler runs between any two rounds. Requests and replies are
sets of datagrams: a reply may come late, twice, out of order or never. The
registry is reduced to what the proxy asks of it, where the methods and where the
events of the service are: `known` is the offer it knows, in which either may be
missing (`MethodEndpoint`, `EventEndpoint`). Offers, StopOffers and the end of a lease
come whenever they like, which covers all that `Discovery` allows. `FollowEvents` is
`follow_events()`: an offer without an event group changes nothing, the group it is
in is left before another is joined, and joining may fail for some (`MayFail`).
`CallContract.tla` is the promise of `proxy.hpp`: a call is open until its
handler runs, once, in a step of its own; destruction cancels what is open.

`Services.tla` has `svc_server` and `svc_client` at the two ends of `Skeleton` and
of the typed stub and proxy of `vehicle`: set-up, requests of the client and of
strangers, handlers that withdraw or close the skeleton they are called by,
answers that do not decode, limits and signals.

`Codecs.tla` has the three wire formats as operators over sequences of bytes of a
smaller base (`Base` for 256, a nibble is its root): sizes, limits and flags are
those of the code. `parse_options()` is a loop whose rounds are `NextOption`, and what
may be sent is within the types of its fields (`Packet`, `Call`, `Announcement`). Its
state is one value on its way through an encoder, through damage on the wire (cut,
extended, or of a newer standard), and through the decoder.

### Shared memory and processes

`SharedRing.tla` is `av::ipc::SharedRing` with the life of its region: one name,
two processes, of which either may be the creator. `create()` is `ShmCreate`,
`Truncate`, `WriteHeader` (or `CreateFails`), because the name is visible from
the first of them on; `open()` is `ShmOpen` and `Attach`. `try_push()` is
`TryPush`, two `CopyIn` and `PublishTail`; `try_pop()` is `TryPop`, `CopyOut` and
`PublishHead`. `Crash` ends a process anywhere. `Loads` is what an acquire load
may return: any value from the last one loaded to the present one. The header is
written with plain stores while others may already open the region: `unseen`
holds the stores that are not visible yet, and `StoresInOrder` says whether they
appear in program order, as on x86. `RingContract.tla` is the promise: each region
is a FIFO channel of bounded length. Messages are numbered by push, so that a
lost, doubled, reordered or torn one differs from its number.

`EchoBench.tla` is `ipc_bench`: parent and child, first over a `UnixSocket`, then
over two rings (one step per operation), with every call that may fail, and the
names left by an earlier run.

### CAN

`Arbitration.tla` sends the arbitration fields bit by bit on the wired-AND,
`ErrorState.tla` has the two error counters, and `CanBus.tla` composes them at
their real widths into the rounds and the fault demonstration of `can_bus`.
`Signals.tla` packs raw values into bits numbered as in a DBC file, with rounding,
ranges and signs, and maps lengths to DLC codes. `Dbc.tla` reads a file line by
line; a line is a record of what its words say. `CanLink.tla` has `sim_vehicle`
and `can_rx` on one bus with the kernel's filters and queue between them.
`Tunnel.tla` is the numbering between `eth_gw` and `eth_sub`: `Publish` with the
datagram it may hold back, `Restart`, `Handle` with `SequenceTracker::observe()`
(`Observe`, `Order`, `Delta`). `Gateway.tla` is the two programs with that
numbering instantiated (`Tunnel` with numbers far from their wrap), the set-up of
their sockets, the batches of frames and the cycle limit.

### Threads

`Cockpit.tla` composes three threads, two queues and the shutdown of `cockpit`.
`QtLoop.tla` is the window of `qt_loop`: the event queue, the chunks of a timer, the
worker thread with its queued signals, the loop monitor, and the destructor.
`WorkQueue.tla` is `BlockingQueue` and both thread pools, which differ in what
`user` is; `SemaphoreQueue.tla` the bounded queue of two semaphores and a mutex,
`Future.tla` promise and future, `MemoryOrder.tla` the litmus tests and
`SpscRing` over the store buffers of x86-64 (what only weaker memories reorder is left
out). `SharedPtr.tla` has one step per
atomic operation of the control block.

### B+ tree

`BTreePages.tla` has every operation of the pages and the descent to a leaf. The
tree's own insertion and deletion are not written in the sources; `Insert`,
`Split`, `Remove` and `Merge` use the pages as the comments of their operations
say they are to be used, and are marked external where there is no code for them.

## Runs

| run | instance | shows |
|---|---|---|
| `queue_safety` | 2 producers, 2 consumers, 1 closer, capacity 2, 2 values; threads of a kind symmetric | `NothingForgotten`, `ImplementsContract` |
| `discovery_lossy` | 1 client, 2 servers of which one may crash, lease of 2 ticks, unreliable network, fair | `ToldAgrees`, `GoneIsNoticed`, `OfferIsHeard`, `EndpointSettles` |
| `proxy_calls` | 3 calls, 2 may wait, 2 session ids, service known beforehand or not, joining a group may fail | `HeldOnce`, `GoneFailsAtOnce`, `ImplementsContract`, `TimeoutIsDue` |
| `proxy_availability` | 2 calls, 1 may wait, offers with either of 2 groups, none, or no endpoint; discovered or fixed, known beforehand or not, joining may fail; fair | `FollowsService`, `MembershipIsKept`, `EveryCallEnds` |
| `parts_safety` | `MCParts`, below | seventeen safety properties of fourteen parts |
| `parts_progress` | `MCProgress`, below, fair | ten properties of ten parts, liveness among them |
| `discovery_latejoin` | 1 client, 1 server, `find()` of a known service | `ToldAgrees` is violated |
| `discovery_twolosses` | 1 client, 1 server, lease of three intervals, two losses in a row | `LiveServerKept` is violated |
| `arbitration_lowest` | `MCFormats`, with the instance of `parts_safety` | `LowestFrameWins` is violated |
| `cockpit_accounting` | 6 frames, two slots in each queue | `AccountingBalances` is violated |
| `qt_cancel` | as in `parts_progress` | `CancelIsHeard` is violated |
| `dbc_cut` | `MCFormats`, with the instance of `parts_safety` | `CutCommentsAreSkipped` is violated |

`Parts`, `Progress` and `Formats` each hold one instance of many modules, for any
values of the constants, which the configurations give. `Formats` has those that are
about data (`Arbitration`, `Signals`, `Dbc`, `Codecs`), whose first states are the
inputs; `MCFormats` gives its sets of inputs values and adds the tree, and `MCParts`
adds `MCFormats` to `Parts`. The parts do not interact: the first state chooses one, only its
variables (in `Slots.tla`) change, and a property of a part says something of its
behaviours only. So each is a union of state spaces and not their product, and what
is found is found of each part by itself. The parts that do interact are composed in
modules of their own: `CanBus` (arbitration with error confinement), `Gateway` (the
numbering with the programs around it), `Cockpit` (threads and queues), `Services`
(client and server), `Proxy` (proxy and registry).

The instances of `parts_safety`:

| part | bounds | property |
|---|---|---|
| `numbering` (`Tunnel`) | 10 numbers, 14 publications, every third held back, up to 3 under way, 1 lost in a row, 1 restart | `NeverBackwards`, `NewerIsShown`, `Accounting` |
| `bus` (`Arbitration`) | base of 2 bits and 1 more; every bus of up to 3 nodes and every frame on each | `PriorityIsKept` |
| `errors` (`ErrorState`) | the real limits: 127, 256, 128 windows | `Confinement` |
| `layout` (`Signals`) | 2 bytes of 3 bits, signals of up to 4 bits in every place and both orders (4 is refused), factors 0, 1, -2, 3, ten values with one that is not finite | `PacksFaithfully` |
| `database` (`Dbc`) | files of up to 4 lines of 16 different ones | `FileIsTheDatabase` |
| `link` (`CanLink`) | 1 message per format, four foreign frames, stale after 2 ticks, limit of 2 frames, queue of 2 | `StaleAgrees` |
| `wire` (`Codecs`) | base 64; batches, calls and announcements on both sides of every limit, two entries with options of their own among them | `FormatsAgree` |
| `sessions` (`Reboot`) | 3 senders, two of them on one host, 2 session ids of which those of one sender may come round, 1 restart | `NoFalseReboot` |
| `forwarding` (`Gateway`) | batches of 2 out of 4 frames, every second held back, 3 cycles | `NoFrameVanishes` |
| `vehicle` (`Services`) | 2 requests read, two at most waiting, a handler that does nothing, withdraws or closes | `PromisesAreKept` |
| `pointers` (`SharedPtr`) | 2 threads, 2 handles of a kind each | `PointersAreSound` |
| `memory` (`MemoryOrder`) | 2 rounds, 4 items through 2 slots | `OrderIsKept` |
| `tree` (`BTreePages`) | 4 keys, leaves of 2, internal pages of 4, 8 pages | `EveryKeyIsFound` |
| `leases` (`Discovery`) | 2 clients, 1 server that may crash, interval 1, lease 3, at most one offer in a row lost | `DeadWithinLease`, `LiveServerKept` |

and of `parts_progress`:

| part | bounds | property |
|---|---|---|
| `ring` (`SharedRing`) | 2 regions, 3 messages in each, capacity 2, stores in order, crashes | `NoRace`, `NameLeadsToRing`, `ImplementsContract`, `Delivers` |
| `bus` (`CanBus`) | none: the program as it is | `ProgramsGoOn` |
| `pipeline` (`Cockpit`) | 6 frames, queues of 2 | `NothingIsLost`, `ThreadsEnd` |
| `window` (`QtLoop`) | works of 3 chunks or 4 steps, a freeze of 3 ticks, 3 clicks | `OneWorkAtATime`, `ThreadsEnd` |
| `pool` (`WorkQueue`) | 2 workers, 3 jobs of which one submits another | `NothingIsLost`, `ThreadsEnd` |
| `permits` (`SemaphoreQueue`) | 2 producers, 3 consumers, capacity 2, 4 items | `NothingIsLost`, `ThreadsEnd` |
| `promise` (`Future`) | 2 setters, a reader | `NothingIsLost`, `ThreadsEnd` |
| `queue` (`BoundedQueue`) | 2 producers, 2 consumers, 1 closer, capacity 1, 1 value | `ThreadsEnd`, `WakeupsArrive` |
| `runtime` (`Loop`) | 3 sockets, 1 event per wait, a task that posts itself again | `TablesAgree`, `ProgramsGoOn` |
| `bench` (`EchoBench`) | 3 round trips in each transport, names left over or not | `TablesAgree`, `ProgramsGoOn` |

Why the bounds are enough. In the queue two threads of a kind are what a lost
wake-up needs: one asleep and one that takes what the notification was for; a
capacity of 2 with two values makes the ring wrap. Two servers are what a
takeover needs, and clients do not influence each other. In the proxy two waiting
calls make `fail_all()` go on after a handler ran, a third one is the call that
handler makes, and two session ids for three calls come round: the third call meets
an id that still waits, or one that was answered. In `proxy_availability` both calls
have the same id one after the other. The two groups are one that can be joined and
one that cannot, so that a move of the events may leave a subscriber in none. Three
senders are two that share a key and one that does not. In the
ring a capacity of two and three messages use a slot twice, two words are what a
torn message needs, and two regions are an old one somebody still uses and a new
one of the same name. Fourteen datagrams with ten numbers cross
the wrap; a restart after seven of them lets the old number be less or more than
half of the range ahead and leaves seven of the new run, which is one more than may
be refused. Three
nodes are what the race needs for a node that lost early to matter to the others.
In `link` a limit of two frames is the least with which a receiver lives on after
a sign of life. One event per wait with three sockets is `kMaxEventsPerWait` with more
sockets than that. Sizes of bytes, bases and identifiers are scaled so that every
comparison of the code has values on both sides of it.

A poll reads at most `SdBurst` discovery datagrams and events, which keeps a poll
finite: reading any number is reading one in each of several polls. Symmetry is
used for safety properties only, and only over threads, calls and endpoints that
no definition names.

Deadlock is checked except where the programs really stop: in both unions
(programs return, files end, a name left by a killed creator stops the ring), in
the queue (a thread that is done makes no further step), in `cockpit_accounting`,
`qt_cancel`, `arbitration_lowest` and `dbc_cut`.

Fairness. A thread or process that can run runs in the end (the operating
system's scheduler); nobody is obliged to call anything. In `Discovery` every
process keeps polling, as the applications' loops do, the clock advances, no
datagram is under way for ever, and of infinitely many offers the network does
not lose every one, without which no protocol could promise anything. In `Proxy`
the application keeps polling, its handlers return and time passes; nothing is
assumed of the server or the network, so that `EveryCallEnds` rests on the timeout
alone. In `SharedRing` both sides try again and again, as the loops of `ipc_bench`
and of the tests do, an operation that was begun goes on unless the process dies,
and a store becomes visible in the end; nobody is obliged to create, open or
stay. In `Loop` the application polls again and no handler blocks. In `Cockpit`,
`QtLoop`, `WorkQueue`, `Future` and `EchoBench` each thread or process takes its
steps; in `CanBus` and `SemaphoreQueue` something happens as long as something
can. `Fairly` in `Progress` states this for each part while it is the part that
was chosen.

## Findings

1. `discovery_latejoin`: `Runtime::find()` of a known service posts a task that
   tells the handler `true` (`runtime.cpp:452-458`) and does not look at the
   registry again. If the lease ends or a StopOffer is read in the poll that
   runs it, the handler hears `false` and then `true`, and stays with a wrong
   belief until the service comes and goes once more.
2. `discovery_twolosses`: `runtime.hpp:65` says that a lease of three intervals
   survives two lost offers. It survives one: the third offer leaves no earlier
   than the lease ends.
3. `arbitration_lowest`: `arbitrate()` stops at the shortest field of all
   contenders, those that have withdrawn included (`arbitration.cpp:99`). A
   standard frame that lost keeps two extended ones from being compared beyond its
   own length, and both are granted the bus.
4. `cockpit_accounting`: `run_decode()` counts a state as overwritten although the
   ui emptied the queue in between (`cockpit/main.cpp:141`); the check at `:209`
   then fails and the program returns 1 although nothing was lost.
   `NothingIsLost` shows that nothing is.
5. `qt_cancel`: `run()` clears the flag that `cancel()` may just have set
   (`worker.cpp:19`), and the destructor then waits for the whole work.
6. `dbc_cut`: `dbc.cpp:178-179` says that a comment whose closing quote is on a later
   line is skipped. Its first line is attached, because `std::getline()` fails only
   if nothing is left of the line (`dbc.cpp:52`). `FileIsTheDatabase` takes no side:
   a comment is the last whole one given to its message, or a cut one after that.

## Disagreements without a run

Met while modelling, each from reading the lines it names:

- `proxy.cpp:187` says a session id that is still in use can only be met with
  65535 calls outstanding. One call that has waited while the counter went round
  is enough.
- `SharedRing::create()` writes the header with plain stores while `open()` reads
  it with plain loads (`shared_ring.hpp:109-112`, `:123`). With `StoresInOrder =
  FALSE`, as on a machine that does not keep the order of stores, a producer that
  opens the ring in between has its first push undone by the late zero.
- `can_rx/main.cpp:139` calls a frame of no entry "reachable only if the filters
  were widened by hand". The filter of a standard message does not compare the
  format (`CanLink!Passes`), and frames that arrive between `bind` and
  `set_filters` are not filtered at all (`CanLink!FiltersHold` does not hold).
- `send_sd()` never clears the reboot flag when its session ids come round
  (`runtime.cpp:321-328`), although `sd.hpp:148` describes it as cleared then:
  `NoFalseReboot` is for runs before the first wrap.
- `runtime.cpp:216` says that the sessions are kept per sender. `sender_key()` is the
  address and port a message came from (`runtime.cpp:47`), and every runtime of a
  host sends from the discovery port: two servers on one host share a key, and
  their session ids are taken for restarts (`Reboot!OneServerPerHost` is the
  hypothesis of `NoFalseReboot`).
- `proxy.hpp:101-102` says that `subscribe()` joins the event group as soon as the
  service is available. A renewal of the offer that brings the group, or moves it, is no
  news (`sd.cpp:383-385`), so the group is joined at the next `subscribe()` or the next
  time the service comes. The same holds for an offer that comes after the unfounded
  announcement of finding 1.
- `follow_events()` does not look at what `watch()` returns (`proxy.cpp:378`).

## Proofs

`BoundedQueue_proofs.tla` proves, for every capacity and all sets of threads and
values, that `TypeInvariant`, `NoConsumerForgotten`, `NoProducerForgotten` and
`NoSleepAfterClose` are invariants of `BoundedQueue!Spec` (together they are
`NothingForgotten`), from the assumptions on the constants stated in
`BoundedQueue.tla`. The argument is one inductive invariant, `WakeUps`: the four
together with `ClosersHaveClosed` (a thread on its way to `notify_all` finds the
queue closed). The wake-up properties are not inductive one by one: whether a step
of a consumer leaves a producer asleep next to a free slot depends on the
notification that step owes, which both count. Each counts what is still to be
told (items or free slots on one side; pending notifications, and threads woken
or on their way to the lock, on the other), and the proof shows for each action
that the two sides change together.

`SharedRing_proofs.tla` proves for every capacity, and any number of regions and
messages, that `TypeInvariant`, `NoRace` and `NameLeadsToRing` are invariants and
that `SharedRing` implements `RingContract`, provided the header's stores appear
in order (`StoresInOrder`). The inductive invariant `RingInvariant` has four parts
beside the types: `Stages` (who is where, in which region), `HeaderFirst` (a
counter is zero until its zero has arrived), `Counters` (head, tail and what was
loaded of them) and `Contents` (each slot between head and tail holds the message
of that number). Only `Contents` needs arithmetic: two counters less than a
capacity apart have different slots (`SlotsDiffer`).

`Can_proofs.tla` has the CAN side. Of the tunnel it proves for every range, every number of restarts and
publications, and whatever the network does within `WindowAssumption`, that a
subscriber that is not `--naive` never shows an older reading than before
(`NeverBackwards`). The invariant says that everything under way is of the
present run and not too old (`Numbered`), and that the number the tracker
remembers is that of the reading shown if it is of this run (`Displayed`); the
arithmetic is in `BehindIsOld`. For a gateway that has not started over it also
proves the totals (`Accounting`): the invariant `Counted` says that the tracker
heard exactly the datagram after the last one shown, and that the newest is at most
`MaxLost + 1` ahead, so that a newer datagram's signed distance is its true one
(`AheadIsMeasured`) and the gap counted is the number of datagrams missing.

Of arbitration it proves `PriorityIsKept` for all widths of the two identifiers and any
number of contenders, whatever their formats (`PriorityHolds`, from
`BusAssumption`). The invariant `ContestInvariant` says that whoever still
transmits has driven the same bits (`Alike`) and that whoever withdrew has the lower
priority, as a number (`Lower`). What remains is arithmetic: the fields of two frames
agree up to a bit and differ there exactly if their numbers are ordered that way
(`Outranks`). Two facts about `2 ^ n` carry it, `Powers` and `PowersMultiply`; since the
provers only know powers as numbers of subsets, they are proved by counting these.

Of the DBC parser it proves `FileIsTheDatabase` for all files and all widths of
identifiers (`FileHolds`, from `LinesAssumption`: the numbers of a file are natural and
no text is the absence of one). The invariant `DatabaseInvariant` says that what was
loaded so far is what the lines so far declare, the n-th message that of the n-th `BO_`
line (`Gapless`: every number up to the size of a set of lines is that of one of them)
with one signal for each `SG_` line below; and, what `RemarksAttach` alone would not
give, that of messages with one name only the first has a comment (`FirstOnly`).

Of signals it proves `PacksFaithfully` for all frame sizes, signals, factors and values
(`PackingHolds`, from `LayoutAssumption`: signals are of the type `SignalSpec`, values
are integers or not finite). The walk over the bits is a recursive function; that it
visits every bit once follows from a number that goes up by one with every step
(`Key`: the bit's number, or for Motorola its place when each byte is read downwards).
What `extract_bits()` has collected after `n` bits is the lowest or highest part of
the value (`ReadBack`). Both are inductions, which the provers take as the minimum of a
set of counterexamples (`AllNumbers`), and that the recursions have a solution is
`Loops`. The rest is `std::round()` (`RoundIsNearest`) and the sign (`SignSurvives`).

Of the three wire formats it proves `FormatsAgree` (`DatagramsHold`) for all packets,
calls and announcements, from `WireAssumption`: a byte has `Base` values, a nibble is
its root, the limits fit into what they are written to, and what is sent is within the
types of its fields and short enough for a length of four bytes. The invariant
`WireInvariant` says that the bytes under way are those encoded but for one damage;
all that is left is what a decoder makes of them.

- A datagram is described by what lies where in it (`Lies`: these bytes are at this
  offset). Parts put one after another lie one after another (`PartsLie`), and rows
  of one width lie at multiples of it (`TableLies`), which a sum over the elements of
  `FlattenSeq` gives (`FlattenOfSome`).
- A number written with `Put` is what `At` reads where it lies (`AtReads`), and flags
  and counters in one byte are told apart by division (`FlagsAreRead`, `CountIsRead`).
- So each piece is read as it was written: a record of the tunnel (`RecordIsRead`), a
  SOME/IP header (`MessageIsRead`), an option (`OptionIsRead`), an entry with the run
  of options its index and count name (`EntryIsRead`, `OptionsLie`). The rounds of
  `parse_options()` are an induction (`Rounds`): after `k` of them the first `k` options
  are read and the next one is at `12 * k`.
- A datagram that was cut or grew has a length that its own fields deny
  (`NoOtherLength`, `NoOtherSize`).
- A changed byte leaves what lies elsewhere (`LiesStill`). An entry of a newer standard
  is skipped with its options left in place, so that the indices of the others hold
  (`NewerEntry`); an option of a newer standard leaves a placeholder, and the entry it
  belongs to is the first that has options (`NewerOption`, `OthersKeepTheirs`).

The invariant of `FormatsAreSound` joins the four: `ContestInvariant`,
`DatabaseInvariant`, `SignalsInvariant` (the payload is what the last `encode()`
made of the one before), and `WireInvariant`.

`Discovery_proofs.tla` proves for all sets of clients and servers, all intervals
and leases (`TimesAssumption`), and whatever the network does, the types and, if
no `find()` comes late, that handlers were told what the registry says
(`ToldAgrees`; its invariant `Heard` adds that then nothing is ever posted). With
a prompt network it proves that the dead are forgotten within a lease
(`DeadWithinLease`). That needs two more facts: a record outlives its server by at
most what was left of the lease, and whoever holds a lease that has run out has
not polled since (`Outlived`); and an offer is read in the tick in which it was
sent (`OffersAreFresh`), so that a late offer starts no new lease for a dead server.
And it proves that a live server is kept (`LeaseHolds`) if the lease is longer than
`MaxLosses + 1` intervals, the bound that finding 2 just misses: what a record has
lost of its lease is made up for by the time since the server began, or by the
offers missed and under way since (`LeasesAreRenewed`).

`Cockpit_proofs.tla` proves for any number of frames and all sizes of the two
queues (`QueueSizes`: neither is without a slot) that the shutdown throws nothing
away (`NoWorkThrownAway`, a part of `NothingIsLost`). Its invariant has the
bookkeeping of both queues (`Books`: every frame and every state is in one place),
what a closed queue says of the threads before it (`Ends`: nobody pushes into a
closed queue), and that the room the decoder made is still there when it pushes
again (`Room`, since nobody else pushes).

`Proxy_proofs.tla` proves for all sets of calls, endpoints, session ids and limits,
and whatever servers, network and handlers do, that each call's handler is in
exactly one place and is called once (`HeldOnce`), that the proxy implements
`CallContract`, that a call whose service goes is failed in the same poll
(`GoneFailsAtOnce`), that no call is told Timeout before its own deadline
(`TimeoutIsDue`), that the proxy believes of the service what it was announced
(`FollowsService`), and that a subscriber is in the group it should be in
(`MembershipIsKept`). The last two hold for services known beforehand, offers with and
without a group, and groups that cannot be joined: what is offered is believed or
about to be announced, a belief without an offer comes from the late
announcement of finding 1 only, and a group is lost only with the proxy, the service, or
a move of the events. The invariant is a conjunction of
ideas with a name each: an open call's handler is in the table, in a task or in the
hands of a sweep and nowhere else (`OnePlace`), a failure is posted once
(`PostedOnce`), what a sweep of the table has passed leaves nothing behind
(`NothingLeft`), a datagram carries the session id of the call it was sent for
(`Addressed`), and what `check_timeouts()` has collected stays overdue while the
handlers before it run (`Doomed`).

In `BoundedQueue_proofs.tla`, `RingIsFifo` is the refinement of `QueueContract`: the
tail stands `count` slots after the head (`RingInOrder`), so what the slots hold from
the head on is the contract's sequence, a push appends to it and a pop takes its
first. `Can_proofs.tla` also has `NewsAreDisplayed`: a datagram that is newer than
what is shown is shown, restarts included. It needs `MaxLate + MaxLost` less than half
of the range; half would not do if the first datagrams of the new run are lost.

`Progress_proofs.tla` proves the safety properties of `parts_progress` for all values
of the constants at once (`NoQueueLoses`, `TheWindowIsBusyOnce`, `TheTablesAgree`).
Each part has an inductive invariant of its own:

- `Future`: the answer names the one setter that got through, and a reader woken
  finds it.
- `SemaphoreQueue`: the permits, the queue and the threads between two of its steps
  add up to the capacity. The sums are cardinalities over the threads; a step moves
  one thread from one set to another, which changes two counts by one.
- `WorkQueue`: a job is queued exactly if it is in the queue, it runs exactly if a
  worker is at it, and a worker leaves only an empty queue that is stopped.
- `QtLoop`: while the buttons are off exactly one thing is under way that will turn
  them on again (a chunk, a step or a signal still to be delivered).
- `Loop`: table and index agree, and ids not yet given are in neither.
- `EchoBench`: what is sent and not yet received, and who owns which name.
- `Cockpit`: cites `Cockpit_proofs.tla`.

None of these needs the fairness of `ProgressSpec`.

`Parts_proofs.tla` proves the safety properties of the acting parts of
`parts_safety`, again for all values of the constants at once: each has an inductive
invariant over its slots, `PartsAreSound` says that all of them hold, and a theorem
per property follows. The assumptions are those at the head of `Parts`.

- `ErrorState`, for all limits and penalties: the transmit counter stands at its
  limit exactly off the bus, and windows are counted only there (`LatchedAtLimit`).
- `CanLink`, for every threshold: stale is said only of a longer silence, and a receiver
  that has not said so and goes to sleep has looked at most one tick ago.
- `Reboot`, for any number of senders, hosts and restarts, while no session id has
  come round and no host has had two servers: the reboots counted, those that the messages under way can still add and the
  senders that came back unseen are together no more than the restarts (`Paid`).
- `Gateway`, for all command lines, batch sizes and failing calls: all data frames are
  in the places named (`Accounted`), what was collected earlier has smaller
  numbers and is in a datagram with a smaller one (`FramesInOrder`), and what is shown
  comes before what still will be (`ShownFirst`). No gateway uses more than half of
  its sequence numbers here (`ForwardingAssumption`): the wrap is the matter of
  `Can_proofs`.
- `Services`, for all requests and handlers: an offer stands only between the last
  `on_method` and the withdrawal (`OfferStands`), and as many answers as requests that
  want one were sent (`Answered`).
- `SharedPtr`, for any number of threads and handles: the two counts are the numbers of
  references that exist, those in the hands of a step included, and of the threads
  that saw a count fall to zero exactly one deletes (`OneDeletes`, `OneFrees`).
- `MemoryOrder` on the store buffers of x86, for any number of rounds, items and slots:
  in the litmus of `seq_cst` both threads cannot have missed the other's store, a
  payload leaves the buffer before its flag, and in the ring the stores of an element
  and of the tail leave in order (`StoresInOrder`), so that memory never says more
  than has happened (`Bounds`, `Elements`).
- `Discovery`: cites `Discovery_proofs.tla`; `LiveServerKept` under its hypothesis.

Model-checked only, and why:

- All liveness (`Delivers`, `ThreadsEnd`, `ProgramsGoOn`, `WakeupsArrive`,
  `EveryCallEnds`, and those of discovery): it rests on fairness and
  ENABLED, which the proof system does not treat.
- `EveryKeyIsFound`: it needs an invariant of whole trees (the range of keys and the
  height of every page), for an insertion and deletion that are not in the sources
  but made up of the operations of the pages.

## Not modelled

- `spine` is one thread that encodes, decodes and prints in a row; what it shows
  is in `Signals` and `Dbc`.
- `av_log` writes one line at a time under a level.
- The containers, values, templates, pools, kernels and processes of
  `cplus_review`, `hello-typescript` and `leetcode` are sequential exercises, each
  within the reach of its unit tests.
- `av_mw` `vehicle` and `result`: the layout of the arguments and the wording of
  failures. `UdpSocket`: addresses as text, connecting, and errors that differ in
  wording only. `bptree-from-scratch`: the buffer pool and the tree's own
  insertion and deletion, which are empty files.
- Everywhere: logging, latencies, payload bytes beyond what a property looks at,
  layout and everything printed.
- Known gaps, checked by no property: a creator of a ring that is killed leaves its name
  behind (`shared_ring.cpp:43`), and a peer of the old region pushes to nobody
  (`:130`); more than half of the range lost in a row, or a datagram of before a
  restart, is taken for new (`tunnel.cpp:188`); a datagram that `eth_gw` holds back
  at its cycle limit is never sent; a promise that is destroyed without an answer
  leaves `get()` waiting; a child of `ipc_bench` that fails before it connects
  leaves its parent in `accept` (`BenchEnds` excepts these three cases);
  `can_rx` looks at its limit and at the signal only after `drain()`.
