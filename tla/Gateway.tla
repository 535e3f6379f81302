------------------------------ MODULE Gateway ------------------------------
(***************************************************************************)
(* eth_gw and eth_sub on one host, from the CAN bus to the display: the    *)
(* set-up of the two UDP sockets, frames collected into batches, batches   *)
(* held back or sent, and what the subscriber shows of them.  The numbers  *)
(* are those of Tunnel, here far from their wrap; the multicast between    *)
(* two sockets of one host keeps its order, so only what the programs do   *)
(* themselves is out of order.                                             *)
(*                                                                         *)
(* A data frame is the number of its transmission, an error frame is 0.    *)
(***************************************************************************)
EXTENDS Integers, Sequences

CONSTANTS
    Interfaces,     \* addresses of the host's interfaces
    NoInterface,    \* an address that is none
    Routed,         \* the interface multicast leaves by unless told otherwise
    BatchSize,      \* kMaxFramesPerDatagram
    ReorderEvery,   \* --reorder
    SequenceNumbers,\* how many there are (2^32)
    Cycles,         \* --cycles
    BusFrames,      \* bounds the runs: data frames on the bus
    SocketLimit     \* datagrams the kernel holds for the subscriber

VARIABLES
    options,        \* of both command lines
    gateway,        \* set-up calls made, phase and cycle of eth_gw, its socket
    subscriber,     \* set-up calls made and phase of eth_sub, its socket
    bus,            \* frames at the gateway's CAN socket
    transmitted,    \* data frames transmitted or generated
    frames,         \* the batch being collected
    sequence, held, \* Publisher
    queue,          \* datagrams at the subscriber's socket
    tracker,        \* SequenceTracker
    shown,          \* the frames displayed, in that order
    gone            \* frames of datagrams that were lost or dropped as stale

\* Far from the wrap: a gateway at ten cycles a second sends half of the numbers
\* in almost seven years. What comes with the wrap is in Tunnel.
GatewayAssumption ==
    /\ ReorderEvery \in Nat /\ Cycles \in Nat
    /\ SequenceNumbers \in Nat /\ 2 * Cycles <= SequenceNumbers

publisher == <<sequence, held>>
receiver == <<tracker, shown>>
gatewayVars == <<options, gateway, subscriber, bus, transmitted, frames, publisher, queue,
                 receiver, gone>>

Ext == INSTANCE SequencesExt

NothingHeld == [sequence |-> -1, frames |-> <<>>]    \* nothing is held back

Numbered == INSTANCE Tunnel WITH
    Modulus <- SequenceNumbers, Reorder <- ReorderEvery, Naive <- FALSE, MaxLate <- 2, MaxLost <- 0,
    MaxRestarts <- 0, MaxPublished <- Cycles, published <- sequence, run <- 0, restarts <- 0,
    network <- {}, heard <- 0, first <- 0, shown <- Len(shown), None <- NothingHeld

-----------------------------------------------------------------------------
\* Every call on a socket may fail, and every failure of the set-up ends the
\* program.
Answers(program, result) ==
    {[program EXCEPT !.phase = "over"], [result EXCEPT !.calls = @ + 1]}

\* An address is parsed first, and a bad one is refused.
MulticastInterface(program, address) ==
    IF address = NoInterface THEN {[program EXCEPT !.phase = "over"]}
    ELSE Answers(program, [program EXCEPT !.interface = address])

MulticastLoopback(program, enabled) == Answers(program, [program EXCEPT !.loopback = enabled])

\* The port is the socket's from here on, and the kernel queues for it.
BindAny(program) == Answers(program, [program EXCEPT !.bound = TRUE])

\* A membership belongs to one interface.
JoinMulticast(program, address) ==
    IF address = NoInterface THEN {[program EXCEPT !.phase = "over"]}
    ELSE Answers(program, [program EXCEPT !.joined = @ \cup {address}])

\* Options without an effect here: TTL, DSCP and the blocking mode.
OtherOption(program) == Answers(program, program)

\* eth_gw: the database, the socket and its four decisions, the CAN socket.
GatewaySetUp ==
    /\ gateway.phase = "set-up"
    /\ gateway' \in
         CASE gateway.calls = 2 -> MulticastInterface(gateway, options.gatewayInterface)
           [] gateway.calls = 4 -> MulticastLoopback(gateway, TRUE)
           [] gateway.calls = 6 /\ ~options.can -> {[gateway EXCEPT !.calls = 7]}
           [] gateway.calls = 7 -> {[gateway EXCEPT !.phase = "cycle"]}
           [] OTHER -> OtherOption(gateway)
    /\ UNCHANGED <<options, subscriber, bus, transmitted, frames, publisher, queue, receiver, gone>>

\* eth_sub: the database, the socket, bind before join, and epoll.
SubscriberSetUp ==
    /\ subscriber.phase = "set-up"
    /\ subscriber' \in
         CASE subscriber.calls = 3 -> BindAny(subscriber)
           [] subscriber.calls = 4 -> JoinMulticast(subscriber, options.subscriberInterface)
           [] subscriber.calls = 6 -> {[subscriber EXCEPT !.phase = "wait"]}
           [] OTHER -> OtherOption(subscriber)
    /\ UNCHANGED <<options, gateway, bus, transmitted, frames, publisher, queue, receiver, gone>>

-----------------------------------------------------------------------------
\* A frame on the bus, queued once the gateway has its CAN socket.
BusFrame ==
    /\ options.can /\ gateway.calls = 7 /\ Len(bus) < BatchSize + 1
    /\ \/ transmitted < BusFrames /\ transmitted' = transmitted + 1
            /\ bus' = Append(bus, transmitted + 1)
       \/ bus' = Append(bus, 0) /\ UNCHANGED transmitted
    /\ UNCHANGED <<options, gateway, subscriber, frames, publisher, queue, receiver, gone>>

\* The loop's condition: the cycle limit or a signal ends it.
NextCycle ==
    /\ gateway.phase = "cycle"
    /\ \/ gateway.tick < Cycles /\ gateway' = [gateway EXCEPT !.phase = "collect", !.tick = @ + 1]
       \/ gateway' = [gateway EXCEPT !.phase = "over"]
    /\ frames' = <<>>
    /\ UNCHANGED <<options, subscriber, bus, transmitted, publisher, queue, receiver, gone>>

\* Mutated form: the batch is looked at after the frame has been read.
CollectPastLimit ==
    IF bus = <<>> \/ Len(frames) > BatchSize
    THEN gateway' = [gateway EXCEPT !.phase = "publish"] /\ UNCHANGED <<bus, frames>>
    ELSE /\ bus' = Tail(bus) /\ UNCHANGED gateway
         /\ frames' = IF Head(bus) = 0 \/ Len(frames) = BatchSize THEN frames
                      ELSE Append(frames, Head(bus))

\* collect(), one receive() per step: error frames are left out, and what a
\* full batch has no room for waits for the next cycle.
Collect ==
    IF bus = <<>> \/ Len(frames) >= BatchSize
    THEN gateway' = [gateway EXCEPT !.phase = "publish"] /\ UNCHANGED <<bus, frames>>
    ELSE /\ bus' = Tail(bus) /\ UNCHANGED gateway
         /\ frames' = IF Head(bus) = 0 THEN frames ELSE Append(frames, Head(bus))

CollectFromBus ==
    /\ gateway.phase = "collect" /\ options.can
    /\ Collect
    /\ UNCHANGED <<options, subscriber, transmitted, publisher, queue, receiver, gone>>

\* generate(): the messages of the database from the readings of this cycle,
\* or none when one cannot be built.
Generate ==
    /\ gateway.phase = "collect" /\ ~options.can
    /\ gateway' = [gateway EXCEPT !.phase = "publish"]
    /\ \/ frames' = <<transmitted + 1>> /\ transmitted' = transmitted + 1
       \/ UNCHANGED <<frames, transmitted>>
    /\ UNCHANGED <<options, subscriber, bus, publisher, queue, receiver, gone>>

-----------------------------------------------------------------------------
\* Multicast of this host reaches a socket that is bound and has joined on the
\* interface the datagram leaves by.
Reaches ==
    gateway.loopback /\ subscriber.bound /\ subscriber.phase # "over"
      /\ gateway.interface \in subscriber.joined

\* send_to() of datagrams in this order: each may find the queue full or fail,
\* and nobody looks at the answer. n of them get through.
SendTo(datagrams) ==
    \E n \in 0 .. Len(datagrams) : \E sent \in [1 .. n -> DOMAIN datagrams] :
       /\ \A i, j \in 1 .. n : i < j => sent[i] < sent[j]
       /\ n > 0 => Reaches /\ Len(queue) + n <= SocketLimit
       /\ queue' = queue \o [i \in 1 .. n |-> datagrams[sent[i]]]
       /\ gone' = gone \cup UNION {Ext!ToSet(datagrams[i].frames) :
                                    i \in DOMAIN datagrams \ {sent[i] : i \in 1 .. n}}

\* Publisher::publish(): what it held back leaves right after the one that
\* overtakes it.
Publish ==
    /\ gateway.phase = "publish"
    /\ gateway' = [gateway EXCEPT !.phase = "cycle"]
    /\ LET datagram == [sequence |-> sequence, frames |-> frames] IN
       IF frames = <<>> THEN UNCHANGED <<publisher, queue, gone>>
       ELSE /\ sequence' = Numbered!NextSequence
            /\ IF Numbered!HoldsBack
               THEN held' = datagram /\ UNCHANGED <<queue, gone>>
               ELSE /\ held' = NothingHeld
                    /\ SendTo(IF held = NothingHeld THEN <<datagram>> ELSE <<datagram, held>>)
    /\ frames' = <<>>
    /\ UNCHANGED <<options, subscriber, bus, transmitted, receiver>>

Displays(number) == options.naive \/ Numbered!Displays(number)

\* handle() of one datagram: apply() goes through the frames of a batch in
\* their order.
Handle ==
    /\ subscriber.phase = "wait" /\ queue # <<>>
    /\ queue' = Tail(queue)
    /\ LET datagram == Head(queue) IN
       /\ Numbered!Observe(datagram.sequence)
       /\ IF Displays(datagram.sequence)
          THEN shown' = shown \o datagram.frames /\ UNCHANGED gone
          ELSE /\ gone' = gone \cup Ext!ToSet(datagram.frames)
               /\ UNCHANGED shown
    /\ UNCHANGED <<options, gateway, subscriber, bus, transmitted, frames, publisher>>

\* A signal ends eth_sub: what its socket still held goes with it.
Stop ==
    /\ subscriber.phase = "wait"
    /\ subscriber' = [subscriber EXCEPT !.phase = "over"]
    /\ queue' = <<>>
    /\ gone' = gone \cup UNION {Ext!ToSet(datagram.frames) : datagram \in Ext!ToSet(queue)}
    /\ UNCHANGED <<options, gateway, bus, transmitted, frames, publisher, receiver>>

GatewayInit ==
    /\ options \in [gatewayInterface : Interfaces \cup {NoInterface},
                    subscriberInterface : Interfaces, can : BOOLEAN, naive : BOOLEAN]
    /\ gateway = [calls |-> 0, phase |-> "set-up", tick |-> 0, interface |-> Routed,
                  loopback |-> TRUE]
    /\ subscriber = [calls |-> 0, phase |-> "set-up", bound |-> FALSE, joined |-> {}]
    /\ bus = <<>> /\ transmitted = 0 /\ frames = <<>>
    /\ sequence = 0 /\ held = NothingHeld
    /\ queue = <<>> /\ shown = <<>> /\ gone = {}
    /\ tracker = [started |-> FALSE, highest |-> 0, accepted |-> 0, lost |-> 0, stale |-> 0]

GatewayNext ==
    \/ GatewaySetUp \/ SubscriberSetUp \/ BusFrame \/ NextCycle
    \/ CollectFromBus \/ Generate \/ Publish \/ Handle \/ Stop

GatewaySpec == GatewayInit /\ [][GatewayNext]_gatewayVars

-----------------------------------------------------------------------------
Members(s) == Ext!ToSet(s) \ {0}
InDatagrams == Members(held.frames) \cup UNION {Members(queue[i].frames) : i \in DOMAIN queue}

\* Every data frame of the bus is in one place: still to be collected, in the
\* batch, in a datagram that is held back or under way, displayed, or gone with
\* a datagram that was lost or came too late. In particular what a full batch
\* has no room for is not thrown away (eth_gw, main.cpp:144-155).
NoFrameVanishes ==
    1 .. transmitted = Members(bus) \cup Members(frames) \cup InDatagrams \cup Members(shown) \cup gone

\* The display shows the frames of the bus in the order of the bus and none of
\* them twice, also those of one batch, whatever is held back; --naive is
\* there to show the opposite (eth_sub, main.cpp:228-230). And it shows
\* something only if both programs use the same interface.
BusOrder ==
    /\ ~options.naive => \A i, j \in DOMAIN shown : i < j => shown[i] < shown[j]
    /\ shown # <<>> => options.gatewayInterface = options.subscriberInterface
=============================================================================
