-------------------------------- MODULE Parts --------------------------------
(***************************************************************************)
(* The parts in which somebody acts that need safety alone, one at a time: *)
(* a behaviour is one of the part that its first state chooses. The        *)
(* numbering of the gateway's datagrams has the variables of Tunnel; the   *)
(* state of every other part is in the slots.                              *)
(***************************************************************************)
EXTENDS Tunnel, Slots, FiniteSets

CONSTANTS
    ErrorPenalty, ErrorPassiveLimit, BusOffLimit, RecoveryWindows,      \* of ErrorState
    Messages, Others, Width, LinkCycles, FrameLimit, StaleAfter,        \* of CanLink
    QueueLimit,
    Senders, Host, LastSession, HostRestarts,                           \* of Reboot
    Interfaces, NoInterface, Routed, BatchSize, ReorderEvery,           \* of Gateway
    SequenceNumbers, GatewayCycles, BusFrames, SocketLimit,
    Strangers, HandlerActs, Pause, MaxRequests,                         \* of Services
    Threads, Maker, MaxHandles,                                         \* of SharedPtr
    LitmusRounds, RingSlots, Items,                                     \* of MemoryOrder
    Clients, Servers, OfferInterval, FindInterval, OfferTtl,            \* of Discovery
    MaxLosses, Crashes

-----------------------------------------------------------------------------
Errors == INSTANCE ErrorState WITH tec <- s1, rec <- s2, windows <- s3, busOff <- s4

Link == INSTANCE CanLink WITH
           Cycles <- LinkCycles, Limit <- FrameLimit,
           cycle <- s1, at <- s2, resting <- s3, link <- s4, phase <- s5, waited <- s6,
           received <- s7, stale <- s8, silence <- s9, surprised <- s10, stopped <- s11

Sessions == INSTANCE Reboot WITH MaxRestarts <- HostRestarts,
               session <- s1, wrapped <- s2, offeredAs <- s3, heralds <- s4, restarts <- s5,
               wire <- s6, seen <- s7, reboots <- s8

Forwarding == INSTANCE Gateway WITH Cycles <- GatewayCycles,
                 options <- s1, gateway <- s2, subscriber <- s3, bus <- s4, transmitted <- s5,
                 frames <- s6, sequence <- s7, held <- s8, queue <- s9, tracker <- s10,
                 shown <- s11, gone <- s12

Vehicle == INSTANCE Services WITH
              options <- s1, stage <- s2, offered <- s3, handlers <- s4, closed <- s5,
              inbox <- s6, asked <- s7, stats <- s8, waiting <- s9, rested <- s10, line <- s11,
              shown <- s12

Pointers == INSTANCE SharedPtr WITH First <- Maker,
               strong <- s1, weak <- s2, object <- s3, block <- s4, owners <- s5,
               watchers <- s6, inner <- s7, step <- s8

Memory == INSTANCE MemoryOrder WITH Rounds <- LitmusRounds, Capacity <- RingSlots,
             experiment <- s1, memory <- s2, buffer <- s3, thread <- s4, popped <- s5,
             destroyed <- s6

\* Polls that are prompt, so that a lease can be spoken of.
Leases == INSTANCE Discovery WITH Prompt <- TRUE, LateJoin <- TRUE,
             up <- s1, offering <- s2, sentAge <- s3, since <- s4, known <- s5, lease <- s6,
             interest <- s7, findAge <- s8, posted <- s9, told <- s10, net <- s11,
             missed <- s12, polled <- s13

ASSUME LimitsAssumption == Errors!ErrorStateAssumption

ASSUME LinkAssumption == StaleAfter \in Nat

ASSUME SessionsAssumption ==
    /\ IsFiniteSet(Senders) /\ DOMAIN Host = Senders
    /\ LastSession \in Nat \ {0} /\ HostRestarts \in Nat

ASSUME PointersAssumption == Maker \in Threads

ASSUME MemoryAssumption == RingSlots \in Nat \ {0}

ASSUME ForwardingAssumption == Forwarding!GatewayAssumption

ASSUME LeasesAssumption == Leases!TimesAssumption /\ Leases!KindsAssumption

ASSUME VehicleAssumption == HandlerActs \subseteq {"nothing", "withdraw", "close"}

-----------------------------------------------------------------------------
PartsInit ==
    /\ Init
    /\ \/ Is("numbering") /\ Unused(1)
       \/ Is("errors") /\ Errors!ErrorInit /\ Unused(5)
       \/ Is("link") /\ Link!LinkInit /\ Unused(12)
       \/ Is("sessions") /\ Sessions!RebootInit /\ Unused(9)
       \/ Is("forwarding") /\ Forwarding!GatewayInit /\ Unused(13)
       \/ Is("vehicle") /\ Vehicle!ServicesInit /\ Unused(13)
       \/ Is("pointers") /\ Pointers!PointerInit /\ Unused(9)
       \/ Is("memory") /\ Memory!MemoryInit /\ Unused(7)
       \/ Is("leases") /\ Leases!Init

PartsNext ==
    \/ Is("numbering") /\ Next /\ StayUnused(1)
    \/ /\ UNCHANGED vars
       /\ \/ Is("errors") /\ Errors!ErrorNext /\ StayUnused(5)
          \/ Is("link") /\ Link!LinkNext /\ StayUnused(12)
          \/ Is("sessions") /\ Sessions!RebootNext /\ Sessions!Bounded' /\ StayUnused(9)
          \/ Is("forwarding") /\ Forwarding!GatewayNext /\ StayUnused(13)
          \/ Is("vehicle") /\ Vehicle!ServicesNext /\ StayUnused(13)
          \/ Is("pointers") /\ Pointers!PointerNext /\ StayUnused(9)
          \/ Is("memory") /\ Memory!MemoryNext /\ StayUnused(7)
          \/ Is("leases") /\ Leases!Next

partsVars == <<part, vars, slots>>

PartsSpec == PartsInit /\ [][PartsNext /\ UNCHANGED part]_partsVars

-----------------------------------------------------------------------------
(***************************************************************************)
(* Properties, besides those of Tunnel. Each is explained in the module    *)
(* that defines it.                                                        *)
(***************************************************************************)
\* A node leaves the bus for its own transmit errors only and comes back clean
\* (error_state.cpp).
Confinement == [][Is("errors") => Errors!Confined]_slots

\* can_rx says that the bus is silent when it is.
StaleAgrees == Is("link") => Link!StaleAgrees

\* Nobody is said to have restarted who has not (runtime.cpp, note_reboot()).
NoFalseReboot == Is("sessions") => Sessions!NoFalseReboot

\* Frames from the CAN bus reach the display in order or are accounted for
\* (eth_gw, eth_sub).
NoFrameVanishes == Is("forwarding") => Forwarding!NoFrameVanishes /\ Forwarding!BusOrder

\* An offer is kept and a question answered (skeleton.cpp, svc_server).
PromisesAreKept == Is("vehicle") => Vehicle!OfferIsAPromise /\ Vehicle!EveryRequestAnswered

\* Smart pointers neither dangle nor leak (smart_ptr.hpp).
PointersAreSound == Is("pointers") => Pointers!NothingDangles /\ Pointers!AllIsFreed

\* Memory orders are strong enough (memory_order_litmus.hpp, spsc_ring.hpp).
OrderIsKept == Is("memory") => Memory!OrderIsKept /\ Memory!RingInOrder

\* A server that went is forgotten within one lease (sd.cpp, runtime.cpp).
DeadWithinLease == Is("leases") => Leases!DeadWithinLease

\* One that stayed is not, although offers are lost.
LiveServerKept == [][Is("leases") => Leases!LeaseHolds]_slots
=============================================================================
