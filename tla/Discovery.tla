----------------------------- MODULE Discovery ------------------------------
(***************************************************************************)
(* SOME/IP Service Discovery as av::mw::Runtime performs it: servers that  *)
(* offer one service, clients that look for it, and the multicast group    *)
(* between them.                                                           *)
(*                                                                         *)
(* A runtime owns no thread.  Its poll() first dispatches the datagrams    *)
(* that are ready (ReadSd), then does what the clock asks for in a fixed   *)
(* order: expire leases, repeat finds, repeat offers, run posted tasks.    *)
(* That second half touches nothing another process can see half done, so  *)
(* it is one action (ClientPoll, ServerPoll).                              *)
(*                                                                         *)
(* One service instance is modelled: the registry's records are            *)
(* independent of each other.  Several servers may offer it, one after the *)
(* other or at once, each at its own endpoint; a server stands for its     *)
(* endpoint.  Time is counted in ticks, the unit in which the intervals    *)
(* and the lease are given.  A process that is both a server and a client  *)
(* behaves as the two apart; its own messages come back to it like         *)
(* anybody's.                                                              *)
(***************************************************************************)
EXTENDS Integers, FiniteSets

CONSTANTS
    Clients, Servers,
    None,
    OfferInterval,      \* config.offer_interval, in ticks
    FindInterval,       \* config.find_interval
    OfferTtl,           \* config.offer_ttl
    Prompt,             \* TRUE: a datagram arrives, and every process polls,
                        \* before the next tick
    MaxLosses,          \* consecutive offers a client may miss, if Prompt
    Crashes,            \* the servers that may die without a word
    LateJoin            \* whether find() may be called for a known service

ASSUME TimesAssumption ==
    /\ OfferInterval \in Nat \ {0}
    /\ FindInterval \in Nat \ {0}
    /\ OfferTtl \in Nat \ {0}
    /\ MaxLosses \in Nat

ASSUME KindsAssumption ==
    /\ Clients \cap Servers = {}
    /\ None \notin Servers
    /\ Crashes \subseteq Servers
    /\ Prompt \in BOOLEAN /\ LateJoin \in BOOLEAN

VARIABLES
    up,         \* the servers' processes that are running
    offering,   \* the servers with an entry in offers
    sentAge,    \* ticks since the server's last_sent, up to OfferInterval
    since,      \* ticks since the server began or ceased to offer, up to OfferTtl + 1
    known,      \* each client's registry record: the server, or None
    lease,      \* ticks left on that record
    interest,   \* the clients with an entry in interests
    findAge,    \* ticks since the client's last_find, up to FindInterval
    posted,     \* whether find() has posted "already available"
    told,       \* what the interest's handler was last told
    net,        \* datagrams on their way
    missed,     \* consecutive offers that did not reach the client
    polled      \* processes that have polled since the last tick

servers == <<up, offering, sentAge, since>>
clients == <<known, lease, interest, findAge, posted, told>>
vars == <<servers, clients, net, missed, polled>>

Processes == Clients \cup Servers

\* Offers and StopOffers matter to clients, finds to servers; what a process
\* reads and ignores is left out.
Datagrams ==
    [to : Clients, entry : [type : {"offer", "stop"}, server : Servers]]
        \cup [to : Servers, entry : [type : {"find"}]]

LeastOf(a, b) == IF a < b THEN a ELSE b

\* sd_socket.send_to(group, ...): a copy for every process that listens.
Multicast(entry, receivers) == {[to |-> p, entry |-> entry] : p \in receivers}

OfferBy(s) == Multicast([type |-> "offer", server |-> s], Clients)
StopBy(s) == Multicast([type |-> "stop", server |-> s], Clients)
Finding == Multicast([type |-> "find"], Servers)

Init ==
    /\ up = Servers
    /\ offering = {}
    /\ sentAge = [s \in Servers |-> OfferInterval]
    /\ since = [s \in Servers |-> OfferTtl + 1]
    /\ known = [c \in Clients |-> None]
    /\ lease = [c \in Clients |-> 0]
    /\ interest = {}
    /\ findAge = [c \in Clients |-> FindInterval]
    /\ posted = {}
    /\ told = [c \in Clients |-> FALSE]
    /\ net = {}
    /\ missed = [c \in Clients |-> 0]
    /\ polled = {}

(***************************************************************************)
(* The network.  A datagram that is read may be delivered again, and one   *)
(* that is not read may be lost.                                           *)
(***************************************************************************)
Remaining(m) == IF Prompt THEN {net \ {m}} ELSE {net \ {m}, net}

Lose(m) ==
    /\ m \in net
    /\ net' = net \ {m}
    /\ IF Prompt
       THEN /\ m.entry.type = "offer"
            /\ missed[m.to] < MaxLosses
            /\ missed' = [missed EXCEPT ![m.to] = @ + 1]
       ELSE UNCHANGED missed
    /\ UNCHANGED <<servers, clients, polled>>

\* send_sd() either puts the datagrams on the wire or reports failure.
CanFail == ~Prompt

\* These two are kept only where the network is prompt enough to speak of times.
Polled(p) == polled' = IF Prompt THEN polled \cup {p} ELSE polled

\* The time starts again at which a server began or ceased to offer.
Since(s) == since' = IF Prompt THEN [since EXCEPT ![s] = 0] ELSE since

(***************************************************************************)
(* Servers                                                                 *)
(***************************************************************************)
\* offer(): one offer is sent at once; if that fails the next poll repeats it.
Offer(s) ==
    /\ s \in up \ offering
    /\ offering' = offering \cup {s}
    /\ Since(s)
    /\ \/ /\ net' = net \cup OfferBy(s)
          /\ sentAge' = [sentAge EXCEPT ![s] = 0]
       \/ /\ CanFail
          /\ sentAge' = [sentAge EXCEPT ![s] = OfferInterval]
          /\ UNCHANGED net
    /\ UNCHANGED <<up, clients, missed, polled>>

\* stop_offer(): the StopOffer is sent once, and whether or not that worked
\* the offer is forgotten.
StopOffer(s) ==
    /\ s \in up \cap offering
    /\ offering' = offering \ {s}
    /\ net' \in {net \cup StopBy(s)} \cup (IF CanFail THEN {net} ELSE {})
    /\ Since(s)
    /\ UNCHANGED <<up, sentAge, clients, missed, polled>>

\* send_offer(): last_sent moves only if the datagram went out.
SendOffer(s) ==
    \/ /\ net' = net \cup OfferBy(s)
       /\ sentAge' = [sentAge EXCEPT ![s] = 0]
    \/ /\ CanFail
       /\ UNCHANGED <<net, sentAge>>

\* Mutated form: the offer sent by offer() is never repeated.
ServerPollSilent(s) ==
    /\ s \in up
    /\ Polled(s)
    /\ UNCHANGED <<up, offering, since, sentAge, net, clients, missed>>

\* repeat_offers() is all a server's poll does once its datagrams are read.
ServerPoll(s) ==
    /\ s \in up
    /\ Polled(s)
    /\ IF s \in offering /\ sentAge[s] >= OfferInterval
       THEN SendOffer(s)
       ELSE UNCHANGED <<net, sentAge>>
    /\ UNCHANGED <<up, offering, since, clients, missed>>

\* answer_find(): whoever offers answers, to the whole group.
AnswerFind(s, m) ==
    /\ m \in net /\ m.to = s /\ m.entry.type = "find"
    /\ \E rest \in Remaining(m) :
          \/ /\ s \in offering
             /\ net' = rest \cup OfferBy(s)
             /\ sentAge' = [sentAge EXCEPT ![s] = 0]
          \/ /\ s \in offering => CanFail
             /\ net' = rest
             /\ UNCHANGED sentAge
    /\ UNCHANGED <<up, offering, since, clients, missed, polled>>

\* The process dies: no StopOffer, and no memory of having offered.
Crash(s) ==
    /\ s \in Crashes \cap up
    /\ up' = up \ {s}
    /\ offering' = offering \ {s}
    /\ IF s \in offering THEN Since(s) ELSE UNCHANGED since
    /\ UNCHANGED <<sentAge, clients, net, missed, polled>>

Restart(s) ==
    /\ s \in Servers \ up
    /\ up' = up \cup {s}
    /\ UNCHANGED <<offering, sentAge, since, clients, net, missed, polled>>

(***************************************************************************)
(* Clients                                                                 *)
(***************************************************************************)
Registered(c) == c \in interest

\* notify(): the handler of a registered interest is called.
Tells(c, news) == [told EXCEPT ![c] = IF Registered(c) THEN news ELSE @]

\* find(): a service already known is announced by a posted task, another is
\* asked for at the next poll.
Find(c) ==
    /\ ~Registered(c)
    /\ LateJoin \/ known[c] = None
    /\ interest' = interest \cup {c}
    /\ told' = [told EXCEPT ![c] = FALSE]
    /\ IF known[c] # None
       THEN /\ posted' = posted \cup {c}
            /\ UNCHANGED findAge
       ELSE /\ findAge' = [findAge EXCEPT ![c] = FindInterval]
            /\ UNCHANGED posted
    /\ UNCHANGED <<servers, known, lease, net, missed, polled>>

\* cancel_find(): a task posted for this interest will no longer find it.
CancelFind(c) ==
    /\ Registered(c)
    /\ interest' = interest \ {c}
    /\ posted' = posted \ {c}
    /\ UNCHANGED <<servers, known, lease, findAge, told, net, missed, polled>>

\* Mutated forms: a renewal does not extend the lease; a renewal keeps the
\* endpoint that was known.
ObserveOfferOnce(c, s) ==
    /\ known' = [known EXCEPT ![c] = s]
    /\ lease' = [lease EXCEPT ![c] = IF known[c] = None THEN OfferTtl ELSE @]
    /\ told' = IF known[c] = None THEN Tells(c, TRUE) ELSE told

ObserveOfferKeepsEndpoint(c, s) ==
    /\ known' = [known EXCEPT ![c] = IF @ = None THEN s ELSE @]
    /\ lease' = [lease EXCEPT ![c] = OfferTtl]
    /\ told' = IF known[c] = None THEN Tells(c, TRUE) ELSE told

\* ServiceRegistry::observe() of an offer: the record is replaced and its lease
\* starts again, but only a service that was not known is news.
ObserveOffer(c, s) ==
    /\ known' = [known EXCEPT ![c] = s]
    /\ lease' = [lease EXCEPT ![c] = OfferTtl]
    /\ told' = IF known[c] = None THEN Tells(c, TRUE) ELSE told

\* ... and of a StopOffer, whichever server sent it.
ObserveStop(c) ==
    /\ known' = [known EXCEPT ![c] = None]
    /\ lease' = [lease EXCEPT ![c] = 0]
    /\ told' = IF known[c] # None THEN Tells(c, FALSE) ELSE told

ReadSd(c, m) ==
    /\ m \in net /\ m.to = c
    /\ net' \in Remaining(m)
    /\ \/ /\ m.entry.type = "offer"
          /\ ObserveOffer(c, m.entry.server)
          /\ missed' = [missed EXCEPT ![c] = 0]
       \/ /\ m.entry.type = "stop"
          /\ ObserveStop(c)
          /\ UNCHANGED missed
    /\ UNCHANGED <<servers, interest, findAge, posted, polled>>

\* Mutated form: the lease must have run out before now, never at now.
ExpiredStrictly(c) == known[c] # None /\ lease[c] < 0

Expired(c) == known[c] # None /\ lease[c] <= 0

\* expire_leases()
ExpireLeases(c) ==
    /\ known' = [known EXCEPT ![c] = IF Expired(c) THEN None ELSE @]
    /\ UNCHANGED lease

\* repeat_finds(): last_find moves whether or not the datagram went out.
RepeatFinds(c) ==
    IF /\ findAge[c] >= FindInterval
       /\ Registered(c)
       /\ known[c] = None \/ Expired(c)
    THEN /\ findAge' = [findAge EXCEPT ![c] = 0]
         /\ net' \in {net \cup Finding} \cup (IF CanFail THEN {net} ELSE {})
    ELSE UNCHANGED <<findAge, net>>

\* Mutated form: the lease runs out and nobody is told.
RunPostedQuietly(c) ==
    /\ posted' = posted \ {c}
    /\ told' = IF c \in posted THEN Tells(c, TRUE) ELSE told

\* run_posted() after expire_leases(): the posted task has the last word.
RunPosted(c) ==
    /\ posted' = posted \ {c}
    /\ told' = IF c \in posted THEN Tells(c, TRUE)
               ELSE IF Expired(c) THEN Tells(c, FALSE) ELSE told

ClientPoll(c) ==
    /\ Polled(c)
    /\ ExpireLeases(c)
    /\ RepeatFinds(c)
    /\ RunPosted(c)
    /\ UNCHANGED <<servers, interest, missed>>

(***************************************************************************)
(* Time.  If Prompt, one tick is long enough for every datagram to arrive  *)
(* and for every running process to poll.                                  *)
(***************************************************************************)
Tick ==
    /\ Prompt => net = {} /\ Clients \cup up \subseteq polled
    /\ sentAge' = [s \in Servers |-> LeastOf(sentAge[s] + 1, OfferInterval)]
    /\ since' = [s \in Servers |-> LeastOf(since[s] + 1, OfferTtl + 1)]
    /\ lease' = [c \in Clients |-> IF lease[c] = 0 THEN 0 ELSE lease[c] - 1]
    /\ findAge' = [c \in Clients |-> LeastOf(findAge[c] + 1, FindInterval)]
    /\ polled' = {}
    /\ UNCHANGED <<up, offering, known, interest, posted, told, net, missed>>

-----------------------------------------------------------------------------
ServerStep(s) ==
    \/ Offer(s) \/ StopOffer(s) \/ ServerPoll(s) \/ Crash(s) \/ Restart(s)
    \/ \E m \in net : AnswerFind(s, m)

ClientStep(c) ==
    \/ Find(c) \/ CancelFind(c) \/ ClientPoll(c)
    \/ \E m \in net : ReadSd(c, m)

Next ==
    \/ \E s \in Servers : ServerStep(s)
    \/ \E c \in Clients : ClientStep(c)
    \/ \E m \in net : Lose(m)
    \/ Tick

Spec == Init /\ [][Next]_vars

(***************************************************************************)
(* Applications call poll() at least every 100 ms for as long as they run, *)
(* so every process keeps polling and reads what has arrived; the clock    *)
(* advances; no datagram is under way for ever; and of infinitely many     *)
(* offers to a client the network does not lose every one.  Nobody is      *)
(* obliged to offer, withdraw, restart, look or stop looking.              *)
(***************************************************************************)
Gone(m) ==
    /\ \/ m.to \in Clients /\ ReadSd(m.to, m)
       \/ m.to \in Servers /\ AnswerFind(m.to, m)
       \/ Lose(m)
    /\ m \notin net'

Fairness ==
    /\ WF_vars(Tick)
    /\ \A s \in Servers : WF_vars(ServerPoll(s))
    /\ \A c \in Clients : WF_vars(ClientPoll(c))
    /\ \A m \in Datagrams : WF_vars(Gone(m))
    /\ \A s \in Servers :
          SF_vars(s \in offering /\ sentAge[s] >= OfferInterval /\ ServerPoll(s) /\ sentAge'[s] = 0)
    /\ \A c \in Clients, s \in Servers :
          SF_vars(\E m \in net : m.entry = [type |-> "offer", server |-> s] /\ ReadSd(c, m))

FairSpec == Spec /\ Fairness

-----------------------------------------------------------------------------
(***************************************************************************)
(* Properties                                                              *)
(***************************************************************************)
\* Types, and two dependencies: only a running process offers, and a posted
\* announcement belongs to an interest that still exists.
TypeInvariant ==
    /\ up \subseteq Servers
    /\ offering \subseteq up
    /\ sentAge \in [Servers -> 0 .. OfferInterval]
    /\ since \in [Servers -> 0 .. OfferTtl + 1]
    /\ known \in [Clients -> Servers \cup {None}]
    /\ lease \in [Clients -> 0 .. OfferTtl]
    /\ interest \subseteq Clients
    /\ findAge \in [Clients -> 0 .. FindInterval]
    /\ posted \subseteq interest
    /\ told \in [Clients -> BOOLEAN]
    /\ net \subseteq Datagrams
    /\ missed \in [Clients -> 0 .. MaxLosses]
    /\ polled \subseteq Processes

\* "The handler hears every availability change" (runtime.hpp:138): unless an
\* announcement is still posted, what a handler was last told is what the
\* registry says.
ToldAgrees ==
    \A c \in interest \ posted : told[c] = (known[c] # None)

\* The lease of a server that has been offering for more than a whole lease
\* never runs out, although offers may be lost.
LeaseHolds ==
    \A c \in Clients :
        (Expired(c) /\ known'[c] = None) =>
            (known[c] \notin offering \/ since[known[c]] <= OfferTtl)

LiveServerKept == [][LeaseHolds]_vars

\* A server that ceased to offer, said so or not, is unknown to everybody once
\* its last lease has run out.
DeadWithinLease ==
    \A c \in Clients, s \in Servers :
        (s \notin offering /\ since[s] > OfferTtl) => known[c] # s

\* If nobody offers any more, every client forgets the service and every
\* registered handler is told, whatever the network still had under way.
GoneIsNoticed ==
    \A c \in Clients :
        <>[](offering = {}) => <>[](known[c] = None /\ (c \in interest => ~told[c]))

\* If a server offers for ever, a client that keeps looking for the service
\* hears of it again and again, however many datagrams are lost on the way.
OfferIsHeard ==
    \A c \in Clients, s \in Servers :
        <>[](s \in offering /\ c \in interest) => []<>(told[c])

\* If in the end only one server offers, no client keeps the endpoint of
\* another for good.
EndpointSettles ==
    \A c \in Clients, s \in Servers :
        <>[](offering = {s}) => <>[](known[c] \in {None, s})
=============================================================================
