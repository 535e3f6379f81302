-------------------------- MODULE Discovery_proofs --------------------------
(***************************************************************************)
(* For all sets of clients and servers and all intervals and leases: what  *)
(* a handler was told is what the registry says, if no find() came late;   *)
(* and if datagrams and polls are prompt, a server that ceased to offer is *)
(* forgotten within one lease, whatever is lost, while one that goes on    *)
(* offering is not, although MaxLosses offers in a row may be.             *)
(***************************************************************************)
EXTENDS Discovery, TLAPS

USE TimesAssumption, KindsAssumption

(***************************************************************************)
(* Types                                                                   *)
(***************************************************************************)
LEMMA InitTypes == Init => TypeInvariant
BY DEF Init, TypeInvariant

LEMMA Sending ==
    /\ \A s \in Servers : OfferBy(s) \subseteq Datagrams /\ StopBy(s) \subseteq Datagrams
    /\ Finding \subseteq Datagrams
BY DEF OfferBy, StopBy, Finding, Multicast, Datagrams

\* A poll or a change of mind is noted, or nobody keeps count.
LEMMA Noting ==
    ASSUME TypeInvariant
    PROVE  /\ \A p \in Processes : Polled(p) => polled' \subseteq Processes
           /\ \A s \in Servers : Since(s) => since' \in [Servers -> 0 .. OfferTtl + 1]
BY DEF TypeInvariant, Polled, Since

LEMMA Rest ==
    ASSUME TypeInvariant, NEW m \in net, NEW rest \in Remaining(m)
    PROVE  rest \subseteq net
BY DEF Remaining

LEMMA OffersHaveServers ==
    ASSUME TypeInvariant, NEW m \in net, m.entry.type = "offer"
    PROVE  m.entry.server \in Servers
<1>1. m \in Datagrams
  BY DEF TypeInvariant
<1>2. CASE m \in [to : Clients, entry : [type : {"offer", "stop"}, server : Servers]]
  <2>1. m.entry \in [type : {"offer", "stop"}, server : Servers]
    BY <1>2
  <2> QED
    BY <2>1
<1>3. CASE m \in [to : Servers, entry : [type : {"find"}]]
  <2>1. m.entry \in [type : {"find"}]
    BY <1>3
  <2>2. m.entry.type = "find"
    BY <2>1
  <2> QED
    BY <2>2
<1> QED
  BY <1>1, <1>2, <1>3 DEF Datagrams

LEMMA ServerTypes ==
    ASSUME TypeInvariant, NEW s \in Servers, ServerStep(s)
    PROVE  TypeInvariant'
<1> USE Sending, Noting
<1>1. CASE Offer(s)
  BY <1>1 DEF TypeInvariant, Offer, clients
<1>2. CASE StopOffer(s)
  BY <1>2 DEF TypeInvariant, StopOffer, clients
<1>3. CASE ServerPoll(s)
  BY <1>3 DEF TypeInvariant, ServerPoll, SendOffer, clients, Processes
<1>4. CASE Crash(s)
  BY <1>4 DEF TypeInvariant, Crash, clients
<1>5. CASE Restart(s)
  BY <1>5 DEF TypeInvariant, Restart, clients
<1>6. ASSUME NEW m \in net, AnswerFind(s, m)
      PROVE  TypeInvariant'
  <2>1. PICK rest \in Remaining(m) :
          \/ net' = rest \cup OfferBy(s) /\ sentAge' = [sentAge EXCEPT ![s] = 0]
          \/ net' = rest /\ sentAge' = sentAge
    BY <1>6 DEF AnswerFind
  <2>2. net' \subseteq Datagrams
    BY <2>1, Rest DEF TypeInvariant
  <2> QED
    BY <1>6, <2>1, <2>2 DEF TypeInvariant, AnswerFind, clients
<1> QED
  BY <1>1, <1>2, <1>3, <1>4, <1>5, <1>6 DEF ServerStep

LEMMA ClientTypes ==
    ASSUME TypeInvariant, NEW c \in Clients, ClientStep(c)
    PROVE  TypeInvariant'
<1> USE Sending, Noting
<1>1. CASE Find(c)
  BY <1>1 DEF TypeInvariant, Find, Registered, servers
<1>2. CASE CancelFind(c)
  BY <1>2 DEF TypeInvariant, CancelFind, Registered, servers
<1>3. CASE ClientPoll(c)
  <2>1. known' \in [Clients -> Servers \cup {None}] /\ lease' = lease
    BY <1>3 DEF ClientPoll, ExpireLeases, TypeInvariant
  <2>2. findAge' \in [Clients -> 0 .. FindInterval] /\ net' \subseteq Datagrams
    BY <1>3 DEF ClientPoll, RepeatFinds, TypeInvariant
  <2>3. posted' \subseteq interest /\ told' \in [Clients -> BOOLEAN]
    BY <1>3 DEF ClientPoll, RunPosted, Tells, TypeInvariant
  <2>4. polled' \subseteq Processes
    BY <1>3 DEF ClientPoll, Processes
  <2> QED
    BY <1>3, <2>1, <2>2, <2>3, <2>4 DEF ClientPoll, TypeInvariant, servers
<1>4. ASSUME NEW m \in net, ReadSd(c, m)
      PROVE  TypeInvariant'
  <2>1. net' \subseteq Datagrams /\ UNCHANGED <<servers, interest, findAge, posted, polled>>
    BY <1>4, Rest DEF ReadSd, TypeInvariant
  <2>2. /\ up' = up /\ offering' = offering /\ sentAge' = sentAge /\ since' = since
        /\ interest' = interest /\ findAge' = findAge /\ posted' = posted /\ polled' = polled
    BY <2>1 DEF servers
  <2>3. CASE /\ m.entry.type = "offer" /\ ObserveOffer(c, m.entry.server)
             /\ missed' = [missed EXCEPT ![c] = 0]
    <3> DEFINE s == m.entry.server
    <3>1. s \in Servers
      BY <2>3, OffersHaveServers
    <3> HIDE DEF s
    <3>2. known' = [known EXCEPT ![c] = s] /\ lease' = [lease EXCEPT ![c] = OfferTtl]
      BY <2>3 DEF ObserveOffer, s
    <3>3. told' \in [Clients -> BOOLEAN]
      BY <2>3 DEF ObserveOffer, Tells, TypeInvariant
    <3>4. /\ known' \in [Clients -> Servers \cup {None}] /\ lease' \in [Clients -> 0 .. OfferTtl]
          /\ missed' \in [Clients -> 0 .. MaxLosses]
      BY <2>3, <3>1, <3>2 DEF TypeInvariant
    <3> QED
      BY <2>1, <2>2, <3>3, <3>4, Zenon DEF TypeInvariant
  <2>4. CASE ObserveStop(c) /\ missed' = missed
    <3>1. told' \in [Clients -> BOOLEAN]
      BY <2>4 DEF ObserveStop, Tells, TypeInvariant
    <3>2. known' \in [Clients -> Servers \cup {None}] /\ lease' \in [Clients -> 0 .. OfferTtl]
      BY <2>4 DEF ObserveStop, TypeInvariant
    <3> QED
      BY <2>1, <2>2, <2>4, <3>1, <3>2, Zenon DEF TypeInvariant
  <2> QED
    BY <1>4, <2>3, <2>4 DEF ReadSd
<1> QED
  BY <1>1, <1>2, <1>3, <1>4 DEF ClientStep

LEMMA TypesKept == ASSUME TypeInvariant, [Next]_vars PROVE TypeInvariant'
<1>1. ASSUME NEW m \in net, Lose(m)
      PROVE  TypeInvariant'
  <2>1. m.to \in Clients => missed[m.to] \in Nat
    BY DEF TypeInvariant
  <2> QED
    BY <1>1, <2>1 DEF Lose, TypeInvariant, servers, clients
<1>2. CASE Tick
  BY <1>2 DEF Tick, LeastOf, TypeInvariant
<1>3. CASE UNCHANGED vars
  BY <1>3 DEF vars, servers, clients, TypeInvariant
<1> QED
  BY <1>1, <1>2, <1>3, ServerTypes, ClientTypes DEF Next

\* Every variable has its type; only a running process offers, and a posted
\* announcement belongs to an interest that still exists.
THEOREM TypesAreRight == Spec => []TypeInvariant
BY InitTypes, TypesKept, PTL DEF Spec

(***************************************************************************)
(* What the handlers were told                                             *)
(***************************************************************************)
\* Nobody looks for a service that is known, so that nothing is ever posted.
Heard == posted = {} /\ ToldAgrees

LEMMA HeardKept ==
    ASSUME ~LateJoin, TypeInvariant, Heard, [Next]_vars
    PROVE  Heard'
<1> USE DEF Heard
<1>1. ASSUME NEW s \in Servers, ServerStep(s)
      PROVE  Heard'
  <2>1. UNCHANGED clients
    BY <1>1 DEF ServerStep, Offer, StopOffer, ServerPoll, Crash, Restart, AnswerFind
  <2> QED
    BY <2>1 DEF clients, ToldAgrees
<1>2. ASSUME NEW c \in Clients, ClientStep(c)
      PROVE  Heard'
  <2>1. CASE Find(c)
    <3>1. known[c] = None
      BY <2>1 DEF Find
    <3>2. /\ interest' = interest \cup {c} /\ told' = [told EXCEPT ![c] = FALSE]
          /\ posted' = posted /\ known' = known
      BY <2>1, <3>1 DEF Find
    <3>3. \A d \in interest : d \in Clients /\ told[d] = (known[d] # None)
      BY DEF ToldAgrees, TypeInvariant
    <3>4. \A d \in Clients : told'[d] = IF d = c THEN FALSE ELSE told[d]
      BY <3>2 DEF TypeInvariant
    <3>5. \A d \in interest' : told'[d] = (known'[d] # None)
      BY <3>1, <3>2, <3>3, <3>4
    <3> QED
      BY <3>2, <3>5 DEF ToldAgrees
  <2>2. CASE CancelFind(c)
    BY <2>2 DEF CancelFind, ToldAgrees
  <2>3. CASE ClientPoll(c)
    <3>1. /\ posted' = {} /\ interest' = interest
          /\ told' = IF Expired(c) THEN Tells(c, FALSE) ELSE told
          /\ known' = [known EXCEPT ![c] = IF Expired(c) THEN None ELSE @]
      BY <2>3 DEF ClientPoll, ExpireLeases, RunPosted
    <3> QED
      BY ZenonT(60), <3>1 DEF Tells, Registered, Expired, ToldAgrees, TypeInvariant
  <2>4. ASSUME NEW m \in net, ReadSd(c, m)
        PROVE  Heard'
    <3>0. posted = {} /\ ToldAgrees
      OBVIOUS
    <3>1. posted' = posted /\ interest' = interest
      BY <2>4 DEF ReadSd
    <3>2. CASE m.entry.type = "offer" /\ ObserveOffer(c, m.entry.server)
      <4> DEFINE s == m.entry.server
      <4>1. s \in Servers
        BY <3>2, OffersHaveServers
      <4> HIDE DEF s
      <4>2. known' = [known EXCEPT ![c] = s]
        BY <3>2 DEF ObserveOffer, s
      <4>3. told' = IF known[c] = None THEN Tells(c, TRUE) ELSE told
        BY <3>2 DEF ObserveOffer
      <4>4. \A d \in Clients : known'[d] = IF d = c THEN s ELSE known[d]
        BY <4>2 DEF TypeInvariant
      <4>5. \A d \in interest : told'[d] = IF d = c THEN TRUE ELSE told[d]
        BY <4>3 DEF Tells, Registered, ToldAgrees, TypeInvariant
      <4>6. s # None
        BY <4>1, KindsAssumption
      <4>7. ASSUME NEW d \in interest PROVE told'[d] = (known'[d] # None)
        <5>1. d \in Clients
          BY DEF TypeInvariant
        <5>2. CASE d = c
          BY ONLY <4>4, <4>5, <4>6, <5>1, <5>2, d \in interest
        <5>3. CASE d # c
          <6>1. told[d] = (known[d] # None)
            BY <3>0 DEF ToldAgrees
          <6> QED
            BY ONLY <4>4, <4>5, <5>1, <5>3, <6>1, d \in interest, Zenon
        <5> QED
          BY <5>2, <5>3
      <4> QED
        BY ONLY Heard, <3>1, <4>7, Zenon DEF Heard, ToldAgrees
    <3>3. CASE ObserveStop(c)
      BY ZenonT(60), <3>1, <3>3 DEF ObserveStop, Tells, Registered, ToldAgrees, TypeInvariant
    <3> QED
      BY <2>4, <3>2, <3>3 DEF ReadSd
  <2> QED
    BY <1>2, <2>1, <2>2, <2>3, <2>4 DEF ClientStep
<1>3. ASSUME NEW m \in net, Lose(m)
      PROVE  Heard'
  BY <1>3 DEF Lose, clients, ToldAgrees
<1>4. CASE Tick
  BY <1>4 DEF Tick, ToldAgrees
<1>5. CASE UNCHANGED vars
  BY <1>5 DEF vars, clients, ToldAgrees
<1> QED
  BY <1>1, <1>2, <1>3, <1>4, <1>5 DEF Next

\* What a handler was last told is what the registry says, for all sets of
\* clients and servers, all times, and whatever the network loses, repeats,
\* delays or overtakes, if find() was called before the service was known
\* (runtime.hpp:138).
THEOREM HandlersHearTheTruth == ASSUME ~LateJoin PROVE Spec => []ToldAgrees
<1>1. Init => Heard
  BY DEF Init, Heard, ToldAgrees
<1>2. Heard => ToldAgrees
  BY DEF Heard
<1> QED
  BY <1>1, <1>2, InitTypes, TypesKept, HeardKept, PTL DEF Spec

(***************************************************************************)
(* Leases                                                                  *)
(***************************************************************************)
\* A record outlives its server by what was left of the lease; and a client with
\* a lease that has run out has not polled since.
Outlived ==
    /\ \A c \in Clients, s \in Servers \ offering :
          known[c] = s => lease[c] + since[s] <= OfferTtl
    /\ \A c \in Clients : known[c] # None /\ lease[c] = 0 => c \notin polled

\* An offer is read in the tick in which it was sent.
OffersAreFresh ==
    \A m \in net : m.entry.type = "offer" /\ m.entry.server \notin offering
                      => since[m.entry.server] = 0

LEMMA OnlyOffersOf ==
    ASSUME NEW s \in Servers
    PROVE  /\ \A m \in OfferBy(s) : m.entry.type = "offer" /\ m.entry.server = s
           /\ \A m \in StopBy(s) : m.entry.type # "offer"
BY DEF OfferBy, StopBy, Multicast

LEMMA OnlyFinds == \A m \in Finding : m.entry.type # "offer"
BY DEF Finding, Multicast

LEMMA ServerLeases ==
    ASSUME Prompt, TypeInvariant, Outlived, OffersAreFresh, NEW s \in Servers, ServerStep(s)
    PROVE  Outlived' /\ OffersAreFresh'
<1>1. UNCHANGED <<known, lease>>
  BY DEF ServerStep, Offer, StopOffer, ServerPoll, Crash, Restart, AnswerFind, clients
<1>2. polled' = polled \/ polled' = polled \cup {s}
  BY DEF ServerStep, Offer, StopOffer, ServerPoll, Crash, Restart, AnswerFind, Polled
<1>3. \A c \in Clients : known'[c] # None /\ lease'[c] = 0 => c \notin polled'
  BY <1>1, <1>2 DEF Outlived
<1>4. CASE /\ offering' \in {offering \cup {s}, offering \ {s}} /\ since' = [since EXCEPT ![s] = 0]
           /\ net' \subseteq net \cup OfferBy(s) \cup StopBy(s)
  <2>1. \A t \in Servers : since'[t] = IF t = s THEN 0 ELSE since[t]
    BY <1>4 DEF TypeInvariant
  <2>2. \A c \in Clients : lease[c] \in Nat /\ lease[c] <= OfferTtl
    BY DEF TypeInvariant
  <2>3. Outlived'
    BY <1>1, <1>3, <1>4, <2>1, <2>2 DEF Outlived
  <2>4. ASSUME NEW m \in net', m.entry.type = "offer", m.entry.server \notin offering'
        PROVE  since'[m.entry.server] = 0
    <3>1. CASE m.entry.server = s
      BY <2>1, <3>1
    <3>2. CASE m.entry.server # s
      <4>1. m \in net
        BY <1>4, <2>4, <3>2, OnlyOffersOf
      <4>2. m.entry.server \in Servers
        BY <2>4, <4>1, OffersHaveServers
      <4>3. m.entry.server \notin offering
        BY <1>4, <2>4, <3>2
      <4> QED
        BY <2>1, <2>4, <3>2, <4>1, <4>2, <4>3 DEF OffersAreFresh
    <3> QED
      BY <3>1, <3>2
  <2> QED
    BY <2>3, <2>4 DEF OffersAreFresh
<1>5. CASE /\ offering' = offering /\ since' = since
           /\ net' \subseteq net \/ (s \in offering /\ net' \subseteq net \cup OfferBy(s))
  <2>1. Outlived'
    BY <1>1, <1>3, <1>5 DEF Outlived
  <2>2. OffersAreFresh'
    BY <1>5, OnlyOffersOf DEF OffersAreFresh
  <2> QED
    BY <2>1, <2>2
<1>6. CASE Offer(s)
  BY <1>4, <1>6 DEF Offer, Since, CanFail
<1>7. CASE StopOffer(s)
  BY <1>4, <1>7 DEF StopOffer, Since, CanFail
<1>8. CASE ServerPoll(s)
  BY <1>5, <1>8 DEF ServerPoll, SendOffer
<1>9. CASE Crash(s)
  <2>1. CASE s \in offering
    BY <1>4, <1>9, <2>1 DEF Crash, Since
  <2>2. CASE s \notin offering
    BY <1>5, <1>9, <2>2 DEF Crash
  <2> QED
    BY <2>1, <2>2
<1>10. CASE Restart(s)
  BY <1>5, <1>10 DEF Restart
<1>11. ASSUME NEW m \in net, AnswerFind(s, m)
       PROVE  Outlived' /\ OffersAreFresh'
  <2>1. /\ offering' = offering /\ since' = since
        /\ \E rest \in Remaining(m) :
              net' = rest \/ (s \in offering /\ net' = rest \cup OfferBy(s))
    BY <1>11 DEF AnswerFind
  <2> QED
    BY <1>5, <2>1, Rest
<1> QED
  BY <1>6, <1>7, <1>8, <1>9, <1>10, <1>11 DEF ServerStep

LEMMA ClientLeases ==
    ASSUME Prompt, TypeInvariant, Outlived, OffersAreFresh, NEW c \in Clients, ClientStep(c)
    PROVE  Outlived' /\ OffersAreFresh'
<1>1. UNCHANGED <<offering, since>>
  BY DEF ClientStep, Find, CancelFind, ClientPoll, ReadSd, servers
<1>2. ASSUME net' \subseteq net \cup Finding
      PROVE  OffersAreFresh'
  <2>1. \A m \in net' : m.entry.type = "offer" => m \in net
    BY <1>2, OnlyFinds
  <2> QED
    BY <1>1, <2>1 DEF OffersAreFresh
<1>3. CASE Find(c) \/ CancelFind(c)
  <2>1. net' = net /\ UNCHANGED <<known, lease, polled>>
    BY <1>3 DEF Find, CancelFind
  <2> QED
    BY <1>1, <1>2, <2>1 DEF Outlived
<1>4. CASE ClientPoll(c)
  <2>1. /\ net' \subseteq net \cup Finding /\ polled' = polled \cup {c} /\ lease' = lease
        /\ known' = [known EXCEPT ![c] = IF Expired(c) THEN None ELSE @]
    BY <1>4 DEF ClientPoll, ExpireLeases, RepeatFinds, Polled
  <2>2. \A d \in Clients : known'[d] = IF d = c /\ Expired(c) THEN None ELSE known[d]
    BY <2>1 DEF TypeInvariant
  <2>3. Outlived'
    BY <1>1, <2>1, <2>2 DEF Outlived, Expired
  <2> QED
    BY <1>2, <2>1, <2>3
<1>5. ASSUME NEW m \in net, ReadSd(c, m)
      PROVE  Outlived' /\ OffersAreFresh'
  <2>1. net' \subseteq net /\ polled' = polled
    BY <1>5, Rest DEF ReadSd
  <2>2. CASE m.entry.type = "offer" /\ ObserveOffer(c, m.entry.server)
    <3> DEFINE s == m.entry.server
    <3>1. s \in Servers /\ (s \notin offering => since[s] = 0)
      BY <2>2, OffersHaveServers DEF OffersAreFresh
    <3> HIDE DEF s
    <3>2. known' = [known EXCEPT ![c] = s] /\ lease' = [lease EXCEPT ![c] = OfferTtl]
      BY <2>2 DEF ObserveOffer, s
    <3>3. \A d \in Clients : /\ known'[d] = IF d = c THEN s ELSE known[d]
                             /\ lease'[d] = IF d = c THEN OfferTtl ELSE lease[d]
      BY <3>2 DEF TypeInvariant
    <3>4. OfferTtl \in Nat /\ OfferTtl > 0
      OBVIOUS
    <3> QED
      BY <1>1, <1>2, <2>1, <3>1, <3>3, <3>4 DEF Outlived
  <2>3. CASE ObserveStop(c)
    <3>1. known' = [known EXCEPT ![c] = None] /\ lease' = [lease EXCEPT ![c] = 0]
      BY <2>3 DEF ObserveStop
    <3>2. \A d \in Clients : /\ known'[d] = IF d = c THEN None ELSE known[d]
                             /\ lease'[d] = IF d = c THEN 0 ELSE lease[d]
      BY <3>1 DEF TypeInvariant
    <3> QED
      BY <1>1, <1>2, <2>1, <3>2 DEF Outlived
  <2> QED
    BY <1>5, <2>2, <2>3 DEF ReadSd
<1> QED
  BY <1>3, <1>4, <1>5 DEF ClientStep

LEMMA TickLeases ==
    ASSUME Prompt, TypeInvariant, Outlived, Tick
    PROVE  Outlived' /\ OffersAreFresh'
<1>1. /\ net' = {} /\ polled' = {} /\ Clients \subseteq polled /\ UNCHANGED <<offering, known>>
  BY DEF Tick
<1>2. ASSUME NEW c \in Clients, NEW s \in Servers \ offering, known[c] = s
      PROVE  lease'[c] + since'[s] <= OfferTtl
  <2>1. lease[c] # 0 /\ lease[c] + since[s] <= OfferTtl
    BY <1>1, <1>2 DEF Outlived
  <2>2. lease[c] \in Nat /\ since[s] \in Nat /\ OfferTtl \in Nat
    BY DEF TypeInvariant
  <2>3. lease'[c] = lease[c] - 1 /\ since'[s] = LeastOf(since[s] + 1, OfferTtl + 1)
    BY <2>1 DEF Tick
  <2>4. since'[s] <= since[s] + 1 /\ since'[s] \in Nat
    BY <2>2, <2>3 DEF LeastOf
  <2> QED
    BY <2>1, <2>2, <2>3, <2>4
<1> QED
  BY <1>1, <1>2 DEF Outlived, OffersAreFresh

LEMMA LeasesKept ==
    ASSUME Prompt, TypeInvariant, Outlived, OffersAreFresh, [Next]_vars
    PROVE  Outlived' /\ OffersAreFresh'
<1>1. ASSUME NEW m \in net, Lose(m)
      PROVE  Outlived' /\ OffersAreFresh'
  BY <1>1 DEF Lose, servers, clients, Outlived, OffersAreFresh
<1>2. CASE UNCHANGED vars
  BY <1>2 DEF vars, servers, clients, Outlived, OffersAreFresh
<1> QED
  BY <1>1, <1>2, ServerLeases, ClientLeases, TickLeases DEF Next

LEMMA LeasesBegin == Init => Outlived /\ OffersAreFresh
BY DEF Init, Outlived, OffersAreFresh

LEMMA TheDeadAreGone == ASSUME TypeInvariant, Outlived PROVE DeadWithinLease
<1> SUFFICES ASSUME NEW c \in Clients, NEW s \in Servers,
                    s \notin offering, since[s] > OfferTtl, known[c] = s
             PROVE  FALSE
  BY DEF DeadWithinLease
<1>1. lease[c] + since[s] <= OfferTtl /\ lease[c] \in Nat /\ since[s] \in Nat /\ OfferTtl \in Nat
  BY DEF Outlived, TypeInvariant
<1> QED
  BY <1>1

\* A server that ceased to offer, whether it said so, died, or its StopOffer was
\* lost, is unknown to every client once one lease has passed, for all sets of
\* clients and servers and all intervals (sd.cpp:391, runtime.cpp:383).
THEOREM TheDeadAreForgotten == ASSUME Prompt PROVE Spec => []DeadWithinLease
BY InitTypes, TypesKept, LeasesBegin, LeasesKept, TheDeadAreGone, PTL DEF Spec

(***************************************************************************)
(* Leases of servers that live.  What a record has lost of its lease is    *)
(* accounted for: the server began to offer since, or the client has not   *)
(* heard it for as many intervals as offers were lost, one that is still   *)
(* under way, and the time since the last.                                 *)
(***************************************************************************)
OfferTo(c, s) == [to |-> c, entry |-> [type |-> "offer", server |-> s]]
UnderWay(c, s) == IF OfferTo(c, s) \in net THEN 1 ELSE 0
Unheard(c, s) == (missed[c] + UnderWay(c, s)) * OfferInterval + sentAge[s]

\* An offer is read or lost in the tick in which it was sent ...
OffersAreRecent == \A m \in net : m.entry.type = "offer" => sentAge[m.entry.server] = 0

\* ... and a server that has polled in this tick has no offer left to repeat.
PolledHaveOffered == \A s \in offering \cap polled : sentAge[s] < OfferInterval

Renewed(c, s) ==
    known[c] = s => \/ lease[c] + since[s] <= OfferTtl
                    \/ OfferTtl - lease[c] <= Unheard(c, s)

LeasesAreRenewed ==
    /\ OffersAreRecent /\ PolledHaveOffered
    /\ \A c \in Clients, s \in offering : Renewed(c, s)

LEMMA Products ==
    /\ \A n \in Nat : n * OfferInterval \in Nat
    /\ \A n \in Nat : (n + 1) * OfferInterval = n * OfferInterval + OfferInterval
    /\ \A n, m \in Nat : n <= m => n * OfferInterval <= m * OfferInterval
BY SMT

LEMMA WaitTypes ==
    ASSUME TypeInvariant, NEW c \in Clients, NEW s \in Servers
    PROVE  /\ UnderWay(c, s) \in {0, 1} /\ missed[c] \in Nat /\ missed[c] <= MaxLosses
           /\ sentAge[s] \in Nat /\ sentAge[s] <= OfferInterval
           /\ lease[c] \in Nat /\ lease[c] <= OfferTtl /\ since[s] \in Nat
           /\ Unheard(c, s) \in Nat
<1>1. /\ UnderWay(c, s) \in {0, 1} /\ missed[c] \in Nat /\ missed[c] <= MaxLosses
      /\ sentAge[s] \in Nat /\ sentAge[s] <= OfferInterval
      /\ lease[c] \in Nat /\ lease[c] <= OfferTtl /\ since[s] \in Nat
  BY DEF TypeInvariant, UnderWay
<1>2. Unheard(c, s) \in Nat
  <2>1. missed[c] + UnderWay(c, s) \in Nat
    BY <1>1
  <2>2. (missed[c] + UnderWay(c, s)) * OfferInterval \in Nat
    BY <2>1, Products
  <2> QED
    BY <1>1, <2>2 DEF Unheard
<1> QED
  BY <1>1, <1>2

LEMMA OffersTo ==
    ASSUME NEW c \in Clients, NEW s \in Servers, NEW t \in Servers
    PROVE  /\ OfferTo(c, s) \in OfferBy(s)
           /\ t # s => OfferTo(c, t) \notin OfferBy(s)
           /\ OfferTo(c, t) \notin StopBy(s)
           /\ OfferTo(c, t) \notin Finding
<1>1. OfferTo(c, t).entry.type = "offer" /\ OfferTo(c, t).entry.server = t
  BY DEF OfferTo
<1>2. OfferTo(c, s) \in OfferBy(s)
  BY DEF OfferTo, OfferBy, Multicast
<1> QED
  BY <1>1, <1>2, OnlyOffersOf, OnlyFinds

\* A new offer is as good as the one that was due: it is sent when an interval
\* has passed, or sooner.
LEMMA SendingRenews ==
    ASSUME TypeInvariant, LeasesAreRenewed, NEW s \in offering,
           UNCHANGED <<known, lease, missed, offering, since>>,
           polled' \in {polled, polled \cup {s}},
           NEW rest \in SUBSET net, \A m \in net \ rest : m.entry.type # "offer",
           net' = rest \cup OfferBy(s), sentAge' = [sentAge EXCEPT ![s] = 0]
    PROVE  LeasesAreRenewed'
<1>1. s \in Servers /\ offering \subseteq Servers
  BY DEF TypeInvariant
<1>2. \A t \in Servers : sentAge'[t] = IF t = s THEN 0 ELSE sentAge[t]
  BY DEF TypeInvariant
<1>3. OffersAreRecent'
  <2> SUFFICES ASSUME NEW m \in net', m.entry.type = "offer"
               PROVE  sentAge'[m.entry.server] = 0
    BY DEF OffersAreRecent
  <2>1. CASE m \in OfferBy(s)
    BY <1>1, <1>2, <2>1, OnlyOffersOf
  <2>2. CASE m \in net
    <3>1. m.entry.server \in Servers /\ sentAge[m.entry.server] = 0
      BY <2>2, OffersHaveServers DEF LeasesAreRenewed, OffersAreRecent
    <3> QED
      BY <1>2, <3>1
  <2> QED
    BY <2>1, <2>2
<1>4. PolledHaveOffered'
  BY <1>1, <1>2 DEF LeasesAreRenewed, PolledHaveOffered
<1>5. ASSUME NEW c \in Clients, NEW t \in offering, known[c] = t,
             OfferTtl - lease[c] <= Unheard(c, t)
      PROVE  OfferTtl - lease[c] <= Unheard(c, t)'
  <2>1. t \in Servers
    BY <1>1
  <2>2. CASE t # s
    <3>1. OfferTo(c, t) \in net' <=> OfferTo(c, t) \in net
      <4>1. OfferTo(c, t).entry.type = "offer"
        BY DEF OfferTo
      <4> QED
        BY <1>1, <2>1, <2>2, <4>1, OffersTo
    <3> QED
      BY <1>2, <1>5, <2>1, <2>2, <3>1 DEF Unheard, UnderWay
  <2>3. CASE t = s
    <3>1. Unheard(c, s)' = (missed[c] + 1) * OfferInterval + 0
      BY <1>1, <1>2, OffersTo DEF Unheard, UnderWay
    <3>2. missed[c] \in Nat /\ sentAge[s] \in Nat /\ sentAge[s] <= OfferInterval
      BY <1>1, WaitTypes
    <3>3. CASE OfferTo(c, s) \in net
      <4>1. sentAge[s] = 0
        <5>1. OfferTo(c, s).entry.type = "offer" /\ OfferTo(c, s).entry.server = s
          BY DEF OfferTo
        <5> QED
          BY <3>3, <5>1 DEF LeasesAreRenewed, OffersAreRecent
      <4>2. Unheard(c, s) = (missed[c] + 1) * OfferInterval + 0
        BY <3>3, <4>1 DEF Unheard, UnderWay
      <4> QED
        BY <1>5, <2>3, <3>1, <4>2
    <3>4. CASE OfferTo(c, s) \notin net
      <4>1. Unheard(c, s) = missed[c] * OfferInterval + sentAge[s]
        <5>1. UnderWay(c, s) = 0 /\ missed[c] + 0 = missed[c]
          BY <3>2, <3>4 DEF UnderWay
        <5> QED
          BY <5>1 DEF Unheard
      <4>2. (missed[c] + 1) * OfferInterval = missed[c] * OfferInterval + OfferInterval
        BY <3>2, Products
      <4>3. missed[c] * OfferInterval \in Nat /\ lease[c] \in Nat
        BY <1>1, <3>2, Products, WaitTypes
      <4> DEFINE heard == missed[c] * OfferInterval
      <4>4. /\ Unheard(c, s)' = heard + OfferInterval + 0
            /\ OfferTtl - lease[c] <= heard + sentAge[s]
            /\ heard \in Nat
        BY <1>5, <2>3, <3>1, <4>1, <4>2, <4>3
      <4> HIDE DEF heard
      <4> QED
        BY <2>3, <3>2, <4>3, <4>4
    <3> QED
      BY <2>3, <3>3, <3>4
  <2> QED
    BY <2>2, <2>3
<1>6. \A c \in Clients, t \in offering' : Renewed(c, t)'
  BY <1>5 DEF LeasesAreRenewed, Renewed
<1> QED
  BY <1>3, <1>4, <1>6 DEF LeasesAreRenewed

\* Whatever else is sent or read, an offer is under way until it is read or lost.
LEMMA WaitingRenews ==
    ASSUME TypeInvariant, LeasesAreRenewed,
           UNCHANGED <<known, lease, missed, since, sentAge>>, offering' \subseteq offering,
           polled' \cap offering' \subseteq polled \cup {t \in Servers : sentAge[t] < OfferInterval},
           \A m \in net \ net' : m.entry.type # "offer",
           \A m \in net' \ net : m.entry.type # "offer"
    PROVE  LeasesAreRenewed'
<1>1. OffersAreRecent'
  BY DEF LeasesAreRenewed, OffersAreRecent
<1>2. PolledHaveOffered'
  BY DEF LeasesAreRenewed, PolledHaveOffered
<1>3. \A c \in Clients, s \in offering' : UnderWay(c, s)' = UnderWay(c, s)
  BY DEF UnderWay, OfferTo
<1>4. \A c \in Clients, s \in offering' : Renewed(c, s)'
  BY <1>3 DEF LeasesAreRenewed, Renewed, Unheard
<1> QED
  BY <1>1, <1>2, <1>4 DEF LeasesAreRenewed

\* A server that ceases to offer owes nobody an offer.
LEMMA CeasingRenews ==
    ASSUME TypeInvariant, LeasesAreRenewed,
           UNCHANGED <<known, lease, missed, sentAge, polled>>, net \subseteq net',
           \A t \in offering' : t \in offering /\ since'[t] = since[t],
           \A m \in net' \ net : m.entry.type # "offer"
    PROVE  LeasesAreRenewed'
<1>1. OffersAreRecent' /\ PolledHaveOffered'
  BY DEF LeasesAreRenewed, OffersAreRecent, PolledHaveOffered
<1>2. \A c \in Clients, s \in offering' : UnderWay(c, s)' = UnderWay(c, s)
  BY DEF UnderWay, OfferTo
<1>3. \A c \in Clients, s \in offering' : Renewed(c, s)'
  BY <1>2 DEF LeasesAreRenewed, Renewed, Unheard
<1> QED
  BY <1>1, <1>3 DEF LeasesAreRenewed

LEMMA ServerRenews ==
    ASSUME Prompt, TypeInvariant, LeasesAreRenewed, NEW s \in Servers, ServerStep(s)
    PROVE  LeasesAreRenewed'
<1>1. UNCHANGED <<known, lease, missed>>
  BY DEF ServerStep, Offer, StopOffer, ServerPoll, Crash, Restart, AnswerFind, clients
<1>2. CASE Offer(s)
  <2>1. /\ offering' = offering \cup {s} /\ polled' = polled /\ net' = net \cup OfferBy(s)
        /\ since' = [since EXCEPT ![s] = 0] /\ sentAge' = [sentAge EXCEPT ![s] = 0]
    BY <1>2 DEF Offer, Since, CanFail
  <2>2. \A t \in Servers : /\ sentAge'[t] = IF t = s THEN 0 ELSE sentAge[t]
                           /\ since'[t] = IF t = s THEN 0 ELSE since[t]
    BY <2>1 DEF TypeInvariant
  <2>3. OffersAreRecent'
    <3> SUFFICES ASSUME NEW m \in net', m.entry.type = "offer"
                 PROVE  sentAge'[m.entry.server] = 0
      BY DEF OffersAreRecent
    <3>1. CASE m \in OfferBy(s)
      BY <2>2, <3>1, OnlyOffersOf
    <3>2. CASE m \in net
      BY <2>2, <3>2, OffersHaveServers DEF LeasesAreRenewed, OffersAreRecent
    <3> QED
      BY <2>1, <3>1, <3>2
  <2>4. PolledHaveOffered'
    BY <2>1, <2>2 DEF LeasesAreRenewed, PolledHaveOffered, TypeInvariant
  <2>5. ASSUME NEW c \in Clients, NEW t \in offering', t # s
        PROVE  Renewed(c, t)'
    <3>1. t \in offering /\ t \in Servers
      BY <2>1, <2>5 DEF TypeInvariant
    <3>2. OfferTo(c, t) \in net' <=> OfferTo(c, t) \in net
      BY <2>1, <2>5, <3>1, OffersTo
    <3>3. UnderWay(c, t)' = UnderWay(c, t)
      BY <3>2 DEF UnderWay, OfferTo
    <3> QED
      BY <1>1, <2>2, <2>5, <3>1, <3>3 DEF LeasesAreRenewed, Renewed, Unheard
  <2>6. ASSUME NEW c \in Clients PROVE Renewed(c, s)'
    BY <1>1, <2>2, WaitTypes DEF Renewed
  <2> QED
    BY <2>3, <2>4, <2>5, <2>6 DEF LeasesAreRenewed
<1>3. CASE StopOffer(s)
  <2>1. /\ offering' = offering \ {s} /\ polled' = polled /\ net' = net \cup StopBy(s)
        /\ since' = [since EXCEPT ![s] = 0] /\ sentAge' = sentAge
    BY <1>3 DEF StopOffer, Since, CanFail
  <2>2. \A m \in net' \ net : m.entry.type # "offer"
    BY <2>1, OnlyOffersOf
  <2>3. \A t \in offering' : t \in offering /\ since'[t] = since[t]
    BY <2>1 DEF TypeInvariant
  <2> QED
    BY <1>1, <2>1, <2>2, <2>3, CeasingRenews
<1>4. CASE Crash(s)
  <2>1. /\ offering' = offering \ {s} /\ polled' = polled /\ net' = net /\ sentAge' = sentAge
        /\ since' = since \/ since' = [since EXCEPT ![s] = 0]
    BY <1>4 DEF Crash, Since
  <2>2. \A t \in offering' : t \in offering /\ since'[t] = since[t]
    BY <2>1 DEF TypeInvariant
  <2> QED
    BY <1>1, <2>1, <2>2, CeasingRenews
<1>5. CASE Restart(s)
  <2>1. UNCHANGED <<offering, sentAge, since, net, polled>>
    BY <1>5 DEF Restart
  <2> QED
    BY <1>1, <2>1, CeasingRenews
<1>6. CASE ServerPoll(s)
  <2>1. UNCHANGED <<offering, since>> /\ polled' = polled \cup {s}
    BY <1>6 DEF ServerPoll, Polled
  <2>2. CASE s \in offering /\ sentAge[s] >= OfferInterval
    <3>1. net' = net \cup OfferBy(s) /\ sentAge' = [sentAge EXCEPT ![s] = 0]
      BY <1>6, <2>2 DEF ServerPoll, SendOffer, CanFail
    <3> QED
      BY <1>1, <2>1, <2>2, <3>1, SendingRenews
  <2>3. CASE ~(s \in offering /\ sentAge[s] >= OfferInterval)
    <3>1. net' = net /\ sentAge' = sentAge
      BY <1>6, <2>3 DEF ServerPoll
    <3>2. s \in offering => sentAge[s] < OfferInterval
      BY <2>3, TimesAssumption DEF TypeInvariant
    <3> QED
      BY <1>1, <2>1, <3>1, <3>2, WaitingRenews
  <2> QED
    BY <2>2, <2>3
<1>7. ASSUME NEW m \in net, AnswerFind(s, m)
      PROVE  LeasesAreRenewed'
  <2>1. UNCHANGED <<offering, since, polled>> /\ m.entry.type = "find"
    BY <1>7 DEF AnswerFind
  <2>2. Remaining(m) = {net \ {m}}
    BY DEF Remaining
  <2>3. CASE s \in offering
    <3>1. net' = (net \ {m}) \cup OfferBy(s) /\ sentAge' = [sentAge EXCEPT ![s] = 0]
      BY <1>7, <2>2, <2>3 DEF AnswerFind, CanFail
    <3>2. \A n \in net \ (net \ {m}) : n.entry.type # "offer"
      BY <2>1
    <3> QED
      BY <1>1, <2>1, <2>3, <3>1, <3>2, SendingRenews
  <2>4. CASE s \notin offering
    <3>1. net' = net \ {m} /\ sentAge' = sentAge
      BY <1>7, <2>2, <2>4 DEF AnswerFind
    <3> QED
      BY <1>1, <2>1, <3>1, WaitingRenews
  <2> QED
    BY <2>3, <2>4
<1> QED
  BY <1>2, <1>3, <1>4, <1>5, <1>6, <1>7 DEF ServerStep

LEMMA ClientRenews ==
    ASSUME Prompt, TypeInvariant, LeasesAreRenewed, NEW c \in Clients, ClientStep(c)
    PROVE  LeasesAreRenewed'
<1>1. UNCHANGED <<offering, since, sentAge>> /\ offering \subseteq Servers
  BY DEF ClientStep, Find, CancelFind, ClientPoll, ReadSd, servers, TypeInvariant
<1>2. CASE Find(c) \/ CancelFind(c)
  <2>1. UNCHANGED <<known, lease, missed, net, polled>>
    BY <1>2 DEF Find, CancelFind
  <2> QED
    BY <1>1, <2>1, WaitingRenews
<1>3. CASE ClientPoll(c)
  <2>1. /\ net' = net \/ net' = net \cup Finding
        /\ polled' = polled \cup {c} /\ lease' = lease /\ missed' = missed
        /\ known' = [known EXCEPT ![c] = IF Expired(c) THEN None ELSE @]
    BY <1>3 DEF ClientPoll, ExpireLeases, RepeatFinds, Polled, CanFail
  <2>2. \A d \in Clients, s \in Servers : known'[d] = s => known[d] = s
    BY <2>1 DEF TypeInvariant
  <2>3. \A d \in Clients, s \in Servers : OfferTo(d, s) \in net' <=> OfferTo(d, s) \in net
    BY <2>1, OffersTo
  <2>4. \A d \in Clients, s \in offering : UnderWay(d, s)' = UnderWay(d, s)
    BY <1>1, <2>3 DEF UnderWay, OfferTo
  <2>5. \A d \in Clients, s \in offering' : Renewed(d, s)'
    BY <1>1, <2>1, <2>2, <2>4 DEF LeasesAreRenewed, Renewed, Unheard
  <2>6. OffersAreRecent'
    BY <1>1, <2>1, OnlyFinds DEF LeasesAreRenewed, OffersAreRecent
  <2>7. c \notin offering
    BY <1>1
  <2>8. PolledHaveOffered'
    BY <1>1, <2>1, <2>7 DEF LeasesAreRenewed, PolledHaveOffered
  <2> QED
    BY <2>5, <2>6, <2>8 DEF LeasesAreRenewed
<1>4. ASSUME NEW m \in net, ReadSd(c, m)
      PROVE  LeasesAreRenewed'
  <2>1. m.to = c /\ net' = net \ {m} /\ polled' = polled
    BY <1>4 DEF ReadSd, Remaining
  <2>2. OffersAreRecent' /\ PolledHaveOffered'
    BY <1>1, <2>1 DEF LeasesAreRenewed, OffersAreRecent, PolledHaveOffered
  <2>3. \A d \in Clients \ {c} :
           known'[d] = known[d] /\ lease'[d] = lease[d] /\ missed'[d] = missed[d]
    BY ZenonT(60), <1>4 DEF ReadSd, ObserveOffer, ObserveStop, TypeInvariant
  <2>4. ASSUME NEW d \in Clients, d # c, NEW s \in offering
        PROVE  Renewed(d, s)'
    <3>1. OfferTo(d, s) # m
      <4>1. OfferTo(d, s).to = d
        BY DEF OfferTo
      <4> QED
        BY <2>1, <2>4, <4>1
    <3>2. UnderWay(d, s)' = UnderWay(d, s)
      BY <2>1, <3>1 DEF UnderWay, OfferTo
    <3> QED
      BY <1>1, <2>3, <2>4, <3>2 DEF LeasesAreRenewed, Renewed, Unheard
  <2>5. ASSUME NEW s \in offering
        PROVE  Renewed(c, s)'
    <3>1. known'[c] = None \/ lease'[c] = OfferTtl
      BY ZenonT(60), <1>4 DEF ReadSd, ObserveOffer, ObserveStop, TypeInvariant
    <3>2. Unheard(c, s)' \in Nat
      <4>1. TypeInvariant'
        BY <1>4, ClientTypes DEF ClientStep
      <4>2. missed'[c] \in Nat /\ sentAge'[s] \in Nat /\ UnderWay(c, s)' \in Nat
        BY <1>1, <4>1 DEF TypeInvariant, UnderWay
      <4>3. missed'[c] + UnderWay(c, s)' \in Nat
        BY <4>2
      <4>4. (missed'[c] + UnderWay(c, s)') * OfferInterval \in Nat
        BY <4>3, Products
      <4> QED
        BY <4>2, <4>4 DEF Unheard
    <3>3. OfferTtl \in Nat /\ s # None
      BY <1>1
    <3> QED
      BY <3>1, <3>2, <3>3 DEF Renewed
  <2> QED
    BY <1>1, <2>2, <2>4, <2>5 DEF LeasesAreRenewed
<1> QED
  BY <1>2, <1>3, <1>4 DEF ClientStep

LEMMA TickRenews ==
    ASSUME Prompt, TypeInvariant, Outlived, LeasesAreRenewed, Tick
    PROVE  LeasesAreRenewed'
<1>1. /\ net = {} /\ net' = {} /\ polled' = {} /\ Clients \cup up \subseteq polled
      /\ UNCHANGED <<offering, known, missed>>
  BY DEF Tick
<1>2. ASSUME NEW c \in Clients, NEW s \in offering, known[c] = s
      PROVE  Renewed(c, s)'
  <2>1. s \in Servers /\ s # None /\ s \in polled
    BY <1>1 DEF TypeInvariant
  <2>2. sentAge[s] < OfferInterval /\ lease[c] # 0
    BY <1>1, <1>2, <2>1 DEF LeasesAreRenewed, PolledHaveOffered, Outlived
  <2>3. /\ lease'[c] = lease[c] - 1 /\ sentAge'[s] = LeastOf(sentAge[s] + 1, OfferInterval)
        /\ since'[s] = LeastOf(since[s] + 1, OfferTtl + 1)
    BY <2>1, <2>2 DEF Tick
  <2>4. UnderWay(c, s) = 0 /\ UnderWay(c, s)' = 0 /\ missed'[c] = missed[c]
    BY <1>1 DEF UnderWay
  <2>5. /\ sentAge[s] \in Nat /\ since[s] \in Nat /\ lease[c] \in Nat /\ missed[c] \in Nat
        /\ OfferInterval \in Nat /\ OfferTtl \in Nat
    BY <2>1, WaitTypes
  <2> DEFINE heard == (missed[c] + 0) * OfferInterval
  <2>6. Unheard(c, s) = heard + sentAge[s] /\ Unheard(c, s)' = heard + sentAge'[s]
    BY <2>4 DEF Unheard
  <2>7. heard \in Nat
    BY <2>5, Products
  <2> HIDE DEF heard
  <2>8. sentAge'[s] = sentAge[s] + 1 /\ since'[s] <= since[s] + 1 /\ since'[s] \in Nat
    BY <2>2, <2>3, <2>5 DEF LeastOf
  <2>9. \/ lease[c] + since[s] <= OfferTtl
        \/ OfferTtl - lease[c] <= heard + sentAge[s]
    BY <1>2, <2>6 DEF LeasesAreRenewed, Renewed
  <2>10. \/ lease'[c] + since'[s] <= OfferTtl
         \/ OfferTtl - lease'[c] <= heard + sentAge'[s]
    BY <2>3, <2>5, <2>7, <2>8, <2>9
  <2> QED
    BY <2>6, <2>10 DEF Renewed
<1>3. \A c \in Clients, s \in offering' : Renewed(c, s)'
  BY <1>1, <1>2 DEF Renewed
<1> QED
  BY <1>1, <1>3 DEF LeasesAreRenewed, OffersAreRecent, PolledHaveOffered

\* A loss is counted: the offer is no longer under way, and has been missed.
LEMMA LossRenews ==
    ASSUME Prompt, TypeInvariant, LeasesAreRenewed, NEW m \in net, Lose(m)
    PROVE  LeasesAreRenewed'
<1>1. /\ UNCHANGED <<known, lease, since, sentAge, offering, polled>> /\ net' = net \ {m}
      /\ missed' = [missed EXCEPT ![m.to] = @ + 1]
  BY DEF Lose, servers, clients
<1>2. OffersAreRecent' /\ PolledHaveOffered'
  BY <1>1 DEF LeasesAreRenewed, OffersAreRecent, PolledHaveOffered
<1>3. ASSUME NEW c \in Clients, NEW s \in offering
      PROVE  Unheard(c, s) <= Unheard(c, s)'
  <2>1. s \in Servers
    BY DEF TypeInvariant
  <2>2. /\ missed[c] \in Nat /\ UnderWay(c, s) \in {0, 1} /\ sentAge[s] \in Nat
    BY <2>1, WaitTypes
  <2>3. missed[c] + UnderWay(c, s) <= missed'[c] + UnderWay(c, s)'
        /\ missed'[c] + UnderWay(c, s)' \in Nat
    <3>1. CASE m = OfferTo(c, s)
      <4>1. m.to = c
        BY <3>1 DEF OfferTo
      <4>2. missed'[c] = missed[c] + 1
        BY <1>1, <4>1 DEF TypeInvariant
      <4>3. UnderWay(c, s)' = 0
        BY <1>1, <3>1 DEF UnderWay, OfferTo
      <4> QED
        BY <2>2, <4>2, <4>3
    <3>2. CASE m # OfferTo(c, s)
      <4>1. UnderWay(c, s)' = UnderWay(c, s)
        BY <1>1, <3>2 DEF UnderWay, OfferTo
      <4>2. missed'[c] \in {missed[c], missed[c] + 1}
        BY <1>1 DEF TypeInvariant
      <4> QED
        BY <2>2, <4>1, <4>2
    <3> QED
      BY <3>1, <3>2
  <2>4. missed[c] + UnderWay(c, s) \in Nat
    BY <2>2
  <2> DEFINE before == (missed[c] + UnderWay(c, s)) * OfferInterval
             after == (missed'[c] + UnderWay(c, s)') * OfferInterval
  <2>5. before <= after /\ before \in Nat /\ after \in Nat
    BY <2>3, <2>4, Products
  <2>6. Unheard(c, s) = before + sentAge[s] /\ Unheard(c, s)' = after + sentAge[s]
    BY <1>1 DEF Unheard
  <2> HIDE DEF before, after
  <2> QED
    BY <2>2, <2>5, <2>6
<1>4. ASSUME NEW c \in Clients, NEW s \in offering
      PROVE  Renewed(c, s)'
  <2>1. /\ Unheard(c, s) \in Nat /\ lease[c] \in Nat
    BY WaitTypes DEF TypeInvariant
  <2>2. Unheard(c, s)' \in Nat /\ OfferTtl \in Nat
    <3>1. /\ missed'[c] \in Nat /\ UnderWay(c, s)' \in Nat /\ sentAge[s] \in Nat
      BY <1>1 DEF TypeInvariant, UnderWay
    <3>2. missed'[c] + UnderWay(c, s)' \in Nat
      BY <3>1
    <3>3. (missed'[c] + UnderWay(c, s)') * OfferInterval \in Nat
      BY <3>2, Products
    <3> QED
      BY <1>1, <3>1, <3>3 DEF Unheard
  <2> QED
    BY <1>1, <1>3, <1>4, <2>1, <2>2 DEF LeasesAreRenewed, Renewed
<1> QED
  BY <1>1, <1>2, <1>4 DEF LeasesAreRenewed

LEMMA RenewalBegins == Init => LeasesAreRenewed
BY DEF Init, LeasesAreRenewed, OffersAreRecent, PolledHaveOffered

LEMMA RenewalKept ==
    ASSUME Prompt, TypeInvariant, Outlived, LeasesAreRenewed, [Next]_vars
    PROVE  LeasesAreRenewed'
<1>1. CASE UNCHANGED vars
  <2>1. UNCHANGED <<known, lease, missed, since, sentAge, offering, polled, net>>
    BY <1>1 DEF vars, servers, clients
  <2> QED
    BY <2>1, WaitingRenews
<1> QED
  BY <1>1, ServerRenews, ClientRenews, TickRenews, LossRenews DEF Next

\* No lease runs out that offers renew, if it is longer than the intervals a
\* client can be without one.
LEMMA NoLiveServerExpires ==
    ASSUME OfferTtl > (MaxLosses + 1) * OfferInterval,
           TypeInvariant, LeasesAreRenewed
    PROVE  LeaseHolds
<1> SUFFICES ASSUME NEW c \in Clients, Expired(c), known[c] \in offering,
                    ~(since[known[c]] <= OfferTtl)
             PROVE  FALSE
  BY DEF LeaseHolds
<1>1. PICK s \in offering : s = known[c]
  OBVIOUS
<1>2. s \in Servers
  BY DEF TypeInvariant
<1>3. /\ UnderWay(c, s) \in {0, 1} /\ missed[c] \in Nat /\ missed[c] <= MaxLosses
      /\ sentAge[s] \in Nat /\ sentAge[s] <= OfferInterval /\ since[s] \in Nat
      /\ lease[c] \in Nat /\ OfferTtl \in Nat /\ MaxLosses \in Nat /\ OfferInterval \in Nat
  BY <1>2, WaitTypes
<1>4. lease[c] = 0 /\ ~(since[s] <= OfferTtl)
  BY <1>1, <1>3 DEF Expired
<1>5. OfferTtl <= Unheard(c, s)
  <2>1. OfferTtl - lease[c] <= Unheard(c, s)
    BY <1>1, <1>3, <1>4 DEF LeasesAreRenewed, Renewed
  <2> QED
    BY <1>3, <1>4, <2>1
<1>6. /\ (MaxLosses + 1) * OfferInterval = MaxLosses * OfferInterval + OfferInterval
      /\ (missed[c] + 1) * OfferInterval = missed[c] * OfferInterval + OfferInterval
      /\ missed[c] * OfferInterval <= MaxLosses * OfferInterval
      /\ missed[c] * OfferInterval \in Nat /\ MaxLosses * OfferInterval \in Nat
  BY <1>3, Products
<1>7. Unheard(c, s) <= missed[c] * OfferInterval + OfferInterval
  <2>1. CASE UnderWay(c, s) = 1
    <3>1. OfferTo(c, s) \in net /\ OfferTo(c, s).entry.type = "offer"
          /\ OfferTo(c, s).entry.server = s
      BY <2>1 DEF UnderWay, OfferTo
    <3>2. sentAge[s] = 0
      BY <3>1 DEF LeasesAreRenewed, OffersAreRecent
    <3>3. Unheard(c, s) = missed[c] * OfferInterval + OfferInterval + 0
      BY <1>6, <2>1, <3>2 DEF Unheard
    <3> QED
      BY <1>3, <1>6, <3>3
  <2>2. CASE UnderWay(c, s) = 0
    <3>1. missed[c] + 0 = missed[c]
      BY <1>3
    <3>2. Unheard(c, s) = missed[c] * OfferInterval + sentAge[s]
      BY <2>2, <3>1 DEF Unheard
    <3> QED
      BY <1>3, <1>6, <3>2
  <2> QED
    BY <1>3, <2>1, <2>2
<1> DEFINE most == MaxLosses * OfferInterval
           heard == missed[c] * OfferInterval
<1>8. /\ OfferTtl > most + OfferInterval /\ heard <= most /\ heard \in Nat /\ most \in Nat
      /\ OfferTtl <= Unheard(c, s) /\ Unheard(c, s) <= heard + OfferInterval
      /\ Unheard(c, s) \in Nat
  BY <1>2, <1>5, <1>6, <1>7, WaitTypes
<1> HIDE DEF most, heard
<1> QED
  BY <1>3, <1>8

\* A server that has been offering for a whole lease is never dropped, for all
\* sets of clients and servers, although so many of its offers to a client in a
\* row may be lost, if the lease outlasts one interval more (runtime.cpp:383).
THEOREM LiveServersStay ==
    ASSUME Prompt, OfferTtl > (MaxLosses + 1) * OfferInterval
    PROVE  Spec => LiveServerKept
BY InitTypes, TypesKept, LeasesBegin, LeasesKept, RenewalBegins, RenewalKept, NoLiveServerExpires,
   PTL DEF Spec, LiveServerKept
=============================================================================
