---------------------------- MODULE Proxy_proofs ----------------------------
(***************************************************************************)
(* For any number of calls, endpoints and sessions, any max_pending and    *)
(* any timeout, and whatever the application does in its handlers and the  *)
(* server, the network and the registry do between them: the proxy keeps   *)
(* the rules of proxy.hpp, and it implements CallContract.                 *)
(***************************************************************************)
EXTENDS Proxy, FiniteSetTheorems, TLAPS

USE SizesAssumption, NoneAssumption

(***************************************************************************)
(* Types                                                                   *)
(***************************************************************************)
LEMMA SessionsAreFinite == IsFiniteSet(Sessions)
BY FS_Interval DEF Sessions

\* No entry is added to a full table.
LEMMA TableFits ==
    ASSUME TypeInvariant,
           \/ InFlight' \subseteq InFlight
           \/ ~Full /\ \E s \in Sessions : InFlight' = InFlight \cup {s}
    PROVE  Cardinality(InFlight') <= MaxPending
<1>1. IsFiniteSet(InFlight)
  BY SessionsAreFinite, FS_Subset DEF InFlight
<1>2. Cardinality(InFlight) \in Nat /\ Cardinality(InFlight) <= MaxPending
  BY <1>1, FS_CardinalityType DEF TypeInvariant
<1>3. CASE InFlight' \subseteq InFlight
  <2>1. Cardinality(InFlight') <= Cardinality(InFlight) /\ Cardinality(InFlight') \in Nat
    BY <1>1, <1>3, FS_Subset, FS_CardinalityType
  <2> QED
    BY <1>2, <2>1
<1>4. ASSUME ~Full, NEW s \in Sessions, InFlight' = InFlight \cup {s}
      PROVE  Cardinality(InFlight') <= MaxPending
  <2>1. Cardinality(InFlight') \in {Cardinality(InFlight), Cardinality(InFlight) + 1}
    BY <1>1, <1>4, FS_AddElement
  <2>2. Cardinality(InFlight) < MaxPending
    BY <1>2, <1>4 DEF Full
  <2> QED
    BY <1>2, <2>1, <2>2
<1> QED
  BY <1>3, <1>4

LEMMA InitTypes == Init => TypeInvariant
<1> SUFFICES ASSUME Init PROVE TypeInvariant
  OBVIOUS
<1>1. InFlight = {}
  BY DEF Init, InFlight
<1>2. Cardinality(InFlight) <= MaxPending
  BY <1>1, FS_EmptySet
<1>3. pending \in [Sessions -> Calls \cup {None}] /\ age \in [Sessions -> 0 .. Timeout + 1]
  BY DEF Init
<1>4. posted \subseteq Tasks /\ outcome \in [Calls -> Outcomes \cup {None, "Twice", "Stranger"}]
  BY DEF Init, Tasks
<1>5. session \in 0 .. SessionMax /\ read \in 0 .. SdBurst
  BY DEF Init
<1>6. known \in Offers \cup {None} /\ fixed \subseteq {"method", "events"}
  BY ModesAssumption DEF Init
<1> QED
  BY <1>2, <1>3, <1>4, <1>5, <1>6 DEF Init, TypeInvariant

\* Where the handler of a call is put.
LEMMA CallTypes ==
    ASSUME TypeInvariant, NEW c \in Calls, Call(c)
    PROVE  TypeInvariant'
<1>1. /\ issued' \subseteq Calls
      /\ UNCHANGED <<isAvailable, life, events, due, known, loop, inside>>
  BY DEF Call, TypeInvariant
<1>2. ASSUME NEW f \in {"NotAvailable", "Busy", "Malformed"}, PostFailure(c, f),
             session' = session \/ session' = After(session)
      PROVE  TypeInvariant'
  <2>1. [kind |-> "failure", call |-> c, failure |-> f] \in Tasks
    BY DEF Tasks
  <2>2. session' \in 0 .. SessionMax
    BY <1>2 DEF After, TypeInvariant
  <2>3. InFlight' = InFlight
    BY <1>2 DEF PostFailure, InFlight
  <2>4. Cardinality(InFlight') <= MaxPending
    BY <2>3 DEF TypeInvariant
  <2> QED
    BY <1>1, <1>2, <2>1, <2>2, <2>4
       DEF TypeInvariant, PostFailure, life, events, loop, wire
<1>3. CASE ~Full /\ session' = After(session) /\ Send(c, session')
  <2>1. session' \in Sessions /\ session' \in 0 .. SessionMax
    BY <1>3 DEF After, TypeInvariant, Sessions
  <2>2. InFlight' \subseteq InFlight \cup {session'}
    BY <1>3, <2>1 DEF Send, InFlight, TypeInvariant
  <2>3. InFlight' = InFlight \cup {session'}
    BY <1>3, <2>1 DEF Send, InFlight, TypeInvariant
  <2>4. Cardinality(InFlight') <= MaxPending
    BY <1>3, <2>1, <2>3, TableFits
  <2>5. /\ pending' \in [Sessions -> Calls \cup {None}]
        /\ age' \in [Sessions -> 0 .. Timeout + 1]
        /\ requests' \subseteq [session : Sessions, call : Calls]
        /\ replies' \subseteq [session : Sessions, call : Calls]
        /\ UNCHANGED <<posted, outcome>>
    BY <1>3, <2>1 DEF Send, TypeInvariant
  <2> QED
    BY <1>1, <2>1, <2>4, <2>5 DEF TypeInvariant, life, events, loop
<1> QED
  BY <1>2, <1>3 DEF Call

\* Taking an entry out of the table.
LEMMA TakeTypes ==
    ASSUME TypeInvariant, NEW s \in Sessions, Take(s)
    PROVE  /\ pending' \in [Sessions -> Calls \cup {None}]
           /\ age' \in [Sessions -> 0 .. Timeout + 1]
           /\ InFlight' = InFlight \ {s}
           /\ Cardinality(InFlight') <= MaxPending
<1>1. pending' \in [Sessions -> Calls \cup {None}] /\ age' \in [Sessions -> 0 .. Timeout + 1]
  BY DEF Take, TypeInvariant
<1>2. InFlight' = InFlight \ {s}
  BY DEF Take, InFlight, TypeInvariant
<1> QED
  BY <1>1, <1>2, TableFits

\* Where the events are, and the group the proxy is in after following them.
LEMMA FollowingTypes ==
    ASSUME TypeInvariant, NEW r \in Offers \cup {None}, FollowEvents(EventEndpoint(r))
    PROVE  joined' \in Groups \cup {None, "fixed"}
<1>1. EventEndpoint(r) \in Groups \cup {None, "fixed"}
  BY OffersAssumption DEF EventEndpoint
<1> QED
  BY <1>1 DEF FollowEvents, TypeInvariant

\* What hearing of the service changes.
LEMMA HearingTypes ==
    ASSUME TypeInvariant,
           HearsUnavailable \/ \E r \in Offers \cup {None} : HearsAvailable(r)
    PROVE  /\ isAvailable' \in BOOLEAN /\ announce' \in BOOLEAN
           /\ joined' \in Groups \cup {None, "fixed"} /\ batch' \subseteq Sessions
BY FollowingTypes DEF TypeInvariant, HearsUnavailable, HearsAvailable, InFlight

\* The table is as it was.
LEMMA SameTable == ASSUME TypeInvariant, pending' = pending PROVE Cardinality(InFlight') <= MaxPending
BY DEF InFlight, TypeInvariant

LEMMA TypesKept == ASSUME TypeInvariant, [Next]_vars PROVE TypeInvariant'
<1> USE SameTable DEF life, table, events, tasks, loop, wire, ghosts
<1>1. CASE Subscribe
  <2>1. joined' \in Groups \cup {None, "fixed"}
    BY <1>1, FollowingTypes DEF Subscribe, TypeInvariant
  <2> QED
    BY <1>1, <2>1 DEF Subscribe, TypeInvariant
<1>2. CASE OnAvailability
  BY <1>2 DEF OnAvailability, Tasks, TypeInvariant
<1>3. CASE Close
  <2>1. InFlight' = {}
    BY <1>3 DEF Close, InFlight
  <2>2. Cardinality(InFlight') <= MaxPending
    BY <2>1, TableFits
  <2>3. pending' \in [Sessions -> Calls \cup {None}] /\ age' \in [Sessions -> 0 .. Timeout + 1]
    BY <1>3 DEF Close
  <2> QED
    BY <1>3, <2>2, <2>3 DEF Close, TypeInvariant
<1>4. CASE BeginPoll
  BY <1>4 DEF BeginPoll, TypeInvariant
<1>5. ASSUME NEW m \in replies, ReadReply(m)
      PROVE  TypeInvariant'
  <2>1. m.session \in Sessions /\ m.call \in Calls /\ replies' \subseteq [session : Sessions, call : Calls]
    BY <1>5 DEF ReadReply, TypeInvariant
  <2>2. CASE pending[m.session] = None
    BY <1>5, <2>1, <2>2 DEF ReadReply, TypeInvariant
  <2>3. CASE pending[m.session] # None
    <3>1. pending[m.session] \in Calls /\ Take(m.session)
      BY <1>5, <2>1, <2>3 DEF ReadReply, TypeInvariant
    <3>2. outcome' \in [Calls -> Outcomes \cup {None, "Twice", "Stranger"}] /\ inside' \in BOOLEAN
      BY <1>5, <2>3 DEF ReadReply, Deliver, TypeInvariant, Outcomes
    <3> QED
      BY <1>5, <2>1, <3>1, <3>2, TakeTypes DEF ReadReply, TypeInvariant
  <2> QED
    BY <2>2, <2>3
<1>6. CASE FailNext
  <2>1. PICK s \in batch :
          /\ batch' = batch \ {s}
          /\ IF pending[s] = None
             THEN UNCHANGED <<pending, age, outcome, inside>>
             ELSE /\ Take(s)
                  /\ Deliver(pending[s], IF where = "ticks" THEN "Timeout" ELSE "NotAvailable")
    BY <1>6 DEF FailNext
  <2>2. s \in Sessions
    BY DEF TypeInvariant
  <2>3. /\ pending' \in [Sessions -> Calls \cup {None}]
        /\ age' \in [Sessions -> 0 .. Timeout + 1]
        /\ Cardinality(InFlight') <= MaxPending
    BY <2>1, <2>2, TakeTypes DEF TypeInvariant
  <2>4. outcome' \in [Calls -> Outcomes \cup {None, "Twice", "Stranger"}] /\ inside' \in BOOLEAN
    BY <2>1 DEF Deliver, TypeInvariant, Outcomes, Failures
  <2> QED
    BY <1>6, <2>1, <2>3, <2>4 DEF FailNext, TypeInvariant
<1>7. CASE Announce
  BY ZenonT(60), <1>7 DEF Announce, TypeInvariant
<1>8. ASSUME NEW o \in Offers, ReadOffer(o)
      PROVE  TypeInvariant'
  <2>1. read' \in 0 .. SdBurst
    BY <1>8 DEF ReadOffer, TypeInvariant
  <2> QED
    BY <1>8, <2>1, HearingTypes DEF ReadOffer, TypeInvariant
<1>9. CASE ReadStop
  <2>1. read' \in 0 .. SdBurst
    BY <1>9 DEF ReadStop, TypeInvariant
  <2> QED
    BY <1>9, <2>1, HearingTypes DEF ReadStop, TypeInvariant
<1>10. CASE ReadEvent
  <2>1. read' \in 0 .. SdBurst /\ inside' \in BOOLEAN
    BY <1>10 DEF ReadEvent, TypeInvariant
  <2> QED
    BY <1>10, <2>1 DEF ReadEvent, TypeInvariant
<1>11. CASE LeaseExpires
  <2>1. /\ isAvailable' \in BOOLEAN /\ announce' \in BOOLEAN
        /\ joined' \in Groups \cup {None, "fixed"} /\ batch' \subseteq Sessions
    BY <1>11, HearingTypes DEF LeaseExpires
  <2>2. known' \in Offers \cup {None} /\ Cardinality(InFlight') <= MaxPending
    BY <1>11 DEF LeaseExpires
  <2> QED
    BY <1>11, <2>1, <2>2 DEF LeaseExpires, TypeInvariant
<1>12. CASE Return
  BY ZenonT(60), <1>12 DEF Return, TypeInvariant
<1>13. CASE EndDispatch
  BY <1>13 DEF EndDispatch, Proceed, TypeInvariant
<1>14. CASE RunTicks
  BY <1>14 DEF RunTicks, Proceed, Overdue, InFlight, TypeInvariant
<1>15. CASE RunPosted
  BY <1>15 DEF RunPosted, Proceed, TypeInvariant
<1>16. CASE EndPoll
  BY <1>16 DEF EndPoll, Proceed, TypeInvariant
<1>17. ASSUME NEW t \in due, RunTask(t)
       PROVE  TypeInvariant'
  <2>1. t \in Tasks /\ due' \subseteq Tasks
    BY <1>17 DEF RunTask, TypeInvariant
  <2>2. UNCHANGED <<table, life, subscribed, posted, known, where, read, wire, issued>>
    BY <1>17 DEF RunTask
  <2>3. CASE RunFailure(t)
    <3>1. t \in [kind : {"failure"}, call : Calls, failure : {"NotAvailable", "Busy", "Malformed"}]
      BY <2>1, <2>3 DEF RunFailure, Tasks, Announcement, ListenerNews
    <3>2. t.call \in Calls /\ t.failure \in Outcomes
      BY <3>1 DEF Outcomes, Failures
    <3>3. outcome' \in [Calls -> Outcomes \cup {None, "Twice", "Stranger"}] /\ inside' \in BOOLEAN
      BY <2>3, <3>2 DEF RunFailure, Deliver, TypeInvariant
    <3> QED
      BY <2>1, <2>2, <2>3, <3>3 DEF RunFailure, TypeInvariant
  <2>4. CASE RunAnnouncement(t)
    <3>1. UNCHANGED <<outcome, inside>>
      BY <2>4 DEF RunAnnouncement
    <3>2. /\ isAvailable' \in BOOLEAN /\ announce' \in BOOLEAN
          /\ joined' \in Groups \cup {None, "fixed"} /\ batch' \subseteq Sessions
      BY <2>4, HearingTypes DEF RunAnnouncement, TypeInvariant
    <3> QED
      BY <2>1, <2>2, <3>1, <3>2 DEF TypeInvariant
  <2>5. CASE RunListener(t)
    BY <2>1, <2>2, <2>5 DEF RunListener, TypeInvariant
  <2> QED
    BY <1>17, <2>3, <2>4, <2>5 DEF RunTask
<1>18. ASSUME NEW m \in requests, Answer(m)
       PROVE  TypeInvariant'
  BY <1>18 DEF Answer, TypeInvariant
<1>19. CASE Lose
  BY <1>19 DEF Lose, TypeInvariant
<1>20. CASE Tick
  <2>1. age' \in [Sessions -> 0 .. Timeout + 1]
    BY <1>20 DEF Tick, TypeInvariant
  <2> QED
    BY <1>20, <2>1 DEF Tick, TypeInvariant
<1>21. CASE UNCHANGED vars
  BY <1>21 DEF vars, TypeInvariant
<1> QED
  BY <1>1, <1>2, <1>3, <1>4, <1>5, <1>6, <1>7, <1>8, <1>9, <1>10, <1>11, <1>12, <1>13, <1>14,
     <1>15, <1>16, <1>17, <1>18, <1>19, <1>20, <1>21, CallTypes
     DEF Next, Application, Dispatch, Continue, Environment

\* Every variable has its type, and no more than max_pending calls are ever in
\* the table (rule 4 of proxy.hpp; proxy.cpp:172).
THEOREM TypesAreRight == Spec => []TypeInvariant
BY InitTypes, TypesKept, PTL DEF Spec

(***************************************************************************)
(* Where handlers are held                                                 *)
(***************************************************************************)
Nowhere(c) == Waiting(c) = {} /\ Failing(c) = {}

Somewhere(c) ==
    \/ Failing(c) = {} /\ \E s \in Sessions : Waiting(c) = {s}
    \/ Waiting(c) = {} /\ \E t \in Tasks : Failing(c) = {t}

Open(c) == c \in issued /\ outcome[c] = None

OnePlace ==
    ~closed => \A c \in Calls :
                  /\ Open(c) => Somewhere(c)
                  /\ ~Open(c) => Nowhere(c)
                  /\ c \notin issued => outcome[c] = None

\* A failure is posted once, and run by the run_posted() that took it.
PostedOnce ==
    /\ where # "tasks" => due = {}
    /\ \A t \in posted \cap due : t.kind # "failure"

\* close() leaves nothing for the loops it is called from.
NothingLeft == closed => InFlight = {} /\ batch = {} /\ ~subscribed

\* A datagram carries the session of the call it belongs to, or of none.
Addressed == \A m \in requests \cup replies : pending[m.session] \in {None, m.call}

Bookkeeping == OnePlace /\ PostedOnce /\ NothingLeft /\ Addressed

\* The steps that neither make nor complete a call.
Aside ==
    \/ Subscribe \/ OnAvailability \/ BeginPoll
    \/ \E o \in Offers : ReadOffer(o)
    \/ ReadStop \/ ReadEvent \/ LeaseExpires \/ Return \/ Announce
    \/ EndDispatch \/ RunTicks \/ EndPoll
    \/ Environment \/ UNCHANGED vars

LEMMA Steps ==
    ASSUME [Next]_vars
    PROVE  \/ Aside
           \/ \E c \in Calls : Call(c)
           \/ Close
           \/ \E m \in replies : ReadReply(m)
           \/ FailNext
           \/ RunPosted
           \/ \E t \in due : RunTask(t)
BY DEF Next, Application, Dispatch, Continue, Aside

LEMMA AsideKeeps ==
    ASSUME TypeInvariant, Aside
    PROVE  /\ UNCHANGED <<pending, issued, outcome, closed, due>>
           /\ posted' \in {posted, posted \cup {ListenerNews}}
           /\ where' # "tasks" => where # "tasks" \/ due = {}
           /\ requests' \cup replies' \subseteq requests \cup replies
           /\ NothingLeft => NothingLeft'
<1> USE DEF life, table, events, tasks, loop, wire, ghosts
<1>1. CASE Subscribe \/ OnAvailability
  BY <1>1 DEF Subscribe, OnAvailability, AppRuns, NothingLeft, InFlight
<1>2. CASE BeginPoll \/ ReadEvent \/ Return \/ Announce
  BY <1>2 DEF BeginPoll, ReadEvent, Return, Announce, NothingLeft, InFlight
<1>3. CASE \/ \E o \in Offers : ReadOffer(o)
           \/ ReadStop \/ LeaseExpires
  <2>1. /\ UNCHANGED <<pending, issued, outcome, closed, due, posted, where, requests, replies, subscribed>>
        /\ batch' = batch \/ ~closed
    BY <1>3 DEF ReadOffer, ReadStop, LeaseExpires, HearsAvailable, HearsUnavailable, Hears
  <2> QED
    BY <2>1 DEF NothingLeft, InFlight
<1>4. CASE EndDispatch \/ RunTicks \/ EndPoll
  <2>1. /\ UNCHANGED <<pending, issued, outcome, closed, due, posted, requests, replies, subscribed>>
        /\ where' # "tasks" => where # "tasks" \/ due = {}
        /\ batch' = batch \/ batch' \subseteq InFlight
    BY <1>4 DEF EndDispatch, RunTicks, EndPoll, Proceed, Overdue
  <2> QED
    BY <2>1 DEF NothingLeft, InFlight
<1>5. CASE Environment \/ UNCHANGED vars
  BY <1>5 DEF Environment, Answer, Lose, Tick, vars, NothingLeft, InFlight
<1> QED
  BY <1>1, <1>2, <1>3, <1>4, <1>5 DEF Aside

LEMMA NewsIsNoFailure == ListenerNews.kind # "failure" /\ Announcement.kind # "failure"
BY DEF ListenerNews, Announcement

\* A step that moves no handler.
LEMMA PlacesFrame ==
    ASSUME OnePlace, UNCHANGED <<issued, outcome, closed>>,
           \A c \in Calls : Waiting(c)' = Waiting(c) /\ Failing(c)' = Failing(c)
    PROVE  OnePlace'
BY DEF OnePlace, Open, Somewhere, Nowhere

\* The handler of a call that was held in one place is run and gone.
LEMMA PlacesAnswered ==
    ASSUME TypeInvariant, OnePlace, UNCHANGED <<issued, closed>>,
           NEW c \in Calls, c \in issued, NEW o, o # None, outcome' = [outcome EXCEPT ![c] = o],
           Nowhere(c)',
           \A d \in Calls \ {c} : Waiting(d)' = Waiting(d) /\ Failing(d)' = Failing(d)
    PROVE  OnePlace'
<1> SUFFICES ASSUME ~closed, NEW d \in Calls
             PROVE  /\ Open(d)' => Somewhere(d)'
                    /\ ~Open(d)' => Nowhere(d)'
                    /\ d \notin issued' => outcome'[d] = None
  BY DEF OnePlace
<1>1. CASE d = c
  <2>1. outcome'[c] = o
    BY DEF TypeInvariant
  <2> QED
    BY <1>1, <2>1 DEF Open
<1>2. CASE d # c
  <2>1. outcome'[d] = outcome[d]
    BY <1>2 DEF TypeInvariant
  <2> QED
    BY <1>2, <2>1 DEF OnePlace, Open, Somewhere, Nowhere
<1> QED
  BY <1>1, <1>2

\* An entry that is taken from the table was the only place of its call.
LEMMA TakenOnce ==
    ASSUME TypeInvariant, OnePlace, ~closed, NEW s \in Sessions, pending[s] # None, Take(s),
           UNCHANGED <<posted, due, issued, closed>>,
           NEW o \in Outcomes \cup {"Stranger"}, Deliver(pending[s], o)
    PROVE  /\ OnePlace'
           /\ Open(pending[s])
           /\ outcome' = [outcome EXCEPT ![pending[s]] = o]
<1>0. PICK c \in Calls : c = pending[s]
  BY DEF TypeInvariant
<1>1. s \in Waiting(c) /\ c # None
  BY <1>0 DEF Waiting
<1>2. Open(c) /\ Waiting(c) = {s} /\ Failing(c) = {}
  BY <1>1 DEF OnePlace, Nowhere, Somewhere
<1>3. outcome' = [outcome EXCEPT ![c] = o] /\ o # None
  BY <1>0, <1>2 DEF Deliver, Open
<1>4. \A x \in Sessions : pending'[x] = IF x = s THEN None ELSE pending[x]
  BY DEF Take, TypeInvariant
<1>5. \A d \in Calls : Waiting(d)' = Waiting(d) \ {s} /\ Failing(d)' = Failing(d)
  BY <1>4 DEF Waiting, Failing
<1>6. Nowhere(c)'
  BY <1>1, <1>2, <1>5 DEF Nowhere
<1>7. \A d \in Calls \ {c} : s \notin Waiting(d)
  BY <1>0 DEF Waiting
<1>8. ASSUME NEW d \in Calls \ {c}
      PROVE  Waiting(d)' = Waiting(d) /\ Failing(d)' = Failing(d)
  <2>1. Waiting(d)' = Waiting(d) \ {s} /\ Failing(d)' = Failing(d)
    BY <1>5
  <2>2. s \notin Waiting(d)
    BY <1>7
  <2> QED
    BY <2>1, <2>2
<1>9. c \in issued
  BY <1>2 DEF Open
<1>10. OnePlace'
  BY <1>3, <1>6, <1>8, <1>9, PlacesAnswered
<1> QED
  BY <1>0, <1>2, <1>3, <1>10

\* A failure that is run was the only place of its call.
LEMMA RunOnce ==
    ASSUME TypeInvariant, OnePlace, PostedOnce, ~closed, NEW t \in due, t.kind = "failure",
           due' = due \ {t}, UNCHANGED <<pending, posted, issued, closed>>,
           Deliver(t.call, t.failure)
    PROVE  /\ OnePlace'
           /\ Open(t.call)
           /\ outcome' = [outcome EXCEPT ![t.call] = t.failure]
           /\ t.call \in Calls /\ t.failure \in Outcomes
<1>1. t \in [kind : {"failure"}, call : Calls, failure : {"NotAvailable", "Busy", "Malformed"}]
  BY DEF TypeInvariant, Tasks, ListenerNews, Announcement
<1>2. t.call \in Calls /\ t.failure \in Outcomes
  BY <1>1 DEF Outcomes, Failures
<1>0. PICK c \in Calls : c = t.call
  BY <1>2
<1>3. t \in Failing(c)
  BY <1>0 DEF Failing
<1>4. Open(c) /\ Waiting(c) = {} /\ Failing(c) = {t}
  BY <1>2, <1>3 DEF OnePlace, Nowhere, Somewhere
<1>5. outcome' = [outcome EXCEPT ![c] = t.failure] /\ t.failure # None
  BY <1>0, <1>2, <1>4 DEF Deliver, Open
<1>6. t \notin posted
  BY DEF PostedOnce
<1>7. \A d \in Calls : Waiting(d)' = Waiting(d) /\ Failing(d)' = Failing(d) \ {t}
  BY <1>6 DEF Waiting, Failing
<1>8. Nowhere(c)'
  BY <1>2, <1>4, <1>7 DEF Nowhere
<1>9. \A d \in Calls \ {c} : t \notin Failing(d)
  BY <1>0 DEF Failing
<1>10. \A d \in Calls \ {c} : Waiting(d)' = Waiting(d) /\ Failing(d)' = Failing(d)
  BY <1>7, <1>9
<1>11. c \in issued
  BY <1>4 DEF Open
<1>12. OnePlace'
  BY <1>5, <1>8, <1>10, <1>11, PlacesAnswered
<1> QED
  BY <1>0, <1>2, <1>4, <1>5, <1>12

LEMMA CallHeld ==
    ASSUME TypeInvariant, Bookkeeping, NEW c \in Calls, Call(c)
    PROVE  Bookkeeping'
<1>1. ~closed /\ c \notin issued /\ issued' = issued \cup {c}
  BY DEF Call, AppRuns
<1>2. UNCHANGED <<closed, due, where, batch, subscribed, outcome>>
  BY DEF Call, PostFailure, Send, life, events, loop
<1>3. Nowhere(c) /\ outcome[c] = None
  BY <1>1 DEF Bookkeeping, OnePlace, Open
<1>4. ASSUME NEW f \in {"NotAvailable", "Busy", "Malformed"}, PostFailure(c, f)
      PROVE  Bookkeeping'
  <2> DEFINE t == [kind |-> "failure", call |-> c, failure |-> f]
  <2>1. posted' = posted \cup {t} /\ UNCHANGED <<pending, requests, replies>>
    BY <1>4 DEF PostFailure, wire
  <2>2. t \in Tasks /\ t.kind = "failure" /\ t.call = c
    BY DEF Tasks
  <2> HIDE DEF t
  <2>3. t \notin posted \cup due
    BY <1>3, <2>2 DEF Nowhere, Failing
  <2>4. Failing(c)' = {t} /\ Waiting(c)' = {}
    BY <1>2, <1>3, <2>1, <2>2 DEF Nowhere, Failing, Waiting
  <2>5. ASSUME NEW d \in Calls \ {c}
        PROVE  Waiting(d)' = Waiting(d) /\ Failing(d)' = Failing(d)
    BY <1>2, <2>1, <2>2 DEF Failing, Waiting
  <2>6. OnePlace'
    <3> SUFFICES ASSUME NEW d \in Calls
                 PROVE  /\ Open(d)' => Somewhere(d)'
                        /\ ~Open(d)' => Nowhere(d)'
                        /\ d \notin issued' => outcome'[d] = None
      BY DEF OnePlace
    <3>1. CASE d = c
      BY <1>1, <1>2, <1>3, <2>2, <2>4, <3>1 DEF Open, Somewhere
    <3>2. CASE d # c
      BY <1>1, <1>2, <2>5, <3>2 DEF Bookkeeping, OnePlace, Open, Somewhere, Nowhere
    <3> QED
      BY <3>1, <3>2
  <2>7. PostedOnce'
    BY <1>2, <2>1, <2>3 DEF Bookkeeping, PostedOnce
  <2> QED
    BY <1>1, <1>2, <2>1, <2>6, <2>7 DEF Bookkeeping, NothingLeft, Addressed
<1>5. ASSUME pending[session'] = None, session' = After(session), Send(c, session')
      PROVE  Bookkeeping'
  <2>0. PICK s \in Sessions : s = session'
    BY <1>5 DEF After, TypeInvariant, Sessions
  <2>1. /\ \A x \in Sessions : pending'[x] = IF x = s THEN c ELSE pending[x]
        /\ requests' = {m \in requests : m.session # s} \cup {[session |-> s, call |-> c]}
        /\ replies' = {m \in replies : m.session # s}
        /\ posted' = posted
    BY <1>5, <2>0 DEF Send, TypeInvariant
  <2>2. Waiting(c)' = {s} /\ Failing(c)' = {}
    BY <1>2, <1>3, <2>1 DEF Nowhere, Failing, Waiting
  <2>3. ASSUME NEW d \in Calls \ {c}
        PROVE  Waiting(d)' = Waiting(d) /\ Failing(d)' = Failing(d)
    BY <1>2, <1>5, <2>0, <2>1 DEF Failing, Waiting
  <2>4. OnePlace'
    <3> SUFFICES ASSUME NEW d \in Calls
                 PROVE  /\ Open(d)' => Somewhere(d)'
                        /\ ~Open(d)' => Nowhere(d)'
                        /\ d \notin issued' => outcome'[d] = None
      BY DEF OnePlace
    <3>1. CASE d = c
      BY <1>1, <1>2, <1>3, <2>2, <3>1 DEF Open, Somewhere
    <3>2. CASE d # c
      BY <1>1, <1>2, <2>3, <3>2 DEF Bookkeeping, OnePlace, Open, Somewhere, Nowhere
    <3> QED
      BY <3>1, <3>2
  <2>5. PostedOnce'
    BY <1>2, <2>1 DEF Bookkeeping, PostedOnce
  <2>6. Addressed'
    <3> SUFFICES ASSUME NEW m \in requests' \cup replies'
                 PROVE  pending'[m.session] \in {None, m.call}
      BY DEF Addressed
    <3>1. CASE m \in requests \cup replies /\ m.session # s
      <4>1. m.session \in Sessions
        BY <3>1 DEF TypeInvariant
      <4> QED
        BY <2>1, <3>1, <4>1 DEF Bookkeeping, Addressed
    <3>2. CASE m = [session |-> s, call |-> c]
      BY <2>1, <3>2
    <3> QED
      BY <2>1, <3>1, <3>2
  <2> QED
    BY <1>1, <1>2, <2>4, <2>5, <2>6 DEF Bookkeeping, NothingLeft
<1> QED
  BY <1>4, <1>5 DEF Call, SessionTaken

LEMMA ReplyHeld ==
    ASSUME TypeInvariant, Bookkeeping, NEW m \in replies, ReadReply(m)
    PROVE  /\ Bookkeeping'
           /\ \/ outcome' = outcome
              \/ \E c \in Calls : Open(c) /\ outcome' = [outcome EXCEPT ![c] = "Reply"]
<1>1. /\ ~closed /\ m.session \in Sessions /\ replies' \subseteq replies
      /\ UNCHANGED <<closed, posted, due, where, batch, subscribed, requests, issued>>
  BY DEF ReadReply, TypeInvariant, life, tasks, loop, events
<1>2. PostedOnce' /\ NothingLeft'
  BY <1>1 DEF Bookkeeping, PostedOnce, NothingLeft
<1>3. CASE pending[m.session] = None
  <2>1. UNCHANGED <<pending, outcome>>
    BY <1>3 DEF ReadReply
  <2>2. Addressed'
    BY <1>1, <2>1 DEF Bookkeeping, Addressed
  <2>3. OnePlace'
    BY <1>1, <2>1, PlacesFrame DEF Bookkeeping, Waiting, Failing
  <2> QED
    BY <1>2, <2>1, <2>2, <2>3 DEF Bookkeeping
<1>4. CASE pending[m.session] # None
  <2>1. /\ pending[m.session] = m.call
        /\ Take(m.session) /\ Deliver(pending[m.session], "Reply")
    BY <1>4 DEF ReadReply, Bookkeeping, Addressed
  <2>2. /\ OnePlace' /\ Open(pending[m.session])
        /\ outcome' = [outcome EXCEPT ![pending[m.session]] = "Reply"]
    BY <1>1, <1>4, <2>1, TakenOnce DEF Bookkeeping, Outcomes
  <2>3. \A x \in Sessions : pending'[x] \in {None, pending[x]}
    BY <2>1 DEF Take, TypeInvariant
  <2>4. Addressed'
    BY <1>1, <2>3 DEF Bookkeeping, Addressed, TypeInvariant
  <2> QED
    BY <1>1, <1>2, <1>4, <2>2, <2>4 DEF Bookkeeping, TypeInvariant
<1> QED
  BY <1>3, <1>4

LEMMA FailHeld ==
    ASSUME TypeInvariant, Bookkeeping, FailNext
    PROVE  /\ Bookkeeping'
           /\ \/ outcome' = outcome
              \/ \E c \in Calls, o \in Outcomes : Open(c) /\ outcome' = [outcome EXCEPT ![c] = o]
<1>1. PICK s \in batch :
          /\ batch' = batch \ {s}
          /\ IF pending[s] = None
             THEN UNCHANGED <<pending, age, outcome, inside>>
             ELSE /\ Take(s)
                  /\ Deliver(pending[s], IF where = "ticks" THEN "Timeout" ELSE "NotAvailable")
  BY DEF FailNext
<1>2. s \in Sessions /\ ~closed
  BY DEF TypeInvariant, Bookkeeping, NothingLeft
<1>3. UNCHANGED <<closed, posted, due, where, subscribed, requests, replies, issued>>
  BY DEF FailNext, life, tasks, events, wire
<1>4. PostedOnce' /\ NothingLeft'
  BY <1>2, <1>3 DEF Bookkeeping, PostedOnce, NothingLeft
<1>5. CASE pending[s] = None
  <2>1. UNCHANGED <<pending, outcome>>
    BY <1>1, <1>5
  <2>2. Addressed'
    BY <1>3, <2>1 DEF Bookkeeping, Addressed
  <2>3. OnePlace'
    BY <1>3, <2>1, PlacesFrame DEF Bookkeeping, Waiting, Failing
  <2> QED
    BY <1>4, <2>1, <2>2, <2>3 DEF Bookkeeping
<1>6. CASE pending[s] # None
  <2>1. PICK o \in Outcomes : Take(s) /\ Deliver(pending[s], o)
    BY <1>1, <1>6 DEF Outcomes, Failures
  <2>2. /\ OnePlace' /\ Open(pending[s])
        /\ outcome' = [outcome EXCEPT ![pending[s]] = o]
    BY <1>2, <1>3, <1>6, <2>1, TakenOnce DEF Bookkeeping
  <2>3. \A x \in Sessions : pending'[x] \in {None, pending[x]}
    BY <2>1 DEF Take, TypeInvariant
  <2>4. Addressed'
    BY <1>3, <2>3 DEF Bookkeeping, Addressed, TypeInvariant
  <2> QED
    BY <1>2, <1>4, <1>6, <2>2, <2>4 DEF Bookkeeping, TypeInvariant
<1> QED
  BY <1>5, <1>6

LEMMA TaskHeld ==
    ASSUME TypeInvariant, Bookkeeping, NEW t \in due, RunTask(t)
    PROVE  /\ Bookkeeping'
           /\ \/ outcome' = outcome
              \/ \E c \in Calls, o \in Outcomes : Open(c) /\ outcome' = [outcome EXCEPT ![c] = o]
<1>1. /\ where = "tasks" /\ due' = due \ {t}
      /\ UNCHANGED <<pending, closed, posted, where, subscribed, requests, replies, issued>>
  BY DEF RunTask, table, life, wire
<1>2. closed => batch' = batch
  BY DEF RunTask, RunFailure, RunAnnouncement, RunListener, HearsAvailable
<1>3. PostedOnce' /\ NothingLeft' /\ Addressed'
  BY <1>1, <1>2 DEF Bookkeeping, PostedOnce, NothingLeft, Addressed, InFlight
<1>4. CASE t.kind = "failure" /\ ~closed /\ Deliver(t.call, t.failure)
  BY <1>1, <1>3, <1>4, RunOnce DEF Bookkeeping
<1>5. CASE outcome' = outcome /\ (closed \/ t.kind # "failure")
  <2>1. CASE closed
    BY <1>1, <1>3, <1>5, <2>1 DEF Bookkeeping, OnePlace
  <2>2. CASE t.kind # "failure"
    <3>1. \A c \in Calls : Waiting(c)' = Waiting(c) /\ Failing(c)' = Failing(c)
      BY <1>1, <2>2 DEF Waiting, Failing
    <3> QED
      BY <1>1, <1>3, <1>5, <3>1, PlacesFrame DEF Bookkeeping
  <2> QED
    BY <1>5, <2>1, <2>2
<1> QED
  BY <1>4, <1>5, NewsIsNoFailure DEF RunTask, RunFailure, RunAnnouncement, RunListener

LEMMA OtherHeld ==
    ASSUME TypeInvariant, Bookkeeping, Aside \/ RunPosted
    PROVE  Bookkeeping' /\ UNCHANGED <<issued, outcome, closed>>
<1>1. CASE Aside
  <2>1. /\ UNCHANGED <<pending, issued, outcome, closed, due>>
        /\ posted' \in {posted, posted \cup {ListenerNews}}
        /\ where' # "tasks" => where # "tasks" \/ due = {}
        /\ requests' \cup replies' \subseteq requests \cup replies
        /\ NothingLeft'
    BY <1>1, AsideKeeps DEF Bookkeeping
  <2>2. \A c \in Calls : Waiting(c)' = Waiting(c) /\ Failing(c)' = Failing(c)
    BY <2>1, NewsIsNoFailure DEF Waiting, Failing
  <2>3. OnePlace'
    BY <2>1, <2>2, PlacesFrame DEF Bookkeeping
  <2>4. PostedOnce'
    BY <2>1, NewsIsNoFailure DEF Bookkeeping, PostedOnce
  <2>5. Addressed'
    BY <2>1 DEF Bookkeeping, Addressed
  <2> QED
    BY <2>1, <2>3, <2>4, <2>5 DEF Bookkeeping
<1>2. CASE RunPosted
  <2>1. /\ where = "ticks" /\ where' = "tasks" /\ due' = posted /\ posted' = {}
        /\ UNCHANGED <<pending, issued, outcome, closed, requests, replies, batch, subscribed>>
    BY <1>2 DEF RunPosted, Proceed, table, ghosts, life, wire, events
  <2>2. due = {}
    BY <2>1 DEF Bookkeeping, PostedOnce
  <2>3. \A c \in Calls : Waiting(c)' = Waiting(c) /\ Failing(c)' = Failing(c)
    BY <2>1, <2>2 DEF Waiting, Failing
  <2>4. OnePlace'
    BY <2>1, <2>3, PlacesFrame DEF Bookkeeping
  <2> QED
    BY <2>1, <2>4 DEF Bookkeeping, PostedOnce, NothingLeft, Addressed, InFlight
<1> QED
  BY <1>1, <1>2

LEMMA ClosedHeld == ASSUME Bookkeeping, Close PROVE Bookkeeping'
<1>1. /\ closed' /\ ~subscribed' /\ batch' = {} /\ requests' = {} /\ replies' = {}
      /\ pending' = [s \in Sessions |-> None]
      /\ UNCHANGED <<posted, due, where>>
  BY DEF Close, tasks
<1>2. InFlight' = {}
  BY <1>1 DEF InFlight
<1> QED
  BY <1>1, <1>2 DEF Bookkeeping, OnePlace, PostedOnce, NothingLeft, Addressed

LEMMA BookkeepingKept == ASSUME TypeInvariant, Bookkeeping, [Next]_vars PROVE Bookkeeping'
BY Steps, CallHeld, ClosedHeld, ReplyHeld, FailHeld, TaskHeld, OtherHeld

LEMMA InitBookkeeping == Init => Bookkeeping
<1> SUFFICES ASSUME Init PROVE Bookkeeping
  OBVIOUS
<1>1. \A c \in Calls : ~Open(c) /\ outcome[c] = None /\ Waiting(c) = {}
  BY DEF Init, Open, Waiting
<1>2. \A c \in Calls : Failing(c) = {}
  BY NewsIsNoFailure DEF Init, Failing
<1>3. OnePlace
  BY <1>1, <1>2 DEF OnePlace, Nowhere
<1> QED
  BY <1>3 DEF Init, Bookkeeping, PostedOnce, NothingLeft, Addressed

\* While the proxy lives, the handler of an open call is in exactly one place,
\* the table or the posted tasks, and that of any other call in none, whatever
\* handlers do inside the loops they are called from (rule 1 of proxy.hpp).
THEOREM HandlersHeldOnce == Spec => []HeldOnce
<1>1. TypeInvariant /\ Bookkeeping => HeldOnce
  <2> SUFFICES ASSUME TypeInvariant, OnePlace, ~closed, NEW c \in Calls
               PROVE  Cardinality(Waiting(c)) + Cardinality(Failing(c)) = IF Open(c) THEN 1 ELSE 0
    BY DEF Bookkeeping, HeldOnce, Open
  <2>1. Cardinality({}) = 0
    BY FS_EmptySet
  <2>2. CASE ~Open(c)
    BY <2>1, <2>2 DEF OnePlace, Nowhere
  <2>3. CASE Open(c)
    <3>1. Somewhere(c)
      BY <2>3 DEF OnePlace
    <3>2. \A x : Cardinality({x}) = 1
      BY FS_Singleton, Zenon
    <3>3. \/ Cardinality(Failing(c)) = 0 /\ Cardinality(Waiting(c)) = 1
          \/ Cardinality(Waiting(c)) = 0 /\ Cardinality(Failing(c)) = 1
      BY <2>1, <3>1, <3>2, Zenon DEF Somewhere
    <3> QED
      BY <2>3, <3>3
  <2> QED
    BY <2>2, <2>3
<1> QED
  BY <1>1, InitTypes, TypesKept, InitBookkeeping, BookkeepingKept, PTL DEF Spec

(***************************************************************************)
(* The contract                                                            *)
(***************************************************************************)
\* A step that changes no call's fate.
LEMMA StatusFrame ==
    ASSUME UNCHANGED <<issued, outcome, closed>>
    PROVE  UNCHANGED <<Status, outcome>>
BY DEF Status

\* A call that is open is done.
LEMMA StatusDone ==
    ASSUME TypeInvariant, ~closed, UNCHANGED <<issued, closed>>, NEW c \in Calls, Open(c),
           NEW o \in Outcomes, outcome' = [outcome EXCEPT ![c] = o]
    PROVE  Contract!Complete(c, o)
<1>1. Status[c] = "open"
  BY DEF Open, Status
<1>2. outcome'[c] = o /\ o # None
  BY DEF TypeInvariant
<1>3. \A d \in Calls : Status'[d] = IF d = c THEN "done" ELSE Status[d]
  BY <1>2 DEF Status, TypeInvariant
<1>4. Status \in [Calls -> {"done", "cancelled", "open", "idle"}] /\ DOMAIN Status' = Calls
  BY DEF Status
<1>5. Status' = [Status EXCEPT ![c] = "done"]
  BY <1>3, <1>4 DEF Status
<1> QED
  BY <1>1, <1>5 DEF Contract!Complete

LEMMA StepContract ==
    ASSUME TypeInvariant, Bookkeeping, [Next]_vars
    PROVE  [Contract!Next]_<<Status, outcome>>
<1>1. ASSUME NEW c \in Calls, Call(c)
      PROVE  Contract!Issue(c)
  <2>1. ~closed /\ ~closed' /\ c \notin issued /\ issued' = issued \cup {c} /\ outcome' = outcome
    BY <1>1 DEF Call, AppRuns, PostFailure, Send, life
  <2>2. outcome[c] = None
    BY <2>1 DEF Bookkeeping, OnePlace
  <2>3. Status[c] = "idle"
    BY <2>1, <2>2 DEF Status
  <2>4. Status' = [Status EXCEPT ![c] = "open"]
    BY <2>1, <2>2 DEF Status
  <2> QED
    BY <2>1, <2>3, <2>4 DEF Contract!Issue
<1>2. CASE Close
  <2>1. closed' /\ ~closed /\ UNCHANGED <<issued, outcome>>
    BY <1>2 DEF Close, AppRuns, ghosts
  <2>2. Status' = [c \in Calls |-> IF Status[c] = "done" THEN "done" ELSE "cancelled"]
    BY <2>1 DEF Status
  <2> QED
    BY <2>1, <2>2 DEF Contract!Next, Contract!Close
<1>3. ASSUME NEW m \in replies, ReadReply(m)
      PROVE  [Contract!Next]_<<Status, outcome>>
  <2>1. ~closed /\ UNCHANGED <<issued, closed>>
    BY <1>3 DEF ReadReply, life
  <2> QED
    BY <1>3, <2>1, ReplyHeld, StatusFrame, StatusDone DEF Contract!Next, Outcomes
<1>4. CASE FailNext
  <2>1. ~closed /\ UNCHANGED <<issued, closed>>
    BY <1>4 DEF FailNext, life, Bookkeeping, NothingLeft
  <2> QED
    BY <1>4, <2>1, FailHeld, StatusFrame, StatusDone DEF Contract!Next
<1>5. ASSUME NEW t \in due, RunTask(t)
      PROVE  [Contract!Next]_<<Status, outcome>>
  <2>1. UNCHANGED <<issued, closed>>
    BY <1>5 DEF RunTask, life
  <2>2. closed => outcome' = outcome
    BY <1>5 DEF RunTask, RunFailure, RunAnnouncement, RunListener
  <2> QED
    BY <1>5, <2>1, <2>2, TaskHeld, StatusFrame, StatusDone DEF Contract!Next
<1>6. CASE Aside \/ RunPosted
  BY <1>6, OtherHeld, StatusFrame
<1> QED
  BY <1>1, <1>2, <1>3, <1>4, <1>5, <1>6, Steps DEF Contract!Next

\* A call is made once, completed at most once, with an outcome of its own and
\* in a later step than call(), and never after the proxy was destroyed: the
\* proxy implements CallContract (rules 1 and 2 of proxy.hpp).
THEOREM KeepsTheContract == Spec => ImplementsContract
<1>1. Init => Contract!Init
  BY DEF Init, Contract!Init, Status
<1> QED
  BY <1>1, InitTypes, TypesKept, InitBookkeeping, BookkeepingKept, StepContract, PTL
     DEF Spec, ImplementsContract, Contract!Spec

(***************************************************************************)
(* Gone and overdue                                                        *)
(***************************************************************************)
\* What fail_all() and check_timeouts() have still to visit.
Doomed == where = "ticks" => \A s \in batch : pending[s] # None /\ age[s] > Timeout

LEMMA TableSteps ==
    ASSUME TypeInvariant, Bookkeeping, GoneFailsAtOnce, Doomed, [Next]_vars
    PROVE  GoneFailsAtOnce' /\ Doomed'
<1> USE DEF life, table, events, tasks, loop, wire, ghosts
<1>1. ASSUME NEW c \in Calls, Call(c)
      PROVE  GoneFailsAtOnce' /\ Doomed'
  <2>1. UNCHANGED <<isAvailable, where, batch>>
    BY <1>1 DEF Call
  <2>2. CASE UNCHANGED <<pending, age>>
    BY <2>1, <2>2 DEF GoneFailsAtOnce, Doomed, InFlight
  <2>3. CASE isAvailable /\ pending[session'] = None /\ session' = After(session) /\ Send(c, session')
    <3>1. session' \in Sessions /\ session' \notin {s \in Sessions : pending[s] # None}
      BY <2>3 DEF After, TypeInvariant, Sessions
    <3>2. \A s \in Sessions : s # session' => pending'[s] = pending[s] /\ age'[s] = age[s]
      BY <2>3, <3>1 DEF Send, TypeInvariant
    <3>3. \A s \in Sessions : pending[s] # None => s # session'
      BY <3>1
    <3>4. Doomed'
      BY <2>1, <3>2, <3>3 DEF Doomed, TypeInvariant
    <3>5. GoneFailsAtOnce'
      BY <2>1, <2>3 DEF GoneFailsAtOnce
    <3> QED
      BY <3>2, <3>3, <3>4, <3>5
  <2> QED
    BY <1>1, <2>2, <2>3 DEF Call, PostFailure, Reachable, SessionTaken
<1>2. CASE Close
  BY <1>2 DEF Close, GoneFailsAtOnce, Doomed, InFlight
<1>3. ASSUME NEW m \in replies, ReadReply(m)
      PROVE  GoneFailsAtOnce' /\ Doomed'
  <2>1. where = "dispatch" /\ UNCHANGED <<isAvailable, where, batch>> /\ m.session \in Sessions
    BY <1>3 DEF ReadReply, TypeInvariant
  <2>2. \A s \in Sessions : pending'[s] \in {None, pending[s]}
    BY <1>3, <2>1 DEF ReadReply, Take, TypeInvariant
  <2> QED
    BY <2>1, <2>2 DEF GoneFailsAtOnce, Doomed, InFlight
<1>4. CASE FailNext
  <2>1. PICK s \in batch :
          /\ batch' = batch \ {s}
          /\ IF pending[s] = None
             THEN UNCHANGED <<pending, age>>
             ELSE Take(s)
    BY <1>4 DEF FailNext
  <2>2. s \in Sessions /\ UNCHANGED <<isAvailable, where>>
    BY <1>4 DEF FailNext, TypeInvariant
  <2>3. \A x \in Sessions : x # s => pending'[x] = pending[x] /\ age'[x] = age[x]
    BY <2>1, <2>2 DEF Take, TypeInvariant
  <2>4. pending'[s] = None
    BY <2>1, <2>2 DEF Take, TypeInvariant
  <2>5. GoneFailsAtOnce'
    BY <2>1, <2>2, <2>3, <2>4 DEF GoneFailsAtOnce, InFlight
  <2>6. Doomed'
    BY <2>1, <2>2, <2>3 DEF Doomed, TypeInvariant
  <2> QED
    BY <2>1, <2>3, <2>5, <2>6 DEF Doomed
<1>5. CASE Subscribe \/ OnAvailability \/ BeginPoll \/ ReadEvent \/ Return \/ Announce
           \/ UNCHANGED vars
  <2>1. /\ UNCHANGED <<pending, age, isAvailable, batch>>
        /\ where' = where \/ where' = "dispatch"
    BY <1>5 DEF Subscribe, OnAvailability, BeginPoll, ReadEvent, Return, Announce, vars
  <2> QED
    BY <2>1 DEF GoneFailsAtOnce, Doomed, InFlight
<1>6. CASE \/ \E o \in Offers : ReadOffer(o)
           \/ ReadStop \/ LeaseExpires
  <2>1. where' = where /\ where # "ticks" /\ UNCHANGED pending
    BY <1>6 DEF ReadOffer, ReadStop, LeaseExpires
  <2>2. isAvailable' \/ batch' = InFlight \/ UNCHANGED <<isAvailable, batch>>
    BY <1>6 DEF ReadOffer, ReadStop, LeaseExpires, HearsAvailable, HearsUnavailable
  <2> QED
    BY <2>1, <2>2 DEF GoneFailsAtOnce, Doomed, InFlight
<1>7. CASE EndDispatch \/ RunPosted \/ EndPoll
  <2>1. UNCHANGED <<pending, isAvailable, batch>> /\ where' # "ticks"
    BY <1>7 DEF EndDispatch, RunPosted, EndPoll, Proceed
  <2> QED
    BY <2>1 DEF GoneFailsAtOnce, Doomed, InFlight
<1>8. CASE RunTicks
  <2>1. /\ UNCHANGED <<pending, age, isAvailable>> /\ batch' = Overdue /\ batch = {}
    BY <1>8 DEF RunTicks, Proceed, Settled
  <2> QED
    BY <2>1 DEF GoneFailsAtOnce, Doomed, Overdue, InFlight
<1>9. ASSUME NEW t \in due, RunTask(t)
      PROVE  GoneFailsAtOnce' /\ Doomed'
  <2>1. UNCHANGED <<pending, age, where>> /\ where = "tasks"
    BY <1>9 DEF RunTask
  <2>2. batch' = batch /\ (isAvailable => isAvailable')
    BY <1>9 DEF RunTask, RunFailure, RunAnnouncement, RunListener, HearsAvailable
  <2> QED
    BY <2>1, <2>2 DEF GoneFailsAtOnce, Doomed, InFlight
<1>10. CASE Tick
  <2>1. UNCHANGED <<pending, isAvailable, batch, where>>
    BY <1>10 DEF Tick
  <2>2. \A s \in Sessions : age'[s] >= age[s]
    BY <1>10 DEF Tick, TypeInvariant
  <2>3. \A s \in Sessions : age[s] \in Nat /\ age'[s] \in Nat
    BY <1>10, TypesKept DEF Next, Environment, TypeInvariant
  <2> QED
    BY <2>1, <2>2, <2>3 DEF GoneFailsAtOnce, Doomed, InFlight, TypeInvariant
<1>11. CASE (\E m \in requests : Answer(m)) \/ Lose
  BY <1>11 DEF Answer, Lose, GoneFailsAtOnce, Doomed, InFlight
<1> QED
  BY <1>1, <1>2, <1>3, <1>4, <1>5, <1>6, <1>7, <1>8, <1>9, <1>10, <1>11
     DEF Next, Application, Dispatch, Continue, Environment

\* Once the proxy has heard that the service is gone, the only calls still
\* waiting are those the running fail_all() is about to fail (rule 5).
THEOREM TheGoneFailAtOnce == Spec => []GoneFailsAtOnce
<1>1. Init => GoneFailsAtOnce /\ Doomed
  BY DEF Init, GoneFailsAtOnce, Doomed, InFlight
<1> QED
  BY <1>1, InitTypes, TypesKept, InitBookkeeping, BookkeepingKept, TableSteps, PTL DEF Spec

\* Only check_timeouts() says Timeout.
LEMMA TimeoutStep ==
    ASSUME TypeInvariant, Bookkeeping, Doomed, [Next]_vars, NEW c \in Calls,
           outcome[c] = None, outcome'[c] = "Timeout"
    PROVE  \E s \in Waiting(c) : age[s] > Timeout
<1>1. "Timeout" # None
  BY DEF Outcomes, Failures
<1>2. ASSUME NEW d \in Calls, NEW o, Deliver(d, o), o # "Timeout"
      PROVE  FALSE
  BY <1>1, <1>2 DEF Deliver, TypeInvariant
<1>3. ASSUME NEW m \in replies, ReadReply(m)
      PROVE  FALSE
  <2>1. m.session \in Sessions /\ (pending[m.session] # None => pending[m.session] \in Calls)
    BY <1>3 DEF TypeInvariant
  <2> QED
    BY <1>1, <1>2, <1>3, <2>1 DEF ReadReply
<1>4. CASE FailNext
  <2>1. PICK s \in batch :
          IF pending[s] = None
          THEN UNCHANGED outcome
          ELSE Deliver(pending[s], IF where = "ticks" THEN "Timeout" ELSE "NotAvailable")
    BY <1>4 DEF FailNext
  <2>2. s \in Sessions /\ pending[s] \in Calls /\ where = "ticks"
    BY <1>1, <1>2, <2>1 DEF TypeInvariant
  <2>3. pending[s] = c
    BY <1>1, <2>1, <2>2 DEF Deliver, TypeInvariant
  <2>4. age[s] > Timeout
    BY <2>1, <2>2 DEF Doomed
  <2> QED
    BY <2>2, <2>3, <2>4 DEF Waiting
<1>5. ASSUME NEW t \in due, RunTask(t)
      PROVE  FALSE
  <2>1. t \in Tasks
    BY DEF TypeInvariant
  <2>2. CASE RunFailure(t)
    <3>1. t.call \in Calls /\ t.failure # "Timeout"
      BY <2>1, <2>2 DEF RunFailure, Tasks, Announcement, ListenerNews
    <3> QED
      BY <1>1, <1>2, <2>2, <3>1 DEF RunFailure
  <2> QED
    BY <1>1, <1>5, <2>2 DEF RunTask, RunAnnouncement, RunListener
<1>6. CASE Aside \/ RunPosted \/ Close \/ \E d \in Calls : Call(d)
  <2>1. outcome' = outcome
    BY <1>6, AsideKeeps DEF RunPosted, Proceed, Close, Call, PostFailure, Send, ghosts
  <2> QED
    BY <1>1, <2>1
<1> QED
  BY <1>3, <1>4, <1>5, <1>6, Steps

\* A call that is told Timeout has itself waited longer than the timeout, also
\* when its session id was another's before and when handlers made new calls in
\* the middle of check_timeouts() (proxy.cpp:284).
THEOREM NoEarlyTimeout == Spec => TimeoutIsDue
<1>1. Init => GoneFailsAtOnce /\ Doomed
  BY DEF Init, GoneFailsAtOnce, Doomed, InFlight
<1>2. TypeInvariant /\ Bookkeeping /\ Doomed /\ [Next]_vars =>
        [\A c \in Calls : (outcome[c] = None /\ outcome'[c] = "Timeout") =>
                              \E s \in Waiting(c) : age[s] > Timeout]_vars
  BY TimeoutStep
<1> QED
  BY <1>1, <1>2, InitTypes, TypesKept, InitBookkeeping, BookkeepingKept, TableSteps, PTL
     DEF Spec, TimeoutIsDue

(***************************************************************************)
(* Following the service                                                   *)
(***************************************************************************)
Offered == Discovers /\ ~closed /\ known # None => isAvailable \/ Late

\* Without discovery the proxy is always available, and nothing is announced.
Following ==
    /\ ~Discovers => isAvailable
    /\ Offered
    /\ LeftWhenGone

Founded == Unfounded' /\ ~Unfounded => Announcement \in due \ due'

Membership ==
    LET group == EventEndpoint(known') IN
    /\ joined' \notin {None, joined} => joined' = group
    /\ joined' # joined /\ joined # None =>
          closed' \/ ~isAvailable' \/ group \notin {None, joined}
    /\ Wanted' /\ ~Wanted /\ group \notin MayFail \cup {None} => joined' = group

\* A step that has nothing to do with the service.
LEMMA FollowingFrame ==
    ASSUME Following, UNCHANGED <<isAvailable, closed, fixed, known, subscribed, joined>>,
           Late => Late'
    PROVE  Following' /\ Founded /\ Membership
BY DEF Following, Offered, Discovers, LeftWhenGone, Founded, Unfounded, Membership, Wanted

\* What follow_events() does.
LEMMA JoiningKeeps ==
    ASSUME NEW group, FollowEvents(group)
    PROVE  /\ joined' \notin {None, joined} => joined' = group
           /\ joined' # joined => group \notin {None, joined}
           /\ group \notin MayFail \cup {None} => joined' = group
BY DEF FollowEvents

\* The service is heard of, with what the registry says by now.
LEMMA HearingKeeps ==
    ASSUME TypeInvariant, Following, NEW r, r = known', HearsAvailable(r),
           UNCHANGED <<closed, fixed, subscribed>>
    PROVE  Following' /\ Membership
<1>1. CASE Hears /\ ~isAvailable
  <2>1. /\ isAvailable' /\ joined = None
        /\ IF subscribed THEN FollowEvents(EventEndpoint(known')) ELSE UNCHANGED joined
    BY <1>1 DEF HearsAvailable, Following, LeftWhenGone
  <2>2. /\ joined' # None => joined' = EventEndpoint(known') /\ subscribed'
        /\ subscribed' /\ EventEndpoint(known') \notin MayFail \cup {None} =>
              joined' = EventEndpoint(known')
    BY <2>1, JoiningKeeps
  <2> QED
    BY <2>1, <2>2 DEF Following, Offered, LeftWhenGone, Membership, Wanted
<1>2. CASE ~(Hears /\ ~isAvailable)
  <2>1. UNCHANGED <<isAvailable, joined>>
    BY <1>2 DEF HearsAvailable
  <2> QED
    BY <1>2, <2>1 DEF Hears, Discovers, Following, Offered, LeftWhenGone, Membership, Wanted
<1> QED
  BY <1>1, <1>2

LEMMA FollowingKept ==
    ASSUME TypeInvariant, Bookkeeping, Following, [Next]_vars
    PROVE  Following' /\ Founded /\ Membership
<1> USE DEF life, table, events, tasks, loop, wire, ghosts
<1>1. ASSUME NEW c \in Calls, Call(c)
      PROVE  Late => Late'
  BY <1>1 DEF Call, PostFailure, Send, Late
<1>2. CASE Subscribe
  <2>1. /\ UNCHANGED <<isAvailable, closed, fixed, known, posted, due>> /\ subscribed'
        /\ IF isAvailable THEN FollowEvents(EventEndpoint(known')) ELSE UNCHANGED joined
    BY <1>2 DEF Subscribe
  <2>2. Following'
    BY <2>1, JoiningKeeps DEF Following, Offered, Late, Discovers, LeftWhenGone
  <2>3. Founded
    BY <2>1 DEF Founded, Unfounded, Discovers
  <2>4. Membership
    BY <2>1, JoiningKeeps DEF Membership, Wanted
  <2> QED
    BY <2>2, <2>3, <2>4
<1>3. CASE OnAvailability
  BY <1>3, FollowingFrame DEF OnAvailability, Late
<1>4. CASE Close
  BY <1>4 DEF Close, Following, Offered, Discovers, LeftWhenGone, Founded, Unfounded,
              Membership, Wanted
<1>5. CASE RunPosted
  <2>1. due = {} /\ due' = posted
    BY <1>5 DEF RunPosted, Proceed, Bookkeeping, PostedOnce
  <2>2. Late => Late'
    BY <2>1 DEF Late
  <2> QED
    BY <1>5, <2>2, FollowingFrame DEF RunPosted, Proceed
<1>6. CASE \/ BeginPoll \/ ReadEvent \/ Return \/ Announce \/ EndDispatch \/ RunTicks
           \/ EndPoll \/ FailNext \/ Environment \/ UNCHANGED vars
           \/ \E m \in replies : ReadReply(m)
  <2>1. UNCHANGED <<isAvailable, closed, fixed, known, subscribed, joined, posted, due>>
    BY <1>6 DEF BeginPoll, ReadEvent, Return, Announce, EndDispatch, RunTicks, EndPoll,
                FailNext, ReadReply, Environment, Answer, Lose, Tick, Proceed, vars
  <2> QED
    BY <2>1, FollowingFrame DEF Late
<1>7. ASSUME NEW o \in Offers, ReadOffer(o)
      PROVE  Following' /\ Founded /\ Membership
  <2>1. UNCHANGED <<closed, fixed, subscribed, posted, due>> /\ known' = o /\ o # None
    BY <1>7 DEF ReadOffer
  <2>2. Founded
    BY <2>1 DEF Founded, Unfounded
  <2>3. CASE known # None
    <3>1. UNCHANGED <<isAvailable, joined>>
      BY <1>7, <2>3 DEF ReadOffer
    <3> QED
      BY <2>1, <2>2, <2>3, <3>1
         DEF Following, Offered, Late, Discovers, LeftWhenGone, Membership, Wanted
  <2>4. CASE known = None
    BY <1>7, <2>1, <2>2, <2>4, HearingKeeps DEF ReadOffer
  <2> QED
    BY <2>3, <2>4
<1>8. CASE ReadStop \/ LeaseExpires
  <2>1. UNCHANGED <<closed, fixed, subscribed, posted, due>> /\ known' = None /\ HearsUnavailable
    BY <1>8 DEF ReadStop, LeaseExpires
  <2>2. CASE Hears /\ isAvailable
    BY <2>1, <2>2 DEF HearsUnavailable, Hears, Discovers, Following, Offered, LeftWhenGone,
                      Founded, Unfounded, Membership, Wanted
  <2>3. CASE ~(Hears /\ isAvailable)
    <3>1. UNCHANGED <<isAvailable, joined>>
      BY <2>1, <2>3 DEF HearsUnavailable
    <3> QED
      BY <2>1, <2>3, <3>1 DEF Hears, Discovers, Following, Offered, LeftWhenGone, Founded,
                              Unfounded, Membership, Wanted
  <2> QED
    BY <2>2, <2>3
<1>9. ASSUME NEW t \in due, RunTask(t)
      PROVE  Following' /\ Founded /\ Membership
  <2>1. UNCHANGED <<closed, fixed, subscribed, posted, known>> /\ due' = due \ {t}
    BY <1>9 DEF RunTask
  <2>2. CASE RunFailure(t) \/ RunListener(t)
    <3>1. t # Announcement /\ UNCHANGED <<isAvailable, joined>>
      BY <2>2 DEF RunFailure, RunListener, Announcement, ListenerNews
    <3>2. Late => Late'
      BY <2>1, <3>1 DEF Late
    <3> QED
      BY <2>1, <3>1, <3>2, FollowingFrame
  <2>3. CASE RunAnnouncement(t)
    <3>1. t = Announcement /\ HearsAvailable(known)
      BY <2>3 DEF RunAnnouncement
    <3>2. Following' /\ Membership
      BY <2>1, <3>1, HearingKeeps
    <3>3. Founded
      BY <2>1, <3>1 DEF Founded
    <3> QED
      BY <3>2, <3>3
  <2> QED
    BY <1>9, <2>2, <2>3 DEF RunTask
<1>10. ASSUME NEW c \in Calls, Call(c)
       PROVE  Following' /\ Founded /\ Membership
  BY <1>1, <1>10, FollowingFrame DEF Call
<1> QED
  BY <1>2, <1>3, <1>4, <1>5, <1>6, <1>7, <1>8, <1>9, <1>10
     DEF Next, Application, Dispatch, Continue

LEMMA InitFollowing == Init => Following
BY DEF Init, Following, Offered, Late, LeftWhenGone, Discovers

\* Whatever the service does: what is offered is available to the proxy, unless
\* find() has still to announce it, and only that late announcement can make
\* available what is offered no more (proxy.cpp:331, runtime.cpp:448).
THEOREM TheServiceIsFollowed == Spec => FollowsService
<1>1. Following => Offered
  BY DEF Following
<1>2. [](Offered) /\ [][Founded]_vars => FollowsService
  BY PTL DEF FollowsService, Offered, Founded
<1> QED
  BY <1>1, <1>2, InitFollowing, InitTypes, TypesKept, InitBookkeeping, BookkeepingKept,
     FollowingKept, PTL DEF Spec

\* Also when joining may fail, when offers come with and without events or move
\* them, and when the service was known beforehand: a subscriber joins what the
\* registry says when the service comes or it subscribes, and stays in a group
\* until the proxy or the service goes or the events have moved (proxy.cpp:354).
THEOREM TheGroupIsKept == Spec => MembershipIsKept
<1>1. Following => LeftWhenGone
  BY DEF Following
<1>2. []LeftWhenGone /\ [][Membership]_vars => MembershipIsKept
  BY PTL DEF MembershipIsKept, Membership
<1> QED
  BY <1>1, <1>2, InitFollowing, InitTypes, TypesKept, InitBookkeeping, BookkeepingKept,
     FollowingKept, PTL DEF Spec
=============================================================================
