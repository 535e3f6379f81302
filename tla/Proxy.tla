------------------------------- MODULE Proxy --------------------------------
(***************************************************************************)
(* av::mw::Proxy inside the runtime's poll().                              *)
(*                                                                         *)
(* There is one thread.  What interleaves is the application with itself:  *)
(* every handler the runtime calls is application code, which may make     *)
(* another call, subscribe, or destroy the proxy, and the loop it was      *)
(* called from then goes on with a changed table.  The code's loops over   *)
(* sessions are therefore taken one handler at a time.                     *)
(*                                                                         *)
(*   where    the part of poll() that runs, or "app" between two polls     *)
(*   inside   TRUE while a handler of the application runs                 *)
(*   batch    what the current loop over sessions has still to visit       *)
(*   announce the availability handler is still to be called               *)
(*                                                                         *)
(* The runtime's registry is seen as what the proxy asks it: where the     *)
(* methods and the events of the service are, if it is offered.  The peer  *)
(* and the network between are datagrams that are answered, late,          *)
(* duplicated, reordered or lost.                                          *)
(***************************************************************************)
EXTENDS Integers, FiniteSets

CONSTANTS
    Calls,          \* one element per call() the application makes
    Endpoints,      \* where the service may be offered
    Groups,         \* where its events may be sent
    Offers,         \* what an offer may say of the two
    None,
    MaxPending,     \* config.max_pending
    Timeout,        \* config.timeout, in ticks
    SessionMax,     \* the largest session id (0xFFFF)
    FixedModes,     \* what the config may fix: of "method" and "events"
    LateJoin,       \* whether the service may be known when the proxy is made
    MayFail,        \* the groups that joining may fail for
    SdBurst         \* SD entries and events read in one poll

ASSUME SizesAssumption ==
    /\ MaxPending \in Nat \ {0}
    /\ Timeout \in Nat
    /\ SessionMax \in Nat \ {0}
    /\ SdBurst \in Nat

ASSUME ModesAssumption == FixedModes \subseteq SUBSET {"method", "events"} /\ LateJoin \in BOOLEAN

\* Either option may be missing from an offer.
ASSUME OffersAssumption ==
    Offers \subseteq [method : Endpoints \cup {None}, events : Groups \cup {None}]

Sessions == 1 .. SessionMax

\* result.hpp, as far as the proxy decides it: what the server replied (a value,
\* an error, another interface version: on_reply() treats them alike) is "Reply".
Failures == {"NotAvailable", "Busy", "Malformed", "Timeout"}
Outcomes == Failures \cup {"Reply"}

\* None is no call, no offer, no endpoint (a fixed one included), no outcome.
ASSUME NoneAssumption ==
    None \notin Calls \cup Offers \cup Endpoints \cup Groups \cup Outcomes
                \cup {"fixed", "Twice", "Stranger"}

\* What run_posted() finds: a failure for a call's handler, the registry's
\* announcement to a late find(), or the one to a late on_availability().
Announcement == [kind |-> "found"]
ListenerNews == [kind |-> "listener"]
Tasks == [kind : {"failure"}, call : Calls, failure : {"NotAvailable", "Busy", "Malformed"}]
             \cup {Announcement, ListenerNews}

VARIABLES
    fixed,          \* which of config.fixed_method and config.fixed_events are set
    pending,        \* session -> the call waiting under it, or None
    age,            \* session -> ticks since sent_at, up to Timeout + 1
    session,        \* the id sessions.next() returned last
    isAvailable, closed,
    subscribed,     \* event_handlers is not empty
    joined,         \* the event group, or None
    posted,         \* the runtime's posted tasks
    due,            \* those the current run_posted() has still to run
    known,          \* the registry's record of the service, or None
    where, inside, batch, announce,
    read,           \* SD entries and events read in this poll
    requests,       \* datagrams to the server
    replies,        \* datagrams from it
    issued,         \* the calls made so far
    outcome         \* what each call's handler was told, or None

life == <<fixed, closed>>
table == <<pending, age, session>>
events == <<subscribed, joined>>
tasks == <<posted, due>>
loop == <<where, batch, announce, read>>
wire == <<requests, replies>>
ghosts == <<issued, outcome>>
vars == <<life, table, isAvailable, events, tasks, known, loop, inside, wire, ghosts>>

InFlight == {s \in Sessions : pending[s] # None}

\* With a fixed method endpoint there is no discovery.
Discovers == "method" \notin fixed

\* method_endpoint() and event_endpoint(), with the registry's record.
MethodEndpoint(record) ==
    IF "method" \in fixed THEN "fixed" ELSE IF record = None THEN None ELSE record.method

EventEndpoint(record) ==
    IF "events" \in fixed THEN "fixed" ELSE IF record = None THEN None ELSE record.events

Init ==
    /\ fixed \in FixedModes
    /\ pending = [s \in Sessions |-> None]
    /\ age = [s \in Sessions |-> 0]
    /\ session = 0
    /\ isAvailable = ~Discovers
    /\ closed = FALSE
    /\ subscribed = FALSE
    /\ joined = None
    /\ due = {}
    /\ known \in {None} \cup (IF LateJoin THEN Offers ELSE {})
    /\ posted = IF known # None /\ Discovers THEN {Announcement} ELSE {}
    /\ where = "app"
    /\ inside = FALSE
    /\ batch = {}
    /\ announce = FALSE
    /\ read = 0
    /\ requests = {}
    /\ replies = {}
    /\ issued = {}
    /\ outcome = [c \in Calls |-> None]

\* Application code runs between two polls and inside its handlers.
AppRuns == (where = "app" \/ inside) /\ ~closed

\* The runtime has nothing half done.
Settled == ~inside /\ batch = {} /\ ~announce

(***************************************************************************)
(* call()                                                                  *)
(***************************************************************************)
\* SessionCounter::next(): 0 is skipped when the counter wraps.
After(s) == IF s = SessionMax THEN 1 ELSE s + 1

\* post_failure(): never from inside call().
PostFailure(c, failure) ==
    /\ posted' = posted \cup {[kind |-> "failure", call |-> c, failure |-> failure]}
    /\ UNCHANGED <<pending, age, wire, outcome>>

\* The request is on its way, the handler in the table.  Datagrams of the last
\* use of this session id are long gone: ids come round after 65535 calls.
Send(c, s) ==
    /\ pending' = [pending EXCEPT ![s] = c]
    /\ age' = [age EXCEPT ![s] = 0]
    /\ requests' = {m \in requests : m.session # s} \cup {[session |-> s, call |-> c]}
    /\ replies' = {m \in replies : m.session # s}
    /\ UNCHANGED <<posted, outcome>>

Reachable == isAvailable /\ MethodEndpoint(known) # None

Full == Cardinality(InFlight) >= MaxPending

\* Mutated form: the entry of a call that waits is replaced.
SessionNeverTaken(s) == FALSE

SessionTaken(s) == pending[s] # None

Call(c) ==
    /\ AppRuns
    /\ c \notin issued
    /\ issued' = issued \cup {c}
    /\ \/ /\ ~Reachable
          /\ PostFailure(c, "NotAvailable")
          /\ UNCHANGED session
       \/ /\ Reachable /\ Full
          /\ PostFailure(c, "Busy")
          /\ UNCHANGED session
       \/ /\ Reachable /\ ~Full
          /\ session' = After(session)
          /\ \/ /\ SessionTaken(session')
                /\ PostFailure(c, "Busy")
             \/ /\ ~SessionTaken(session')
                /\ \/ PostFailure(c, "Malformed")       \* serialize() refused
                   \/ PostFailure(c, "NotAvailable")    \* send_to() failed
                   \/ Send(c, session')
    /\ UNCHANGED <<isAvailable, life, events, due, known, loop, inside>>

(***************************************************************************)
(* The other things an application does                                    *)
(***************************************************************************)
\* Mutated form: the group is left and joined again although it is the same.
FollowEventsAgain(group) ==
    joined' \in IF group # None
               THEN {group} \cup (IF group \in MayFail THEN {None} ELSE {})
               ELSE {joined}

\* follow_events() of a subscriber while the service is there.  The group it is
\* in is left first, so a failure leaves it in none.
FollowEvents(group) ==
    joined' \in IF group \notin {None, joined}
               THEN {group} \cup (IF group \in MayFail THEN {None} ELSE {})
               ELSE {joined}

Subscribe ==
    /\ AppRuns
    /\ subscribed' = TRUE
    /\ IF isAvailable THEN FollowEvents(EventEndpoint(known)) ELSE UNCHANGED joined
    /\ UNCHANGED <<table, isAvailable, life, tasks, known, loop, inside, wire, ghosts>>

\* A late listener is told the current state on the next poll.
OnAvailability ==
    /\ AppRuns
    /\ posted' = IF isAvailable THEN posted \cup {ListenerNews} ELSE posted
    /\ UNCHANGED <<table, isAvailable, life, events, due, known, loop, inside, wire, ghosts>>

\* close(), from the destructor or a move: calls are cancelled, not failed, and
\* every loop the proxy is in stops at its next look at closed.  Its sockets go
\* with it, so what is still under way reaches nobody.
Close ==
    /\ AppRuns
    /\ closed' = TRUE
    /\ subscribed' = FALSE
    /\ joined' = None
    /\ pending' = [s \in Sessions |-> None]
    /\ age' = [s \in Sessions |-> 0]
    /\ batch' = {}
    /\ announce' = FALSE
    /\ requests' = {}
    /\ replies' = {}
    /\ UNCHANGED <<fixed, session, isAvailable, tasks, known, where, read, inside, ghosts>>

\* The handler returns to the loop that called it.
Return ==
    /\ inside
    /\ inside' = FALSE
    /\ UNCHANGED <<table, isAvailable, life, events, tasks, known, loop, wire, ghosts>>

(***************************************************************************)
(* Completing a call: take() removes it from the table before its handler  *)
(* runs, because the handler may call again or destroy the proxy.          *)
(***************************************************************************)
Deliver(c, o) ==
    /\ outcome' = [outcome EXCEPT ![c] = IF @ = None THEN o ELSE "Twice"]
    /\ inside' = TRUE

\* Mutated form: the entry stays in the table while its handler runs.
TakeLeavesEntry(s) == UNCHANGED <<pending, age>>

Take(s) ==
    /\ pending' = [pending EXCEPT ![s] = None]
    /\ age' = [age EXCEPT ![s] = 0]

\* on_reply(): a reply goes to the call waiting under its session, if any.
ReadReply(m) ==
    /\ where = "dispatch" /\ Settled /\ ~closed
    /\ m \in replies
    /\ replies' = replies \ {m}
    /\ IF pending[m.session] = None
       THEN UNCHANGED <<pending, age, outcome, inside>>
       ELSE /\ Take(m.session)
            /\ Deliver(pending[m.session],
                       IF m.call = pending[m.session] THEN "Reply" ELSE "Stranger")
    /\ UNCHANGED <<session, isAvailable, life, events, tasks, known, loop, requests, issued>>

\* One round of the loop in fail_all() or in check_timeouts().
FailNext ==
    /\ ~inside
    /\ \E s \in batch :
          /\ batch' = batch \ {s}
          /\ IF pending[s] = None
             THEN UNCHANGED <<pending, age, outcome, inside>>
             ELSE /\ Take(s)
                  /\ Deliver(pending[s], IF where = "ticks" THEN "Timeout" ELSE "NotAvailable")
    /\ UNCHANGED <<session, isAvailable, life, events, tasks, known, where, announce, read, wire,
                   issued>>

(***************************************************************************)
(* on_availability_changed()                                               *)
(***************************************************************************)
Hears == Discovers /\ ~closed

\* follow_events(), which asks the registry, and then the availability handler.
HearsAvailable(record) ==
    /\ IF Hears /\ ~isAvailable
       THEN /\ isAvailable' = TRUE
            /\ announce' = TRUE
            /\ IF subscribed THEN FollowEvents(EventEndpoint(record)) ELSE UNCHANGED joined
       ELSE UNCHANGED <<isAvailable, announce, joined>>
    /\ UNCHANGED batch

\* Mutated form: waiting calls are left to their timeouts.
HearsUnavailableWaits ==
    /\ isAvailable' = (isAvailable /\ ~Hears)
    /\ joined' = IF Hears THEN None ELSE joined
    /\ announce' = (Hears /\ isAvailable)
    /\ UNCHANGED batch

\* drop_events(), fail_all() and then the availability handler.
HearsUnavailable ==
    IF Hears /\ isAvailable
    THEN /\ isAvailable' = FALSE
         /\ joined' = None
         /\ batch' = InFlight
         /\ announce' = TRUE
    ELSE UNCHANGED <<isAvailable, announce, joined, batch>>

Announce ==
    /\ announce /\ ~inside /\ batch = {}
    /\ announce' = FALSE
    /\ inside' = TRUE
    /\ UNCHANGED <<table, isAvailable, life, events, tasks, known, where, batch, read, wire, ghosts>>

(***************************************************************************)
(* poll()                                                                  *)
(***************************************************************************)
BeginPoll ==
    /\ where = "app"
    /\ where' = "dispatch"
    /\ read' = 0
    /\ UNCHANGED <<table, isAvailable, life, events, tasks, known, batch, announce, inside, wire,
                   ghosts>>

\* read_sd(): only a change is news, not a renewal, even at another endpoint.
ReadOffer(offer) ==
    /\ where = "dispatch" /\ Settled /\ read < SdBurst
    /\ read' = read + 1
    /\ known' = offer
    /\ IF known = None THEN HearsAvailable(offer)
                       ELSE UNCHANGED <<isAvailable, announce, joined, batch>>
    /\ UNCHANGED <<table, life, subscribed, tasks, where, inside, wire, ghosts>>

ReadStop ==
    /\ where = "dispatch" /\ Settled /\ read < SdBurst
    /\ known # None
    /\ read' = read + 1
    /\ known' = None
    /\ HearsUnavailable
    /\ UNCHANGED <<table, life, subscribed, tasks, where, inside, wire, ghosts>>

ReadEvent ==
    /\ where = "dispatch" /\ Settled /\ read < SdBurst
    /\ joined # None
    /\ read' = read + 1
    /\ inside' = TRUE
    /\ UNCHANGED <<table, isAvailable, life, events, tasks, known, where, batch, announce, wire,
                   ghosts>>

Proceed(from, to) ==
    /\ where = from /\ Settled
    /\ where' = to
    /\ UNCHANGED <<table, isAvailable, life, events, known, announce, read, inside, wire, ghosts>>

EndDispatch == Proceed("dispatch", "leases") /\ UNCHANGED <<batch, tasks>>

\* Mutated form: the entry expires without a word to those interested in it.
LeaseExpiresQuietly ==
    /\ where = "leases" /\ Settled
    /\ known # None
    /\ known' = None
    /\ UNCHANGED <<table, isAvailable, life, events, tasks, loop, inside, wire, ghosts>>

\* expire_leases()
LeaseExpires ==
    /\ where = "leases" /\ Settled
    /\ known # None
    /\ known' = None
    /\ HearsUnavailable
    /\ UNCHANGED <<table, life, subscribed, tasks, where, read, inside, wire, ghosts>>

Overdue == {s \in InFlight : age[s] > Timeout}

\* Mutated form: the table is not looked at.
RunTicksIdle == Proceed("leases", "ticks") /\ UNCHANGED <<batch, tasks>>

\* run_ticks(): check_timeouts() collects what is overdue before any handler runs.
RunTicks == Proceed("leases", "ticks") /\ batch' = Overdue /\ UNCHANGED tasks

\* run_posted() swaps first: what a task posts runs in the next poll.
RunPosted ==
    /\ Proceed("ticks", "tasks")
    /\ due' = posted
    /\ posted' = {}
    /\ UNCHANGED batch

\* Mutated form: the posted completion does not ask whether the proxy is closed.
RunFailureAnyway(t) ==
    /\ t.kind = "failure"
    /\ Deliver(t.call, t.failure)
    /\ UNCHANGED <<isAvailable, announce, joined, batch>>

RunFailure(t) ==
    /\ t.kind = "failure"
    /\ IF closed THEN UNCHANGED <<outcome, inside>> ELSE Deliver(t.call, t.failure)
    /\ UNCHANGED <<isAvailable, announce, joined, batch>>

\* Runtime::find() does not look at the registry again.
RunAnnouncement(t) ==
    /\ t = Announcement
    /\ HearsAvailable(known)
    /\ UNCHANGED <<outcome, inside>>

RunListener(t) ==
    /\ t = ListenerNews
    /\ inside' = (~closed /\ isAvailable)
    /\ UNCHANGED <<outcome, isAvailable, announce, joined, batch>>

RunTask(t) ==
    /\ where = "tasks" /\ Settled
    /\ t \in due
    /\ due' = due \ {t}
    /\ RunFailure(t) \/ RunAnnouncement(t) \/ RunListener(t)
    /\ UNCHANGED <<table, life, subscribed, posted, known, where, read, wire, issued>>

EndPoll == due = {} /\ Proceed("tasks", "app") /\ UNCHANGED <<batch, tasks>>

(***************************************************************************)
(* The server, the network and the clock                                   *)
(***************************************************************************)
\* A request may be answered more than once, if it was duplicated.
Answer(m) ==
    /\ m \in requests
    /\ requests' \in {requests, requests \ {m}}
    /\ replies' = replies \cup {m}
    /\ UNCHANGED <<table, isAvailable, life, events, tasks, known, loop, inside, ghosts>>

Lose ==
    /\ \/ /\ \E m \in requests : requests' = requests \ {m}
          /\ UNCHANGED replies
       \/ /\ \E m \in replies : replies' = replies \ {m}
          /\ UNCHANGED requests
    /\ UNCHANGED <<table, isAvailable, life, events, tasks, known, loop, inside, ghosts>>

Tick ==
    /\ age' = [s \in Sessions |-> IF pending[s] # None /\ age[s] <= Timeout THEN age[s] + 1
                                  ELSE age[s]]
    /\ UNCHANGED <<pending, session, isAvailable, life, events, tasks, known, loop, inside, wire,
                   ghosts>>

-----------------------------------------------------------------------------
Application == (\E c \in Calls : Call(c)) \/ Subscribe \/ OnAvailability \/ Close

Dispatch ==
    \/ \E m \in replies : ReadReply(m)
    \/ \E o \in Offers : ReadOffer(o)
    \/ ReadStop
    \/ ReadEvent

\* What the thread does by itself once it is in poll() or in a handler.
Continue ==
    \/ Return \/ FailNext \/ Announce
    \/ EndDispatch \/ RunTicks \/ RunPosted \/ EndPoll
    \/ \E t \in due : RunTask(t)

Environment == (\E m \in requests : Answer(m)) \/ Lose \/ Tick

Next == Application \/ BeginPoll \/ Dispatch \/ LeaseExpires \/ Continue \/ Environment

Spec == Init /\ [][Next]_vars

(***************************************************************************)
(* The application keeps calling poll(), its handlers return, a poll comes *)
(* to its end (read <= SdBurst: what is ready in one poll is finite), and  *)
(* time passes.  Nothing is assumed of the server or of the network.       *)
(***************************************************************************)
Fairness == WF_vars(BeginPoll) /\ WF_vars(Continue) /\ WF_vars(Tick)

FairSpec == Spec /\ Fairness

-----------------------------------------------------------------------------
(***************************************************************************)
(* Properties                                                              *)
(***************************************************************************)
\* Every variable has its type, and the table holds max_pending calls at most
\* (rule 4).
TypeInvariant ==
    /\ fixed \subseteq {"method", "events"}
    /\ pending \in [Sessions -> Calls \cup {None}]
    /\ Cardinality(InFlight) <= MaxPending
    /\ age \in [Sessions -> 0 .. Timeout + 1]
    /\ session \in 0 .. SessionMax
    /\ isAvailable \in BOOLEAN /\ closed \in BOOLEAN
    /\ subscribed \in BOOLEAN
    /\ joined \in Groups \cup {None, "fixed"}
    /\ posted \subseteq Tasks
    /\ due \subseteq Tasks
    /\ known \in Offers \cup {None}
    /\ where \in {"app", "dispatch", "leases", "ticks", "tasks"}
    /\ inside \in BOOLEAN
    /\ batch \subseteq Sessions
    /\ announce \in BOOLEAN
    /\ read \in 0 .. SdBurst
    /\ requests \subseteq [session : Sessions, call : Calls]
    /\ replies \subseteq [session : Sessions, call : Calls]
    /\ issued \subseteq Calls
    /\ outcome \in [Calls -> Outcomes \cup {None, "Twice", "Stranger"}]

\* The places that hold the handler of a call: its entry in the table, or the
\* posted failure.
Waiting(c) == {s \in Sessions : pending[s] = c}
Failing(c) == {t \in posted \cup due : t.kind = "failure" /\ t.call = c}

\* Rule 1, as bookkeeping: while the proxy lives, the handler of a call that
\* was made and not yet answered is held in exactly one place, and that of any
\* other call in none.  Losing it from the table, or keeping it in two places,
\* is how a call would complete never or twice.
HeldOnce ==
    ~closed =>
        \A c \in Calls :
            Cardinality(Waiting(c)) + Cardinality(Failing(c))
                = IF c \in issued /\ outcome[c] = None THEN 1 ELSE 0

\* Rules 1 and 2 and cancellation by destruction: the proxy implements the
\* contract of CallContract.  A reply handed to another call's handler
\* ("Stranger") or a second answer ("Twice") is no outcome of the contract.
Status == [c \in Calls |-> IF outcome[c] # None THEN "done"
                           ELSE IF closed THEN "cancelled"
                           ELSE IF c \in issued THEN "open" ELSE "idle"]

Contract == INSTANCE CallContract WITH status <- Status

ImplementsContract == Contract!Spec

\* Rule 5: once the proxy has heard that the service is gone, the only calls
\* still waiting are those the running fail_all() is about to fail.
GoneFailsAtOnce == ~isAvailable => InFlight \subseteq batch

\* A call that is told Timeout has itself waited longer than that since it was
\* sent: check_timeouts() goes by sessions collected before the handlers it
\* calls, and such a handler makes new calls, whose ids come round.
TimeoutIsDue ==
    [][\A c \in Calls :
          (outcome[c] = None /\ outcome'[c] = "Timeout") =>
              \E s \in Waiting(c) : age[s] > Timeout]_vars

\* What is offered is available, unless find() has still to announce it; and
\* what is not offered can only be available by that announcement, which does
\* not ask whether the service has gone in the meantime.
Late == Announcement \in posted \cup due
Unfounded == Discovers /\ ~closed /\ isAvailable /\ known = None

FollowsService ==
    /\ [](Discovers /\ ~closed /\ known # None => isAvailable \/ Late)
    /\ [][Unfounded' /\ ~Unfounded => Announcement \in due \ due']_vars

\* The event group is one a subscriber is in while the service is there.
LeftWhenGone == joined # None => isAvailable /\ subscribed

Wanted == subscribed /\ isAvailable

\* A subscriber joins what the registry says when the service comes or it
\* subscribes (proxy.hpp:102), unless joining fails, and loses its group only
\* when the proxy or the service goes or the events have moved.  So joining
\* that fails never costs the group it is in.
MembershipIsKept ==
    /\ []LeftWhenGone
    /\ [][LET group == EventEndpoint(known') IN
          /\ joined' \notin {None, joined} => joined' = group
          /\ joined' # joined /\ joined # None =>
                closed' \/ ~isAvailable' \/ group \notin {None, joined}
          /\ Wanted' /\ ~Wanted /\ group \notin MayFail \cup {None} => joined' = group]_vars

\* Rule 1: every call completes, whatever the server and the network do, unless
\* the proxy is destroyed first.
EveryCallEnds == \A c \in Calls : (c \in issued) ~> (outcome[c] # None \/ closed)
=============================================================================
