------------------------------ MODULE Services ------------------------------
(***************************************************************************)
(* VehicleService at work: svc_server on a Skeleton, svc_client on a       *)
(* Proxy, and the two SOME/IP directions between them, methods by unicast  *)
(* and events by multicast.                                                *)
(*                                                                         *)
(* The proxy is what CallContract says of it: a call ends once, by a       *)
(* reply, by giving up, or as not available.  Requests may also come from  *)
(* other programs, for other services, methods and versions.  A payload is *)
(* the version it was encoded by, or 0 for one that holds no float.        *)
(***************************************************************************)
EXTENDS Integers, Sequences

CONSTANTS
    Strangers,      \* requests of other programs
    HandlerActs,    \* what a method's handler may do to its skeleton besides
                    \* answering: "nothing", "withdraw", "close"
    Pause,          \* polls between the questions of the client
    MaxRequests     \* bounds the runs: requests the server reads

VARIABLES
    options,    \* of the command lines of both programs
    stage,      \* svc_server: where main() is
    offered,    \* the runtime holds an offer of this skeleton
    handlers,   \* the methods with a handler
    closed,     \* State::closed of the skeleton
    inbox,      \* datagrams at the method socket
    asked,      \* requests read that want an answer
    stats,      \* SkeletonStats
    waiting,    \* svc_client: a question is open
    rested,     \* polls since last_call
    line,       \* the call on its way: "none", "sent", or the reply
    shown       \* what the client printed last

server == <<stage, offered, handlers, closed, asked, stats>>
client == <<waiting, rested, shown>>
servicesVars == <<options, server, inbox, client, line>>

Methods == {"GetSpeed", "GetRpm"}
ClientVersion == 1                              \* kInterfaceVersion
Version == IF options.wrongVersion THEN 2 ELSE ClientVersion

Request(method, version) ==
    [service |-> "Vehicle", method |-> method, version |-> version, type |-> "Request",
     from |-> "client"]

-----------------------------------------------------------------------------
\* Skeleton::State::decide(): the code of the reply, in the order of the code.
Decide(request) ==
    CASE request.service # "Vehicle"       -> "UnknownService"
      [] request.version # Version         -> "WrongInterfaceVersion"
      [] request.method \notin handlers    -> "UnknownMethod"
      [] OTHER                             -> "Ok"

\* State::close() and State::withdraw(), also by destruction and by a move
\* over the skeleton.
Withdraw == offered' = FALSE
Close == closed' = TRUE /\ Withdraw /\ handlers' = {}

Count(field) == stats' = [stats EXCEPT !.requests = @ + 1, ![field] = @ + 1]
Reply(code) == [is |-> "reply", code |-> code, version |-> Version, payload |-> Version]

\* Mutated form: a skeleton that its own handler closed sends nothing.
AnswerUnlessClosed(request) ==
    IF request.type = "RequestNoReturn" \/ closed'
    THEN stats' = [stats EXCEPT !.requests = @ + 1] /\ UNCHANGED line
    ELSE /\ Count(IF Decide(request) = "Ok" THEN "replies" ELSE "errors")
         /\ line' = IF request.from = "client" /\ line.is = "sent"
                    THEN Reply(Decide(request)) ELSE line

\* State::answer(): a reply echoes the question, and goes out even when the
\* handler closed the skeleton; a request without return gets none.
Answer(request) ==
    IF request.type = "RequestNoReturn"
    THEN stats' = [stats EXCEPT !.requests = @ + 1] /\ UNCHANGED line
    ELSE /\ Count(IF Decide(request) = "Ok" THEN "replies" ELSE "errors")
         /\ line' = IF request.from = "client" /\ line.is = "sent"
                    THEN Reply(Decide(request)) ELSE line

\* read_requests(): one datagram of its loop; what is no request is dropped.
ReadRequest ==
    /\ stage = "loop" /\ ~closed /\ inbox # <<>> /\ stats.requests < MaxRequests
    /\ inbox' = Tail(inbox)
    /\ LET request == Head(inbox) IN
       IF request.type \notin {"Request", "RequestNoReturn"}
       THEN UNCHANGED <<offered, handlers, closed, asked, stats, line>>
       ELSE /\ \E act \in IF Decide(request) = "Ok" THEN HandlerActs ELSE {"nothing"} :
                 CASE act = "nothing"  -> UNCHANGED <<offered, handlers, closed>>
                   [] act = "withdraw" -> Withdraw /\ UNCHANGED <<handlers, closed>>
                   [] act = "close"    -> Close
            /\ Answer(request)
            /\ asked' = asked + (IF request.type = "Request" THEN 1 ELSE 0)
    /\ UNCHANGED <<options, stage, client>>

\* svc_server, main(): the runtime and the skeleton may fail, and a handler is
\* there before the offer is made.
Create ==
    /\ stage = "create" /\ stage' \in {"handlers", "over"}
    /\ UNCHANGED <<options, offered, handlers, closed, asked, stats, inbox, client, line>>

OnMethod ==
    /\ stage = "handlers" /\ stage' = "offer" /\ handlers' = Methods
    /\ UNCHANGED <<options, offered, closed, asked, stats, inbox, client, line>>

Offer ==
    /\ stage = "offer" /\ stage' = "loop" /\ offered' = options.announce
    /\ UNCHANGED <<options, handlers, closed, asked, stats, inbox, client, line>>

\* on_speed_changed() of the client, if it has joined the group. Neither
\* read_events() nor the handler looks at the interface version.
OnSpeedChanged ==
    \/ shown' = [kind |-> "event", version |-> Version]
    \/ UNCHANGED shown

Notify == stats' = [stats EXCEPT !.notifications = @ + 1] /\ OnSpeedChanged

\* A poll of the loop after which half a second has passed. One event stands
\* for all.
Publish ==
    /\ stage = "loop" /\ ~closed /\ options.publish /\ stats.notifications = 0
    /\ Notify
    /\ UNCHANGED <<options, stage, offered, handlers, closed, asked, inbox, waiting, rested, line>>

\* g_stop: the skeleton is destroyed before the runtime, which can still send
\* the StopOffer.
Stop ==
    /\ stage = "loop" /\ stage' = "over"
    /\ IF closed THEN UNCHANGED <<offered, handlers, closed>> ELSE Close
    /\ UNCHANGED <<options, asked, stats, inbox, client, line>>

StrangerAsks ==
    /\ Len(inbox) < 2
    /\ \E request \in Strangers : inbox' = Append(inbox, request)
    /\ UNCHANGED <<options, server, client, line>>

-----------------------------------------------------------------------------
\* The endpoint of --static, or what discovery knows.
Known == options.static \/ offered

\* svc_client: the body of its loop after a poll. It asks when no question is
\* open and a second has passed.
Due == ~waiting /\ ~options.eventsOnly /\ rested >= Pause

\* A call that is not refused sends a request, which may be lost.
Ask ==
    /\ Due
    /\ waiting' = TRUE /\ rested' = 0
    /\ \/ Known /\ line' = [is |-> "sent"] /\ Len(inbox) < 2
            /\ \/ inbox' = Append(inbox, Request(options.method, ClientVersion))
               \/ UNCHANGED inbox
       \/ line' = [is |-> "unavailable"] /\ UNCHANGED inbox
    /\ UNCHANGED <<options, server, shown>>

Rest ==
    /\ rested < Pause /\ rested' = rested + 1
    /\ UNCHANGED <<options, server, inbox, waiting, shown, line>>

\* to_float(): the answer as the typed proxy hands it on.
ToFloat(answer) ==
    IF answer.kind # "value" THEN answer
    ELSE IF answer.version = 0 THEN [kind |-> "failure", code |-> "Malformed"]
    ELSE answer

\* What on_reply() of the proxy makes of a reply.
Result(reply) ==
    IF reply.code # "Ok" THEN [kind |-> "error", code |-> reply.code]
    ELSE IF reply.version # ClientVersion THEN [kind |-> "failure", code |-> "WrongInterfaceVersion"]
    ELSE [kind |-> "value", version |-> reply.payload]

\* The handler of ask(): every way a call can end clears `waiting`.
Completed ==
    /\ waiting /\ line.is # "none"
    /\ \/ line.is = "unavailable" /\ shown' = [kind |-> "failure", code |-> "NotAvailable"]
       \/ line.is = "sent" /\ shown' \in {[kind |-> "failure", code |-> "Timeout"],
                                       [kind |-> "failure", code |-> "NotAvailable"]}
       \/ line.is \notin {"unavailable", "sent"} /\ shown' = ToFloat(Result(line))
    /\ waiting' = FALSE /\ line' = [is |-> "none"]
    /\ UNCHANGED <<options, server, inbox, rested>>

\* Another server's payload may come in place of this one's.
Garble ==
    /\ line.is = "reply" /\ line.payload # 0
    /\ line' = [line EXCEPT !.payload = 0]
    /\ UNCHANGED <<options, server, inbox, client>>

\* parse_options() of the two programs.
ServerOptions == [announce : BOOLEAN, publish : BOOLEAN, wrongVersion : BOOLEAN]
ClientOptions == [static : BOOLEAN, eventsOnly : BOOLEAN, method : {"GetSpeed", "0x0099"}]

ServicesInit ==
    /\ \E s \in ServerOptions, c \in ClientOptions :
          options = [announce |-> s.announce, publish |-> s.publish,
                     wrongVersion |-> s.wrongVersion, static |-> c.static,
                     eventsOnly |-> c.eventsOnly, method |-> c.method]
    /\ stage = "create" /\ offered = FALSE /\ handlers = {} /\ closed = FALSE
    /\ asked = 0
    /\ stats = [requests |-> 0, replies |-> 0, errors |-> 0, notifications |-> 0]
    /\ inbox = <<>>
    /\ waiting = FALSE /\ rested = Pause /\ line = [is |-> "none"]
    /\ shown = [kind |-> "nothing"]

ServicesNext ==
    \/ Create \/ OnMethod \/ Offer \/ ReadRequest \/ Publish \/ Stop \/ StrangerAsks
    \/ Ask \/ Rest \/ Completed \/ Garble

ServicesSpec == ServicesInit /\ [][ServicesNext]_servicesVars

-----------------------------------------------------------------------------
\* "Offered only now that the handlers exist. An offer is a promise"
\* (svc_server, main.cpp:119): what is offered is open and has its methods,
\* and a server that ended, or whose handler closed it, offers nothing.
OfferIsAPromise == offered => stage = "loop" /\ ~closed /\ handlers = Methods

\* Every request that wants an answer gets one, a reply or an error, also when
\* its handler closes the skeleton (skeleton.cpp:68-94).
EveryRequestAnswered == stats.replies + stats.errors = asked
=============================================================================
