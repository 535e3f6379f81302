------------------------------- MODULE Future -------------------------------
(***************************************************************************)
(* A one-shot channel between threads: the promise sets a value or an      *)
(* exception, the future waits for it and takes it.  The state they share  *)
(* is a mutex, a condition variable, the answer and a flag; notify_all()   *)
(* comes after the unlock, and a promise that is given up says nothing.    *)
(***************************************************************************)
EXTENDS Integers, FiniteSets

CONSTANTS
    Setters         \* threads that try to set the promise, value and exception

VARIABLES
    retrieved,      \* future_retrieved_
    answer,         \* "none", or who has set it
    setter,         \* phase of each setter
    reader,         \* phase of the reader and what it got
    notified        \* notify_all() calls that have woken the sleeping reader

futureVars == <<retrieved, answer, setter, reader, notified>>

FutureInit ==
    /\ retrieved = FALSE /\ answer = "none" /\ notified = FALSE
    /\ setter = [s \in Setters |-> "idle"]
    /\ reader = [phase |-> "idle", got |-> "none"]

\* get_future(): a second call throws.
GetFuture ==
    /\ ~retrieved
    /\ retrieved' = TRUE
    /\ reader' = [reader EXCEPT !.phase = "valid"]
    /\ UNCHANGED <<answer, setter, notified>>

\* set_value() and set_exception(), under the lock; a second one throws.
Set(s) ==
    /\ setter[s] = "idle"
    /\ IF answer # "none" THEN setter' = [setter EXCEPT ![s] = "threw"] /\ UNCHANGED answer
       ELSE answer' = s /\ setter' = [setter EXCEPT ![s] = "set"]
    /\ UNCHANGED <<retrieved, reader, notified>>

NotifyAll(s) ==
    /\ setter[s] = "set"
    /\ setter' = [setter EXCEPT ![s] = "done"]
    /\ notified' = (reader.phase \in {"asleep in wait", "asleep in get"})
    /\ UNCHANGED <<retrieved, answer, reader>>

\* The promise is destroyed unset: nobody is told.
Abandon(s) ==
    /\ setter[s] = "idle"
    /\ setter' = [setter EXCEPT ![s] = "gave up"]
    /\ UNCHANGED <<retrieved, answer, reader, notified>>

\* cv.wait() with its predicate: sleep or go on.
Waits(asleep, ready) ==
    reader' = IF answer = "none" THEN [reader EXCEPT !.phase = asleep] ELSE ready

Wait ==
    /\ reader.phase = "valid"
    /\ Waits("asleep in wait", [reader EXCEPT !.phase = "ready"])
    /\ UNCHANGED <<retrieved, answer, setter, notified>>

\* get() takes the state out of the future first.
Got == [phase |-> "consumed", got |-> answer]

Get ==
    /\ reader.phase \in {"valid", "ready"}
    /\ Waits("asleep in get", Got)
    /\ UNCHANGED <<retrieved, answer, setter, notified>>

Wake ==
    /\ notified /\ notified' = FALSE
    /\ IF reader.phase = "asleep in wait"
       THEN Waits("asleep in wait", [reader EXCEPT !.phase = "ready"])
       ELSE Waits("asleep in get", Got)
    /\ UNCHANGED <<retrieved, answer, setter>>

FutureNext ==
    \/ GetFuture \/ Wait \/ Get \/ Wake
    \/ \E s \in Setters : Set(s) \/ NotifyAll(s) \/ Abandon(s)

\* Whoever holds the lock gives it back, and a woken thread runs.
FutureFairness ==
    WF_futureVars(GetFuture) /\ WF_futureVars(Get) /\ WF_futureVars(Wake)
      /\ \A s \in Setters : WF_futureVars(NotifyAll(s))

FutureSpec == FutureInit /\ [][FutureNext]_futureVars /\ FutureFairness

-----------------------------------------------------------------------------
\* What the reader gets is what the one successful call has set, and everybody
\* else was told that it came too late (future.hpp 97-123).
OneAnswer ==
    /\ Cardinality({s \in Setters : setter[s] \in {"set", "done"}}) <= 1
    /\ reader.phase = "consumed" => setter[reader.got] \in {"set", "done"}

\* Whoever waits for a promise that is set gets its answer, also when it is set
\* between the reader's look at the flag and its sleep (future.hpp 55-69).
AnswerArrives == answer # "none" ~> reader.phase = "consumed"
=============================================================================
