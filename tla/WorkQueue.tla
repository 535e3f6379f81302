------------------------------ MODULE WorkQueue -----------------------------
(***************************************************************************)
(* Mutex, condition variable and queue, three times over: BlockingQueue    *)
(* and the two thread pools built on the same pattern.  The critical       *)
(* section of a call is one step, the notification after it another; a     *)
(* wait ends when it is notified, or for no reason at all.                 *)
(*                                                                         *)
(* A worker is a thread of the pool, or one that pops in a loop; a job is  *)
(* an item, or a callable with its future.  A job may throw, and a job of  *)
(* a pool may submit another.                                              *)
(***************************************************************************)
EXTENDS Integers, Sequences, FiniteSets

CONSTANTS Workers, Jobs,
          Parents   \* jobs that submit the one Child when they run
VARIABLES user,     \* "BlockingQueue", "ThreadPool" or "ThreadPoolMO"
          queue, stop,
          notices,  \* notifications that are due: "one" or "all"
          at,       \* worker: "check", "asleep", "exit", or the job it runs
          fate,     \* of each job: "new", "refused", "queued", "running", "value", "error"
          owner     \* the thread that destroys: "alive", "stopping", "joining", "gone"

workVars == <<user, queue, stop, notices, at, fate, owner>>

Child == CHOOSE j \in Jobs : j \notin Parents
Pool == user # "BlockingQueue"
Asleep == {w \in Workers : at[w] = "asleep"}
Running == {w \in Workers : at[w] \in Jobs}

-----------------------------------------------------------------------------
\* push() gives back false when closed; submit() throws on a stopped pool.  The
\* state changes under the lock, the notification comes after it.
Enqueue(job) ==
  IF stop THEN fate' = [fate EXCEPT ![job] = "refused"] /\ UNCHANGED <<queue, notices>>
  ELSE /\ queue' = Append(queue, job) /\ fate' = [fate EXCEPT ![job] = "queued"]
       /\ notices' = Append(notices, "one")

Push(job) == user = "BlockingQueue" /\ Enqueue(job)
Submit(job) == user = "ThreadPool" /\ Enqueue(job)
SubmitMoved(job) == user = "ThreadPoolMO" /\ Enqueue(job)

Produce(job) ==
  /\ fate[job] = "new" /\ owner = "alive" /\ (Pool => job # Child \/ Parents = {})
  /\ Push(job) \/ Submit(job) \/ SubmitMoved(job)
  /\ UNCHANGED <<user, stop, at, owner>>

Notify ==
  /\ notices # <<>> /\ notices' = Tail(notices)
  /\ IF Head(notices) = "all" THEN at' = [w \in Workers |-> IF w \in Asleep THEN "check" ELSE at[w]]
     ELSE IF Asleep = {} THEN UNCHANGED at
     ELSE \E w \in Asleep : at' = [at EXCEPT ![w] = "check"]
  /\ UNCHANGED <<user, queue, stop, fate, owner>>

SpuriousWakeup(w) ==
  /\ at[w] = "asleep" /\ at' = [at EXCEPT ![w] = "check"]
  /\ UNCHANGED <<user, queue, stop, notices, fate, owner>>

\* The predicate of the wait, and what follows it: the queue is drained before
\* a worker leaves.
TakeOrLeave(w) ==
  IF queue # <<>>
  THEN /\ queue' = Tail(queue) /\ at' = [at EXCEPT ![w] = Head(queue)]
       /\ fate' = [fate EXCEPT ![Head(queue)] = "running"]
  ELSE /\ at' = [at EXCEPT ![w] = IF stop THEN "exit" ELSE "asleep"]
       /\ UNCHANGED <<queue, fate>>

Pop(w) == user = "BlockingQueue" /\ TakeOrLeave(w)
WorkerLoop(w) == user = "ThreadPool" /\ TakeOrLeave(w)
WorkerLoopMoved(w) == user = "ThreadPoolMO" /\ TakeOrLeave(w)

Consume(w) ==
  /\ at[w] = "check"
  /\ Pop(w) \/ WorkerLoop(w) \/ WorkerLoopMoved(w)
  /\ UNCHANGED <<user, stop, notices, owner>>

\* The job runs outside the lock; packaged_task keeps what it throws.
Finish(w) ==
  /\ w \in Running
  /\ LET job == at[w] IN
     \/ /\ fate[job] = "running" /\ (job \in Parents /\ Pool => fate[Child] # "new")
        /\ \E end \in {"value", "error"} : fate' = [fate EXCEPT ![job] = end]
        /\ at' = [at EXCEPT ![w] = "check"] /\ UNCHANGED <<queue, notices>>
     \/ /\ job \in Parents /\ Pool /\ fate[Child] = "new"
        /\ Submit(Child) \/ SubmitMoved(Child)
        /\ UNCHANGED at
  /\ UNCHANGED <<user, stop, owner>>

\* try_pop(), by anybody, whether the queue is closed or not.
TryPop ==
  /\ user = "BlockingQueue" /\ queue # <<>>
  /\ queue' = Tail(queue) /\ fate' = [fate EXCEPT ![Head(queue)] = "value"]
  /\ UNCHANGED <<user, stop, notices, at, owner>>

\* Mutated form: one waiter is woken for the end.
ClosingForOne(kind) ==
  /\ user = kind /\ owner = "alive"
  /\ owner' = "joining" /\ stop' = TRUE /\ notices' = Append(notices, "one")
  /\ UNCHANGED <<user, queue, at, fate>>

\* close(), and the destructors, which go on to join the workers.
Closing(kind) ==
  /\ user = kind /\ owner = "alive"
  /\ owner' = "joining" /\ stop' = TRUE /\ notices' = Append(notices, "all")
  /\ UNCHANGED <<user, queue, at, fate>>
Close == Closing("BlockingQueue")
DestroyPool == Closing("ThreadPool")
DestroyPoolMoved == Closing("ThreadPoolMO")

Joined ==
  /\ owner = "joining" /\ \A w \in Workers : at[w] = "exit"
  /\ owner' = "gone"
  /\ UNCHANGED <<user, queue, stop, notices, at, fate>>

WorkInit ==
  /\ user \in {"BlockingQueue", "ThreadPool", "ThreadPoolMO"}
  /\ queue = <<>> /\ stop = FALSE /\ notices = <<>> /\ owner = "alive"
  /\ at = [w \in Workers |-> "check"] /\ fate = [j \in Jobs |-> "new"]

WorkNext ==
  \/ \E j \in Jobs : Produce(j)
  \/ \E w \in Workers : Consume(w) \/ Finish(w) \/ SpuriousWakeup(w)
  \/ Notify \/ TryPop \/ Close \/ DestroyPool \/ DestroyPoolMoved \/ Joined

\* Threads run, notifications are delivered; nobody has to call anything.
WorkFairness ==
  /\ \A w \in Workers : WF_workVars(Consume(w)) /\ WF_workVars(Finish(w))
  /\ WF_workVars(Notify) /\ WF_workVars(Joined)

WorkSpec == WorkInit /\ [][WorkNext]_workVars /\ WorkFairness

-----------------------------------------------------------------------------
\* "Workers exit only once the queue is drained, so queued work still runs"
\* (thread_pool.hpp:53-54): when the workers have been joined, no future of a
\* job that was accepted is left without an answer.
NothingLeftBehind ==
  owner = "gone" => \A j \in Jobs : fate[j] \in {"new", "refused", "value", "error"}

\* A closed queue lets every consumer go, and a job that was accepted gets its
\* turn: no wakeup is lost (blocking_queue.hpp:8-15).
ClosingEnds == owner = "joining" ~> owner = "gone"
AcceptedJobsEnd == \A j \in Jobs : fate[j] = "queued" ~> fate[j] \in {"value", "error"}
=============================================================================
