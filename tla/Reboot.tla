------------------------------- MODULE Reboot -------------------------------
(***************************************************************************)
(* How a runtime notices that a peer restarted: Runtime::Impl::note_reboot *)
(* looks at the session ids of the discovery messages by where they come   *)
(* from. Messages reach the observer in order, or not at all.              *)
(***************************************************************************)
EXTENDS Integers, Sequences, FiniteSets

CONSTANTS Senders,      \* runtimes that send discovery messages
          Host,         \* where each of them runs
          LastSession,  \* the largest session id, 0xFFFF
          MaxRestarts   \* bounds the runs

VARIABLES session,      \* sd_sessions of each sender
          wrapped,      \* whether the ids of a sender have come round: "no", "now",
                        \* or "before", for one that restarted since
          offeredAs,    \* the last id each sender offered with, 0 if never
          heralds,      \* senders that restarted and have not offered since
          restarts,     \* restarts after an offer, that an offer followed
          wire,         \* messages to the observer
          seen,         \* seen_sessions of the observer by key, 0 for no entry
          reboots       \* stats.reboots_seen

rebootVars == <<session, wrapped, offeredAs, heralds, restarts, wire, seen, reboots>>

\* SessionCounter::next().
NextSession(id) == IF id = LastSession THEN 1 ELSE id + 1

\* send_sd(): the flag of the message keeps the value it is made with.
SendSd(s, offers) ==
    /\ Len(wire) < 2
    /\ session' = [session EXCEPT ![s] = NextSession(@)]
    /\ wrapped' = [wrapped EXCEPT ![s] = IF session[s] = LastSession THEN "now" ELSE @]
    /\ wire' = Append(wire, [from |-> s, session |-> session'[s], offers |-> offers,
                             reboot |-> TRUE])
    /\ UNCHANGED <<seen, reboots>>

SendOffer(s) ==
    /\ SendSd(s, TRUE)
    /\ offeredAs' = [offeredAs EXCEPT ![s] = session'[s]]
    /\ restarts' = IF s \in heralds THEN restarts + 1 ELSE restarts
    /\ heralds' = heralds \ {s}

SendFind(s) == SendSd(s, FALSE) /\ UNCHANGED <<offeredAs, heralds, restarts>>

Restart(s) ==
    /\ restarts + Cardinality(heralds) < MaxRestarts
    /\ session' = [session EXCEPT ![s] = 0]
    /\ wrapped' = [wrapped EXCEPT ![s] = IF @ = "now" THEN "before" ELSE @]
    /\ heralds' = IF offeredAs[s] # 0 THEN heralds \cup {s} ELSE heralds
    /\ UNCHANGED <<offeredAs, restarts, wire, seen, reboots>>

\* sender_key(): address and port, and every runtime sends from the port of
\* service discovery.
SenderKey(s) == Host[s]
Keys == {SenderKey(s) : s \in Senders}

\* Mutated form: a sender that asks is tracked too.
NoteRebootOfAll(message) ==
    LET key == SenderKey(message.from) IN
    /\ reboots' = IF message.reboot /\ seen[key] # 0 /\ message.session <= seen[key]
                  THEN reboots + 1 ELSE reboots
    /\ seen' = [seen EXCEPT ![key] = message.session]

\* note_reboot(): only a sender that offers is tracked.
NoteReboot(message) ==
    LET key == SenderKey(message.from) IN
    IF message.offers
    THEN /\ reboots' = IF message.reboot /\ seen[key] # 0 /\ message.session <= seen[key]
                       THEN reboots + 1 ELSE reboots
         /\ seen' = [seen EXCEPT ![key] = message.session]
    ELSE UNCHANGED <<seen, reboots>>

Receive ==
    /\ wire # <<>> /\ wire' = Tail(wire)
    /\ NoteReboot(Head(wire))
    /\ UNCHANGED <<session, wrapped, offeredAs, heralds, restarts>>

LoseMessage ==
    /\ wire # <<>> /\ wire' = Tail(wire)
    /\ UNCHANGED <<session, wrapped, offeredAs, heralds, restarts, seen, reboots>>

RebootInit ==
    /\ session = [s \in Senders |-> 0] /\ wrapped = [s \in Senders |-> "no"]
    /\ offeredAs = [s \in Senders |-> 0] /\ heralds = {} /\ restarts = 0
    /\ wire = <<>> /\ seen = [k \in Keys |-> 0] /\ reboots = 0

RebootNext ==
    \/ \E s \in Senders : SendOffer(s) \/ SendFind(s) \/ Restart(s)
    \/ Receive \/ LoseMessage

\* Bounds the runs: the ids of one sender at most come round.
Bounded ==
    /\ reboots <= MaxRestarts + 1
    /\ Cardinality({s \in Senders : wrapped[s] # "no"}) <= 1

RebootSpec == RebootInit /\ [][RebootNext /\ Bounded']_rebootVars

-----------------------------------------------------------------------------
\* The runtimes of a host share a key, so one of them at most may offer for the
\* key to stand for it.
OneServerPerHost ==
    \A s, t \in Senders :
        offeredAs[s] # 0 /\ offeredAs[t] # 0 /\ Host[s] = Host[t] => s = t

\* A peer is not said to have rebooted when it has not, whatever the others on
\* its host ask: "only a sender that *offers* is tracked" (runtime.cpp:216-218).
\* This holds as long as no session id has come round and no host has had two
\* servers; ids that go backwards say nothing then.
NoFalseReboot ==
    (OneServerPerHost /\ \A s \in Senders : wrapped[s] = "no") => reboots <= restarts
=============================================================================
