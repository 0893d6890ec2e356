---------------------------- MODULE ExpirationQueue ----------------------------
(*****************************************************************************)
(* Events that expire: connections store them and hand their Time over, a    *)
(* task keeps it in a persisted queue and removes what is due                *)
(* (src/expiration_queue.rs).  The store is an array of slots, given out by  *)
(* a counter as Db does, and the process may crash at any point.             *)
(*                                                                           *)
(* Only events with an expiration are handed over; the others take part      *)
(* because they are given numbers as well.                                   *)
(*****************************************************************************)
EXTENDS Naturals, Sequences, Functions

CONSTANTS
    None,
    Events,        \* the events clients may publish
    ExpiresAt,     \* event -> its expiration, or None
    Connections,   \* the connections that publish
    ChannelCap,    \* capacity of the channel to the task (10 in main)
    MaxN,          \* bound on the numbers given out
    MaxTime,       \* bound on the clock
    MaxCrashes     \* bound on the crashes

Ns == 1..MaxN

ASSUME ExpirationQueueAssumption ==
    /\ None \notin Events /\ None \notin Nat
    /\ ExpiresAt \in [Events -> (0..MaxTime) \cup {None}]
    /\ ChannelCap \in Nat \ {0} /\ MaxN \in Nat /\ MaxTime \in Nat /\ MaxCrashes \in Nat

VARIABLES
    clock,
    n_count,       \* the next number, volatile
    n_of,          \* event -> its number or None (its id's entry in hash_to_n)
    have,          \* the events whose ids are known: they will not be stored again
    slots,         \* number -> the event stored under it, or None
    conns,         \* connection -> None or the <<t, n>> it is handing over
    channel,       \* the <<t, n>> on their way to the task
    queue,         \* expiration_queue.rocksdb: a set of <<t, n>>
    pc,            \* where the task is: "select", "loop" or "remove"
    removing,      \* the number it is about to remove
    crashes,       \* history: the crashes so far
    accepted       \* history: the events that add_event has accepted

store == <<n_count, n_of, have, slots>>
task == <<pc, removing>>
vars == <<clock, store, conns, channel, queue, task, crashes, accepted>>

Init ==
    /\ clock = 0 /\ n_count = 1
    /\ n_of = [e \in Events |-> None]
    /\ slots = [n \in Ns |-> None]
    /\ conns = [c \in Connections |-> None]
    /\ have = {} /\ channel = <<>> /\ queue = {} /\ pc = "select" /\ removing = None
    /\ crashes = 0 /\ accepted = {}

Tick ==
    /\ clock < MaxTime
    /\ clock' = clock + 1
    /\ UNCHANGED <<store, conns, channel, queue, task, crashes, accepted>>

-------------------------------------------------------------------------------
(* Connections: handle_event.                                                *)

\* add_event stores an event that has not expired and whose id is not known,
\* under the number the id has or gets, and Ok(n) leads to a hand-over.
Publish(c, e) ==
    LET n == IF n_of[e] = None THEN n_count ELSE n_of[e] IN
    /\ conns[c] = None /\ e \notin have /\ n \in Ns
    /\ ExpiresAt[e] # None => ExpiresAt[e] > clock
    /\ n_count' = IF n_of[e] = None THEN n + 1 ELSE n_count
    /\ n_of' = [n_of EXCEPT ![e] = n]
    /\ have' = have \cup {e}
    /\ slots' = [slots EXCEPT ![n] = e]
    /\ accepted' = accepted \cup {e}
    /\ conns' = [conns EXCEPT ![c] = IF ExpiresAt[e] = None THEN None ELSE <<ExpiresAt[e], n>>]
    /\ UNCHANGED <<clock, channel, queue, task, crashes>>

\* Mutant: one too many.
HasRoomOne == Len(channel) <= ChannelCap

HasRoom == Len(channel) < ChannelCap

\* event_expiration_sender.send waits while the channel is full.
HandOver(c) ==
    /\ conns[c] # None /\ HasRoom
    /\ channel' = Append(channel, conns[c])
    /\ conns' = [conns EXCEPT ![c] = None]
    /\ UNCHANGED <<clock, store, queue, task, crashes, accepted>>

-------------------------------------------------------------------------------
(* The task: wait_expiration.                                                *)

\* Mutant: one entry per time.
WithOnePerTime(time) == {q \in queue : q[1] # time[1]} \cup {time}

\* The key of an entry is the Time, so that equal times do not collide.
With(time) == queue \cup {time}

Recv ==
    /\ pc = "select" /\ channel # <<>>
    /\ queue' = With(Head(channel))
    /\ channel' = Tail(channel)
    /\ UNCHANGED <<clock, store, conns, task, crashes, accepted>>

\* The first key of the queue
IsFirst(time) ==
    /\ time \in queue
    /\ \A q \in queue : time[1] < q[1] \/ (time[1] = q[1] /\ time[2] <= q[2])

\* Mutant: a tick too early.
DueEarly(t) == t <= clock + 1

Due(t) == t <= clock

FirstDue == \E time \in queue : IsFirst(time) /\ Due(time[1])

\* The sleep until the first expiration is over, or the loop of
\* delete_expired_events goes on: the first entry goes off the queue ...
TakeOff ==
    /\ pc \in {"select", "loop"}
    /\ \E time \in queue :
          /\ IsFirst(time) /\ Due(time[1])
          /\ queue' = queue \ {time}
          /\ removing' = time[2]
    /\ pc' = "remove"
    /\ UNCHANGED <<clock, store, conns, channel, crashes, accepted>>

\* ... and what is stored under its number is removed; its id is forgotten.
RemoveEvent ==
    /\ pc = "remove"
    /\ slots' = [slots EXCEPT ![removing] = None]
    /\ have' = have \ {slots[removing]}
    /\ pc' = "loop" /\ removing' = None
    /\ UNCHANGED <<clock, n_count, n_of, conns, channel, queue, crashes, accepted>>

\* Mutant: the loop does not break.
LoopSpins == pc = "loop" /\ ~FirstDue /\ UNCHANGED vars

LoopEnd ==
    /\ pc = "loop" /\ ~FirstDue
    /\ pc' = "select"
    /\ UNCHANGED <<clock, store, conns, channel, queue, removing, crashes, accepted>>

Step == Recv \/ TakeOff \/ RemoveEvent \/ LoopEnd

-------------------------------------------------------------------------------

\* Somebody replaces or deletes an event: its id stays known.
Withdraw(e) ==
    /\ e \in have /\ slots[n_of[e]] = e
    /\ slots' = [slots EXCEPT ![n_of[e]] = None]
    /\ UNCHANGED <<clock, n_count, n_of, have, conns, channel, queue, task, crashes, accepted>>

\* After a crash, Db::new starts the counter after the last event stored.
Crash ==
    /\ crashes < MaxCrashes
    /\ crashes' = crashes + 1
    /\ n_count' = 1 + CHOOSE n \in 0..MaxN :
          /\ n = 0 \/ slots[n] # None
          /\ \A m \in Ns : slots[m] # None => m <= n
    /\ conns' = [c \in Connections |-> None]
    /\ channel' = <<>> /\ pc' = "select" /\ removing' = None
    /\ UNCHANGED <<clock, n_of, have, slots, queue, accepted>>

Next ==
    \/ Tick
    \/ \E c \in Connections : HandOver(c) \/ \E e \in Events : Publish(c, e)
    \/ Step
    \/ \E e \in Events : Withdraw(e)

Spec == Init /\ [][Next]_vars

\* Time passes, the task runs whenever it can, and a connection that waits for
\* the channel is woken.
Fairness ==
    /\ WF_vars(Tick) /\ WF_vars(Step)
    /\ \A c \in Connections : WF_vars(HandOver(c))

FairSpec == Spec /\ Fairness

CrashSpec == Init /\ [][Next \/ Crash]_vars /\ Fairness

-------------------------------------------------------------------------------

Pending == ({conns[c] : c \in Connections} \ {None}) \cup Range(channel) \cup queue

\* A Time: when the event under a number expires.
Times == (0..MaxTime) \X Ns

\* The variables have their types.
TypeOK ==
    /\ clock \in 0..MaxTime /\ n_count \in 1..(MaxN + 1)
    /\ n_of \in [Events -> Ns \cup {None}] /\ slots \in [Ns -> Events \cup {None}]
    /\ have \subseteq accepted /\ accepted \subseteq Events
    /\ conns \in [Connections -> Times \cup {None}]
    /\ channel \in Seq(Times) /\ Len(channel) <= ChannelCap
    /\ queue \subseteq Times
    /\ pc \in {"select", "loop", "remove"}
    /\ removing \in Ns \cup {None} /\ (pc = "remove" => removing # None)

HasExpired(e) == ExpiresAt[e] # None /\ ExpiresAt[e] <= clock

\* The task removes nothing but events that have expired, although it goes by a
\* number that was put into the queue long before (delete_expired_events).
RemovedRightly ==
    [][pc = "remove" /\ pc' = "loop" /\ slots[removing] # None
          => HasExpired(slots[removing])]_vars

\* Every accepted event that expires is gone for good in the end, however full
\* the channel and however many expire together.
ExpiringGone ==
    \A e \in Events : ExpiresAt[e] # None =>
        (e \in accepted ~> [](\A n \in Ns : slots[n] # e))

\* A connection that waits for the channel is not held up for ever by a task
\* that is busy removing (wait_expiration).
HandOverEnds == \A c \in Connections : ((conns[c] # None) ~> (conns[c] = None))
================================================================================
