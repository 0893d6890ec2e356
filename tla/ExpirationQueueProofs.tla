------------------------- MODULE ExpirationQueueProofs -------------------------
(*****************************************************************************)
(* Proofs about the expiration queue, for any events, expirations,           *)
(* connections and capacity: as long as the process does not crash, the task *)
(* removes nothing but what has expired; and the types hold across crashes.  *)
(*                                                                           *)
(* What makes a number that has waited in the queue good for the event under *)
(* it is that numbers are given once (Numbered), that an event is only under *)
(* its own (InOwnSlot), and that the number in a Time is the one of an event *)
(* with that expiration (Timed).                                             *)
(*****************************************************************************)
EXTENDS ExpirationQueue, WellFoundedInduction, TLAPS

\* Every number given out is below the counter, and given to one event.
Numbered ==
    \A e \in Events : n_of[e] # None =>
        /\ n_of[e] < n_count
        /\ \A f \in Events : n_of[f] = n_of[e] => f = e

\* An event is stored under its own number.
InOwnSlot == \A n \in Ns : slots[n] # None => n_of[slots[n]] = n

\* A Time on its way belongs to an event with this expiration ...
Timed ==
    \A time \in Pending : \E e \in Events : ExpiresAt[e] = time[1] /\ n_of[e] = time[2]

\* ... and a number that is about to be removed to one that has expired.
TakenExpired ==
    pc = "remove" => \E e \in Events : HasExpired(e) /\ n_of[e] = removing

Inv == TypeOK /\ Numbered /\ InOwnSlot /\ Timed /\ TakenExpired
-------------------------------------------------------------------------------
(* The data.                                                                 *)

\* Every set of natural numbers has a least element.
LEMMA Least ==
    ASSUME NEW S \in SUBSET Nat, S # {}
    PROVE  \E n \in S : \A m \in S : n <= m
  <1> DEFINE R == OpToRel(<, Nat)
  <1>1. IsWellFoundedOn(R, Nat)
    BY NatLessThanWellFounded
  <1>2. R = {ss \in Nat \X Nat : ss[1] < ss[2]}
    BY DEF OpToRel
  <1> HIDE DEF R
  <1>3. PICK n \in S : \A m \in S : ~(<<m, n>> \in R)
    BY <1>1, WFMin
  <1>4. \A m \in S : ~(m < n)
    BY <1>2, <1>3
  <1> QED
    BY <1>3, <1>4

\* The parameters, as the steps below use them.
LEMMA Parameters ==
    /\ MaxTime \in Nat /\ MaxN \in Nat /\ ChannelCap \in Nat /\ 0 < ChannelCap
    /\ None \notin Events /\ None \notin Ns
    /\ \A e \in Events : ExpiresAt[e] # None => ExpiresAt[e] \in 0..MaxTime
  BY ExpirationQueueAssumption DEF ExpirationQueueAssumption, Ns

\* Appending and taking the head, as the channel and the queue do it.
LEMMA Appended ==
    ASSUME NEW S, NEW s \in Seq(S), NEW x \in S
    PROVE  /\ Append(s, x) \in Seq(S) /\ Len(Append(s, x)) = Len(s) + 1
           /\ Range(Append(s, x)) = Range(s) \cup {x}
  <1>1. /\ Append(s, x) \in Seq(S) /\ Len(Append(s, x)) = Len(s) + 1
        /\ DOMAIN Append(s, x) = DOMAIN s \cup {Len(s) + 1} /\ Len(s) + 1 \notin DOMAIN s
        /\ Append(s, x)[Len(s) + 1] = x /\ \A i \in DOMAIN s : Append(s, x)[i] = s[i]
    OBVIOUS
  <1> QED
    BY <1>1 DEF Range

LEMMA Shortened ==
    ASSUME NEW S, NEW s \in Seq(S), s # <<>>
    PROVE  /\ Tail(s) \in Seq(S) /\ Len(Tail(s)) = Len(s) - 1
           /\ Head(s) \in Range(s) /\ Range(Tail(s)) \subseteq Range(s)
  <1>1. /\ Tail(s) \in Seq(S) /\ Len(Tail(s)) = Len(s) - 1
        /\ 1 \in DOMAIN s /\ Head(s) = s[1]
    OBVIOUS
  <1>2. \A i \in DOMAIN Tail(s) : i + 1 \in DOMAIN s /\ Tail(s)[i] = s[i + 1]
    OBVIOUS
  <1> QED
    BY <1>1, <1>2 DEF Range

\* What is on its way is a Time.
LEMMA PendingTimes == TypeOK => Pending \subseteq Times
  BY DEF TypeOK, Pending, Range
-------------------------------------------------------------------------------
(* Types, whether the process crashes or not.                                *)

LEMMA PublishKeepsTypes ==
    ASSUME TypeOK, NEW c \in Connections, NEW e \in Events, Publish(c, e)
    PROVE  TypeOK'
  <1> DEFINE n == IF n_of[e] = None THEN n_count ELSE n_of[e]
             time == <<ExpiresAt[e], n>>
  <1>1. /\ UNCHANGED <<clock, channel, queue, pc, removing>>
        /\ n \in Ns /\ n_count' = (IF n_of[e] = None THEN n + 1 ELSE n_count)
        /\ n_of' = [n_of EXCEPT ![e] = n] /\ slots' = [slots EXCEPT ![n] = e]
        /\ have' = have \cup {e} /\ accepted' = accepted \cup {e}
        /\ conns' = [conns EXCEPT ![c] = IF ExpiresAt[e] = None THEN None ELSE time]
    BY DEF Publish, task
  <1>2. ExpiresAt[e] # None => time \in Times
    BY <1>1, Parameters DEF Times
  <1> HIDE DEF n, time
  <1>3. n_count' \in 1..(MaxN + 1)
    BY <1>1, Parameters DEF TypeOK, Ns
  <1>4. n_of' \in [Events -> Ns \cup {None}] /\ slots' \in [Ns -> Events \cup {None}]
    BY <1>1 DEF TypeOK
  <1>5. conns' \in [Connections -> Times \cup {None}]
    BY <1>1, <1>2 DEF TypeOK
  <1> QED
    BY <1>1, <1>3, <1>4, <1>5 DEF TypeOK

LEMMA HandOverKeepsTypes == ASSUME TypeOK, NEW c \in Connections, HandOver(c) PROVE TypeOK'
  <1>1. /\ UNCHANGED <<clock, n_count, n_of, have, slots, queue, pc, removing, accepted>>
        /\ conns[c] # None /\ Len(channel) < ChannelCap
        /\ channel' = Append(channel, conns[c]) /\ conns' = [conns EXCEPT ![c] = None]
    BY DEF HandOver, HasRoom, store, task
  <1>2. conns[c] \in Times /\ channel \in Seq(Times) /\ Len(channel) \in Nat
    BY <1>1 DEF TypeOK
  <1>3. channel' \in Seq(Times) /\ Len(channel') = Len(channel) + 1
    BY <1>1, <1>2, Appended
  <1> QED
    BY <1>1, <1>2, <1>3, Parameters DEF TypeOK

LEMMA RecvKeepsTypes == ASSUME TypeOK, Recv PROVE TypeOK'
  <1>1. /\ UNCHANGED <<clock, n_count, n_of, have, slots, conns, pc, removing, accepted>>
        /\ channel # <<>> /\ channel' = Tail(channel) /\ queue' = queue \cup {Head(channel)}
    BY DEF Recv, With, store, task
  <1>2. channel \in Seq(Times) /\ Len(channel) \in Nat
    BY DEF TypeOK
  <1>3. channel' \in Seq(Times) /\ Len(channel') = Len(channel) - 1
    BY <1>1, <1>2, Shortened
  <1>4. Head(channel) \in Times
    BY <1>1, <1>2
  <1> QED
    BY <1>1, <1>2, <1>3, <1>4, Parameters DEF TypeOK

LEMMA TakeOffKeepsTypes == ASSUME TypeOK, TakeOff PROVE TypeOK'
  <1>1. /\ UNCHANGED <<clock, n_count, n_of, have, slots, conns, channel, accepted>>
        /\ pc' = "remove"
        /\ \E time \in queue : queue' = queue \ {time} /\ removing' = time[2]
    BY DEF TakeOff, store
  <1> QED
    BY <1>1, Parameters DEF TypeOK, Times

LEMMA TypesKept == ASSUME TypeOK, [Next]_vars PROVE TypeOK'
  <1>1. CASE Tick
    BY <1>1, Parameters DEF Tick, store, task, TypeOK
  <1>2. CASE \E c \in Connections : HandOver(c) \/ \E e \in Events : Publish(c, e)
    BY <1>2, HandOverKeepsTypes, PublishKeepsTypes
  <1>3. CASE Recv \/ TakeOff
    BY <1>3, RecvKeepsTypes, TakeOffKeepsTypes
  <1>4. CASE RemoveEvent
    BY <1>4 DEF RemoveEvent, TypeOK
  <1>5. CASE LoopEnd
    BY <1>5 DEF LoopEnd, store, TypeOK
  <1>6. CASE \E e \in Events : Withdraw(e)
    BY <1>6 DEF Withdraw, task, TypeOK
  <1>7. CASE UNCHANGED vars
    BY <1>7 DEF vars, store, task, TypeOK
  <1> QED
    BY <1>1, <1>2, <1>3, <1>4, <1>5, <1>6, <1>7 DEF Next, Step

\* There is a last event, or none.
LEMMA LastStored ==
    ASSUME TypeOK
    PROVE  \E n \in 0..MaxN :
              /\ n = 0 \/ slots[n] # None
              /\ \A m \in Ns : slots[m] # None => m <= n
  <1> DEFINE Above == {n \in 0..MaxN : \A m \in Ns : slots[m] # None => m <= n}
  <1>1. MaxN \in Above /\ Above \in SUBSET Nat
    BY Parameters DEF Ns
  <1>2. PICK n \in Above : \A k \in Above : n <= k
    BY <1>1, Least
  <1>3. CASE n = 0 \/ slots[n] # None
    BY <1>2, <1>3
  <1>4. CASE n # 0 /\ slots[n] = None
    <2>1. n - 1 \in Above
      BY <1>2, <1>4, Parameters DEF Ns
    <2> QED
      BY <1>1, <1>2, <2>1
  <1> QED
    BY <1>3, <1>4

LEMMA CrashKeepsTypes == ASSUME TypeOK, Crash PROVE TypeOK'
  <1> DEFINE last == CHOOSE n \in 0..MaxN :
                        /\ n = 0 \/ slots[n] # None
                        /\ \A m \in Ns : slots[m] # None => m <= n
  <1>1. /\ UNCHANGED <<clock, n_of, have, slots, queue, accepted>>
        /\ n_count' = 1 + last
        /\ conns' = [c \in Connections |-> None] /\ channel' = <<>>
        /\ pc' = "select" /\ removing' = None
    BY DEF Crash
  <1>2. last \in 0..MaxN
    BY LastStored
  <1> HIDE DEF last
  <1> QED
    BY <1>1, <1>2, Parameters DEF TypeOK

LEMMA TypesInductive == Init /\ [][Next \/ Crash]_vars => []TypeOK
  <1>1. ASSUME TypeOK, [Next \/ Crash]_vars PROVE TypeOK'
    BY <1>1, TypesKept, CrashKeepsTypes
  <1>2. Init => TypeOK
    BY Parameters DEF Init, TypeOK, Ns
  <1> QED
    BY <1>1, <1>2, PTL

\* The clock, the store, the Times and the task keep their types, and the channel
\* its capacity (wait_expiration, handle_event) ...
THEOREM TypeCorrect == Spec => []TypeOK
  <1>1. [Next]_vars => [Next \/ Crash]_vars
    OBVIOUS
  <1> QED
    BY <1>1, TypesInductive, PTL DEF Spec

\* ... also when the process crashes, and the counter starts again (Db::new).
THEOREM TypeCorrectAcrossCrashes == CrashSpec => []TypeOK
  BY TypesInductive, PTL DEF CrashSpec
-------------------------------------------------------------------------------
(* What is removed, as long as the process does not crash: with a crash the  *)
(* counter may give a number again that waits in the queue (expire_reuse).   *)

LEMMA Initially == Init => Inv
  <1> SUFFICES ASSUME Init PROVE Inv
    OBVIOUS
  <1>1. TypeOK
    BY Parameters DEF Init, TypeOK, Ns
  <1>2. Pending = {}
    BY DEF Init, Pending, Range
  <1> QED
    BY <1>1, <1>2 DEF Init, Inv, Numbered, InOwnSlot, Timed, TakenExpired

\* What neither gives numbers nor adds a Time nor takes one off.
LEMMA Frame ==
    ASSUME Inv, UNCHANGED <<n_count, n_of, slots>>, Pending' \subseteq Pending
    PROVE  Numbered' /\ InOwnSlot' /\ Timed'
  BY DEF Inv, Numbered, InOwnSlot, Timed

LEMMA TickKeeps == ASSUME Inv, TypeOK', Tick PROVE Inv'
  <1>1. /\ clock' = clock + 1 /\ clock < MaxTime
        /\ UNCHANGED <<n_count, n_of, have, slots, conns, channel, queue, pc, removing, accepted>>
    BY DEF Tick, store, task
  <1>2. TakenExpired'
    <2>1. \A e \in Events : HasExpired(e) => HasExpired(e)'
      BY <1>1, Parameters DEF Inv, TypeOK, HasExpired
    <2> QED
      BY <1>1, <2>1 DEF Inv, TakenExpired
  <1>3. Pending' = Pending
    BY <1>1 DEF Pending
  <1> QED
    BY <1>1, <1>2, <1>3, Frame DEF Inv

LEMMA PublishKeeps ==
    ASSUME Inv, TypeOK', NEW c \in Connections, NEW e \in Events, Publish(c, e)
    PROVE  Inv'
  <1> DEFINE n == IF n_of[e] = None THEN n_count ELSE n_of[e]
             time == <<ExpiresAt[e], n>>
  <1>1. /\ UNCHANGED <<clock, channel, queue, pc, removing>>
        /\ n \in Ns /\ n_count' = (IF n_of[e] = None THEN n + 1 ELSE n_count)
        /\ n_of' = [n_of EXCEPT ![e] = n] /\ slots' = [slots EXCEPT ![n] = e]
        /\ have' = have \cup {e} /\ accepted' = accepted \cup {e}
        /\ conns' = [conns EXCEPT ![c] = IF ExpiresAt[e] = None THEN None ELSE time]
    BY DEF Publish, task
  <1>2. n_of[e] # None => n = n_of[e]
    OBVIOUS
  <1>3. n_of[e] = None => n = n_count
    OBVIOUS
  <1>4. ExpiresAt[e] # None => time \in Times /\ time[1] = ExpiresAt[e] /\ time[2] = n
    BY <1>1, Parameters DEF Times
  <1> HIDE DEF n, time
  <1>5. n_of'[e] = n /\ \A f \in Events : f # e => n_of'[f] = n_of[f] /\ n_of[f] # n
    <2>1. ASSUME NEW f \in Events, f # e, n_of[f] = n
          PROVE  FALSE
      BY <1>1, <1>2, <1>3, <2>1, Parameters DEF Inv, TypeOK, Numbered, Ns
    <2> QED
      BY <1>1, <2>1 DEF Inv, TypeOK
  <1>6. Numbered'
    BY <1>1, <1>2, <1>3, <1>5 DEF Inv, TypeOK, Numbered, Ns
  <1>7. InOwnSlot'
    BY <1>1, <1>2, <1>3, <1>5, Parameters DEF Inv, TypeOK, InOwnSlot
  <1>8. Timed'
    <2> SUFFICES ASSUME NEW p \in Pending'
                 PROVE  \E f \in Events : ExpiresAt[f] = p[1] /\ n_of'[f] = p[2]
      BY DEF Timed
    <2>1. CASE p \in Pending
      <3>1. PICK f \in Events : ExpiresAt[f] = p[1] /\ n_of[f] = p[2]
        BY <2>1 DEF Inv, Timed
      <3>2. p[2] # None
        BY <2>1, PendingTimes, Parameters DEF Inv, Times
      <3> QED
        BY <1>2, <1>5, <3>1, <3>2
    <2>2. CASE p \notin Pending
      <3>1. p = time /\ ExpiresAt[e] # None
        BY <1>1, <2>2 DEF Pending, Inv, TypeOK
      <3> QED
        BY <1>4, <1>5, <3>1
    <2> QED
      BY <2>1, <2>2
  <1>9. TakenExpired'
    BY <1>1, <1>2, <1>5, Parameters DEF Inv, TypeOK, TakenExpired, HasExpired
  <1> QED
    BY <1>6, <1>7, <1>8, <1>9 DEF Inv

LEMMA HandOverKeeps == ASSUME Inv, TypeOK', NEW c \in Connections, HandOver(c) PROVE Inv'
  <1>1. /\ UNCHANGED <<clock, n_count, n_of, have, slots, queue, pc, removing, accepted>>
        /\ conns[c] # None /\ Len(channel) < ChannelCap
        /\ channel' = Append(channel, conns[c]) /\ conns' = [conns EXCEPT ![c] = None]
    BY DEF HandOver, HasRoom, store, task
  <1>2. conns[c] \in Times /\ channel \in Seq(Times)
    BY <1>1 DEF Inv, TypeOK
  <1>3. /\ channel' \in Seq(Times) /\ Len(channel') = Len(channel) + 1
        /\ Range(channel') = Range(channel) \cup {conns[c]}
    BY <1>1, <1>2, Appended
  <1>4. Pending' \subseteq Pending
    BY <1>1, <1>3 DEF Pending, Inv, TypeOK
  <1> QED
    BY <1>1, <1>4, Frame DEF Inv, TakenExpired, HasExpired

LEMMA RecvKeeps == ASSUME Inv, TypeOK', Recv PROVE Inv'
  <1>1. /\ UNCHANGED <<clock, n_count, n_of, have, slots, conns, pc, removing, accepted>>
        /\ channel # <<>> /\ channel' = Tail(channel) /\ queue' = queue \cup {Head(channel)}
    BY DEF Recv, With, store, task
  <1>2. channel \in Seq(Times) /\ Len(channel) \in Nat
    BY DEF Inv, TypeOK
  <1>3. /\ channel' \in Seq(Times) /\ Len(channel') = Len(channel) - 1
        /\ Head(channel) \in Range(channel) /\ Range(channel') \subseteq Range(channel)
    BY <1>1, <1>2, Shortened
  <1>4. Pending' \subseteq Pending
    BY <1>1, <1>3 DEF Pending
  <1> QED
    BY <1>1, <1>4, Frame DEF Inv, TakenExpired, HasExpired

LEMMA TakeOffKeeps == ASSUME Inv, TypeOK', TakeOff PROVE Inv'
  <1>1. PICK time \in queue :
           Due(time[1]) /\ queue' = queue \ {time} /\ removing' = time[2]
    BY DEF TakeOff
  <1>2. /\ UNCHANGED <<clock, n_count, n_of, have, slots, conns, channel, accepted>>
        /\ pc' = "remove"
    BY DEF TakeOff, store
  <1>3. time \in Times /\ time \in Pending
    BY DEF Inv, TypeOK, Pending
  <1>4. Pending' \subseteq Pending
    BY <1>1, <1>2 DEF Pending
  <1>5. TakenExpired'
    <2>1. PICK e \in Events : ExpiresAt[e] = time[1] /\ n_of[e] = time[2]
      BY <1>3 DEF Inv, Timed
    <2>2. ExpiresAt[e] # None /\ ExpiresAt[e] <= clock
      BY <1>1, <1>3, <2>1, ExpirationQueueAssumption
      DEF ExpirationQueueAssumption, Times, Due
    <2> QED
      BY <1>1, <1>2, <2>1, <2>2 DEF TakenExpired, HasExpired
  <1> QED
    BY <1>2, <1>4, <1>5, Frame DEF Inv

LEMMA RemoveEventKeeps == ASSUME Inv, TypeOK', RemoveEvent PROVE Inv'
  <1>1. /\ UNCHANGED <<clock, n_count, n_of, conns, channel, queue, accepted>>
        /\ slots' = [slots EXCEPT ![removing] = None] /\ have' = have \ {slots[removing]}
        /\ pc' = "loop" /\ removing' = None
    BY DEF RemoveEvent
  <1>2. Numbered' /\ Timed'
    BY <1>1 DEF Inv, Numbered, Timed, Pending
  <1>3. InOwnSlot'
    BY <1>1 DEF Inv, TypeOK, InOwnSlot
  <1> QED
    BY <1>1, <1>2, <1>3 DEF Inv, TakenExpired

LEMMA LoopEndKeeps == ASSUME Inv, TypeOK', LoopEnd PROVE Inv'
  <1>1. /\ UNCHANGED <<clock, n_count, n_of, have, slots, conns, channel, queue, removing, accepted>>
        /\ pc' = "select"
    BY DEF LoopEnd, store
  <1> QED
    BY <1>1, Frame DEF Inv, TakenExpired, Pending

LEMMA WithdrawKeeps == ASSUME Inv, TypeOK', NEW e \in Events, Withdraw(e) PROVE Inv'
  <1>1. /\ UNCHANGED <<clock, n_count, n_of, have, conns, channel, queue, pc, removing, accepted>>
        /\ slots' = [slots EXCEPT ![n_of[e]] = None]
    BY DEF Withdraw, task
  <1>2. Numbered' /\ Timed'
    BY <1>1 DEF Inv, Numbered, Timed, Pending
  <1>3. InOwnSlot'
    BY <1>1 DEF Inv, TypeOK, InOwnSlot
  <1> QED
    BY <1>1, <1>2, <1>3 DEF Inv, TakenExpired, HasExpired

LEMMA Stutters == ASSUME Inv, TypeOK', UNCHANGED vars PROVE Inv'
  <1>1. UNCHANGED <<clock, n_count, n_of, have, slots, conns, channel, queue, pc, removing, accepted>>
    BY DEF vars, store, task
  <1> QED
    BY <1>1, Frame DEF Inv, TakenExpired, HasExpired, Pending

-------------------------------------------------------------------------------

LEMMA StepKeeps == ASSUME Inv, [Next]_vars PROVE Inv'
  <1> TypeOK'
    BY TypesKept DEF Inv
  <1>1. CASE \E c \in Connections : HandOver(c) \/ \E e \in Events : Publish(c, e)
    BY <1>1, HandOverKeeps, PublishKeeps
  <1>2. CASE Step
    BY <1>2, RecvKeeps, TakeOffKeeps, RemoveEventKeeps, LoopEndKeeps DEF Step
  <1>3. CASE Tick \/ \E e \in Events : Withdraw(e)
    BY <1>3, TickKeeps, WithdrawKeeps
  <1> QED
    BY <1>1, <1>2, <1>3, Stutters DEF Next

LEMMA Inductive == Spec => []Inv
  BY Initially, StepKeeps, PTL DEF Spec

\* Without a crash, the task removes nothing but events that have expired, for
\* any events, expirations and connections (delete_expired_events).
THEOREM RemovesExpired == Spec => RemovedRightly
  <1>1. Inv => (pc = "remove" /\ slots[removing] # None => HasExpired(slots[removing]))
    <2> SUFFICES ASSUME Inv, pc = "remove", slots[removing] # None
                 PROVE  HasExpired(slots[removing])
      OBVIOUS
    <2>1. PICK e \in Events : HasExpired(e) /\ n_of[e] = removing
      BY DEF Inv, TakenExpired
    <2>2. removing \in Ns /\ slots[removing] \in Events
      BY DEF Inv, TypeOK
    <2>3. n_of[slots[removing]] = removing
      BY <2>2 DEF Inv, InOwnSlot
    <2>4. slots[removing] = e
      BY <2>1, <2>2, <2>3, Parameters DEF Inv, Numbered
    <2> QED
      BY <2>1, <2>4
  <1>2. Inv => [pc = "remove" /\ pc' = "loop" /\ slots[removing] # None
                  => HasExpired(slots[removing])]_vars
    BY <1>1
  <1> QED
    BY <1>2, Inductive, PTL DEF RemovedRightly
================================================================================
