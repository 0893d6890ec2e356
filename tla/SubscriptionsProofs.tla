--------------------------- MODULE SubscriptionsProofs --------------------------
(*****************************************************************************)
(* Proofs about the subscriptions of a connection, for any events, filters,  *)
(* keys, capacities and number of REQs: what a client may not see is never   *)
(* sent to it, and between the stored events and the live ones none is       *)
(* missing.                                                                  *)
(*                                                                           *)
(* NoGap speaks of the moment after EOSE.  Reached says where an event is    *)
(* that a subscription has a right to, at any moment from its REQ on, and    *)
(* EoseLast that EOSE overtakes nothing in the channel.                      *)
(*****************************************************************************)
EXTENDS Subscriptions, SequenceTheorems, TLAPS

\* The parts of TypeOK.
PublishingOK ==
    stage \in [Events -> {"new", "added", "sent"}] /\ stored \subseteq Events
LiveOK == live \in Seq(Events) /\ Len(live) <= BroadcastCap
ChannelOK == channel \in Seq(Message) /\ Len(channel) <= ChannelCap
FlagsOK == {lagged, open, rumors} \subseteq BOOLEAN
KeysOK == authed \in Keys \cup {None} /\ proved \subseteq Keys
TasksOK ==
    /\ tasks \in Seq(TaskState \cup {None}) /\ Len(tasks) <= MaxReq
    /\ subOf \in [DOMAIN tasks -> Subs]
RequestsOK ==
    \A s \in Subscribed :
        /\ req[s].filters \in FilterLists
        /\ req[s].task \in DOMAIN tasks /\ subOf[req[s].task] = s
HistoryOK ==
    /\ lost \cup delivered \subseteq (DOMAIN tasks) \X Events
    /\ eose \cup steady \subseteq DOMAIN tasks

LEMMA TypeParts ==
    TypeOK <=> /\ PublishingOK /\ LiveOK /\ ChannelOK /\ FlagsOK /\ KeysOK
               /\ TasksOK /\ RequestsOK /\ HistoryOK
  BY DEF TypeOK, PublishingOK, LiveOK, ChannelOK, FlagsOK, KeysOK, TasksOK, RequestsOK, HistoryOK

\* The requests are what Req has entered, and tasks are known by their index.
Registered ==
    /\ req \in [Subs -> {None} \cup [filters : FilterLists, task : Nat]]
    /\ \A i \in DOMAIN channel : channel[i].task \in DOMAIN tasks

\* What is stored is on its way to the broadcast, or has been there.
StoredWere == \A e \in stored : stage[e] # "new"

\* The task of an open request has not been aborted.
OpenRuns ==
    \A s \in Subscribed : tasks[req[s].task] # None => ~tasks[req[s].task].aborted

\* A task whose query runs has the filter of the query before it.
RunsFilter ==
    \A t \in DOMAIN tasks : tasks[t] # None /\ tasks[t].running => tasks[t].filters # <<>>

\* As long as the session is the same, tasks see what it sees.
SteadyTasks ==
    \A t \in steady : tasks[t] # None => tasks[t].key = authed /\ tasks[t].rumors = rumors

\* EOSE is the last message of its task, and is not behind any other.
EoseLast ==
    /\ \A i \in DOMAIN channel : channel[i].event = None =>
          /\ tasks[channel[i].task] = None
          /\ \A j \in DOMAIN channel : channel[j].task = channel[i].task => j <= i
    /\ \A t \in eose :
          /\ tasks[t] = None
          /\ \A j \in DOMAIN channel : channel[j].task # t

\* A message is in the channel.
Waits(t, e) == \E i \in DOMAIN channel : channel[i].task = t /\ channel[i].event = e

\* A task has the event before it, with this filter or with a later one.
Ahead(t, e) ==
    /\ tasks[t] # None
    /\ \E i \in DOMAIN tasks[t].filters :
          /\ e \in tasks[t].filters[i]
          /\ i = 1 /\ tasks[t].running => e \in tasks[t].due \ tasks[t].found

\* An event has been sent to the client, or comes through the broadcast.
Live(t, e) ==
    \/ <<t, e>> \in delivered \cup lost
    \/ stage[e] = "added"
    \/ e \in Range(live)

\* An event that a subscription has a right to is in one of these places.
Reached ==
    \A s \in Subscribed : \A e \in Events :
        Due(s, e) => \/ Live(req[s].task, e)
                     \/ Waits(req[s].task, e)
                     \/ Ahead(req[s].task, e)

\* The keys in use are keys that the client has proved to have.
KeysProved ==
    /\ authed \in proved \cup {None}
    /\ \A t \in DOMAIN tasks : tasks[t] # None => tasks[t].key \in proved \cup {None}

\* Whoever is guarded from the client is not on the way to it.
May(e) == Addressees[e] # None => Addressees[e] \cap proved # {}
MessagesGuarded ==
    \A i \in DOMAIN channel : channel[i].event # None => May(channel[i].event)

Inv ==
    /\ PublishingOK /\ LiveOK /\ ChannelOK /\ FlagsOK /\ KeysOK
    /\ TasksOK /\ RequestsOK /\ HistoryOK /\ Registered
    /\ KeysProved /\ MessagesGuarded /\ GiftWrapsGuarded
    /\ StoredWere /\ OpenRuns /\ RunsFilter /\ SteadyTasks /\ EoseLast /\ Reached
-------------------------------------------------------------------------------
(* The data.                                                                 *)

\* The parameters, as the steps below use them.
LEMMA Parameters ==
    /\ ChannelCap \in Nat /\ 0 < ChannelCap /\ BroadcastCap \in Nat /\ 0 < BroadcastCap
    /\ MaxReq \in Nat /\ None \notin Events /\ None \notin Keys /\ None \notin TaskState
    /\ RumorChoices \subseteq BOOLEAN /\ FilterLists \subseteq Seq(SUBSET Events)
  BY SubscriptionsAssumption DEF SubscriptionsAssumption

\* Appending keeps what is there, and adds one element at the end.
LEMMA Appended ==
    ASSUME NEW S, NEW s \in Seq(S), NEW x \in S
    PROVE  /\ Append(s, x) \in Seq(S) /\ Len(Append(s, x)) = Len(s) + 1
           /\ DOMAIN Append(s, x) = DOMAIN s \cup {Len(s) + 1} /\ Len(s) + 1 \notin DOMAIN s
           /\ Append(s, x)[Len(s) + 1] = x
           /\ \A i \in DOMAIN s : Append(s, x)[i] = s[i] /\ i < Len(s) + 1
           /\ Range(Append(s, x)) = Range(s) \cup {x}
  BY DEF Range

\* Taking the head away keeps everything else.
LEMMA Shortened ==
    ASSUME NEW S, NEW s \in Seq(S), s # <<>>
    PROVE  /\ Head(s) \in S /\ Tail(s) \in Seq(S) /\ Len(Tail(s)) = Len(s) - 1
           /\ 1 \in DOMAIN s /\ Head(s) = s[1]
           /\ \A i \in DOMAIN Tail(s) : i + 1 \in DOMAIN s /\ Tail(s)[i] = s[i + 1]
           /\ \A i \in DOMAIN s : i # 1 => i - 1 \in DOMAIN Tail(s) /\ Tail(s)[i - 1] = s[i]
           /\ Range(s) = Range(Tail(s)) \cup {Head(s)}
  <1>1. /\ Head(s) \in S /\ Tail(s) \in Seq(S) /\ Len(Tail(s)) = Len(s) - 1
        /\ 1 \in DOMAIN s /\ Head(s) = s[1]
    OBVIOUS
  <1>2. \A i \in DOMAIN Tail(s) : i + 1 \in DOMAIN s /\ Tail(s)[i] = s[i + 1]
    OBVIOUS
  <1>3. \A i \in DOMAIN s : i # 1 => i - 1 \in DOMAIN Tail(s) /\ Tail(s)[i - 1] = s[i]
    OBVIOUS
  <1>4. Range(s) \subseteq Range(Tail(s)) \cup {Head(s)}
    BY <1>1, <1>3 DEF Range
  <1>5. Range(Tail(s)) \cup {Head(s)} \subseteq Range(s)
    BY <1>1, <1>2 DEF Range
  <1> QED
    BY <1>1, <1>2, <1>3, <1>4, <1>5

\* A task that is aborted is a task.
LEMMA AbortedTask ==
    ASSUME NEW r \in TaskState
    PROVE  LET a == [r EXCEPT !.aborted = TRUE]
           IN  /\ a \in TaskState /\ a # None /\ a.key = r.key /\ a.rumors = r.rumors
               /\ a.running = r.running /\ a.filters = r.filters
  BY Parameters DEF TaskState

\* Aborting the task of a request changes nothing else.
LEMMA AbortedTasks ==
    ASSUME TasksOK, NEW s \in Subs
    PROVE  /\ Aborted(s) \in Seq(TaskState \cup {None})
           /\ Len(Aborted(s)) = Len(tasks) /\ DOMAIN Aborted(s) = DOMAIN tasks
           /\ \A t \in DOMAIN tasks :
                 /\ tasks[t] = None => Aborted(s)[t] = None
                 /\ tasks[t] # None =>
                       /\ Aborted(s)[t] # None
                       /\ Aborted(s)[t].key = tasks[t].key
                       /\ Aborted(s)[t].rumors = tasks[t].rumors
                       /\ Aborted(s)[t].running = tasks[t].running
                       /\ Aborted(s)[t].filters = tasks[t].filters
                 /\ req[s] = None \/ t # req[s].task => Aborted(s)[t] = tasks[t]
  <1> DEFINE hit(t) == req[s] # None /\ req[s].task = t /\ tasks[t] # None
             new(t) == IF hit(t) THEN [tasks[t] EXCEPT !.aborted = TRUE] ELSE tasks[t]
  <1>1. /\ tasks \in Seq(TaskState \cup {None}) /\ DOMAIN tasks = 1..Len(tasks)
        /\ Len(tasks) \in Nat /\ \A t \in DOMAIN tasks : tasks[t] \in TaskState \cup {None}
    BY DEF TasksOK
  <1>2. Aborted(s) = [t \in 1..Len(tasks) |-> new(t)]
    BY <1>1 DEF Aborted
  <1>3. ASSUME NEW t \in DOMAIN tasks
        PROVE  /\ new(t) \in TaskState \cup {None}
               /\ tasks[t] = None => new(t) = None
               /\ tasks[t] # None =>
                     /\ new(t) # None /\ new(t).key = tasks[t].key /\ new(t).rumors = tasks[t].rumors
                     /\ new(t).running = tasks[t].running /\ new(t).filters = tasks[t].filters
               /\ req[s] = None \/ t # req[s].task => new(t) = tasks[t]
    <2>1. CASE hit(t)
      <3>1. tasks[t] \in TaskState /\ new(t) = [tasks[t] EXCEPT !.aborted = TRUE]
        BY <1>1, <2>1
      <3> HIDE DEF new
      <3> QED
        BY <2>1, <3>1, AbortedTask
    <2>2. CASE ~hit(t)
      <3>1. new(t) = tasks[t]
        BY <2>2
      <3> HIDE DEF new
      <3> QED
        BY <1>1, <3>1
    <2> QED
      BY <2>1, <2>2
  <1> HIDE DEF new
  <1>4. Aborted(s) \in [1..Len(tasks) -> TaskState \cup {None}]
    BY <1>1, <1>2, <1>3
  <1>5. Aborted(s) \in Seq(TaskState \cup {None}) /\ Len(Aborted(s)) = Len(tasks)
    BY <1>1, <1>4
  <1> QED
    BY <1>1, <1>2, <1>3, <1>5

-------------------------------------------------------------------------------

LEMMA Initially == Init => Inv
  <1> SUFFICES ASSUME Init PROVE Inv
    OBVIOUS
  <1>1. Subscribed = {}
    BY DEF Init, Subscribed
  <1>2. PublishingOK /\ LiveOK /\ ChannelOK /\ KeysOK /\ TasksOK
    BY Parameters DEF Init, PublishingOK, LiveOK, ChannelOK, KeysOK, TasksOK
  <1>3. FlagsOK
    BY DEF Init, FlagsOK
  <1>4. RequestsOK /\ HistoryOK /\ Registered
    BY <1>1 DEF Init, RequestsOK, HistoryOK, Registered
  <1>5. KeysProved /\ MessagesGuarded /\ GiftWrapsGuarded
    BY DEF Init, KeysProved, MessagesGuarded, GiftWrapsGuarded
  <1>6. StoredWere /\ OpenRuns /\ RunsFilter /\ SteadyTasks /\ EoseLast /\ Reached
    BY <1>1 DEF Init, StoredWere, OpenRuns, RunsFilter, SteadyTasks, EoseLast, Reached
  <1> QED
    BY <1>2, <1>3, <1>4, <1>5, <1>6 DEF Inv

(* What only depends on the requests, the tasks and the channel.             *)

LEMMA Frame ==
    ASSUME Inv, UNCHANGED <<req, tasks, channel, subOf, steady, authed, rumors, proved, output>>
    PROVE  /\ (ChannelOK /\ KeysOK /\ TasksOK /\ RequestsOK /\ Registered)'
           /\ (KeysProved /\ MessagesGuarded /\ GiftWrapsGuarded)'
           /\ (OpenRuns /\ RunsFilter /\ SteadyTasks /\ EoseLast)'
  <1>1. (ChannelOK /\ KeysOK /\ TasksOK /\ RequestsOK /\ Registered)'
    BY DEF Inv, ChannelOK, KeysOK, TasksOK, RequestsOK, Registered, Subscribed
  <1>2. (KeysProved /\ MessagesGuarded /\ GiftWrapsGuarded)'
    BY DEF Inv, KeysProved, MessagesGuarded, GiftWrapsGuarded, May, output
  <1>3. (OpenRuns /\ RunsFilter /\ SteadyTasks /\ EoseLast)'
    BY DEF Inv, OpenRuns, RunsFilter, SteadyTasks, EoseLast, Subscribed, output
  <1> QED
    BY <1>1, <1>2, <1>3

(* The publishers.                                                           *)

LEMMA AddKeeps == ASSUME Inv, NEW e \in Events, Add(e) PROVE Inv'
  <1>1. /\ UNCHANGED <<live, lagged, lost, open, authed, rumors, proved>>
        /\ UNCHANGED <<req, tasks, channel, subOf, steady, delivered, eose>>
        /\ stage[e] = "new" /\ stage' = [stage EXCEPT ![e] = "added"]
        /\ stored' = stored \cup {e}
    BY DEF Add, receiver, session, output
  <1>2. PublishingOK' /\ StoredWere'
    BY <1>1 DEF Inv, PublishingOK, StoredWere
  <1>3. LiveOK' /\ HistoryOK'
    BY <1>1 DEF Inv, LiveOK, HistoryOK
  <1>4. FlagsOK'
    BY <1>1 DEF Inv, FlagsOK
  <1>5. Reached'
    <2> SUFFICES ASSUME NEW s \in Subscribed, NEW x \in Events, Due(s, x)'
                 PROVE  (Live(req[s].task, x) \/ Waits(req[s].task, x) \/ Ahead(req[s].task, x))'
      BY <1>1 DEF Reached, Subscribed
    <2>1. CASE x = e
      BY <1>1, <2>1 DEF Live, Inv, PublishingOK
    <2>2. CASE x # e
      <3>1. Due(s, x)
        BY <1>1, <2>2 DEF Due, MatchedBy, MaySend
      <3>2. Live(req[s].task, x) \/ Waits(req[s].task, x) \/ Ahead(req[s].task, x)
        BY <3>1 DEF Inv, Reached
      <3> QED
        BY <1>1, <2>2, <3>2 DEF Live, Waits, Ahead, Inv, PublishingOK
    <2> QED
      BY <2>1, <2>2
  <1> QED
    BY <1>1, <1>2, <1>3, <1>4, <1>5, Frame DEF Inv, output

LEMMA BroadcastKeeps == ASSUME Inv, NEW e \in Events, Broadcast(e) PROVE Inv'
  <1> DEFINE overtaken == Len(live) = BroadcastCap
  <1>1. /\ UNCHANGED <<stored, open, authed, rumors, proved>>
        /\ UNCHANGED <<req, tasks, channel, subOf, steady, delivered, eose>>
        /\ stage' = [stage EXCEPT ![e] = "sent"]
    BY DEF Broadcast, session, output
  <1>2. /\ LiveOK'
        /\ lost' \subseteq (DOMAIN tasks) \X Events /\ lost \subseteq lost'
        /\ open => e \in Range(live')
        /\ \A x \in Range(live) : \A s \in Subscribed :
              open => x \in Range(live') \/ <<req[s].task, x>> \in lost'
    <2>1. live \in Seq(Events) /\ Len(live) \in Nat /\ Len(live) <= BroadcastCap
      BY DEF Inv, LiveOK
    <2>2. lost \subseteq (DOMAIN tasks) \X Events
      BY DEF Inv, HistoryOK
    <2>3. \A s \in Subscribed : req[s].task \in DOMAIN tasks
      BY DEF Inv, RequestsOK
    <2>4. CASE ~open
      BY <2>1, <2>2, <2>4 DEF Broadcast, receiver, LiveOK
    <2>5. CASE open /\ overtaken
      <3>1. live # <<>>
        BY <2>5, Parameters
      <3>2. /\ live' = Append(Tail(live), e)
            /\ lost' = lost \cup {<<req[s].task, Head(live)>> : s \in Subscribed}
        BY <2>5 DEF Broadcast
      <3>3. /\ Head(live) \in Events /\ Tail(live) \in Seq(Events)
            /\ Len(Tail(live)) = Len(live) - 1 /\ Range(live) = Range(Tail(live)) \cup {Head(live)}
        BY <2>1, <3>1, Shortened
      <3>4. \A l \in Seq(Events) :
                /\ Append(l, e) \in Seq(Events) /\ Len(Append(l, e)) = Len(l) + 1
                /\ Range(Append(l, e)) = Range(l) \cup {e}
        BY Appended
      <3>5. /\ live' \in Seq(Events) /\ Len(live') = Len(Tail(live)) + 1
            /\ Range(live') = Range(Tail(live)) \cup {e}
        BY <3>2, <3>3, <3>4, Zenon
      <3>6. LiveOK'
        BY <2>1, <3>3, <3>5, Parameters DEF LiveOK
      <3>7. lost' \subseteq (DOMAIN tasks) \X Events
        BY <2>2, <2>3, <3>2, <3>3
      <3>8. \A s \in Subscribed : <<req[s].task, Head(live)>> \in lost'
        BY <3>2
      <3> QED
        BY <3>2, <3>3, <3>5, <3>6, <3>7, <3>8
    <2>6. CASE open /\ ~overtaken
      <3>1. live' = Append(live, e) /\ lost' = lost
        BY <2>6 DEF Broadcast
      <3>2. /\ live' \in Seq(Events) /\ Len(live') = Len(live) + 1
            /\ Range(live') = Range(live) \cup {e}
        BY <2>1, <3>1, Appended
      <3>3. LiveOK'
        BY <2>1, <2>6, <3>2, Parameters DEF LiveOK
      <3> QED
        BY <2>2, <3>1, <3>2, <3>3
    <2> QED
      BY <2>4, <2>5, <2>6
  <1>3. PublishingOK' /\ StoredWere'
    BY <1>1 DEF Inv, PublishingOK, StoredWere
  <1>4. HistoryOK'
    <2>1. lost \cup delivered \subseteq (DOMAIN tasks) \X Events
      BY DEF Inv, HistoryOK
    <2>2. lost' \cup delivered' \subseteq (DOMAIN tasks') \X Events
      BY <1>1, <1>2, <2>1
    <2> QED
      BY <1>1, <2>2 DEF Inv, HistoryOK
  <1>5. FlagsOK'
    BY <1>1 DEF Inv, FlagsOK, Broadcast, receiver
  <1>6. Reached'
    <2> SUFFICES ASSUME NEW s \in Subscribed, NEW x \in Events, Due(s, x)
                 PROVE  (Live(req[s].task, x) \/ Waits(req[s].task, x) \/ Ahead(req[s].task, x))'
      BY <1>1 DEF Reached, Subscribed, Due, MatchedBy, MaySend
    <2>1. CASE Waits(req[s].task, x) \/ Ahead(req[s].task, x)
      BY <1>1, <2>1 DEF Waits, Ahead
    <2>2. CASE Live(req[s].task, x)
      <3>1. CASE x = e
        BY <1>2, <3>1 DEF Due, Live
      <3>2. CASE x # e
        BY <1>1, <1>2, <2>2, <3>2 DEF Due, Live, Inv, PublishingOK
      <3> QED
        BY <3>1, <3>2
    <2> QED
      BY <2>1, <2>2 DEF Inv, Reached
  <1> QED
    BY <1>1, <1>2, <1>3, <1>4, <1>5, <1>6, Frame DEF Inv, output

(* The session.                                                              *)

\* A task since whose REQ the session has changed is not steady, and there is
\* nothing that its subscription has a right to.
LEMMA AuthKeeps == ASSUME Inv, NEW key \in Keys, Auth(key) PROVE Inv'
  <1>1. /\ UNCHANGED <<stage, stored, live, lagged, lost, open, rumors>>
        /\ UNCHANGED <<req, tasks, channel, subOf, delivered, eose>>
        /\ authed' = key /\ proved' = proved \cup {key}
        /\ steady' = IF key = authed THEN steady ELSE {}
    BY DEF Auth, publishing, receiver, output
  <1>2. (PublishingOK /\ LiveOK /\ ChannelOK /\ TasksOK /\ RequestsOK /\ Registered)'
    BY <1>1 DEF Inv, PublishingOK, LiveOK, ChannelOK, TasksOK, RequestsOK, Registered, Subscribed
  <1>3. KeysOK'
    BY <1>1 DEF Inv, KeysOK
  <1>4. FlagsOK'
    BY <1>1 DEF Inv, FlagsOK
  <1>5. HistoryOK'
    BY <1>1 DEF Inv, HistoryOK
  <1>6. (KeysProved /\ MessagesGuarded /\ GiftWrapsGuarded)'
    BY <1>1 DEF Inv, KeysProved, MessagesGuarded, GiftWrapsGuarded, May
  <1>7. (StoredWere /\ OpenRuns /\ RunsFilter /\ EoseLast)'
    BY <1>1 DEF Inv, StoredWere, OpenRuns, RunsFilter, EoseLast, Subscribed
  <1>8. SteadyTasks'
    BY <1>1 DEF Inv, SteadyTasks
  <1>9. Reached'
    <2> SUFFICES ASSUME NEW s \in Subscribed, NEW x \in Events, Due(s, x)'
                 PROVE  (Live(req[s].task, x) \/ Waits(req[s].task, x) \/ Ahead(req[s].task, x))'
      BY <1>1 DEF Reached, Subscribed
    <2>1. key = authed
      BY <1>1 DEF Due
    <2>2. Due(s, x)
      BY <1>1, <2>1 DEF Due, MatchedBy, MaySend
    <2> QED
      BY <1>1, <2>2 DEF Inv, Reached, Live, Waits, Ahead
  <1> QED
    BY <1>2, <1>3, <1>4, <1>5, <1>6, <1>7, <1>8, <1>9 DEF Inv

LEMMA AcceptRumorsKeeps ==
    ASSUME Inv, NEW accept \in RumorChoices, AcceptRumors(accept)
    PROVE  Inv'
  <1>1. /\ UNCHANGED <<stage, stored, live, lagged, lost, open, authed, proved>>
        /\ UNCHANGED <<req, tasks, channel, subOf, delivered, eose>>
        /\ rumors' = accept
        /\ steady' = IF accept = rumors THEN steady ELSE {}
    BY DEF AcceptRumors, publishing, receiver, output
  <1>2. (PublishingOK /\ LiveOK /\ ChannelOK /\ KeysOK /\ TasksOK /\ RequestsOK /\ Registered)'
    BY <1>1 DEF Inv, PublishingOK, LiveOK, ChannelOK, KeysOK, TasksOK, RequestsOK, Registered,
                Subscribed
  <1>3. FlagsOK'
    <2>1. accept \in BOOLEAN
      BY Parameters
    <2> QED
      BY <1>1, <2>1, Zenon DEF Inv, FlagsOK
  <1>4. HistoryOK'
    BY <1>1 DEF Inv, HistoryOK
  <1>5. (KeysProved /\ MessagesGuarded /\ GiftWrapsGuarded)'
    BY <1>1 DEF Inv, KeysProved, MessagesGuarded, GiftWrapsGuarded, May
  <1>6. (StoredWere /\ OpenRuns /\ RunsFilter /\ EoseLast)'
    BY <1>1 DEF Inv, StoredWere, OpenRuns, RunsFilter, EoseLast, Subscribed
  <1>7. SteadyTasks'
    BY <1>1, Zenon DEF Inv, SteadyTasks
  <1>8. Reached'
    <2> SUFFICES ASSUME NEW s \in Subscribed, NEW x \in Events, Due(s, x)'
                 PROVE  (Live(req[s].task, x) \/ Waits(req[s].task, x) \/ Ahead(req[s].task, x))'
      BY <1>1 DEF Reached, Subscribed
    <2>1. accept = rumors
      BY <1>1 DEF Due
    <2>2. Due(s, x)
      BY <1>1, <2>1 DEF Due, MatchedBy, MaySend
    <2> QED
      BY <1>1, <2>2 DEF Inv, Reached, Live, Waits, Ahead
  <1> QED
    BY <1>2, <1>3, <1>4, <1>5, <1>6, <1>7, <1>8 DEF Inv

LEMMA DisconnectKeeps == ASSUME Inv, Disconnect PROVE Inv'
  <1>1. /\ UNCHANGED <<stage, stored, lost, proved>>
        /\ UNCHANGED <<tasks, channel, subOf, delivered, eose>>
        /\ open' = FALSE /\ authed' = None /\ rumors' = FALSE
        /\ req' = [s \in Subs |-> None]
        /\ live' = <<>> /\ lagged' = FALSE /\ steady' = {}
    BY DEF Disconnect, publishing, output
  <1>2. Subscribed' = {}
    BY <1>1 DEF Subscribed
  <1>3. (PublishingOK /\ LiveOK /\ ChannelOK /\ KeysOK /\ TasksOK)'
    BY <1>1, Parameters DEF Inv, PublishingOK, LiveOK, ChannelOK, KeysOK, TasksOK
  <1>4. (RequestsOK /\ Registered)'
    BY <1>1, <1>2 DEF Inv, RequestsOK, Registered
  <1>5. FlagsOK'
    BY <1>1 DEF Inv, FlagsOK
  <1>6. HistoryOK'
    BY <1>1 DEF Inv, HistoryOK
  <1>7. (KeysProved /\ MessagesGuarded /\ GiftWrapsGuarded)'
    BY <1>1 DEF Inv, KeysProved, MessagesGuarded, GiftWrapsGuarded, May
  <1>8. (StoredWere /\ OpenRuns /\ RunsFilter /\ EoseLast /\ SteadyTasks /\ Reached)'
    BY <1>1, <1>2 DEF Inv, StoredWere, OpenRuns, RunsFilter, EoseLast, SteadyTasks, Reached
  <1> QED
    BY <1>3, <1>4, <1>5, <1>6, <1>7, <1>8 DEF Inv

(* The broadcast.                                                            *)

LEMMA ReceiveLiveKeeps == ASSUME Inv, ReceiveLive PROVE Inv'
  <1> DEFINE e == Head(live)
  <1>1. /\ UNCHANGED <<stage, stored, lagged, lost, open, authed, rumors, proved>>
        /\ UNCHANGED <<req, tasks, channel, subOf, steady, eose>>
        /\ live # <<>> /\ live' = Tail(live)
    BY DEF ReceiveLive, publishing, session
  <1>2. /\ e \in Events /\ LiveOK'
        /\ \A x \in Range(live) : x = e \/ x \in Range(live')
    <2>1. live \in Seq(Events) /\ Len(live) <= BroadcastCap /\ Len(live) \in Nat
      BY DEF Inv, LiveOK
    <2>2. /\ e \in Events /\ Tail(live) \in Seq(Events) /\ Len(Tail(live)) = Len(live) - 1
          /\ Range(live) = Range(Tail(live)) \cup {e}
      BY <1>1, <2>1, Shortened
    <2> QED
      BY <1>1, <2>1, <2>2, Parameters DEF LiveOK
  <1>3. /\ delivered \subseteq delivered'
        /\ \A d \in delivered' \ delivered :
              MaySend(e, authed, rumors) /\ \E s \in Subscribed : d = <<req[s].task, e>>
        /\ \A s \in Subscribed : e \in MatchedBy(req[s].filters) /\ MaySend(e, authed, rumors) =>
              <<req[s].task, e>> \in delivered'
    BY DEF ReceiveLive, Listens
  <1> HIDE DEF e
  <1>4. HistoryOK'
    <2>1. \A s \in Subscribed : req[s].task \in DOMAIN tasks
      BY DEF Inv, RequestsOK
    <2>2. delivered' \subseteq (DOMAIN tasks) \X Events
      BY <1>2, <1>3, <2>1 DEF Inv, HistoryOK
    <2> QED
      BY <1>1, <2>2 DEF Inv, HistoryOK
  <1>5. GiftWrapsGuarded'
    <2> SUFFICES ASSUME NEW d \in delivered', Addressees[d[2]] # None
                 PROVE  Addressees[d[2]] \cap proved # {}
      BY <1>1 DEF GiftWrapsGuarded
    <2>1. CASE d \in delivered
      BY <2>1 DEF Inv, GiftWrapsGuarded
    <2>2. CASE d \notin delivered
      <3>1. d[2] = e /\ MaySend(e, authed, rumors)
        BY <1>3, <2>2
      <3>2. authed \in Addressees[e] /\ authed # None
        BY <3>1 DEF MaySend
      <3> QED
        BY <3>1, <3>2 DEF Inv, KeysProved
    <2> QED
      BY <2>1, <2>2
  <1>6. (PublishingOK /\ ChannelOK /\ KeysOK /\ TasksOK /\ RequestsOK /\ Registered)'
    BY <1>1 DEF Inv, PublishingOK, ChannelOK, KeysOK, TasksOK, RequestsOK, Registered, Subscribed
  <1>7. FlagsOK'
    BY <1>1 DEF Inv, FlagsOK
  <1>8. (KeysProved /\ MessagesGuarded)'
    BY <1>1 DEF Inv, KeysProved, MessagesGuarded, May
  <1>9. (StoredWere /\ OpenRuns /\ RunsFilter /\ SteadyTasks /\ EoseLast)'
    BY <1>1 DEF Inv, StoredWere, OpenRuns, RunsFilter, SteadyTasks, EoseLast, Subscribed
  <1>10. Reached'
    <2> SUFFICES ASSUME NEW s \in Subscribed, NEW x \in Events, Due(s, x)
                 PROVE  (Live(req[s].task, x) \/ Waits(req[s].task, x) \/ Ahead(req[s].task, x))'
      BY <1>1 DEF Reached, Subscribed, Due, MatchedBy, MaySend
    <2>1. CASE Waits(req[s].task, x) \/ Ahead(req[s].task, x)
      BY <1>1, <2>1 DEF Waits, Ahead
    <2>2. CASE Live(req[s].task, x)
      <3>1. CASE x = e
        BY <1>1, <1>3, <3>1 DEF Due, Live
      <3>2. CASE x # e
        BY <1>1, <1>2, <1>3, <2>2, <3>2 DEF Live
      <3> QED
        BY <3>1, <3>2
    <2> QED
      BY <2>1, <2>2 DEF Inv, Reached
  <1> QED
    BY <1>2, <1>4, <1>5, <1>6, <1>7, <1>8, <1>9, <1>10 DEF Inv

LEMMA ReceiveLaggedKeeps == ASSUME Inv, ReceiveLagged PROVE Inv'
  <1>1. /\ UNCHANGED <<stage, stored, live, lost, open, authed, rumors, proved>>
        /\ UNCHANGED <<req, tasks, channel, subOf, steady, delivered, eose>>
        /\ lagged' = FALSE
    BY DEF ReceiveLagged, publishing, session, output
  <1>2. (PublishingOK /\ LiveOK /\ HistoryOK /\ StoredWere)'
    BY <1>1 DEF Inv, PublishingOK, LiveOK, HistoryOK, StoredWere
  <1>3. FlagsOK'
    BY <1>1 DEF Inv, FlagsOK
  <1>4. Reached'
    BY <1>1 DEF Inv, Reached, Due, Subscribed, MatchedBy, MaySend, Live, Waits, Ahead
  <1> QED
    BY <1>1, <1>2, <1>3, <1>4, Frame DEF Inv, output

(* Requests.                                                                 *)

\* Two open requests have two tasks.
LEMMA OtherTasks ==
    ASSUME Inv, NEW s \in Subs, NEW u \in Subscribed, u # s
    PROVE  req[u].task \in DOMAIN tasks /\ (req[s] = None \/ req[u].task # req[s].task)
  BY DEF Inv, RequestsOK, Subscribed

LEMMA CloseKeeps == ASSUME Inv, NEW s \in Subs, Close(s) PROVE Inv'
  <1>1. /\ UNCHANGED <<stage, stored, live, lagged, lost, open, authed, rumors, proved>>
        /\ UNCHANGED <<channel, subOf, steady, delivered, eose>>
        /\ tasks' = Aborted(s) /\ req' = [req EXCEPT ![s] = None]
    BY DEF Close, publishing, receiver, session, output
  <1>2. /\ tasks' \in Seq(TaskState \cup {None})
        /\ Len(tasks') = Len(tasks) /\ DOMAIN tasks' = DOMAIN tasks
    BY <1>1, AbortedTasks DEF Inv
  <1>3. \A t \in DOMAIN tasks :
           /\ tasks[t] = None => tasks'[t] = None
           /\ tasks'[t] # None => /\ tasks[t] # None
                                  /\ tasks'[t].key = tasks[t].key
                                  /\ tasks'[t].rumors = tasks[t].rumors
                                  /\ tasks'[t].running = tasks[t].running
                                  /\ tasks'[t].filters = tasks[t].filters
    BY <1>1, AbortedTasks DEF Inv
  <1>4. \A u \in Subscribed' :
           /\ u \in Subscribed /\ req'[u] = req[u]
           /\ req[u].task \in DOMAIN tasks /\ tasks'[req[u].task] = tasks[req[u].task]
    <2> SUFFICES ASSUME NEW u \in Subscribed'
                 PROVE  /\ u \in Subscribed /\ req'[u] = req[u]
                        /\ req[u].task \in DOMAIN tasks /\ tasks'[req[u].task] = tasks[req[u].task]
      OBVIOUS
    <2>1. u # s /\ u \in Subscribed /\ req'[u] = req[u]
      BY <1>1 DEF Subscribed, Inv, Registered
    <2>2. req[u].task \in DOMAIN tasks /\ (req[s] = None \/ req[u].task # req[s].task)
      BY <2>1, OtherTasks
    <2> QED
      BY <1>1, <2>1, <2>2, AbortedTasks DEF Inv
  <1>5. (PublishingOK /\ LiveOK /\ ChannelOK /\ KeysOK /\ MessagesGuarded /\ GiftWrapsGuarded)'
    BY <1>1 DEF Inv, PublishingOK, LiveOK, ChannelOK, KeysOK, MessagesGuarded, GiftWrapsGuarded, May
  <1>6. (TasksOK /\ HistoryOK)'
    BY <1>1, <1>2 DEF Inv, TasksOK, HistoryOK
  <1>7. FlagsOK'
    BY <1>1 DEF Inv, FlagsOK
  <1>8. RequestsOK'
    BY <1>1, <1>2, <1>4 DEF Inv, RequestsOK
  <1>9. Registered'
    BY <1>1, <1>2 DEF Inv, Registered
  <1>10. KeysProved' /\ RunsFilter' /\ SteadyTasks'
    BY <1>1, <1>2, <1>3 DEF Inv, KeysProved, RunsFilter, SteadyTasks, HistoryOK
  <1>11. StoredWere' /\ OpenRuns'
    BY <1>1, <1>4 DEF Inv, StoredWere, OpenRuns
  <1>12. EoseLast'
    BY <1>1, <1>3 DEF Inv, EoseLast, Registered, HistoryOK
  <1>13. Reached'
    <2> SUFFICES ASSUME NEW u \in Subscribed', NEW x \in Events, Due(u, x)'
                 PROVE  (Live(req[u].task, x) \/ Waits(req[u].task, x) \/ Ahead(req[u].task, x))'
      BY DEF Reached
    <2>1. Due(u, x)
      BY <1>1, <1>4 DEF Due, MatchedBy, MaySend
    <2> QED
      BY <1>1, <1>4, <2>1 DEF Inv, Reached, Live, Waits, Ahead
  <1> QED
    BY <1>5, <1>6, <1>7, <1>8, <1>9, <1>10, <1>11, <1>12, <1>13 DEF Inv

LEMMA ReqKeeps ==
    ASSUME Inv, NEW s \in Subs, NEW filters \in FilterLists, Req(s, filters)
    PROVE  Inv'
  <1> DEFINE n == Len(tasks) + 1
             new == [filters |-> filters, running |-> FALSE, found |-> {}, due |-> {},
                     key |-> authed, rumors |-> rumors, aborted |-> FALSE]
  <1>1. /\ UNCHANGED <<stage, stored, live, lagged, lost, open, authed, rumors, proved>>
        /\ UNCHANGED <<channel, delivered, eose>>
        /\ tasks' = Append(Aborted(s), new) /\ n <= MaxReq
        /\ req' = [req EXCEPT ![s] = [filters |-> filters, task |-> n]]
        /\ subOf' = Append(subOf, s) /\ steady' = steady \cup {n}
    BY DEF Req, Entry, publishing, receiver, session, output
  <1>2. new \in TaskState /\ new # None
    <2>1. filters \in Seq(SUBSET Events) /\ authed \in Keys \cup {None}
      BY Parameters DEF Inv, KeysOK
    <2>2. rumors \in BOOLEAN
      BY Zenon DEF Inv, FlagsOK
    <2>3. new \in TaskState
      BY <2>1, <2>2 DEF TaskState
    <2> QED
      BY <2>3, Parameters
  <1>3. /\ new.filters = filters /\ new.running = FALSE /\ new.aborted = FALSE
        /\ new.key = authed /\ new.rumors = rumors
    OBVIOUS
  <1> HIDE DEF new
  <1>4. /\ tasks' \in Seq(TaskState \cup {None}) /\ Len(tasks') = n
        /\ DOMAIN tasks' = DOMAIN tasks \cup {n} /\ n \notin DOMAIN tasks
        /\ tasks'[n] = new
        /\ \A t \in DOMAIN tasks : tasks'[t] = Aborted(s)[t]
    <2>1. /\ Aborted(s) \in Seq(TaskState \cup {None})
          /\ Len(Aborted(s)) = Len(tasks) /\ DOMAIN Aborted(s) = DOMAIN tasks
      BY AbortedTasks DEF Inv
    <2>2. new \in TaskState \cup {None}
      BY <1>2
    <2> QED
      BY <1>1, <2>1, <2>2, Appended
  <1>5. \A t \in DOMAIN tasks :
           /\ tasks[t] = None => tasks'[t] = None
           /\ tasks'[t] # None => /\ tasks[t] # None
                                  /\ tasks'[t].key = tasks[t].key
                                  /\ tasks'[t].rumors = tasks[t].rumors
                                  /\ tasks'[t].running = tasks[t].running
                                  /\ tasks'[t].filters = tasks[t].filters
    BY <1>4, AbortedTasks DEF Inv
  <1>6. \A u \in Subscribed' : u # s =>
           /\ u \in Subscribed /\ req'[u] = req[u]
           /\ req[u].task \in DOMAIN tasks /\ tasks'[req[u].task] = tasks[req[u].task]
    <2> SUFFICES ASSUME NEW u \in Subscribed', u # s
                 PROVE  /\ u \in Subscribed /\ req'[u] = req[u]
                        /\ req[u].task \in DOMAIN tasks /\ tasks'[req[u].task] = tasks[req[u].task]
      OBVIOUS
    <2>1. u \in Subscribed /\ req'[u] = req[u]
      BY <1>1 DEF Subscribed, Inv, Registered
    <2>2. req[u].task \in DOMAIN tasks /\ (req[s] = None \/ req[u].task # req[s].task)
      BY <2>1, OtherTasks
    <2> QED
      BY <1>4, <2>1, <2>2, AbortedTasks DEF Inv
  <1>7. req'[s].task = n /\ req'[s].filters = filters
    BY <1>1 DEF Inv, Registered
  <1>8. /\ subOf' \in [DOMAIN tasks' -> Subs] /\ subOf'[n] = s
        /\ \A t \in DOMAIN tasks : subOf'[t] = subOf[t]
    <2>1. DOMAIN tasks = 1..Len(tasks) /\ Len(tasks) \in Nat /\ subOf \in [DOMAIN tasks -> Subs]
      BY DEF Inv, TasksOK
    <2>2. subOf \in Seq(Subs) /\ Len(subOf) = Len(tasks)
      BY <2>1
    <2>3. /\ subOf' \in Seq(Subs) /\ Len(subOf') = n /\ subOf'[n] = s
          /\ DOMAIN subOf' = DOMAIN subOf \cup {n}
          /\ \A t \in DOMAIN subOf : subOf'[t] = subOf[t]
      BY <1>1, <2>2, Appended
    <2> QED
      BY <1>4, <2>1, <2>2, <2>3
  <1>9. (PublishingOK /\ LiveOK /\ ChannelOK /\ KeysOK /\ MessagesGuarded /\ GiftWrapsGuarded)'
    BY <1>1 DEF Inv, PublishingOK, LiveOK, ChannelOK, KeysOK, MessagesGuarded, GiftWrapsGuarded, May
  <1>10. TasksOK'
    BY <1>1, <1>4, <1>8 DEF TasksOK
  <1>11. HistoryOK'
    BY <1>1, <1>4 DEF Inv, HistoryOK
  <1>12. FlagsOK'
    BY <1>1 DEF Inv, FlagsOK
  <1>13. RequestsOK'
    <2> SUFFICES ASSUME NEW u \in Subscribed'
                 PROVE  /\ req'[u].filters \in FilterLists
                        /\ req'[u].task \in DOMAIN tasks' /\ subOf'[req'[u].task] = u
      BY DEF RequestsOK
    <2>1. CASE u = s
      BY <1>4, <1>7, <1>8, <2>1
    <2>2. CASE u # s
      BY <1>4, <1>6, <1>8, <2>2 DEF Inv, RequestsOK
    <2> QED
      BY <2>1, <2>2
  <1>14. Registered'
    <2>1. n \in Nat
      BY DEF Inv, TasksOK
    <2> QED
      BY <1>1, <1>4, <2>1 DEF Inv, Registered
  <1>15. KeysProved'
    BY <1>1, <1>3, <1>4, <1>5 DEF Inv, KeysProved
  <1>16. SteadyTasks'
    BY <1>1, <1>3, <1>4, <1>5, Zenon DEF Inv, SteadyTasks, HistoryOK
  <1>17. StoredWere' /\ RunsFilter'
    BY <1>1, <1>3, <1>4, <1>5 DEF Inv, StoredWere, RunsFilter
  <1>18. OpenRuns'
    <2> SUFFICES ASSUME NEW u \in Subscribed', tasks'[req'[u].task] # None
                 PROVE  ~tasks'[req'[u].task].aborted
      BY DEF OpenRuns
    <2>1. CASE u = s
      BY <1>3, <1>4, <1>7, <2>1
    <2>2. CASE u # s
      BY <1>6, <2>2 DEF Inv, OpenRuns
    <2> QED
      BY <2>1, <2>2
  <1>19. EoseLast'
    BY <1>1, <1>5 DEF Inv, EoseLast, Registered, HistoryOK
  <1>20. Reached'
    <2> SUFFICES ASSUME NEW u \in Subscribed', NEW x \in Events, Due(u, x)'
                 PROVE  (Live(req[u].task, x) \/ Waits(req[u].task, x) \/ Ahead(req[u].task, x))'
      BY DEF Reached
    <2>1. CASE u = s
      <3>1. PICK i \in DOMAIN filters : x \in filters[i]
        BY <1>7, <2>1 DEF Due, MatchedBy, Range
      <3>2. tasks'[req'[u].task] = new
        BY <1>4, <1>7, <2>1
      <3> QED
        BY <1>2, <1>3, <3>1, <3>2 DEF Ahead
    <2>2. CASE u # s
      <3>1. Due(u, x)
        <4>1. req[u].task \in steady
          BY <1>1, <1>4, <1>6, <2>2 DEF Due
        <4> QED
          BY <1>1, <1>6, <2>2, <4>1 DEF Due, MatchedBy, MaySend
      <3>2. Live(req[u].task, x) \/ Waits(req[u].task, x) \/ Ahead(req[u].task, x)
        BY <1>6, <2>2, <3>1 DEF Inv, Reached
      <3>3. req'[u] = req[u] /\ tasks'[req[u].task] = tasks[req[u].task]
        BY <1>6, <2>2
      <3> QED
        BY <1>1, <3>2, <3>3 DEF Live, Waits, Ahead
    <2> QED
      BY <2>1, <2>2
  <1> QED
    BY <1>9, <1>10, <1>11, <1>12, <1>13, <1>14, <1>15, <1>16, <1>17, <1>18, <1>19, <1>20 DEF Inv

(* The channel.                                                              *)

LEMMA ForwardKeeps == ASSUME Inv, Forward PROVE Inv'
  <1> DEFINE m == Head(channel)
  <1>1. /\ UNCHANGED <<stage, stored, live, lagged, lost, open, authed, rumors, proved>>
        /\ UNCHANGED <<req, tasks, subOf, steady>>
        /\ channel # <<>> /\ channel' = Tail(channel)
        /\ m.event = None => eose' = eose \cup {m.task} /\ delivered' = delivered
        /\ m.event # None => delivered' = delivered \cup {<<m.task, m.event>>} /\ eose' = eose
    BY DEF Forward, publishing, receiver, session
  <1>2. /\ m \in Message /\ 1 \in DOMAIN channel /\ m = channel[1] /\ ChannelOK'
        /\ \A i \in DOMAIN channel' :
              i \in Nat /\ i + 1 \in DOMAIN channel /\ channel'[i] = channel[i + 1]
        /\ \A i \in DOMAIN channel :
              i # 1 => i - 1 \in DOMAIN channel' /\ channel'[i - 1] = channel[i]
    <2>1. channel \in Seq(Message) /\ Len(channel) <= ChannelCap /\ Len(channel) \in Nat
      BY DEF Inv, ChannelOK
    <2>2. /\ m \in Message /\ Tail(channel) \in Seq(Message)
          /\ Len(Tail(channel)) = Len(channel) - 1 /\ 1 \in DOMAIN channel /\ m = channel[1]
          /\ \A i \in DOMAIN Tail(channel) :
                i + 1 \in DOMAIN channel /\ Tail(channel)[i] = channel[i + 1]
          /\ \A i \in DOMAIN channel :
                i # 1 => i - 1 \in DOMAIN Tail(channel) /\ Tail(channel)[i - 1] = channel[i]
      BY <1>1, <2>1, Shortened
    <2>3. \A i \in DOMAIN Tail(channel) : i \in Nat
      BY <2>2
    <2>4. ChannelOK'
      BY <1>1, <2>1, <2>2, Parameters DEF ChannelOK
    <2> HIDE DEF m
    <2> QED
      BY <1>1, <2>2, <2>3, <2>4
  <1>3. m.task \in DOMAIN tasks /\ m.event \in Events \cup {None}
    BY <1>2 DEF Message, Inv, Registered
  <1> HIDE DEF m
  <1>4. (PublishingOK /\ LiveOK /\ KeysOK /\ TasksOK /\ RequestsOK)'
    BY <1>1 DEF Inv, PublishingOK, LiveOK, KeysOK, TasksOK, RequestsOK, Subscribed
  <1>5. FlagsOK'
    BY <1>1 DEF Inv, FlagsOK
  <1>6. HistoryOK'
    <2>1. eose' \subseteq DOMAIN tasks
      BY <1>1, <1>3 DEF Inv, HistoryOK
    <2>2. delivered' \subseteq (DOMAIN tasks) \X Events
      BY <1>1, <1>3 DEF Inv, HistoryOK
    <2> QED
      BY <1>1, <2>1, <2>2 DEF Inv, HistoryOK
  <1>7. Registered'
    BY <1>1, <1>2 DEF Inv, Registered
  <1>8. KeysProved' /\ MessagesGuarded'
    BY <1>1, <1>2 DEF Inv, KeysProved, MessagesGuarded, May
  <1>9. GiftWrapsGuarded'
    BY <1>1, <1>2 DEF Inv, GiftWrapsGuarded, MessagesGuarded, May
  <1>10. (StoredWere /\ OpenRuns /\ RunsFilter /\ SteadyTasks)'
    BY <1>1 DEF Inv, StoredWere, OpenRuns, RunsFilter, SteadyTasks, Subscribed
  <1>11. EoseLast'
    <2>1. ASSUME NEW i \in DOMAIN channel', channel'[i].event = None
          PROVE  /\ tasks[channel'[i].task] = None
                 /\ \A j \in DOMAIN channel' : channel'[j].task = channel'[i].task => j <= i
      <3>1. i \in Nat /\ i + 1 \in DOMAIN channel /\ channel'[i] = channel[i + 1]
        BY <1>2, <2>1
      <3>2. /\ tasks[channel[i + 1].task] = None
            /\ \A j \in DOMAIN channel : channel[j].task = channel[i + 1].task => j <= i + 1
        BY <2>1, <3>1 DEF Inv, EoseLast
      <3>3. ASSUME NEW j \in DOMAIN channel', channel'[j].task = channel'[i].task
            PROVE  j <= i
        <4>1. j \in Nat /\ j + 1 \in DOMAIN channel /\ channel'[j] = channel[j + 1]
          BY <1>2
        <4>2. j + 1 <= i + 1
          BY <3>1, <3>2, <3>3, <4>1
        <4> QED
          BY <3>1, <4>1, <4>2
      <3> QED
        BY <3>1, <3>2, <3>3
    <2>2. ASSUME NEW t \in eose'
          PROVE  tasks[t] = None /\ \A j \in DOMAIN channel' : channel'[j].task # t
      <3>1. CASE t \in eose
        BY <1>2, <3>1 DEF Inv, EoseLast
      <3>2. CASE t \notin eose
        <4>1. m.event = None /\ t = m.task
          BY <1>1, <2>2, <3>2
        <4>2. tasks[t] = None /\ \A j \in DOMAIN channel : channel[j].task = t => j <= 1
          BY <1>2, <4>1 DEF Inv, EoseLast
        <4>3. \A j \in DOMAIN channel' : channel'[j].task = t => j + 1 <= 1
          BY <1>2, <4>2
        <4>4. \A j \in DOMAIN channel' : j >= 1
          BY <1>2 DEF ChannelOK
        <4> QED
          BY <1>2, <4>2, <4>3, <4>4
      <3> QED
        BY <3>1, <3>2
    <2> QED
      BY <1>1, <2>1, <2>2 DEF EoseLast
  <1>12. Reached'
    <2> SUFFICES ASSUME NEW s \in Subscribed, NEW x \in Events, Due(s, x)
                 PROVE  (Live(req[s].task, x) \/ Waits(req[s].task, x) \/ Ahead(req[s].task, x))'
      BY <1>1 DEF Reached, Subscribed, Due, MatchedBy, MaySend
    <2>1. CASE Ahead(req[s].task, x)
      BY <1>1, <2>1 DEF Ahead
    <2>2. CASE Live(req[s].task, x)
      <3>1. delivered \subseteq delivered'
        BY <1>1
      <3> QED
        BY <1>1, <2>2, <3>1 DEF Live
    <2>3. CASE Waits(req[s].task, x)
      <3>1. PICK i \in DOMAIN channel : channel[i].task = req[s].task /\ channel[i].event = x
        BY <2>3 DEF Waits
      <3>2. CASE i = 1
        <4>1. m.task = req[s].task /\ m.event = x /\ x # None
          BY <1>2, <3>1, <3>2, Parameters
        <4>2. <<req[s].task, x>> \in delivered'
          BY <1>1, <4>1
        <4> QED
          BY <1>1, <4>2 DEF Live
      <3>3. CASE i # 1
        BY <1>1, <1>2, <3>1, <3>3 DEF Waits
      <3> QED
        BY <3>2, <3>3
    <2> QED
      BY <2>1, <2>2, <2>3 DEF Inv, Reached
  <1> QED
    BY <1>2, <1>4, <1>5, <1>6, <1>7, <1>8, <1>9, <1>10, <1>11, <1>12 DEF Inv

(* The tasks.                                                                *)

\* What a task becomes in each of its steps is a task.
LEMMA StartedTask ==
    ASSUME NEW r \in TaskState, NEW due \in SUBSET Events
    PROVE  LET a == [r EXCEPT !.running = TRUE, !.found = {}, !.due = due]
           IN  /\ a \in TaskState /\ a # None /\ a.running /\ a.found = {} /\ a.due = due
               /\ a.filters = r.filters
               /\ a.key = r.key /\ a.rumors = r.rumors /\ a.aborted = r.aborted
  <1> DEFINE a == [r EXCEPT !.running = TRUE, !.found = {}, !.due = due]
  <1>1. a \in TaskState
    BY DEF TaskState
  <1>2. /\ a.running /\ a.found = {} /\ a.due = due /\ a.filters = r.filters
        /\ a.key = r.key /\ a.rumors = r.rumors /\ a.aborted = r.aborted
    BY DEF TaskState
  <1> QED
    BY <1>1, <1>2, Parameters

LEMMA FoundTask ==
    ASSUME NEW r \in TaskState, NEW e \in Events
    PROVE  LET a == [r EXCEPT !.found = @ \cup {e}]
           IN  /\ a \in TaskState /\ a # None /\ a.found = r.found \cup {e}
               /\ a.running = r.running /\ a.due = r.due /\ a.filters = r.filters
               /\ a.key = r.key /\ a.rumors = r.rumors /\ a.aborted = r.aborted
  <1> DEFINE a == [r EXCEPT !.found = @ \cup {e}]
  <1>1. a \in TaskState
    BY DEF TaskState
  <1>2. /\ a.found = r.found \cup {e}
        /\ a.running = r.running /\ a.due = r.due /\ a.filters = r.filters
        /\ a.key = r.key /\ a.rumors = r.rumors /\ a.aborted = r.aborted
    BY DEF TaskState
  <1> QED
    BY <1>1, <1>2, Parameters

LEMMA EndedTask ==
    ASSUME NEW r \in TaskState, r.filters # <<>>
    PROVE  LET a == [r EXCEPT !.running = FALSE, !.filters = Tail(r.filters)]
           IN  /\ a \in TaskState /\ a # None /\ ~a.running /\ a.filters = Tail(r.filters)
               /\ a.key = r.key /\ a.rumors = r.rumors /\ a.aborted = r.aborted
  <1> DEFINE a == [r EXCEPT !.running = FALSE, !.filters = Tail(r.filters)]
  <1>1. r.filters \in Seq(SUBSET Events)
    BY DEF TaskState
  <1>2. Tail(r.filters) \in Seq(SUBSET Events)
    BY <1>1, HeadTailProperties
  <1>3. a \in TaskState
    BY <1>2 DEF TaskState
  <1>4. /\ ~a.running /\ a.filters = Tail(r.filters)
        /\ a.key = r.key /\ a.rumors = r.rumors /\ a.aborted = r.aborted
    BY DEF TaskState
  <1> QED
    BY <1>3, <1>4, Parameters

\* The channel as a step of task t may leave it.
Says(t, e) ==
    /\ Len(channel) < ChannelCap
    /\ channel' = Append(channel, [task |-> t, event |-> e])
    /\ e # None => May(e)

\* A step that changes one task, and sends at most one of its messages, keeps
\* the invariant if it neither passes over an event nor goes on after EOSE.
LEMMA StepKeeps ==
    ASSUME Inv, NEW t \in DOMAIN tasks, tasks[t] # None, NEW x \in TaskState \cup {None},
           UNCHANGED <<publishing, receiver, session, req, subOf, steady, output>>,
           tasks' = [tasks EXCEPT ![t] = x],
           x # None => /\ x.key = tasks[t].key /\ x.rumors = tasks[t].rumors
                       /\ x.aborted = tasks[t].aborted /\ (x.running => x.filters # <<>>),
           channel' = channel \/ \E e \in Events \cup {None} : Says(t, e) /\ (e = None => x = None),
           \A s \in Subscribed : \A e \in Events :
              req[s].task = t /\ Due(s, e) /\ Ahead(t, e) => Ahead(t, e)' \/ Waits(t, e)'
    PROVE  Inv'
  <1>1. /\ UNCHANGED <<stage, stored, live, lagged, lost, open, authed, rumors, proved>>
        /\ UNCHANGED <<req, subOf, steady, delivered, eose>>
    BY DEF publishing, receiver, session, output
  <1>2. /\ tasks' \in Seq(TaskState \cup {None}) /\ Len(tasks') = Len(tasks)
        /\ DOMAIN tasks' = DOMAIN tasks /\ tasks'[t] = x
        /\ \A u \in DOMAIN tasks : u # t => tasks'[u] = tasks[u]
    <2>1. tasks \in Seq(TaskState \cup {None})
      BY DEF Inv, TasksOK
    <2> QED
      BY <2>1
  <1>3. /\ ChannelOK' /\ Registered' /\ MessagesGuarded'
        /\ \A i \in DOMAIN channel : i \in DOMAIN channel' /\ channel'[i] = channel[i]
        /\ \A i \in DOMAIN channel' :
              i \notin DOMAIN channel =>
                 /\ channel'[i].task = t /\ (channel'[i].event = None => x = None)
                 /\ \A j \in DOMAIN channel' : j <= i
    <2>1. CASE channel' = channel
      BY <1>1, <1>2, <2>1 DEF Inv, ChannelOK, Registered, MessagesGuarded, May
    <2>2. CASE channel' # channel
      <3>1. PICK e \in Events \cup {None} : Says(t, e) /\ (e = None => x = None)
        BY <2>2
      <3> DEFINE m == [task |-> t, event |-> e]
                 k == Len(channel) + 1
      <3>2. channel \in Seq(Message) /\ Len(channel) \in Nat /\ Len(channel) < ChannelCap
        BY <3>1 DEF Inv, ChannelOK, Says
      <3>3. t \in 1..MaxReq
        BY Parameters DEF Inv, TasksOK
      <3>4. m \in Message /\ m.task = t /\ m.event = e
        BY <3>3 DEF Message
      <3> HIDE DEF m
      <3>5. channel' = Append(channel, m)
        BY <3>1 DEF Says, m
      <3>6. /\ Append(channel, m) \in Seq(Message) /\ Len(Append(channel, m)) = k
            /\ DOMAIN Append(channel, m) = DOMAIN channel \cup {k} /\ k \notin DOMAIN channel
            /\ Append(channel, m)[k] = m
            /\ \A i \in DOMAIN channel : Append(channel, m)[i] = channel[i] /\ i < k
        BY <3>2, <3>4, Appended
      <3>7. /\ channel' \in Seq(Message) /\ Len(channel') = k
            /\ DOMAIN channel' = DOMAIN channel \cup {k} /\ k \notin DOMAIN channel
            /\ channel'[k] = m
            /\ \A i \in DOMAIN channel : channel'[i] = channel[i] /\ i < k
        BY <3>5, <3>6
      <3>8. ChannelOK'
        BY <3>2, <3>7, Parameters DEF ChannelOK
      <3>9. Registered'
        BY <1>1, <1>2, <3>4, <3>7 DEF Inv, Registered
      <3>10. MessagesGuarded'
        BY <1>1, <3>1, <3>4, <3>7 DEF Inv, MessagesGuarded, Says, May
      <3>11. k \in Nat
        BY <3>2
      <3> HIDE DEF k
      <3>12. \A j \in DOMAIN channel' : j <= k
        BY <3>2, <3>7, <3>11
      <3>13. channel'[k].task = t /\ (channel'[k].event = None => x = None)
        BY <3>1, <3>4, <3>7
      <3> QED
        BY <3>7, <3>8, <3>9, <3>10, <3>12, <3>13
    <2> QED
      BY <2>1, <2>2
  <1>4. (PublishingOK /\ LiveOK /\ KeysOK /\ GiftWrapsGuarded /\ StoredWere)'
    BY <1>1 DEF Inv, PublishingOK, LiveOK, KeysOK, GiftWrapsGuarded, StoredWere
  <1>5. (TasksOK /\ RequestsOK /\ HistoryOK)'
    BY <1>1, <1>2 DEF Inv, TasksOK, RequestsOK, HistoryOK, Subscribed
  <1>6. FlagsOK'
    BY <1>1 DEF Inv, FlagsOK
  <1>7. KeysProved' /\ RunsFilter'
    BY <1>1, <1>2 DEF Inv, KeysProved, RunsFilter
  <1>8. OpenRuns'
    BY <1>1, <1>2, Zenon DEF Inv, OpenRuns, RequestsOK, Subscribed
  <1>9. SteadyTasks'
    <2>1. steady \subseteq DOMAIN tasks
      BY DEF Inv, HistoryOK
    <2> QED
      BY <1>1, <1>2, <2>1, Zenon DEF Inv, SteadyTasks
  <1>10. EoseLast'
    <2>1. ASSUME NEW i \in DOMAIN channel', channel'[i].event = None
          PROVE  /\ tasks'[channel'[i].task] = None
                 /\ \A j \in DOMAIN channel' : channel'[j].task = channel'[i].task => j <= i
      <3>1. CASE i \in DOMAIN channel
        <4>1. /\ channel'[i] = channel[i] /\ tasks[channel[i].task] = None
              /\ channel[i].task \in DOMAIN tasks
              /\ \A j \in DOMAIN channel : channel[j].task = channel[i].task => j <= i
          BY <1>3, <2>1, <3>1 DEF Inv, EoseLast, Registered
        <4>2. channel[i].task # t
          BY <4>1
        <4> QED
          BY <1>2, <1>3, <4>1, <4>2
      <3>2. CASE i \notin DOMAIN channel
        BY <1>2, <1>3, <2>1, <3>2
      <3> QED
        BY <3>1, <3>2
    <2>2. ASSUME NEW u \in eose'
          PROVE  tasks'[u] = None /\ \A j \in DOMAIN channel' : channel'[j].task # u
      <3>1. /\ u \in DOMAIN tasks /\ tasks[u] = None
            /\ \A j \in DOMAIN channel : channel[j].task # u
        BY <1>1, <2>2 DEF Inv, EoseLast, HistoryOK
      <3> QED
        BY <1>2, <1>3, <3>1
    <2> QED
      BY <2>1, <2>2 DEF EoseLast
  <1>11. Reached'
    <2> SUFFICES ASSUME NEW s \in Subscribed, NEW e \in Events, Due(s, e)
                 PROVE  (Live(req[s].task, e) \/ Waits(req[s].task, e) \/ Ahead(req[s].task, e))'
      BY <1>1 DEF Reached, Subscribed, Due, MatchedBy, MaySend
    <2>1. Live(req[s].task, e) \/ Waits(req[s].task, e) \/ Ahead(req[s].task, e)
      BY DEF Inv, Reached
    <2>2. CASE Live(req[s].task, e)
      BY <1>1, <2>2 DEF Live
    <2>3. CASE Waits(req[s].task, e)
      BY <1>1, <1>3, <2>3 DEF Waits
    <2>4. CASE Ahead(req[s].task, e) /\ req[s].task = t
      BY <1>1, <2>4 DEF Ahead, Waits
    <2>5. CASE Ahead(req[s].task, e) /\ req[s].task # t
      <3>1. req[s].task \in DOMAIN tasks
        BY DEF Inv, RequestsOK
      <3> QED
        BY <1>1, <1>2, <2>5, <3>1 DEF Ahead
    <2> QED
      BY <2>1, <2>2, <2>3, <2>4, <2>5
  <1> QED
    BY <1>3, <1>4, <1>5, <1>6, <1>7, <1>8, <1>9, <1>10, <1>11 DEF Inv

\* A task that has not ended is a task.
LEMMA Running ==
    ASSUME Inv, NEW t \in DOMAIN tasks, tasks[t] # None
    PROVE  /\ tasks[t] \in TaskState
           /\ tasks[t].filters \in Seq(SUBSET Events)
           /\ tasks[t].found \in SUBSET Events /\ tasks[t].due \in SUBSET Events
  <1>1. tasks[t] \in TaskState
    BY DEF Inv, TasksOK
  <1> QED
    BY <1>1 DEF TaskState

LEMMA StartFilterKeeps ==
    ASSUME Inv, NEW t \in DOMAIN tasks, StartFilter(t),
           UNCHANGED <<publishing, receiver, session, req, subOf, steady, output>>
    PROVE  Inv'
  <1> DEFINE due == stored \cap Head(tasks[t].filters)
             x == [tasks[t] EXCEPT !.running = TRUE, !.found = {}, !.due = due]
  <1>1. /\ tasks[t] # None /\ tasks[t].filters # <<>> /\ channel' = channel
        /\ tasks' = [tasks EXCEPT ![t] = x]
    BY DEF StartFilter
  <1>2. tasks[t] \in TaskState /\ tasks[t].filters \in Seq(SUBSET Events)
    BY <1>1, Running
  <1>3. Head(tasks[t].filters) = tasks[t].filters[1] /\ 1 \in DOMAIN tasks[t].filters
    BY <1>1, <1>2
  <1>4. due \in SUBSET Events
    BY DEF Inv, PublishingOK
  <1> HIDE DEF due
  <1>5. /\ x \in TaskState /\ x # None /\ x.running /\ x.found = {} /\ x.due = due
        /\ x.filters = tasks[t].filters
        /\ x.key = tasks[t].key /\ x.rumors = tasks[t].rumors /\ x.aborted = tasks[t].aborted
    BY <1>2, <1>4, StartedTask
  <1> HIDE DEF x
  <1>6. ASSUME NEW s \in Subscribed, NEW e \in Events, Due(s, e), Ahead(t, e)
        PROVE  Ahead(t, e)'
    <2>1. PICK i \in DOMAIN tasks[t].filters : e \in tasks[t].filters[i]
      BY <1>6 DEF Ahead
    <2>2. tasks'[t] = x
      BY <1>1 DEF Inv, TasksOK
    <2>3. i = 1 => e \in due
      BY <1>3, <1>6, <2>1 DEF due, Due
    <2> QED
      BY <1>5, <2>1, <2>2, <2>3 DEF Ahead
  <1> QED
    BY <1>1, <1>5, <1>6, StepKeeps

LEMMA FindKeeps ==
    ASSUME Inv, NEW t \in DOMAIN tasks, NEW e \in Events, Find(t, e),
           UNCHANGED <<publishing, receiver, session, req, subOf, steady, output>>
    PROVE  Inv'
  <1> DEFINE x == [tasks[t] EXCEPT !.found = @ \cup {e}]
             may == MaySend(e, tasks[t].key, tasks[t].rumors)
  <1>1. tasks[t] # None
    BY DEF Find
  <1>2. tasks[t] \in TaskState
    BY <1>1, Running
  <1>3. /\ may => Send(t, e, x)
        /\ ~may => tasks' = [tasks EXCEPT ![t] = x] /\ channel' = channel
    BY DEF Find
  <1>4. /\ x \in TaskState /\ x # None /\ x.found = tasks[t].found \cup {e}
        /\ x.running = tasks[t].running /\ x.due = tasks[t].due
        /\ x.filters = tasks[t].filters
        /\ x.key = tasks[t].key /\ x.rumors = tasks[t].rumors /\ x.aborted = tasks[t].aborted
    BY <1>2, FoundTask
  <1> HIDE DEF x
  <1>5. e # None /\ (x.running => x.filters # <<>>)
    BY <1>1, <1>4, Parameters DEF Inv, RunsFilter
  <1>6. ASSUME NEW s \in Subscribed, req[s].task = t, Due(s, e)
        PROVE  may
    <2>1. tasks[t].key = authed /\ tasks[t].rumors = rumors
      BY <1>1, <1>6 DEF Due, Inv, SteadyTasks
    <2> QED
      BY <1>6, <2>1 DEF Due, MaySend
  <1>7. ASSUME tasks' = [tasks EXCEPT ![t] = x], NEW d \in Events, d # e, Ahead(t, d)
        PROVE  Ahead(t, d)'
    <2>1. tasks'[t] = x
      BY <1>7 DEF Inv, TasksOK
    <2> QED
      BY <1>4, <1>7, <2>1 DEF Ahead
  <1>8. CASE ~may
    <2>1. ASSUME NEW s \in Subscribed, NEW d \in Events, req[s].task = t, Due(s, d), Ahead(t, d)
          PROVE  Ahead(t, d)'
      BY <1>3, <1>6, <1>7, <1>8, <2>1
    <2> QED
      BY <1>1, <1>3, <1>4, <1>5, <1>8, <2>1, StepKeeps
  <1>9. CASE may /\ open
    <2>1. /\ tasks' = [tasks EXCEPT ![t] = x] /\ Len(channel) < ChannelCap
          /\ channel' = Append(channel, [task |-> t, event |-> e])
      BY <1>3, <1>9 DEF Send, CanSend
    <2>2. May(e)
      BY <1>1, <1>9 DEF MaySend, May, Inv, KeysProved
    <2>3. Says(t, e)
      BY <2>1, <2>2 DEF Says
    <2>4. Waits(t, e)'
      <3> DEFINE m == [task |-> t, event |-> e]
      <3>1. channel \in Seq(Message) /\ t \in 1..MaxReq
        BY Parameters DEF Inv, ChannelOK, TasksOK
      <3>2. m \in Message /\ m.task = t /\ m.event = e
        BY <3>1 DEF Message
      <3> HIDE DEF m
      <3>3. /\ DOMAIN Append(channel, m) = DOMAIN channel \cup {Len(channel) + 1}
            /\ Append(channel, m)[Len(channel) + 1] = m
        BY <3>1, <3>2, Appended
      <3>4. channel' = Append(channel, m)
        BY <2>1 DEF m
      <3> QED
        BY <3>2, <3>3, <3>4 DEF Waits
    <2>5. ASSUME NEW s \in Subscribed, NEW d \in Events, req[s].task = t, Due(s, d), Ahead(t, d)
          PROVE  Ahead(t, d)' \/ Waits(t, d)'
      BY <1>7, <2>1, <2>4, <2>5
    <2> QED
      BY <1>1, <1>4, <1>5, <2>1, <2>3, <2>5, StepKeeps
  <1>10. CASE may /\ ~open
    <2>1. tasks' = [tasks EXCEPT ![t] = None] /\ channel' = channel
      BY <1>3, <1>10 DEF Send
    <2>2. \A s \in Subscribed : \A d \in Events : ~Due(s, d)
      BY <1>10 DEF Due
    <2> QED
      BY <1>1, <2>1, <2>2, StepKeeps
  <1> QED
    BY <1>8, <1>9, <1>10

LEMMA EndFilterKeeps ==
    ASSUME Inv, NEW t \in DOMAIN tasks, EndFilter(t),
           UNCHANGED <<publishing, receiver, session, req, subOf, steady, output>>
    PROVE  Inv'
  <1> DEFINE x == [tasks[t] EXCEPT !.running = FALSE, !.filters = Tail(tasks[t].filters)]
  <1>1. /\ tasks[t] # None /\ tasks[t].running /\ tasks[t].due \subseteq tasks[t].found
        /\ channel' = channel /\ tasks' = [tasks EXCEPT ![t] = x]
    BY DEF EndFilter
  <1>2. /\ tasks[t] \in TaskState /\ tasks[t].filters \in Seq(SUBSET Events)
        /\ tasks[t].filters # <<>>
    BY <1>1, Running DEF Inv, RunsFilter
  <1>3. /\ x \in TaskState /\ x # None /\ ~x.running /\ x.filters = Tail(tasks[t].filters)
        /\ x.key = tasks[t].key /\ x.rumors = tasks[t].rumors /\ x.aborted = tasks[t].aborted
    BY <1>2, EndedTask
  <1> HIDE DEF x
  <1>4. ASSUME NEW e \in Events, Ahead(t, e)
        PROVE  Ahead(t, e)'
    <2>1. PICK i \in DOMAIN tasks[t].filters :
             e \in tasks[t].filters[i] /\ (i = 1 => e \in tasks[t].due \ tasks[t].found)
      BY <1>1, <1>4 DEF Ahead
    <2>2. i # 1
      BY <1>1, <2>1
    <2>3. i - 1 \in DOMAIN x.filters /\ x.filters[i - 1] = tasks[t].filters[i]
      BY <1>2, <1>3, <2>2, Shortened
    <2>4. tasks'[t] = x
      BY <1>1 DEF Inv, TasksOK
    <2> QED
      BY <1>3, <2>1, <2>3, <2>4 DEF Ahead
  <1> QED
    BY <1>1, <1>3, <1>4, StepKeeps

LEMMA SendEoseKeeps ==
    ASSUME Inv, NEW t \in DOMAIN tasks, SendEose(t),
           UNCHANGED <<publishing, receiver, session, req, subOf, steady, output>>
    PROVE  Inv'
  <1>1. /\ tasks[t] # None /\ tasks[t].filters = <<>>
        /\ CanSend /\ tasks' = [tasks EXCEPT ![t] = None]
        /\ channel' = IF open THEN Append(channel, [task |-> t, event |-> None]) ELSE channel
    BY DEF SendEose, Send
  <1>2. \A e \in Events : ~Ahead(t, e)
    BY <1>1 DEF Ahead
  <1>3. channel' = channel \/ Says(t, None)
    BY <1>1 DEF Says, CanSend
  <1> QED
    BY <1>1, <1>2, <1>3, StepKeeps

LEMMA CancelKeeps ==
    ASSUME Inv, NEW t \in DOMAIN tasks, Cancel(t),
           UNCHANGED <<publishing, receiver, session, req, subOf, steady, output>>
    PROVE  Inv'
  <1>1. /\ tasks[t] # None /\ tasks[t].aborted
        /\ channel' = channel /\ tasks' = [tasks EXCEPT ![t] = None]
    BY DEF Cancel
  <1>2. \A s \in Subscribed : req[s].task # t
    BY <1>1 DEF Inv, OpenRuns
  <1> QED
    BY <1>1, <1>2, StepKeeps

LEMMA TaskKeeps == ASSUME Inv, NEW t \in DOMAIN tasks, Task(t) PROVE Inv'
  BY StartFilterKeeps, FindKeeps, EndFilterKeeps, SendEoseKeeps, CancelKeeps DEF Task

LEMMA Stutters == ASSUME Inv, UNCHANGED vars PROVE Inv'
  <1>1. /\ UNCHANGED <<req, tasks, channel, subOf, steady, authed, rumors, proved, output>>
        /\ UNCHANGED <<stage, stored, live, lagged, lost, open, delivered, eose>>
    BY DEF vars, publishing, receiver, session, output
  <1>2. (PublishingOK /\ LiveOK /\ HistoryOK /\ StoredWere)'
    BY <1>1 DEF Inv, PublishingOK, LiveOK, HistoryOK, StoredWere
  <1>3. FlagsOK'
    BY <1>1 DEF Inv, FlagsOK
  <1>4. Reached'
    BY <1>1 DEF Inv, Reached, Due, Subscribed, MatchedBy, MaySend, Live, Waits, Ahead
  <1> QED
    BY <1>1, <1>2, <1>3, <1>4, Frame DEF Inv

-------------------------------------------------------------------------------

LEMMA Inductive == Spec => []Inv
  <1>1. ASSUME Inv, [Next]_vars PROVE Inv'
    <2>1. CASE \E e \in Events : Add(e) \/ Broadcast(e)
      BY <1>1, <2>1, AddKeeps, BroadcastKeeps
    <2>2. CASE Client
      BY <1>1, <2>2, AuthKeeps, AcceptRumorsKeeps, ReqKeeps, CloseKeeps, DisconnectKeeps DEF Client
    <2>3. CASE Forward \/ ReceiveLive \/ ReceiveLagged
      BY <1>1, <2>3, ForwardKeeps, ReceiveLiveKeeps, ReceiveLaggedKeeps
    <2>4. CASE \E t \in DOMAIN tasks : Task(t)
      BY <1>1, <2>4, TaskKeeps
    <2>5. CASE UNCHANGED vars
      BY <1>1, <2>5, Stutters
    <2> QED
      BY <1>1, <2>1, <2>2, <2>3, <2>4, <2>5 DEF Next
  <1> QED
    BY <1>1, Initially, PTL DEF Spec

\* The session, the requests, the tasks and the histories keep their types, and
\* neither the channel nor the receiver of the broadcast outgrows its capacity
\* (ws_handler, handle_req).
THEOREM TypeCorrect == Spec => []TypeOK
  <1>1. Inv => TypeOK
    BY TypeParts DEF Inv
  <1> QED
    BY <1>1, Inductive, PTL

\* A gift wrap is only ever sent to a client that has authenticated as its
\* addressee, for any number of REQs, keys and events (send_event).
THEOREM GuardedFromOthers == Spec => []GiftWrapsGuarded
  <1>1. Inv => GiftWrapsGuarded
    BY DEF Inv
  <1> QED
    BY <1>1, Inductive, PTL

\* Between the stored events, up to EOSE, and the broadcast there is no gap, for
\* any filters and capacities (handle_req and receive_broadcast).
THEOREM NothingMissed == Spec => []NoGap
  <1>1. Inv => NoGap
    <2> SUFFICES ASSUME Inv, NEW s \in Subscribed, NEW e \in Events,
                        Due(s, e), req[s].task \in eose
                 PROVE  Live(req[s].task, e)
      BY DEF NoGap, Live
    <2>1. Live(req[s].task, e) \/ Waits(req[s].task, e) \/ Ahead(req[s].task, e)
      BY DEF Inv, Reached
    <2>2. ~Ahead(req[s].task, e) /\ ~Waits(req[s].task, e)
      BY DEF Inv, EoseLast, Ahead, Waits
    <2> QED
      BY <2>1, <2>2
  <1> QED
    BY <1>1, Inductive, PTL
================================================================================
