----------------------------- MODULE Subscriptions -----------------------------
(*****************************************************************************)
(* The subscriptions of one connection of src/lib.rs: REQ and CLOSE, the     *)
(* task that answers a REQ from the store, the channel from the tasks to the *)
(* select loop of ws_handler, and the broadcast of new events, while other   *)
(* connections publish.                                                      *)
(*                                                                           *)
(* A filter is the set of events it matches.  The task sees the store as     *)
(* StoredQuery promises: what is there when the query of a filter starts is  *)
(* found, what is added later may be found.  Limits are left out.            *)
(*****************************************************************************)
EXTENDS Naturals, Sequences, Functions

CONSTANTS
    None,
    Events,        \* the events others may publish
    Ephemeral,     \* those of kinds 20000 to 29999, which are not stored
    Rumors,        \* those without a signature
    Addressees,    \* event -> the keys its p tags name if it is a gift wrap, or None
    Keys,          \* the keys the client can authenticate with
    RumorChoices,  \* what the client may say with ACCEPT_RUMORS
    Subs,          \* subscription ids
    FilterLists,   \* the lists of filters the client may send
    ChannelCap,    \* capacity of the channel (100 in ws_handler)
    BroadcastCap,  \* capacity of the broadcast channel (1000 in main)
    MaxReq         \* bound on the REQs the client sends

\* What the channel carries, and the variables of a task.
Message == [task : 1..MaxReq, event : Events \cup {None}]

TaskState == [
    filters : Seq(SUBSET Events), running : BOOLEAN, found : SUBSET Events,
    due : SUBSET Events, key : Keys \cup {None}, rumors : BOOLEAN, aborted : BOOLEAN]

ASSUME SubscriptionsAssumption ==
    /\ Ephemeral \subseteq Events /\ Rumors \subseteq Events
    /\ Addressees \in [Events -> {None} \cup SUBSET Keys]
    /\ None \notin Events \cup Keys /\ None \notin TaskState
    /\ RumorChoices \subseteq BOOLEAN
    /\ FilterLists \subseteq Seq(SUBSET Events)
    /\ ChannelCap \in Nat \ {0} /\ BroadcastCap \in Nat \ {0} /\ MaxReq \in Nat

VARIABLES
    stage,         \* event -> "new" | "added" | "sent": how far its publisher is
    stored,        \* the events in the store
    live,          \* what this connection has not received of the broadcast
    lagged,        \* the receiver has been overtaken by the broadcast
    open,          \* the select loop runs
    authed,        \* authed_pubkey
    rumors,        \* accept_rumors
    req,           \* subscription id -> None or [filters, task]
    tasks,         \* the tasks of all REQs so far: None once ended
    channel,       \* messages of the tasks, [task, event], event None for EOSE
    lost,          \* history: <<task, event>>: the receiver has skipped the event
                   \* while the task's REQ was open
    subOf,         \* history: the subscription id of each task
    delivered,     \* history: <<task, event>>: EVENTs written to the socket
    eose,          \* history: the tasks whose EOSE was written
    proved,        \* history: the keys the client has authenticated with
    steady         \* history: the tasks since whose REQ neither authed_pubkey
                   \* nor accept_rumors has changed

publishing == <<stage, stored>>
receiver == <<live, lagged, lost>>
session == <<open, authed, rumors, proved>>
output == <<delivered, eose>>
vars == <<publishing, receiver, session, req, tasks, channel, subOf, steady, output>>

MatchedBy(filters) == UNION Range(filters)

Subscribed == {s \in Subs : req[s] # None}

Init ==
    /\ stage = [e \in Events |-> "new"]
    /\ stored = {}
    /\ live = <<>> /\ lagged = FALSE /\ lost = {}
    /\ open = TRUE /\ authed = None /\ rumors = FALSE /\ proved = {}
    /\ req = [s \in Subs |-> None]
    /\ tasks = <<>> /\ channel = <<>> /\ subOf = <<>> /\ steady = {}
    /\ delivered = {} /\ eose = {}

-------------------------------------------------------------------------------
(* Publishers, on any connection: the end of handle_event.                   *)

Add(e) ==
    /\ e \notin Ephemeral /\ stage[e] = "new"
    /\ stage' = [stage EXCEPT ![e] = "added"]
    /\ stored' = stored \cup {e}
    /\ UNCHANGED <<receiver, session, req, tasks, channel, subOf, steady, output>>

\* The broadcast never waits: a receiver that is too far behind is overtaken.
Broadcast(e) ==
    LET overtaken == Len(live) = BroadcastCap IN
    /\ stage[e] = IF e \in Ephemeral THEN "new" ELSE "added"
    /\ stage' = [stage EXCEPT ![e] = "sent"]
    /\ IF open
       THEN /\ live' = Append(IF overtaken THEN Tail(live) ELSE live, e)
            /\ lagged' = (lagged \/ overtaken)
            /\ lost' = IF overtaken
                       THEN lost \cup {<<req[s].task, Head(live)>> : s \in Subscribed}
                       ELSE lost
       ELSE UNCHANGED receiver
    /\ UNCHANGED <<stored, session, req, tasks, channel, subOf, steady, output>>

-------------------------------------------------------------------------------
(* The select loop of ws_handler.                                            *)

\* Mutant: any authentication will do.
MaySendToAnyKey(e, key, acceptsRumors) ==
    /\ Addressees[e] # None => key # None
    /\ e \in Rumors => acceptsRumors

\* send_event writes an event only if it is not guarded from the client.
MaySend(e, key, acceptsRumors) ==
    /\ Addressees[e] # None => key # None /\ key \in Addressees[e]
    /\ e \in Rumors => acceptsRumors

\* An accepted AUTH
Auth(key) ==
    /\ open
    /\ authed' = key
    /\ proved' = proved \cup {key}
    /\ steady' = IF key = authed THEN steady ELSE {}
    /\ UNCHANGED <<publishing, receiver, open, rumors, req, tasks, channel, subOf, output>>

AcceptRumors(accept) ==
    /\ open
    /\ rumors' = accept
    /\ steady' = IF accept = rumors THEN steady ELSE {}
    /\ UNCHANGED <<publishing, receiver, open, authed, proved, req, tasks, channel,
                   subOf, output>>

\* JoinHandle::abort takes effect when the task yields.
Aborted(s) ==
    [t \in DOMAIN tasks |->
        IF req[s] # None /\ req[s].task = t /\ tasks[t] # None
        THEN [tasks[t] EXCEPT !.aborted = TRUE]
        ELSE tasks[t]]

\* Mutant: a second REQ leaves the filters of the first.
EntryKept(s, filters, task) ==
    [filters |-> IF req[s] # None THEN req[s].filters ELSE filters, task |-> task]

Entry(s, filters, task) == [filters |-> filters, task |-> task]

\* REQ spawns a task that knows the client as it is now, and takes the place of
\* an earlier REQ with the same id.
Req(s, filters) ==
    LET task == Len(tasks) + 1 IN
    /\ open /\ task <= MaxReq
    /\ tasks' = Append(Aborted(s),
          [filters |-> filters, running |-> FALSE, found |-> {}, due |-> {},
           key |-> authed, rumors |-> rumors, aborted |-> FALSE])
    /\ req' = [req EXCEPT ![s] = Entry(s, filters, task)]
    /\ subOf' = Append(subOf, s)
    /\ steady' = steady \cup {task}
    /\ UNCHANGED <<publishing, receiver, session, channel, output>>

Close(s) ==
    /\ open /\ req[s] # None
    /\ tasks' = Aborted(s)
    /\ req' = [req EXCEPT ![s] = None]
    /\ UNCHANGED <<publishing, receiver, session, channel, subOf, steady, output>>

\* A message of a task goes to the socket.
Forward ==
    LET m == Head(channel) IN
    /\ open /\ channel # <<>>
    /\ channel' = Tail(channel)
    /\ IF m.event = None
       THEN eose' = eose \cup {m.task} /\ UNCHANGED delivered
       ELSE delivered' = delivered \cup {<<m.task, m.event>>} /\ UNCHANGED eose
    /\ UNCHANGED <<publishing, receiver, session, req, tasks, subOf, steady>>

\* Mutant: a live event counts only once the stored ones are through.
ListensAfterEose(s) == req[s].task \in eose

\* Whether a subscription takes part in the broadcast: from its REQ on.
Listens(s) == TRUE

\* receive_broadcast: an event goes to every subscription it matches ...
ReceiveLive ==
    LET e == Head(live)
        to == {s \in Subscribed : Listens(s) /\ e \in MatchedBy(req[s].filters)}
    IN
    /\ open /\ ~lagged /\ live # <<>>
    /\ live' = Tail(live)
    /\ delivered' = IF MaySend(e, authed, rumors)
                    THEN delivered \cup {<<req[s].task, e>> : s \in to}
                    ELSE delivered
    /\ UNCHANGED <<publishing, lagged, lost, session, req, tasks, channel, subOf, steady, eose>>

\* ... and a receiver that was overtaken logs it and goes on with what is left.
ReceiveLagged ==
    /\ open /\ lagged
    /\ lagged' = FALSE
    /\ UNCHANGED <<publishing, live, lost, session, req, tasks, channel, subOf, steady, output>>

\* The loop ends: the connection's state and both receivers are dropped, and
\* the tasks go on.
Disconnect ==
    /\ open
    /\ open' = FALSE /\ authed' = None /\ rumors' = FALSE
    /\ req' = [s \in Subs |-> None]
    /\ live' = <<>> /\ lagged' = FALSE
    /\ steady' = {}
    /\ UNCHANGED <<publishing, lost, proved, tasks, channel, subOf, output>>

-------------------------------------------------------------------------------
(* The task of a REQ: handle_req.                                            *)

\* Mutants: the buffer has a place too many, or sending to a connection that is
\* gone waits for room.
CanSendOne == ~open \/ Len(channel) <= ChannelCap
CanSendOnly == Len(channel) < ChannelCap

\* A send returns when there is room, or with an error once the receiver is gone.
CanSend == ~open \/ Len(channel) < ChannelCap

\* A message is sent, and the task goes on as `next`; the error ends it.
Send(t, event, next) ==
    /\ CanSend
    /\ channel' = IF open THEN Append(channel, [task |-> t, event |-> event]) ELSE channel
    /\ tasks' = [tasks EXCEPT ![t] = IF open THEN next ELSE None]

\* The query of the next filter starts.
StartFilter(t) ==
    /\ tasks[t] # None /\ ~tasks[t].running /\ tasks[t].filters # <<>>
    /\ tasks' = [tasks EXCEPT ![t] = [@ EXCEPT !.running = TRUE, !.found = {},
                                               !.due = stored \cap Head(tasks[t].filters)]]
    /\ UNCHANGED channel

\* It finds an event, and sends it if the client may have it.
Find(t, e) ==
    LET task == tasks[t]
        next == [task EXCEPT !.found = @ \cup {e}]
    IN
    /\ task # None /\ task.running
    /\ e \in (stored \cap Head(task.filters)) \ task.found
    /\ IF MaySend(e, task.key, task.rumors)
       THEN Send(t, e, next)
       ELSE tasks' = [tasks EXCEPT ![t] = next] /\ UNCHANGED channel

\* It has found what it had to.
EndFilter(t) ==
    /\ tasks[t] # None /\ tasks[t].running /\ tasks[t].due \subseteq tasks[t].found
    /\ tasks' = [tasks EXCEPT ![t] = [@ EXCEPT !.running = FALSE,
                                               !.filters = Tail(tasks[t].filters)]]
    /\ UNCHANGED channel

SendEose(t) ==
    /\ tasks[t] # None /\ ~tasks[t].running /\ tasks[t].filters = <<>>
    /\ Send(t, None, None)

Cancel(t) ==
    /\ tasks[t] # None /\ tasks[t].aborted
    /\ tasks' = [tasks EXCEPT ![t] = None]
    /\ UNCHANGED channel

Task(t) ==
    /\ \/ StartFilter(t) \/ EndFilter(t) \/ SendEose(t) \/ Cancel(t)
       \/ \E e \in Events : Find(t, e)
    /\ UNCHANGED <<publishing, receiver, session, req, subOf, steady, output>>

-------------------------------------------------------------------------------

Client ==
    \/ \E key \in Keys : Auth(key)
    \/ \E accept \in RumorChoices : AcceptRumors(accept)
    \/ \E s \in Subs, filters \in FilterLists : Req(s, filters)
    \/ \E s \in Subs : Close(s)
    \/ Disconnect

Next ==
    \/ \E e \in Events : Add(e) \/ Broadcast(e)
    \/ Client
    \/ Forward \/ ReceiveLive \/ ReceiveLagged
    \/ \E t \in DOMAIN tasks : Task(t)

Spec == Init /\ [][Next]_vars

\* A publisher broadcasts right after it has added; the branches of the select
\* are polled in random order, and its handlers return; tasks are scheduled.
Fairness ==
    /\ \A e \in Events : WF_vars(stage[e] = "added" /\ Broadcast(e))
    /\ WF_vars(Forward)
    /\ WF_vars(ReceiveLive \/ ReceiveLagged)
    /\ \A t \in 1..MaxReq : WF_vars(t \in DOMAIN tasks /\ Task(t))

FairSpec == Spec /\ Fairness

-------------------------------------------------------------------------------

\* The variables have their types, and neither channel outgrows its capacity.
TypeOK ==
    /\ stage \in [Events -> {"new", "added", "sent"}] /\ stored \subseteq Events
    /\ live \in Seq(Events) /\ Len(live) <= BroadcastCap
    /\ channel \in Seq(Message) /\ Len(channel) <= ChannelCap
    /\ {lagged, open, rumors} \subseteq BOOLEAN
    /\ authed \in Keys \cup {None} /\ proved \subseteq Keys
    /\ tasks \in Seq(TaskState \cup {None}) /\ Len(tasks) <= MaxReq
    /\ subOf \in [DOMAIN tasks -> Subs]
    /\ \A s \in Subscribed :
          /\ req[s].filters \in FilterLists
          /\ req[s].task \in DOMAIN tasks /\ subOf[req[s].task] = s
    /\ lost \cup delivered \subseteq (DOMAIN tasks) \X Events
    /\ eose \cup steady \subseteq DOMAIN tasks

\* A subscription has a right to an event that is stored, that it matches and
\* that the client may see, as long as it does not change what it may see.
Due(s, e) ==
    /\ open /\ req[s].task \in steady
    /\ e \in stored \cap MatchedBy(req[s].filters)
    /\ MaySend(e, authed, rumors)

\* Between the stored events, up to EOSE, and the broadcast there is no gap: an
\* event added while the task reads the store comes through one of the two,
\* unless the broadcast has overtaken the connection (handle_req and
\* receive_broadcast).
NoGap ==
    \A s \in Subscribed : \A e \in Events :
        LET t == req[s].task IN
        Due(s, e) /\ t \in eose =>
            \/ <<t, e>> \in delivered \cup lost
            \/ stage[e] = "added"
            \/ e \in Range(live)

\* Every accepted event reaches every subscription that has a right to it:
\* neither the task nor the receiver of the broadcast gets stuck or passes it
\* over (Add is the point of acceptance, add_event).
AcceptedArrives ==
    \A t \in 1..MaxReq : \A e \in Events :
        LET wanted == /\ t \in DOMAIN tasks
                      /\ req[subOf[t]] # None /\ req[subOf[t]].task = t
                      /\ Due(subOf[t], e)
        IN  wanted ~> (~wanted \/ <<t, e>> \in delivered \cup lost)

\* A gift wrap is only ever sent to a client that has authenticated as its
\* addressee, although tasks work with the key of the moment of their REQ and
\* their messages wait in the channel (send_event).
GiftWrapsGuarded ==
    \A d \in delivered : Addressees[d[2]] # None => Addressees[d[2]] \cap proved # {}

\* The task of every REQ comes to its end, also when it is aborted, and when the
\* connection is gone while the channel is full (handle_req).
TasksEnd ==
    \A t \in 1..MaxReq :
        (t \in DOMAIN tasks /\ tasks[t] # None) ~> (t \in DOMAIN tasks /\ tasks[t] = None)

-------------------------------------------------------------------------------
(* What relay_message.rs says of the messages, and the code does not keep.   *)

\* "An event matching a subscription": an EVENT is sent under an id whose
\* filters, if there are any at that moment, match the event.
EventMatches ==
    [][\A d \in delivered' \ delivered :
          LET s == subOf[d[1]] IN req[s] # None => d[2] \in MatchedBy(req[s].filters)]_vars

\* "End of subscribed events": an EOSE under an id says that the stored events
\* of the REQ that is open under it have been sent.
EoseEnds ==
    [][\A t \in eose' \ eose : req[subOf[t]] # None => req[subOf[t]].task = t]_vars
================================================================================
