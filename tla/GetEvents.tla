------------------------------- MODULE GetEvents -------------------------------
(*****************************************************************************)
(* A stored query: the loop of handle_req over one filter, and GetEvents,    *)
(* which merges one iterator per condition, latest first, by letting each    *)
(* group of conditions in turn pull the common position down to its latest   *)
(* Time.  Meanwhile other threads add and remove events, key by key.         *)
(*                                                                           *)
(* An iterator of RocksDB is a snapshot of the moment it is opened.  After   *)
(* each batch the query stops, and restarts later with new iterators but     *)
(* with the heads it has cached.                                             *)
(*****************************************************************************)
EXTENDS Nostr, FiniteSets

CONSTANTS
    Times,         \* the Times of the events there may be
    KeysOf,        \* the conditions each of them is indexed under
    Written,       \* those that are added and removed while the query runs
    Filters,       \* [since, until, limit, search, conditions]: search says
                   \* whether there is such a field, conditions is a sequence
    Batch,         \* how many events are sent before the query restarts
    MaxU64         \* the largest number

VARIABLES
    conditions,    \* the keys <<condition, Time>>
    time,          \* the keys Time
    events,        \* the Times whose event is in n_to_event
    writes,        \* what is being written: Time -> "no" | "add" | "remove"
    filter,        \* the query's filter
    pc,
    limit,         \* how many events are still to be sent
    until,         \* GetEvents::until
    cursors,       \* group -> condition -> [head, snap]: the iterators
    closed,        \* the iterators to open, <<group, condition>>
    todo,          \* the groups not yet visited in this round
    heads,         \* head_conditions: the groups whose latest Time is until
    batch,         \* how many events this batch has
    out,           \* history: the Times of the events sent
    ever,          \* history: the Times whose event has been there
    always         \* history: the Times whose event has been there all along

store == <<conditions, time, events, writes, ever, always>>
query == <<pc, limit, until, cursors, closed, todo, heads, batch, out>>
vars == <<store, filter, query>>

Zero == <<0, 0>>

Groups == DOMAIN filter.conditions

ASSUME GetEventsAssumption ==
    /\ Times \subseteq Nat \X (1..MaxU64)
    /\ MaxU64 \in Nat /\ Batch \in Nat \ {0}
    /\ Written \subseteq Times
    /\ None \notin Times
    /\ \A f \in Filters : f.since \in Nat /\ f.until \in Nat /\ f.limit \in Nat

\* Mutant: the position stays.
PredMissing(t) == t

Pred(t) == IF t[2] = 0 THEN <<t[1] - 1, MaxU64>> ELSE <<t[1], t[2] - 1>>

\* The Times of a set that an iterator set to a position still has to return.
UpTo(times, position) == {t \in times : ~Later(t, position)}

Hits(condition) == {t \in Times : <<condition, t>> \in conditions}

Iterators == UNION {{g} \X DOMAIN cursors[g] : g \in Groups}

\* The filter is a FilterCompact: a group is empty when none of its hashes is
\* known.
Init ==
    /\ events = Times \ Written
    /\ conditions = UNION {KeysOf[t] \X {t} : t \in events}
    /\ time = events
    /\ writes = [t \in Times |-> "no"]
    /\ ever = events /\ always = events
    /\ filter \in Filters
    /\ limit = filter.limit
    /\ until = <<filter.until, MaxU64>>
    /\ cursors = [g \in Groups |->
                     [c \in filter.conditions[g] |-> [head |-> None, snap |-> {}]]]
    /\ closed = Iterators
    /\ pc = "new"
    /\ todo = {} /\ heads = {} /\ batch = 0 /\ out = <<>>

-------------------------------------------------------------------------------
(* The writers: add_event and remove_event, as in module Db.                 *)

PutEvent(t) ==
    /\ writes[t] = "no" /\ t \notin events
    /\ events' = events \cup {t}
    /\ ever' = ever \cup {t}
    /\ writes' = [writes EXCEPT ![t] = "add"]
    /\ UNCHANGED <<conditions, time, always>>

PutKey(t) ==
    /\ writes[t] = "add"
    /\ \E c \in KeysOf[t] :
          /\ <<c, t>> \notin conditions
          /\ conditions' = conditions \cup {<<c, t>>}
    /\ UNCHANGED <<time, events, writes, ever, always>>

PutTime(t) ==
    /\ writes[t] = "add" /\ KeysOf[t] \X {t} \subseteq conditions
    /\ time' = time \cup {t}
    /\ writes' = [writes EXCEPT ![t] = "no"]
    /\ UNCHANGED <<conditions, events, ever, always>>

StartRemove(t) ==
    /\ writes[t] = "no" /\ t \in events
    /\ writes' = [writes EXCEPT ![t] = "remove"]
    /\ always' = always \ {t}
    /\ UNCHANGED <<conditions, time, events, ever>>

DeleteKey(t) ==
    /\ writes[t] = "remove"
    /\ \E c \in KeysOf[t] :
          /\ <<c, t>> \in conditions
          /\ conditions' = conditions \ {<<c, t>>}
    /\ UNCHANGED <<time, events, writes, ever, always>>

DeleteTime(t) ==
    /\ writes[t] = "remove" /\ t \in time /\ \A c \in KeysOf[t] : <<c, t>> \notin conditions
    /\ time' = time \ {t}
    /\ UNCHANGED <<conditions, events, writes, ever, always>>

DeleteEvent(t) ==
    /\ writes[t] = "remove" /\ t \notin time
    /\ events' = events \ {t}
    /\ writes' = [writes EXCEPT ![t] = "no"]
    /\ UNCHANGED <<conditions, time, ever, always>>

Write(t) ==
    /\ \/ PutEvent(t) \/ PutKey(t) \/ PutTime(t)
       \/ StartRemove(t) \/ DeleteKey(t) \/ DeleteTime(t) \/ DeleteEvent(t)
    /\ UNCHANGED <<filter, query>>

-------------------------------------------------------------------------------
(* The query.                                                                *)

\* GetEvents::new: with an empty group, or asked to search, nothing is returned.
New ==
    /\ pc = "new"
    /\ pc' = IF filter.search \/ \E g \in Groups : filter.conditions[g] = {}
             THEN "done" ELSE "open"
    /\ UNCHANGED <<limit, until, cursors, closed, todo, heads, batch, out>>

\* GetEvents::new and GetEventsStopped::restart open the iterators one by one.
Open(g, c) ==
    /\ pc = "open" /\ <<g, c>> \in closed
    /\ cursors' = [cursors EXCEPT ![g][c].snap = Hits(c)]
    /\ closed' = closed \ {<<g, c>>}
    /\ UNCHANGED <<pc, limit, until, todo, heads, batch, out>>

\* Once all are open, or without any.
Opened ==
    /\ pc = "open" /\ closed = {}
    /\ pc' = "loop"
    /\ UNCHANGED <<limit, until, cursors, closed, todo, heads, batch, out>>

\* The head of the loop of handle_req, and the beginning of GetEvents::next.
Loop ==
    /\ pc = "loop"
    /\ IF limit = 0 \/ until = Zero
       THEN pc' = "done" /\ UNCHANGED todo
       ELSE pc' = "visit" /\ todo' = Groups
    /\ heads' = {}
    /\ UNCHANGED <<limit, until, cursors, closed, batch, out>>

\* GetEvents::next without conditions reads the newest Time each time.
NextTime ==
    /\ pc = "visit" /\ Groups = {}
    /\ IF UpTo(time, until) = {}
       THEN pc' = "done" /\ UNCHANGED until
       ELSE pc' = "get" /\ until' = Latest(UpTo(time, until))
    /\ UNCHANGED <<limit, cursors, closed, todo, heads, batch, out>>

\* The heads of a group up to a position: later ones are looked for again, and
\* an iterator that has nothing more is dropped.
Advance(group, position) ==
    LET isHead(c) == group[c].head # None /\ ~Later(group[c].head, position)
        left(c) == UpTo(group[c].snap, position)
    IN  [c \in {c \in DOMAIN group : isHead(c) \/ left(c) # {}} |->
            [group[c] EXCEPT !.head = IF isHead(c) THEN @ ELSE Latest(left(c))]]

\* Mutant: head_conditions is not cleared.
AgreeingStill(g, latest) == heads \cup {g}

\* The groups that agree on the position once group g has pulled it to latest.
Agreeing(g, latest) == (IF latest # until THEN {} ELSE heads) \cup {g}

\* One group in the inner loop of GetEvents::next.  The float priorities that
\* order the groups may come out in any way.
Visit(g) ==
    LET group == Advance(cursors[g], until)
        latest == Latest({group[c].head : c \in DOMAIN group})
    IN
    /\ pc = "visit" /\ g \in todo
    /\ todo' = todo \ {g}
    /\ \/ /\ g \in heads
          /\ UNCHANGED <<pc, until, cursors, heads>>
       \/ /\ g \notin heads /\ DOMAIN group = {}
          /\ pc' = "done"
          /\ cursors' = [cursors EXCEPT ![g] = group]
          /\ UNCHANGED <<until, heads>>
       \/ /\ g \notin heads /\ DOMAIN group # {}
          /\ until' = latest
          /\ heads' = Agreeing(g, latest)
          /\ cursors' = [cursors EXCEPT ![g] = group]
          /\ UNCHANGED pc
    /\ UNCHANGED <<limit, closed, batch, out>>

\* The end of a round: all groups agree, or there is another one.
Round ==
    /\ pc = "visit" /\ Groups # {} /\ todo = {}
    /\ IF heads = Groups
       THEN pc' = "get" /\ UNCHANGED todo
       ELSE todo' = Groups /\ UNCHANGED pc
    /\ UNCHANGED <<limit, until, cursors, closed, heads, batch, out>>

\* Mutant: off by one.
FullAfter(n) == n > Batch

Full(n) == n >= Batch

\* What GetEvents::next has found is until; handle_req gets its event.
Get ==
    /\ pc = "get"
    /\ until' = Pred(until)
    /\ \/ /\ until[1] < filter.since
          /\ pc' = "done"
          /\ UNCHANGED <<limit, closed, batch, out>>
       \/ /\ until[1] >= filter.since /\ until \notin events
          /\ pc' = "loop"
          /\ UNCHANGED <<limit, closed, batch, out>>
       \/ /\ until[1] >= filter.since /\ until \in events
          /\ limit' = limit - 1
          /\ out' = Append(out, until)
          /\ IF Full(batch + 1)
             THEN pc' = "open" /\ batch' = 0 /\ closed' = Iterators
             ELSE pc' = "loop" /\ batch' = batch + 1 /\ UNCHANGED closed
    /\ UNCHANGED <<cursors, todo, heads>>

QueryStep ==
    /\ \/ New
       \/ \E g \in Groups : \E c \in DOMAIN cursors[g] : Open(g, c)
       \/ Opened \/ Loop \/ NextTime
       \/ \E g \in Groups : Visit(g)
       \/ Round \/ Get
    /\ UNCHANGED <<store, filter>>

Next == (\E t \in Written : Write(t)) \/ QueryStep

Spec == Init /\ [][Next]_vars

\* Calls of RocksDB return, and the connection takes what is sent.
FairSpec == Spec /\ WF_vars(QueryStep)

-------------------------------------------------------------------------------

\* An iterator: its latest Time as far as it is known, and its snapshot.
Cursor == [head : Times \cup {None}, snap : SUBSET Times]

\* The variables have their types: no event is half there without its number
\* being in n_to_event, and a batch never outgrows Batch.
TypeOK ==
    /\ conditions \subseteq UNION {KeysOf[t] \X {t} : t \in Times}
    /\ time \subseteq events /\ events \subseteq Times
    /\ writes \in [Times -> {"no", "add", "remove"}]
    /\ pc \in {"new", "open", "loop", "visit", "get", "done"}
    /\ filter \in Filters /\ limit \in Nat
    /\ until \in Nat \X (0..MaxU64)
    /\ cursors = [g \in Groups |-> cursors[g]]
    /\ \A g \in Groups :
          /\ DOMAIN cursors[g] \subseteq filter.conditions[g]
          /\ cursors[g] \in [DOMAIN cursors[g] -> Cursor]
    /\ closed \subseteq Iterators
    /\ todo \subseteq Groups /\ heads \subseteq Groups
    /\ batch \in 0..(Batch - 1)
    /\ out \in Seq(Times)
    /\ always \subseteq events /\ events \subseteq ever /\ ever \subseteq Times

Matching(times) ==
    {t \in times : /\ ~filter.search
                   /\ filter.since <= t[1] /\ t[1] <= filter.until
                   /\ \A g \in Groups : filter.conditions[g] \cap KeysOf[t] # {}}

Promise == INSTANCE StoredQuery WITH
    limit <- filter.limit,
    ever <- Matching(ever),
    always <- Matching(always),
    done <- pc = "done"

\* The merge implements StoredQuery: matching events only, latest first, none
\* twice, none missed that is there throughout and within the limit, whatever
\* is written meanwhile, however the groups are ordered (GetEvents::next), and
\* although heads cached before a restart are kept (GetEventsStopped::restart).
KeepsPromise == Promise!Spec

\* Every query comes to its end, however much is written: the inner loop of
\* GetEvents::next and the loop of handle_req both make progress.
Ends == <>(pc = "done")
================================================================================
