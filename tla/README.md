# A verification project for rockstr

rockstr is a relay of the Nostr protocol: clients publish signed events over
WebSockets, the relay stores them in four RocksDB databases, answers queries and
forwards new events to subscribers. This directory holds TLA+ modules of the
relay, TLC configurations that check them on small instances, and theorems about
them with proofs that TLAPS checks.

Run `tlc -config db_race.cfg MC_Db` for a model-checking run and
`tlapm DbProofs.tla` for proofs; the modules that hold theorems have names that end in
`Proofs`. The runs and their modules are listed below.

## The system

| Part | Source | State | Operations | Works with |
|---|---|---|---|---|
| Event store | `src/relay.rs:20-509`, `src/nostr.rs` | the counter of numbers; `hash_to_n`, `n_to_event`, `conditions`, `time` | `add_event`, `remove_event`, `have_kind_0`, lookups | called by every connection and by the expiration task, with no lock |
| Query iterator | `src/relay.rs:511-793`, `src/priority_queue.rs` | cached heads of one iterator per condition | `next`, `stop`, `restart` | reads `conditions` and `time` while others write them |
| Subscriptions | `src/lib.rs:300-341, 397-456, 628-718` | the filters per subscription id, one task per REQ | REQ, CLOSE, broadcast | task to connection by a channel of 100 messages; connection to connection by a broadcast channel |
| Session | `src/lib.rs:107-288, 367-626` | challenge, authenticated key, credit, ping state | one message at a time | awaits the plugin and the socket inside a handler |
| Expiration queue | `src/expiration_queue.rs` | a persisted queue of `Time`s | receive, remove what is due | a channel of 10 from the sessions; calls `remove_event` |
| Plugin | `src/plugin.rs` | publishers waiting for an answer, by event id | `check_event`, one line out, one line in | an external command over two pipes |
| Protocol data | `crates/lnostr` | none | parse, `Filter::matches`, hashes, signatures | used by all |
| Start, HTTP, formatting | `src/main.rs`, `error.rs`, `utils.rs`, `display_as_json.rs` | none | | |

What is hard about it:

* **Concurrency in the store.** Every connection runs `add_event` on a thread of
  the runtime. The function makes from five to dozens of RocksDB calls with no
  transaction: it reads what is known of an id, decides, marks the id, searches
  the index, removes an old version, and stores the event and its keys one by one.
* **Crashes.** Nothing is rolled back. `Db::new` derives the counter from one of
  the four databases.
* **Order.** Versions, deletion requests and expirations come in any order, and
  the result must not depend on it.
* **Queries against writers.** A query keeps iterators (snapshots) of different
  ages, sleeps every 100 events, and is combined with live events.
* **Channels with limits**, timeouts and tasks that are aborted.

What makes each part correct:

* Store: numbers tie one hash to one event; the index is exactly that of the
  stored events; the newest version wins; a deletion request of the author
  holds before and after; nothing is lost or removed without a reason; deleted
  ids stay dead.
* Query iterator: the matching events, each once, latest first, as if one
  snapshot had been filtered, if nothing is written meanwhile; no event that
  stays is missed if something is.
* Subscriptions: an event accepted after a REQ, or stored before it, reaches the
  client; nothing of an old subscription appears under a new one.
* Session: one OK for each EVENT; credit and authentication decide what passes.
* Expiration queue: what expires is removed, once, and nothing else.
* Plugin: each publisher gets the answer for its event, or an error.

## Modules

| Module | What it is | Instances |
|---|---|---|
| `Nostr` | the data: kinds, tags, conditions, filters. No state. | |
| `Db` | the event store as a state machine, with crashes as a step | `MC_Db`, `MC_DbCrash` |
| `DbProperties` | what the store promises, and what a stored query returns | |
| `Store` | the abstract specification of the store: every operation is one step | |
| `DbStore` | `Db` as its callers see it when they take turns, and the mapping on `Store` | `MC_DbStore` |
| `DbProofs` | the inductive invariants of `Db`: types, numbers and their owners, and what the keys of the index say under every interleaving, and what stays decided across crashes | |
| `DbTurnsProofs` | the inductive invariants of `DbStore`: how far the one operation under way has got, what its searches and its requests have established | |
| `StoredQuery` | the abstract specification of a query over stored events | |
| `GetEvents` | the loop of `handle_req` and the merge of `GetEvents`, against writers | `MC_GetEvents` |
| `GetEventsProofs` | the invariant of the merge, and that it implements `StoredQuery` | |
| `Subscriptions` | REQ, CLOSE, the tasks that answer them, the broadcast, and what may be sent to whom | `MC_Subscriptions` |
| `SubscriptionsProofs` | where an event is that a subscription has a right to | |
| `WsHandler` | the select loop of a connection as a watchdog: frames, writes, pings, time | itself |
| `WsHandlerProofs` | whom the watchdog may close, and when it has to | |
| `HandleEvent` | an EVENT or AUTH message from its receipt to its OK | `MC_HandleEvent` |
| `HandleEventProofs` | what the checks leave true over the await of the plugin | |
| `ExpirationQueue` | the hand-over of expirations, the persisted queue and the task that removes | `MC_ExpirationQueue` |
| `ExpirationQueueProofs` | why a number in the queue is good for the event under it | |
| `Plugin` | `check_event`, the task, the command and the two pipes between them | `MC_Plugin` |
| `PluginProofs` | the inductive invariant of `Plugin` and the theorems | |

Each module abstracts its neighbours to what they promise: `GetEvents` takes what
`add_event` writes in the order `Db` has it, `Subscriptions` takes a query to find
what `StoredQuery` promises, `HandleEvent` takes the store to be a set and the plugin
to give some verdict, `ExpirationQueue` takes an add to be one step, as `Store` does.

### `Db` and the code

The variables `hash_to_n`, `n_to_event`, `conditions` and `time` are the four
databases, `n_count` is the counter. `proc` holds the local variables of each
thread: the connections run `add_event`, `Expirer` is the task that calls
`remove_event` on expired events. `accepted`, `expired` and `owner` are history
that only properties read; `expirations` stands for the expiration queue.

An action is one RocksDB call and the local computation around it, because
between two calls any other thread may run. `pc` names the place in the code:

| Actions | Code |
|---|---|
| `GetAuthor`, `SlotAuthor`, `InsertRef` (`GetOrCreate`) | `get_n_from_hash_or_create`: a read, and if nothing is found `Allocate` and a put, in two steps |
| `Claim`, `SetDeleted`, `SetHave` | `get_n_for_new_event`; `SetHave` includes the match on the kind that follows |
| `SearchTag`, `SearchAuthor`, `SearchKind` | the iterators a search opens: RocksDB iterators are snapshots taken one after the other |
| `Scan` | one iteration over the hits of the search, latest first, and the comparison that decides |
| `TagStep`, `SetRequested`, `CheckAuthor` | the loop of a deletion request over its tags |
| `Remove`, `RemoveStatus`, `RemoveKey`, `RemoveTime`, `RemoveEvent` | `remove_event` |
| `Insert`, `InsertRef`, `InsertKey`, `InsertTime` | the end of `add_event` |
| `StartAdd`, `StartExpire` | the callers, `handle_event` and `delete_expired_events` |
| `Restart` | a crash at any point, followed by `Db::new` |

Data is abstract: hashes are numbers, so that ids are ordered; a tag value that
is 64 hex digits is a `Hex32`, any other a `String`; the string of an `a` tag is
kept in its parsed form. Keys of the index are pairs of a compact condition and a `Time`
and are compared as values, where `Compact` has the same value for two conditions whose
bytes are the same. Authors are written as the tag named NUL (`"#\u0000"` in a filter) with
a hash would be, and a kind as a string of three bytes under the tag named SOH may be
(`nostr.rs:78-97`); a filter may ask for a tag named by any one byte
(`crates/lnostr/src/lib.rs:349`). The keys of stored tags are named by letters, and among
these, authors and kinds no key is the same as another or its prefix, as long as numbers are below
2^56: a number begins with a zero byte and a kind with a one, both have a fixed length, and strings of
UTF-8 end with 0xff. That is argued here and not checked, and so is what is left out: a string
under the names NUL and SOH of another length may also be a prefix of keys of numbers
and kinds, as `get_latest` compares prefixes. A search is its hits as a set, taken latest
first; that the query iterator delivers such a set in this order is what
`GetEvents` shows. After `Ok(n)`, `handle_event` sends OK and hands the expiration
over; `InsertTime` queues it at once, and what may happen in between is the subject
of `HandleEvent` and `ExpirationQueue`. A look-up of a number (`get_n_from_hash`) is one step with
the call that uses it.

### `GetEvents` and the code

One query runs for one filter, while writers add and remove events one key at a
time, in the order of `add_event` and `remove_event`. Events are their `Time`s and
the conditions they are indexed under; which events there are, and which of them
are written, are constants, and what of them is in the store is state.

| Actions | Code |
|---|---|
| `New`, `Open`, `Opened` | `GetEvents::new`, which returns nothing for a filter with `search` or with a group of which no hash is known, and `restart` after a batch: the iterators are opened one by one, each is a snapshot of that moment |
| `Loop` | the head of the inner loop of `handle_req` and of `next` |
| `NextTime` | `next` for a filter without conditions, which opens a new iterator on `time` each time |
| `Visit` (`Advance`, `Agreeing`) | one group of conditions in the inner loop of `next`: `get_latest` drops cached heads that are too late, seeks those iterators again and pulls `until` to the group's latest |
| `Round` | the end of a round of `next` |
| `Get` | the rest of `handle_req`'s loop: the lower bound, the look-up of the event, the limit, the batch |
| `PutEvent`, `PutKey`, `PutTime`, `StartRemove`, `DeleteKey`, `DeleteTime`, `DeleteEvent` | the writers |

The priority queue that orders the groups is keyed by floats computed from
earlier distances. They decide how fast a query is and not what it returns, so
the groups are visited in any order in every round. The heads of one group are kept by
condition; which of two equal heads is on top does not matter, as only the `Time`
is used. Reading an iterator touches a snapshot only, so that a whole call of
`get_latest` is one step. A `Time` whose number is 0 is never stored (`Db::new`
starts at 1). The branch of `handle_req` for `ids` reads no iterator and is part
of `Served` in `DbProperties`.

`StoredQuery` says what a query promises: it delivers events that match and have
been in the store at some time since it began, each at most once and latest first;
before it delivers one it has delivered every later match that was there all
along; and it ends when it has reached its limit or has delivered all of these.
The refinement maps `done` to the end of the loop, and what was there, ever or all
along, to the events that match the filter.

### `Store`, `DbStore` and the code

`Store` has three variables: the stored events, the status of every id, and the
deletion requests for ids that have not been seen. An event is refused, turned down,
or stored in the place of the versions it beats; a deletion request works through its
tags in order; an expiration takes an event out and forgets its id. These are the
results of `add_event` (`Deleted`, `HaveNewer`, `Ok`) and of `remove_event`. What
`Duplicated` means is that no step is taken.

`DbStore` runs one operation at a time, call by call, and keeps in `view` what the
databases held after the last one. `ImplementsStore` says that `view` moves as `Store`
does. With two threads it does not: `db_version_race.cfg` and `db_delete_race.cfg`.

### `Subscriptions` and the code

One connection, the tasks of its REQs, and the publishers of other connections.
`live` is what the connection's broadcast receiver has not taken, `channel` what its
tasks have sent; both are drained by the select loop, in any order.

| Actions | Code |
|---|---|
| `Add`, `Broadcast` | the end of `handle_event` on any connection: a stored event is added, then broadcast; an ephemeral one is only broadcast. A receiver that is a whole buffer behind loses the oldest |
| `Req`, `Close` | `handle_message`: the task is spawned with the key and the choice of rumors of this moment; an earlier task under the id is aborted |
| `StartFilter`, `Find`, `EndFilter`, `SendEose`, `Cancel` | `handle_req`; a task that is aborted stops at its next await |
| `Forward`, `ReceiveLive`, `ReceiveLagged` | the branches of `ws_handler` that empty the two channels; `receive_broadcast`, `send_event` |
| `Auth`, `AcceptRumors`, `Disconnect` | the messages that change what may be sent, and the end of the loop |

A filter is the set of events it matches. A query may find what is in the store and
has to find what was there when its filter started, as `StoredQuery` has it; limits
and removals from the store are left to `GetEvents`. What a broken socket does to a
single write (its error is ignored) does not differ here from a message delivered to
nobody.

### `WsHandler` and the code

Time is counted in ticks, and no tick passes while the loop could go on. `Recv`, `RecvEnd`,
`Write` and `Timer` are the branches of the select; `busy` says that one of them awaits:
a handler, or a write to a client that reads slowly or not at all; neither wait has a
timeout. `Arrive` is the client, `Done` the end of a handler, which may end the loop. What is
read from the socket is a frame that is handled at once, one whose handler awaits
something, or an error. The notice and the close frame sent at the end are left out.

### `HandleEvent` and the code

One connection handles one message after the other, while others write profiles to
the store and time passes where the handler awaits something. An event is a record
of what the checks look at: which faults it has, whether it is signed, has proof of
work, is protected, when it expires, and for an AUTH event what `verify_auth` finds.

| Actions | Code |
|---|---|
| `Receive` | `handle_message`, which takes the time (`now`) and then calls `handle_event` |
| `Check` | the checks in their order up to the plugin: banned key, size, hash, signature, `created_at`, AUTH, the profile check |
| `Ask` | the first await of `check_event`: the question is sent into the channel of the plugin's task, which waits while the channel is full and fails once the task has ended |
| `PluginAnswer` | the second await of `check_event`, at most 600 s for the answer, and the penalty if it rejects or fails |
| `Decide` | ephemeral events; expiration and protection; `add_event` with each of its results |
| `Answer`, `AnswerFails` | OK is sent and the expiration is handed over, or the socket breaks; then `handle_message` looks at the credit of an EVENT |

What `add_event` answers depends on a history that other connections take part in, so
that of an event that is not stored each answer is possible.

### `ExpirationQueue` and the code

`Publish` is an add, with the number given out as `Db` does, and `HandOver` the send to
the channel, which waits while it is full. `Recv`, `TakeOff`, `RemoveEvent` and `LoopEnd`
are `wait_expiration` and `delete_expired_events`: a due entry goes off the persisted
queue, then what is stored under its number is removed. `Withdraw` is a replacement or
a deletion by somebody, `Crash` loses what is not persisted and restarts the counter as
`Db::new` does.

### `Plugin` and the code

`Begin`, `Enqueue` and `Timeout` are `check_event`. `Start`, `RecvEvent`, `Write`,
`RecvLine` and `Eof` are the task of `PluginState::new`: its select takes an event from
the channel and writes it to the command, or reads a line and looks in the cache for who
waits for it, or meets the end of the output and starts the command again with an empty
cache. `Forget` is `TimedCache`, whose 600 s begin later than those of the caller. `Take`,
`Answer` and `CloseEnds` are the command, which holds a few events and answers them in any
order, or never, and closes either of its pipes or, when it exits, both. A pipe holds
`PipeCap` lines. An `unwrap` that fails is a panic and ends the task: on a write when nobody reads,
on an answer when nobody waits for it any more, on a line that is not UTF-8. A line that is
no answer is skipped, as is an answer to an event that is not in the cache, and is not modelled
apart from that.

## Runs

| Run | Module, specification | Instance | Checks |
|---|---|---|---|
| `db_turns` | `MC_DbStore`, `TurnsSpec` | one thread and the expiration task take turns; three scenarios, see below | `IndexExact`, `StoredIsHave`, `OneVersion`, `NewestKept`, `DeletionHonoured`, `LossJustified`, `RemovedForAuthor`, `CallsReturn`, `ImplementsStore` |
| `db_race` | `MC_Db`, `Spec` | two threads, symmetric; a profile that mentions someone, and its deletion request, each published any number of times by either thread | `TypeOK`, `ServedMatch`, `NumbersOwned`, `NeverOverwritten` |
| `db_crash` | `MC_DbCrash`, `FairCrashSpec` | one thread; two versions of an addressable event and a request with crashes anywhere, or a version that expires, its successor and its deletion request with the expiration task at any moment | `TombstonesFinal`, `ExpiringGone` |
| `get_events` | `MC_GetEvents`, `FairSpec` | five events, two of them added and removed any number of times; six filters: alternatives in a group, two groups that few events satisfy together, bounds and a limit, no condition, a group without known hashes, a search; batches of two | `TypeOK`, `KeepsPromise` (`StoredQuery`), `Ends` |
| `subs_safe` | `MC_Subscriptions`, `MCSpec` | two REQs; two stored events under filters that overlap and change, or an unsigned gift wrap while the client authenticates with either of two keys and changes its mind about rumors; channels of one | `TypeOK`, `NoGap`, `GiftWrapsGuarded` |
| `subs_live` | `MC_Subscriptions`, `MCFairSpec` | two REQs; a stored event and an ephemeral one that may overtake it, or an event for two subscriptions; channels of one | `AcceptedArrives`, `TasksEnd` |
| `ws_loop` | `WsHandler`, `FairSpec` | a timeout of two ticks, three frames that wait | `TypeOK`, `NoResponseDeserved`, `SilenceBounded`, `SilentClosed` |
| `event_policy` | `MC_HandleEvent`, `FairSpec` | eleven events, one of which expires after a tick, and three keys, one the admin's, one banned; the profile check and a plugin | `TypeOK`, `WritesRestricted`, `MaliciousDeserved`, `EventAnswered` |
| `expire_queue` | `MC_ExpirationQueue`, `FairSpec` | two connections, a channel of one, three events of which two expire together, three ticks, no crash | `TypeOK`, `RemovedRightly`, `ExpiringGone`, `HandOverEnds` |
| `plugin_checks` | `MC_Plugin`, `OrderedSpec` | four calls, three about one event; a channel and pipes of one line, a command that holds two events, is started twice, and of which nothing is assumed | `TypeOK`, `AnswersBelong`, `ReturnOrHeldUp` |
| `db_number_reuse` | `MC_Db`, `CrashSpec` | expects a violation of `ServedMatch` | |
| `plugin_late_answer` | `MC_Plugin`, `Spec` | expects a violation of `AskerWaits` | |

Where a run has several scenarios, a variable `scenario` of the MC module is set at the
start and never changes, and only what belongs to it may be published or asked for:
the run explores each scenario as if it were alone. In `MC_DbCrash` the event that is
published first decides.

**The store.** `MaxN` is large enough for every number one pass over the events of the
run needs, with repetitions that give up a number included; when it is used up, an
action that needs a number waits. The scenarios of `db_turns` are: three versions of a
profile, two of equal time, with requests of the author and of somebody else; addressable
events whose d tags are strings, hashes and several, another author under the same d, and
a request for an address; and a profile that expires with its successor, an addressable
event in two versions, and requests for ids and an address. Three to six events are
enough for the decisions the store takes: it compares one new event with one stored
event, one id or one address; the instances hold each outcome of each comparison (older,
newer, equal time with lower and higher id, other author, other d, other kind) and all
orders of publication are explored, with repetitions. Two threads are enough for the
races between a read and a put; larger numbers of threads are covered by the proofs.

`IndexExact` to `LossJustified` are stated between operations (`Quiet`) and checked with
operations that take turns. They are what a careful reader expects of the store, and
with two threads the code does not keep them. The first group of `DbProperties` is what
does survive every interleaving.

**Queries.** The code's batch of 100 is 2, so that queries restart, with heads cached and
with nothing left to find; the limit is reached together with the end of a batch, after
it, or never. Five events leave each group with heads above, at and below the position of
the other, and hold a run of two events that match one group only, which is where
groups have to agree again. Writers may touch an event before, at and behind the position
of the query.

**Channels and tasks.** The channels of 100 and 1000 messages are channels of one, so
that both are full, and a receiver is overtaken, after two events. Two REQs are enough
for one to take the place of the other, with either the task or the broadcast ahead.

**Time.** A timeout of two ticks lets a frame come at once, in the middle and at its end.
The events of `expire_queue` are due before, at and after each other, and the clock goes
on past the last of them. The credit of 30 falls by 15, as in the code.

**The plugin.** Four calls are enough to fill the input of a command that does not read: one
line in the pipe, one that the task is writing, one in the channel, and one that waits for
room. So `plugin_checks` has the case that `ReturnOrHeldUp` excepts (`ChecksReturn` fails on its
instance too). With a command that does read, it takes six (`plugin_pipes.cfg`): the command holds one and the pipe back
to the task another. Calls about one event are alike until they are in the channel, so that
`OrderedSpec` lets them begin and get there in one order, which is no loss but of names;
senders are served in their order, as the channel of tokio does.

**Fairness.** Nothing is assumed about clients, publishers or crashes in any run.

* `Db`, `DbStore`: a thread inside `add_event` or `remove_event` goes on (RocksDB calls return
  and the runtime schedules its threads; neither function awaits or takes a lock) and the
  timer of a queued expiration fires. A thread that waits for a number beyond `MaxN` is
  disabled; `CallsReturn` would be violated if that happened in `db_turns`.
* `GetEvents`: the query alone goes on. A client that stops reading holds its query up
  in `send_event` for as long as it likes, and `Ends` says nothing of it.
* `Subscriptions`: a publisher that has added goes on to broadcast (no await in between can
  stop it), tasks are scheduled, and each ready branch of the select is taken in the end;
  `tokio::select!` polls its branches in random order. While the client does not read, no
  branch is taken: `AcceptedArrives` is for a client that reads or disconnects.
* `WsHandler`: time passes, and `Timer` is strongly fair, because writes in between disable it
  again and again and the random order of the select does not pass it over for ever. A handler or
  a write need not end: `cs.ws.send` has no timeout, and a peer that keeps acknowledging
  and never reads is not given up by TCP. `SilentClosed` has that as its one exception.
* `HandleEvent`: the checks and the decision go on, and so does the wait for an answer of the plugin,
  which has a timeout of 600 s. Nothing is assumed of the send into the plugin's channel before it,
  nor of the write of OK: neither has a timeout, and `EventAnswered` names both.
* `ExpirationQueue`: time passes, the task runs, and a sender that waits is woken. The
  channel of tokio is fair to its senders.
* `Plugin`: timers fire, a send that has room comes through, and the task goes on. Nothing is
  assumed of the command in `plugin_checks`; in `plugin_pipes.cfg` it goes on as well, as far as the
  pipes let it, and need not exit.

### What the code does otherwise

Two runs are expected to find a violation of what the code's comments and assertions say:

* `db_number_reuse`: `Db::new` looks at `n_to_event` only (`relay.rs:106`); after a crash, a
  number may be given out a second time and queries mix up authors.
* `plugin_late_answer`: `sender.send(Ok(())).unwrap()` (`plugin.rs:53`) takes for granted that
  the caller in the cache still waits. It gives up 600 s after it has put its question into
  the channel, the cache forgets it 600 s after the task has taken the question out: an
  answer in between makes the task panic, and every later check fails.

The other places where model and documents part have a configuration each, to reproduce
the counterexample with `tlc -config <name>.cfg <module>`:

| Configuration | Module | Violates | What happens |
|---|---|---|---|
| `db_turned_down` | `MC_Db` | `HaveMeansStored` | a version refused with `HaveNewer` leaves its id marked as an event the relay has (`relay.rs:233` against the comment at `relay.rs:82`) |
| `db_foreign_address` | `MC_Db` | `RemovedForAuthor` | the `a` tag of a deletion request is honoured whoever signed it (`relay.rs:353`); the `e` tag is checked (`relay.rs:344`) |
| `db_delete_race` | `MC_Db` | `DeletionHonoured` | a deletion request that meets an add in flight is dropped (`relay.rs:340`) |
| `db_ids_filter` | `MC_Db` | `ServedMatch` | with `ids`, a stored query ignores the other fields of the filter (`lib.rs:640`), which live events are matched against |
| `db_control_names` | `MC_Db` | `ServedMatch` | the filters `"#\u0000": [<hex>]` and `"#\u0001": [<three bytes>]` have the keys of an author and of a kind (`nostr.rs:80-95`, `crates/lnostr/src/lib.rs:349`) |
| `db_version_race` | `MC_Db` | `OneVersion` | two versions of a profile added together are both stored (`relay.rs:286`) |
| `subs_stale_event` | `MC_Subscriptions` | `EventMatches` | messages of an aborted task are sent under an id whose filters they do not match (`lib.rs:446`) |
| `subs_stale_eose` | `MC_Subscriptions` | `EoseEnds` | the EOSE of an aborted task is taken for that of the REQ in its place (`lib.rs:250`) |
| `ws_late_pong` | `WsHandler` | `NoResponseMeansSilence` | a pong that came during a slow write is not read before the timer is polled (`lib.rs:254`, notice at `lib.rs:272`) |
| `ws_deaf_client` | `WsHandler` | `DeafClosed` | a client that is silent and does not read holds the loop in a write, where no timer counts (`lib.rs:251`) |
| `event_no_admin` | `MC_HandleEvent` | `WritesRestricted` | without an admin, `authed_pubkey == admin_pubkey` holds for clients that have not authenticated (`lib.rs:550`) |
| `event_broken_socket` | `MC_HandleEvent` | `HandedOver` | OK cannot be sent and the expiration is not handed over (`lib.rs:621`) |
| `event_expires_waiting` | `MC_HandleEvent` | `ExpiredRefused` | the expiration is compared with a time taken before the plugin was awaited (`lib.rs:583`) |
| `expire_reuse` | `MC_ExpirationQueue` | `RemovedRightly` | a number in the queue is given to another event after a restart (`expiration_queue.rs:57`, `relay.rs:106`) |
| `expire_crash` | `MC_ExpirationQueue` | `ExpiringGone` | the entry is lost in the channel, or goes off the queue before the event is removed (`expiration_queue.rs:56`) |
| `plugin_pipes` | `MC_Plugin` | `ChecksReturn` | task and command, which works as far as its pipes let it, wait for each other, and a call waits for ever (`plugin.rs:68`) |
| `plugin_exit` | `MC_Plugin` | `CommandReads` | an event is written to a command that has exited (`plugin.rs:79`) |

About `plugin_pipes`: the task that reads the answers awaits `write_all` of an event, and a
command that answers one event after the other awaits the write of its answer: with both pipes
full they wait for each other. A connection whose question finds the channel full waits with
them, as the 600 s of `check_event` begin after the send (`plugin.rs:125-132`), and never sends
the OK that every EVENT has coming (`crates/lnostr/src/relay_message.rs:36`). The pipes of Linux
hold 64 KiB and the channel 100 events, so that it takes a few hundred events under way; a
command that hangs needs fewer.

## Proofs

Every theorem holds for all values of the constants that satisfy the `ASSUME`s of its
module. TLC evaluates these in every run.

| Theorem | States | Hypothesis |
|---|---|---|
| `DbProofs!TypeCorrect` | `Spec => []TypeOK` | |
| `DbProofs!NumbersAreOwned` | `Spec => []NumbersOwned` | |
| `DbProofs!NoOverwrite` | `Spec => NeverOverwritten` | |
| `DbProofs!ServedMatches` | `Spec => []ServedMatch` | `IdsAlone`, `PlainNames` |
| `DbProofs!RemovedByAuthor` | `Spec => RemovedForAuthor` | `OwnAddresses` |
| `DbProofs!NothingRevived` | `CrashTurns => TombstonesFinal` | `NoneExpire` |
| `DbProofs!RevivedOnlyExpired` | `LifeTurns => TombstonesFinal` | |
| `DbTurnsProofs!StoredEventsKnown` | `SeqSpec => []StoredIsHave` | |
| `DbTurnsProofs!IndexIsExact` | `SeqSpec => []IndexExact` | |
| `DbTurnsProofs!OneVersionStored` | `SeqSpec => []OneVersion` | |
| `DbTurnsProofs!DeletionsHonoured` | `SeqSpec => []DeletionHonoured` | `NamesOthers` |
| `DbTurnsProofs!LossesJustified` | `SeqSpec => []LossJustified` | |
| `DbTurnsProofs!NewestIsKept` | `SeqSpec => []NewestKept` | |
| `GetEventsProofs!TypeCorrect` | `Spec => []TypeOK` | |
| `GetEventsProofs!ServesThePromise` | `Spec => KeepsPromise`, the refinement of `StoredQuery` | |
| `SubscriptionsProofs!TypeCorrect` | `Spec => []TypeOK` | |
| `SubscriptionsProofs!GuardedFromOthers` | `Spec => []GiftWrapsGuarded` | |
| `SubscriptionsProofs!NothingMissed` | `Spec => []NoGap` | |
| `WsHandlerProofs!TypeCorrect` | `Spec => []TypeOK` | |
| `WsHandlerProofs!NoResponseJustified` | `Spec => []NoResponseDeserved` | |
| `WsHandlerProofs!SilenceNoticed` | `Spec => []SilenceBounded` | |
| `HandleEventProofs!TypeCorrect` | `Spec => []TypeOK` | |
| `HandleEventProofs!MaliciousOnly` | `Spec => []MaliciousDeserved` | |
| `HandleEventProofs!Restricted` | `Spec => []WritesRestricted` | `Admin # None` |
| `ExpirationQueueProofs!TypeCorrect` | `Spec => []TypeOK` | |
| `ExpirationQueueProofs!TypeCorrectAcrossCrashes` | `CrashSpec => []TypeOK` | |
| `ExpirationQueueProofs!RemovesExpired` | `Spec => RemovedRightly` | |
| `PluginProofs!TypeCorrect` | `Spec => []TypeOK` | |
| `PluginProofs!VerdictsBelong` | `Spec => []AnswersBelong` | |

Five theorems need a hypothesis on a constant. `NamesOthers` says that no event names its
own id in an `e` tag: the id is a SHA-256 hash of the tags, among others. `NoneExpire` says that no
event has an expiration: with expirations, crashes break `TombstonesFinal`, see below. For each of
the others a configuration shows that the code does not keep the property without it:

* `IdsAlone`: no filter with `ids` has further fields (`db_ids_filter`).
* `PlainNames`: no filter asks for a tag named NUL or SOH, whose keys may be those of an author or
  of a kind (`db_control_names`).
* `OwnAddresses`: deletion requests name addresses of their own author
  (`db_foreign_address`). With it, the theorem covers all of the searches and of the `e` tags.
* `Admin # None`: an admin is configured (`event_no_admin`).

`Spec` of `Db` and of `ExpirationQueue` is one lifetime of the process. Across restarts
`ServedMatch`, `NumbersOwned` and `RemovedRightly` are lost with the counter
(`db_number_reuse`, `expire_reuse`). `DbProofs` is about any number of threads, interleaved
in any way; `SeqSpec`, in `DbTurnsProofs`, is about any number of threads that take turns.
`CrashTurns` is any number of lifetimes in which threads take turns and a crash may come after any step,
`LifeTurns` one lifetime in which events are added in turns and the expiration task runs at any
moment. The run `db_crash` has the two kinds of behaviour, for one thread.

### The store: `DbProofs`

`TypeOK` alone is not inductive: `Insert` writes the register `n`, which is a
number only because the thread has been through `Claim`. `RegisterOK` says which
registers are set at which `pc`. `NumbersOwned` is not inductive either: a thread
keeps a number in its registers over several steps and puts it later.
`RegisterOwned` says that it still belongs to the hash it will be put under, or
to the event that will be stored or removed under it. `Inv`, the conjunction of
the four, is inductive. Three lemmas carry the argument: `Allocated` (the counter
hands out a number nobody had, so what is owned stays owned), `Move` (a step of
one thread leaves the registers of the others right) and `Numbers` (the databases
stay right if what is put has an owner). Each action has a lemma of its own.
`NoOverwrite` follows by `SlotEmptied`: `Insert` puts under a number owned by the event's
id, and what is stored there has the same id, so it is the same event.

### The index of the store under every interleaving: `DbProofs`

With several threads, no key of the index says that its event is stored, nor that it
still is, nor that its other keys are there. What a key does say for good is whose number
it holds. `Dated`: a `Time` has the number of an event with that `created_at`. `Indexed`:
the condition the `Time` is under, with the number of its hash, is one of that event's.
Threads put keys from registers filled several steps before, so `Traces` says the same of
the registers: the number of the hash that is put next, the conditions that are left, the
hits of a search, which are of the author searched for. `IndexInv` is their conjunction with `Inv`.

`ServedMatches` follows because a number that belongs to an event's id can only have that
event stored under it, whenever the query reads it, and because two conditions with one
key are one condition (`SameCondition`), as long as their names are plain: a number stands for one hash. `RemovedByAuthor`
follows because what is being removed is a hit of a search for the author of the event, or
has been compared with the author in `CheckAuthor`, and the slot cannot change hands
before `RemoveEvent`.

### What stays decided: `DbProofs`

After a crash nothing of the above holds: numbers are given out again, and even the owner of
a number that is stored is another. That deleted and replaced ids stay so does not rest on
numbers. `Careful` says what a thread relies on when it puts an entry: a put that is not final (`Have`,
`Unknown`) is for a hash of which nothing final was said when it was read (`Free`), and with
adds in turns nobody has said it since; the status that a removal writes is `Deleted` or `Outdated`. A
crash clears the registers and `Careful` with them. `RevivedOnlyExpired` adds the expiration task, whose
steps fall between the read and the put of an add: it writes `Unknown` over the ids of expired
events only, because the number it was handed is still that event's (`Expiring`), and that takes `Inv`,
the numbers of one lifetime.

The two cannot be joined, for the code does not keep it: the expiration of an event may outlive a
crash that gives its number to another event (`expire_reuse`); when that one is being replaced and a
second crash leaves its id `Outdated` with the event still stored, the task puts the id back to
`Unknown`.

### The store between two calls: `DbTurnsProofs`

What holds between two calls does not hold within one. `add_event` marks an id `Have` long
before the event is stored, stores the event before its keys, and `remove_event` undoes it from
the other end. `TurnOK(r)` says how far the operation with the registers `r` has got: which
event is stored with `todo` as the keys still missing, which is being removed with `todo` as
the keys still there, whether its `Time` is there, and whose status has been written already.
It also says what a later step will rely on: that the hits of a search are stored, that the
event that is entering is not stored yet and that its number is known, that a hash found
missing is missing still. `TurnInv` adds to `IndexInv` that all busy threads are one thread
and that `TurnOK` holds of its registers. Without an operation under way `TurnOK` is
`StoredIsHave` and `IndexExact`.

Two arguments carry most actions. `Stable` and `KeyStill`: entries of `hash_to_n` keep their
numbers, so a key that was put is the key that is deleted. `Resumed`: where an operation goes on
to its next tag or to its end, nothing is left half done. The proof needs that threads take turns
where a thread relies on what it read: with two threads the victim of a removal may be gone
before its keys are.

`OneVersionStored` needs to know of a search what has not been ruled out yet. `VersionsOK`
says that the version of the event being added, if one is stored, is among the candidates of
every search (`InReach`), that a candidate is stored and of the right kind when the scan comes to
it (`FoundStored`), that there is no second one while it is removed, and none at `insert`
(`Replaces`). A search finds the version because `TurnOK` has all its keys in place, and because
the numbers that the search looked up are those of the author, the tag and the kind
(`NumberKnown`). The steps after the search cannot let another version in, because nobody else
adds events; the run `db_version_race` shows what happens when somebody does.

`DeletionsHonoured` is about all the ways in which a named event may be absent. `Out(r, e)`
lists them: `e` has expired; its id is `Deleted` or `Outdated`; nothing but the request is known
of it, and the request is of its author (`Refused`); or its id is `Have` and it is gone, and is
not being added. `Honoured` says that `e` is out as soon as the request is done with the tag
that names it, and from then on; `StepOut` shows that what is out stays out, `TagHonoured` that the
step that leaves the tag behind puts it out. `IdKnown`, `AddsRequest` and `Unasked` say what
was read of the id at the tag and in `Claim`, which is what the put after it relies on: that the entry
is still the one of the event to remove, that the new set of requesters contains the old one, and that an
event is only accepted when no requester is its author. `ExpiredGone` and `AcceptedKnown` are needed for the
expiration task, which removes by number without a look at the id.

`LossesJustified` and `NewestIsKept` are about the reason for each loss. `Reasons` are the accepted events
and the one being added as soon as it is certain to be accepted (`Certain`): `add_event` puts the
status of a loser or of a deleted event before it accepts the winner or the request. `Excused`
says that the status of an event that is gone states such a reason, `Justified` that the reason is known
before the status is put: what `ScanRemoves` and `IdKnown` establish when the victim is chosen
stays true until `RemoveStatus`. `Anew` says that what is being claimed was not accepted before,
so that a new `Have` hides no loss. `Survived` and `Standing` follow the chain of
versions: of every accepted event, or of a version that beats it, something is still to be seen,
the event itself or the request that has taken it. `Beats` is an order (`Beaten`), so a chain
ends at the newest.

### Queries: `GetEventsProofs`

That the merge implements its promise rests on the position `until`. It divides the Times:
what is later and has to be sent has been sent (`NoneMissed`), what has been sent is later
(`Sent`), and what is not later and there throughout is still before every iterator that has it, behind
no cached head (`StillAhead`). This is why a group may pull the position down to its own
latest head, why heads cached before a restart may be kept, and why a new snapshot loses
nothing. `Agreed` and `Found` are what makes the event that is fetched a match: the groups
that were visited without moving the position have an iterator on it. `Kept` and `Underway` say what
writers leave alone. The lemmas on `Later` make it the total order that the argument
needs. Induction appears once, as the least-number principle (`Least`, from the
well-foundedness of `<` on the naturals): a nonempty set of Times has a latest one.

### Subscriptions: `SubscriptionsProofs`

`NoGap` speaks of the moment after EOSE. At any moment from the REQ on, an event that a
subscription has a right to is in one of five places: delivered or lost, on its way to
the broadcast, in the receiver, in the channel, or before the task (`Reached`). `EoseLast`
says that EOSE overtakes nothing in the channel: when it has been forwarded the last two places
are empty. `OpenRuns` and `RunsFilter` keep the task in the place it has in `Reached`, and `SteadyTasks` is
what makes a message of the task pass `send_event`'s check, unless the session has changed
since.

`GiftWrapsGuarded` needs `KeysProved`, that tasks only hold keys the client has
authenticated with at some time, and `MessagesGuarded`, that whatever waits in the channel
was checked against such a key.

### A connection: `WsHandlerProofs`, `HandleEventProofs`

In `WsHandler`, what came since the ping is in the inbox while a pong is awaited
(`HeardWaits`), and can be older than the tick only if a write held the loop up or an error
has just set the timeout again (`HeldUp`). `Shared` adds up silence and the timeout.

In `HandleEvent`, `Checked` and `Consented` carry what was checked over the await of the
plugin, where profiles and time change: profiles only come, and the key only changes with
an AUTH message, which a connection does not read while it waits. `CreditLeft` ties the credit, halved
twice and saturating, to the number of rejections in a row.

### Expirations: `ExpirationQueueProofs`

A number in the queue is good for what is stored under it because it was given out once
(`Numbered`), because an event is only under its own number (`InOwnSlot`), and because the number in a
`Time` is that of an event with this expiration, wherever the `Time` is: at the connection,
in the channel, in the queue (`Timed`), or taken off it, and then it is due (`TakenExpired`).

### The plugin: `PluginProofs`

`AnswersBelong` is not inductive: `RecvLine` hands out what it finds in the pipe, to the
call it finds in the cache. `OutputSaid` says that the pipe holds only what the command
has said, and `TypeOK` that a call is cached under its own event; `Inv` is the
conjunction of the three. `DroppedCalls` (dropping senders gives nobody a verdict)
serves every action that drops calls, and `EndKeeps` the three ways in which the task
ends.

### The assumptions

* `DbAssumption`: events with one id are one event (the id is a SHA-256 hash), the hashes of
  the events are in `Hashes`, tags are finite sequences, and `None` is none of the values.
* `ValuesAssumption`: the values of tags are as `FirstTagValue::parse` returns them: a hash is the
  value `Hex32` of it, an address has a kind, an author and a `d` value.
* `IndexedAssumption`: the conditions of an event include its author, its kind and its first
  `d` value, and no other kind.
* `ConditionsAssumption`, `FiltersAssumption`: the conditions of events and filters are of
  the forms that `src/nostr.rs` gives them. They and `IndexedAssumption` follow from `Conditions` for tags as the
  code parses them (the names of the tags that are indexed are single letters, so none is NUL or SOH,
  those that a filter asks for are single bytes, and a value is never a number); they are assumed because `Conditions` is written with `SelectSeq`, which
  `tlapm` cannot look into.
* `GetEventsAssumption`: Times are pairs of numbers, and no event has number 0, as the counter
  starts at 1; a batch holds at least one event.
* `SubscriptionsAssumption`, `ExpirationQueueAssumption`, `PluginAssumption`: every
  channel, pipe and buffer holds at least one message.
* `WsHandlerAssumption`: the timeout is at least one tick. `HandleEventAssumption`: the
  admin, if there is one, and the banned keys are keys.

### What stays with TLC

* The liveness properties (`CallsReturn`, `ExpiringGone`, `Ends`, `AcceptedArrives`, `TasksEnd`,
  `SilentClosed`, `EventAnswered`, `HandOverEnds`, `ReturnOrHeldUp`): fairness and `ENABLED` are
  beyond the prover.
* That the store implements `Store` (`ImplementsStore`). `Store` folds over the tags of a request,
  and what a fold yields for every sequence takes an induction that the provers cannot be given.

## Plan

1. *Done*: `Nostr`, `Db`, `DbProperties`, `DbProofs`.
2. *Done*: `StoredQuery`, `GetEvents`.
3. *Done*: `Subscriptions`.
4. *Done*: `WsHandler`, `HandleEvent`.
5. *Done*: `ExpirationQueue`.
6. *Done*: `Plugin`.
7. *Done*: `Store`, `DbStore`.
8. *Done*: `PluginProofs`.
9. *Done*: `SubscriptionsProofs`, `ExpirationQueueProofs`, `HandleEventProofs`,
   `WsHandlerProofs`, `GetEventsProofs`, the index in `DbProofs`.
10. *Done*: `DbTurnsProofs`, for operations that take turns: `StoredIsHave`, `IndexExact`,
    `OneVersion`, `DeletionHonoured`, `LossJustified`, `NewestKept`.
11. *Done*: `TombstonesFinal` in `DbProofs`, across crashes and beside the expiration task.
