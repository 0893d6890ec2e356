----------------------------------- MODULE Db ----------------------------------
(*****************************************************************************)
(* The event store of src/relay.rs: add_event, with replacement and          *)
(* deletion requests, and remove_event, run by concurrent threads over four  *)
(* RocksDB databases that share no transaction and no lock.                  *)
(*                                                                           *)
(* A step of a thread is one call of RocksDB, with the local computation     *)
(* around it; looking up the number of a hash is part of the call that uses  *)
(* it.                                                                       *)
(* Restart is a crash of the process at any point followed by Db::new: what  *)
(* was put stays, the counter and the threads' local state are lost.         *)
(*****************************************************************************)
EXTENDS Nostr, FiniteSets

CONSTANTS
    Connections,   \* the threads that run add_event
    Expirer,       \* the task that runs remove_event on expired events
    Events,        \* the events clients may publish
    Hashes,        \* the 32-byte values that occur in Events
    MaxN           \* bound on the numbers the counter hands out

VARIABLES
    n_count,       \* Counter: the next number, volatile
    hash_to_n,     \* hash -> None or [n, status, by]
    n_to_event,    \* number -> None or the event
    conditions,    \* the keys <<compact condition, <<created_at, n>> >>
    time,          \* the keys <<created_at, n>>
    proc,          \* the registers of each thread
    accepted,      \* history: the <<event, n>> for which add_event returned Ok(n)
    expirations,   \* the expiration queue: events to remove, with their numbers
    expired,       \* history: the events past their expiration
    owner          \* history: the hash each number was last allocated for

db == <<hash_to_n, n_to_event, conditions, time>>
book == <<accepted, expirations, expired>>
vars == <<n_count, db, proc, book, owner>>

Procs == Connections \cup {Expirer}
Ns == 1..MaxN
Status == {"Have", "Unknown", "Deleted", "Outdated"}
CreatedAts == {e.created_at : e \in Events}
Times == CreatedAts \X Ns
AllConditions == UNION {Range(Conditions(e)) : e \in Events}
CompactConditions == {Compact(c, n) : c \in AllConditions, n \in Ns}

HashesOf(event) ==
    {event.id, event.pubkey}
        \cup {event.tags[i].value.hash : i \in
                {j \in DOMAIN event.tags : /\ event.tags[j].value # None
                                           /\ event.tags[j].value.type = "hex32"}}
        \cup {event.tags[i].value.pubkey : i \in
                {j \in DOMAIN event.tags : /\ event.tags[j].value # None
                                           /\ event.tags[j].value.type = "address"}}

ASSUME DbAssumption ==
    /\ Hashes \subseteq Nat
    /\ MaxN \in Nat
    /\ None \notin Events /\ None \notin Hashes
    /\ None \notin [n : Ns, status : Status, by : SUBSET Ns]
    /\ \A h \in Hashes : Hex32(h) # None
    /\ \A e \in Events :
           /\ HashesOf(e) \subseteq Hashes
           /\ e.created_at \in Nat
           /\ e.kind \in Nat
           /\ e.tags \in Seq(Range(e.tags))
           /\ Conditions(e) \in Seq(AllConditions)
           /\ \A f \in Events : e.id = f.id => e = f
    /\ \A c \in AllConditions : HasHash(c) => c[2].hash \in Hashes

\* A hash of a condition is one of Hashes, and no other value looks like the
\* number of one.
IsCondition(c) ==
    IF HasHash(c) THEN c = <<c[1], Hex32(c[2].hash)>> /\ c[2].hash \in Hashes
    ELSE c[2].type # "n"

\* A condition whose key is that of no other condition like it.
IsPlain(c) == IsCondition(c) /\ c[1] \notin {NUL, SOH}

\* No tag is called "author", and those that are indexed are called by letters.
ASSUME ConditionsAssumption ==
    /\ None \notin CompactConditions
    /\ \A c \in AllConditions : IsPlain(c)
    /\ \A e \in Events : \A c \in Range(Conditions(e)) :
           c[1] = "author" => c = Author(e.pubkey)

\* The values of tags are as FirstTagValue::parse returns them: an address has a d value.
ASSUME ValuesAssumption ==
    \A e \in Events : \A i \in DOMAIN e.tags :
        LET value == e.tags[i].value IN
        value # None =>
            /\ value.type = "hex32" => value = Hex32(value.hash)
            /\ value.type = "address" =>
                  value = Address(value.kind, value.pubkey, value.d) /\ value.d # None

\* An event is indexed under its author, its kind and no other, and its d value.
ASSUME IndexedAssumption ==
    \A e \in Events :
        /\ {Author(e.pubkey), Kind(e.kind)} \subseteq Range(Conditions(e))
        /\ FirstDValue(e) # None => <<"d", FirstDValue(e)>> \in Range(Conditions(e))
        /\ \A c \in Range(Conditions(e)) : c[1] = "kind" => c = Kind(e.kind)

-------------------------------------------------------------------------------
(* The registers of a thread.                                                *)

Idle == [
    pc      |-> "idle",
    event   |-> None,      \* the event being added, None for an expiration
    author  |-> 0,         \* number of the event's author
    n       |-> 0,         \* number of the event
    miss    |-> FALSE,     \* get_n_from_hash_or_create has found nothing
    ref     |-> 0,         \* the number get_n_from_hash_or_create returned
    tag     |-> 0,         \* index of the tag a deletion request is at
    cand    |-> {},        \* what is left of a search: Times, latest first
    victim  |-> 0,         \* number being removed or marked
    status  |-> "Have",    \* status the removed event gets
    removed |-> None,      \* the event being removed
    by      |-> {},        \* deletion_requested_by
    todo    |-> <<>>]      \* conditions still to put or to delete

Goto(p, r) == proc' = [proc EXCEPT ![p] = r]

Entry(n, status, by) == [n |-> n, status |-> status, by |-> by]

\* hash_to_n_set_status and hash_to_n_set_deletion_requested
SetEntry(h, entry) == hash_to_n' = [hash_to_n EXCEPT ![h] = entry]

\* Mutant: a load and a store in place of fetch_add, so that an increment may
\* get lost.
AllocateLoadStore(h) ==
    /\ n_count \in Ns
    /\ n_count' \in {n_count, n_count + 1}
    /\ owner' = [owner EXCEPT ![n_count] = h]

\* Counter::next, on behalf of hash h
Allocate(h) ==
    /\ n_count \in Ns
    /\ n_count' = n_count + 1
    /\ owner' = [owner EXCEPT ![n_count] = h]

\* get_n_from_hash_or_create: one step reads; if the hash is unknown a second
\* one allocates a number and puts it, whatever has been put in between.
GetOrCreate(p, h, next) ==
    LET r == proc[p] IN
    \/ /\ ~r.miss /\ hash_to_n[h] # None
       /\ Goto(p, [r EXCEPT !.pc = next, !.ref = hash_to_n[h].n])
       /\ UNCHANGED <<n_count, owner, hash_to_n>>
    \/ /\ ~r.miss /\ hash_to_n[h] = None
       /\ Goto(p, [r EXCEPT !.miss = TRUE])
       /\ UNCHANGED <<n_count, owner, hash_to_n>>
    \/ /\ r.miss
       /\ Allocate(h)
       /\ SetEntry(h, Entry(n_count, "Unknown", {}))
       /\ Goto(p, [r EXCEPT !.pc = next, !.ref = n_count, !.miss = FALSE])

\* ConditionCompact::new: None when the hash of the condition is unknown
CompactNow(c) ==
    IF ~HasHash(c) THEN Compact(c, 0)
    ELSE IF hash_to_n[c[2].hash] = None THEN None
    ELSE Compact(c, hash_to_n[c[2].hash].n)

Init ==
    /\ n_count = 1
    /\ hash_to_n = [h \in Hashes |-> None]
    /\ n_to_event = [n \in Ns |-> None]
    /\ conditions = {}
    /\ time = {}
    /\ proc = [p \in Procs |-> Idle]
    /\ accepted = {}
    /\ expirations = {}
    /\ expired = {}
    /\ owner = [n \in Ns |-> None]

-------------------------------------------------------------------------------
(* The callers.                                                              *)

\* handle_event calls add_event; an event past its expiration is turned down
\* before that (lib.rs:583).
StartAdd(p, e) ==
    /\ proc[p] = Idle
    /\ p # Expirer
    /\ e \notin expired
    /\ Goto(p, [Idle EXCEPT !.pc = "author", !.event = e])
    /\ UNCHANGED <<n_count, db, book, owner>>

\* delete_expired_events takes a Time off its queue and calls remove_event.
StartExpire(e, n) ==
    /\ proc[Expirer] = Idle
    /\ <<e, n>> \in expirations
    /\ expirations' = expirations \ {<<e, n>>}
    /\ expired' = expired \cup {e}
    /\ Goto(Expirer, [Idle EXCEPT !.pc = "remove", !.victim = n, !.status = "Unknown"])
    /\ UNCHANGED <<n_count, db, accepted, owner>>

-------------------------------------------------------------------------------
(* add_event: the numbers of the author and of the event.                    *)

\* Mutants: an id counts as new although the event is there, or was there.
UndecidedOrHave(entry) == entry.status \in {"Unknown", "Have"}
UndecidedOrGone(entry) == entry.status # "Have"

\* Nothing has been decided about a hash: a public key, or the id of an event
\* that has only been named by a deletion request.
Undecided(entry) == entry.status = "Unknown"

GetAuthor(p) ==
    /\ proc[p].pc = "author"
    /\ GetOrCreate(p, proc[p].event.pubkey, "claim")
    /\ UNCHANGED <<n_to_event, conditions, time, book>>

\* get_n_for_new_event up to its put: what is known of the id decides.
Claim(p) ==
    LET r == proc[p]
        entry == hash_to_n[r.event.id]
    IN
    /\ r.pc = "claim"
    /\ \/ /\ entry = None
          /\ Allocate(r.event.id)
          /\ Goto(p, [r EXCEPT !.pc = "set_have", !.author = r.ref, !.n = n_count])
       \/ /\ entry # None /\ Undecided(entry)
          /\ Goto(p, [r EXCEPT
                !.pc = IF r.ref \in entry.by THEN "set_deleted" ELSE "set_have",
                !.author = r.ref, !.n = entry.n])
          /\ UNCHANGED <<n_count, owner>>
       \/ /\ entry # None /\ ~Undecided(entry)
          /\ Goto(p, Idle)             \* Err(Duplicated | Deleted | HaveNewer)
          /\ UNCHANGED <<n_count, owner>>
    /\ UNCHANGED <<db, book>>

SetDeleted(p) ==
    /\ proc[p].pc = "set_deleted"
    /\ SetEntry(proc[p].event.id, Entry(proc[p].n, "Deleted", {}))
    /\ Goto(p, Idle)                   \* Err(Deleted)
    /\ UNCHANGED <<n_count, n_to_event, conditions, time, book, owner>>

\* The end of get_n_for_new_event, and the match on the kind.
SetHave(p) ==
    LET r == proc[p]
        e == r.event
    IN
    /\ r.pc = "set_have"
    /\ SetEntry(e.id, Entry(r.n, "Have", {}))
    /\ Goto(p, [r EXCEPT
          !.pc = CASE IsReplaceable(e.kind) -> "search_author"
                   [] IsAddressable(e.kind) /\ FirstDValue(e) # None -> "slot_author"
                   [] e.kind = EVENT_DELETION -> "tags"
                   [] OTHER -> "insert",
          !.tag = IF e.kind = EVENT_DELETION THEN 1 ELSE 0])
    /\ UNCHANGED <<n_count, n_to_event, conditions, time, book, owner>>

-------------------------------------------------------------------------------
(* The search for the version an event replaces or an "a" tag names.         *)

\* What is searched: an address, without a d for a replaceable event.
Goal(r) ==
    IF r.event.kind = EVENT_DELETION
    THEN r.event.tags[r.tag].value
    ELSE Address(r.event.kind, r.event.pubkey,
                 IF IsAddressable(r.event.kind) THEN FirstDValue(r.event) ELSE None)

\* Where add_event goes on after a removal, a search or a tag.
Resume(r) ==
    IF r.event = None THEN Idle
    ELSE LET isRequest == r.event.kind = EVENT_DELETION
         IN  [Idle EXCEPT !.pc = IF isRequest THEN "tags" ELSE "insert",
                          !.event = r.event, !.author = r.author, !.n = r.n,
                          !.tag = IF isRequest THEN r.tag + 1 ELSE 0]

SlotAuthor(p) ==
    /\ proc[p].pc = "slot_author"
    /\ GetOrCreate(p, Goal(proc[p]).pubkey, "search_tag")
    /\ UNCHANGED <<n_to_event, conditions, time, book>>

\* The Times under one key of the index.
Hits(key) == {t \in {c[2] : c \in conditions} : <<key, t>> \in conditions}

\* One snapshot after the other; a d value without a number ends the search.
SearchTag(p) ==
    LET r == proc[p]
        key == CompactNow(<<"d", Goal(r).d>>)
    IN
    /\ r.pc = "search_tag"
    /\ Goto(p, IF key = None THEN Resume(r)
               ELSE [r EXCEPT !.pc = "search_author", !.cand = Hits(key)])
    /\ UNCHANGED <<n_count, db, book, owner>>

\* Mutant: every author is searched.
SearchAnyAuthor(p) ==
    LET r == proc[p] IN
    /\ r.pc = "search_author"
    /\ Goto(p, [r EXCEPT !.pc = "search_kind", !.cand = IF Goal(r).d = None THEN time ELSE @])
    /\ UNCHANGED <<n_count, db, book, owner>>

SearchAuthor(p) ==
    LET r == proc[p]
        hits == Hits(Compact(Author(Goal(r).pubkey), r.ref))
    IN
    /\ r.pc = "search_author"
    /\ Goto(p, [r EXCEPT !.pc = "search_kind",
                         !.cand = IF Goal(r).d = None THEN hits ELSE @ \cap hits])
    /\ UNCHANGED <<n_count, db, book, owner>>

SearchKind(p) ==
    LET r == proc[p] IN
    /\ r.pc = "search_kind"
    /\ Goto(p, [r EXCEPT !.pc = "scan", !.cand = @ \cap Hits(Kind(Goal(r).kind))])
    /\ UNCHANGED <<n_count, db, book, owner>>

\* Mutant: of two versions with equal times, the one that comes last wins.
HaveNewerNoTie(t, stored, event) == t[1] > event.created_at

\* The test of both searches: does the version with key t beat the event?  On
\* equal times the higher id does, and never against a deletion request.
HaveNewer(t, stored, event) ==
    \/ t[1] > event.created_at
    \/ /\ t[1] = event.created_at
       /\ event.kind # EVENT_DELETION
       /\ stored # None /\ stored.id > event.id

\* Mutant: a hit under the d value is a version, whichever d of it was hit.
IsVersionAnyD(stored, d) == d # None => stored # None

\* With a d value, a hit has to be stored and to have the value as its first d.
IsVersion(stored, d) == d # None => stored # None /\ FirstDValue(stored) = d

\* Mutants: the search ends at a hit that is no version, or stays at it.
SkipAll(r, t) == Resume(r)
SkipNone(r, t) == r

\* The search goes on after hit t.
Skip(r, t) == [r EXCEPT !.cand = @ \ {t}]

\* One iteration of a search, at the latest of the hits that are left.
Scan(p) ==
    LET r == proc[p] IN
    /\ r.pc = "scan"
    /\ \/ /\ r.cand = {}
          /\ Goto(p, Resume(r))
       \/ \E t \in r.cand :
             LET stored == n_to_event[t[2]] IN
             /\ \A s \in r.cand : ~Later(s, t)
             /\ Goto(p,
                  IF ~IsVersion(stored, Goal(r).d) THEN Skip(r, t)
                  ELSE IF ~HaveNewer(t, stored, r.event)
                  THEN [r EXCEPT !.pc = "remove", !.victim = t[2],
                                 !.status = "Outdated", !.cand = {}]
                  ELSE IF r.event.kind = EVENT_DELETION THEN Resume(r)
                  ELSE Idle)           \* Err(HaveNewer)
    /\ UNCHANGED <<n_count, db, book, owner>>

-------------------------------------------------------------------------------
(* A deletion request: its tags, one after the other.                        *)

\* Mutant: a request takes the place of the earlier ones.
RequestedLast(entry, author) == {author}

\* The deletion request of one more author.
Requested(entry, author) == entry.by \cup {author}

TagStep(p) ==
    LET r == proc[p]
        value == r.event.tags[r.tag].value
        entry == hash_to_n[value.hash]
        isE == r.event.tags[r.tag].name = "e" /\ value # None /\ value.type = "hex32"
        isA == r.event.tags[r.tag].name = "a" /\ value # None /\ value.type = "address"
    IN
    /\ r.pc = "tags"
    /\ \/ /\ r.tag > Len(r.event.tags)
          /\ Goto(p, [r EXCEPT !.pc = "insert", !.tag = 0])
          /\ UNCHANGED <<n_count, owner>>
       \/ /\ r.tag <= Len(r.event.tags) /\ isE
          /\ \/ /\ entry = None
                /\ Allocate(value.hash)
                /\ Goto(p, [r EXCEPT !.pc = "set_requested", !.victim = n_count,
                                     !.by = {r.author}])
             \/ /\ entry # None
                /\ Goto(p, CASE Undecided(entry) ->
                                  [r EXCEPT !.pc = "set_requested", !.victim = entry.n,
                                            !.by = Requested(entry, r.author)]
                             [] ~Undecided(entry) /\ entry.status = "Have" ->
                                  [r EXCEPT !.pc = "check_author", !.victim = entry.n]
                             [] OTHER -> Resume(r))
                /\ UNCHANGED <<n_count, owner>>
       \/ /\ r.tag <= Len(r.event.tags) /\ ~isE
          /\ Goto(p, IF isA THEN [r EXCEPT !.pc = "slot_author"] ELSE Resume(r))
          /\ UNCHANGED <<n_count, owner>>
    /\ UNCHANGED <<db, book>>

\* hash_to_n_set_deletion_requested
SetRequested(p) ==
    LET r == proc[p] IN
    /\ r.pc = "set_requested"
    /\ SetEntry(r.event.tags[r.tag].value.hash, Entry(r.victim, "Unknown", r.by))
    /\ Goto(p, Resume(r))
    /\ UNCHANGED <<n_count, n_to_event, conditions, time, book, owner>>

\* Mutant: a deletion request deletes what it names.
MayDeleteAny(request, stored) == stored # None

\* Only its author may delete an event by id.
MayDelete(request, stored) == stored # None /\ stored.pubkey = request.pubkey

CheckAuthor(p) ==
    LET r == proc[p] IN
    /\ r.pc = "check_author"
    /\ Goto(p, IF MayDelete(r.event, n_to_event[r.victim])
               THEN [r EXCEPT !.pc = "remove", !.status = "Deleted"]
               ELSE Resume(r))
    /\ UNCHANGED <<n_count, db, book, owner>>

-------------------------------------------------------------------------------
(* remove_event: the status first, then the index, the event itself last.    *)

\* Mutant: the keys are those of the event that is being added.
RemovedTimeOfNew(r) == TimeOf(IF r.event = None THEN r.removed ELSE r.event, r.victim)

\* Under which Time the event being removed is indexed.
RemovedTime(r) == TimeOf(r.removed, r.victim)

Remove(p) ==
    LET r == proc[p]
        e == n_to_event[r.victim]
    IN
    /\ r.pc = "remove"
    /\ Goto(p, IF e = None THEN Resume(r)
               ELSE [r EXCEPT !.pc = "remove_status", !.removed = e,
                              !.todo = Conditions(e)])
    /\ UNCHANGED <<n_count, db, book, owner>>

RemoveStatus(p) ==
    LET r == proc[p] IN
    /\ r.pc = "remove_status"
    /\ SetEntry(r.removed.id, Entry(r.victim, r.status, {}))
    /\ Goto(p, [r EXCEPT !.pc = "remove_keys"])
    /\ UNCHANGED <<n_count, n_to_event, conditions, time, book, owner>>

\* No key holds None: a tag value without a number deletes nothing.  The author
\* of a stored event always has one.
RemoveKey(p) ==
    LET r == proc[p] IN
    /\ r.pc = "remove_keys" /\ r.todo # <<>>
    /\ conditions' = conditions \ {<<CompactNow(Head(r.todo)), RemovedTime(r)>>}
    /\ Goto(p, [r EXCEPT !.todo = Tail(@)])
    /\ UNCHANGED <<n_count, hash_to_n, n_to_event, time, book, owner>>

RemoveTime(p) ==
    LET r == proc[p] IN
    /\ r.pc = "remove_keys" /\ r.todo = <<>>
    /\ time' = time \ {RemovedTime(r)}
    /\ Goto(p, [r EXCEPT !.pc = "remove_event"])
    /\ UNCHANGED <<n_count, hash_to_n, n_to_event, conditions, book, owner>>

RemoveEvent(p) ==
    LET r == proc[p] IN
    /\ r.pc = "remove_event"
    /\ n_to_event' = [n_to_event EXCEPT ![r.victim] = None]
    /\ Goto(p, Resume(r))
    /\ UNCHANGED <<n_count, hash_to_n, conditions, time, book, owner>>

-------------------------------------------------------------------------------
(* The insertion: the event first, then its index.                           *)

Insert(p) ==
    LET r == proc[p] IN
    /\ r.pc = "insert"
    /\ n_to_event' = [n_to_event EXCEPT ![r.n] = r.event]
    /\ Goto(p, [r EXCEPT !.pc = "insert_keys", !.todo = Conditions(r.event)])
    /\ UNCHANGED <<n_count, hash_to_n, conditions, time, book, owner>>

\* FirstTagValueCompact::new_with_new_n, and the number of the author
InsertRef(p) ==
    LET r == proc[p] IN
    /\ r.pc = "insert_keys" /\ r.todo # <<>> /\ HasHash(Head(r.todo))
    /\ GetOrCreate(p, Head(r.todo)[2].hash, "insert_key")
    /\ UNCHANGED <<n_to_event, conditions, time, book>>

InsertKey(p) ==
    LET r == proc[p] IN
    /\ r.todo # <<>>
    /\ r.pc = "insert_key" \/ (r.pc = "insert_keys" /\ ~HasHash(Head(r.todo)))
    /\ conditions' = conditions \cup
           {<<Compact(Head(r.todo), r.ref), TimeOf(r.event, r.n)>>}
    /\ Goto(p, [r EXCEPT !.pc = "insert_keys", !.todo = Tail(@)])
    /\ UNCHANGED <<n_count, hash_to_n, n_to_event, time, book, owner>>

\* Mutant: the expiration of an event that was accepted before is not queued.
ArmedOnce(event, n) ==
    expirations \cup (IF Expires(event) THEN {<<event, n>>} \ accepted ELSE {})

\* After Ok(n), handle_event queues the expiration (lib.rs:622).
Armed(event, n) ==
    expirations \cup (IF Expires(event) THEN {<<event, n>>} ELSE {})

InsertTime(p) ==
    LET r == proc[p] IN
    /\ r.pc = "insert_keys" /\ r.todo = <<>>
    /\ time' = time \cup {TimeOf(r.event, r.n)}
    /\ accepted' = accepted \cup {<<r.event, r.n>>}
    /\ expirations' = Armed(r.event, r.n)
    /\ Goto(p, Idle)                   \* Ok(n)
    /\ UNCHANGED <<n_count, hash_to_n, n_to_event, conditions, expired, owner>>

-------------------------------------------------------------------------------

Step(p) ==
    \/ GetAuthor(p) \/ Claim(p) \/ SetDeleted(p) \/ SetHave(p)
    \/ SlotAuthor(p) \/ SearchTag(p) \/ SearchAuthor(p) \/ SearchKind(p) \/ Scan(p)
    \/ TagStep(p) \/ SetRequested(p) \/ CheckAuthor(p)
    \/ Remove(p) \/ RemoveStatus(p) \/ RemoveKey(p) \/ RemoveTime(p) \/ RemoveEvent(p)
    \/ Insert(p) \/ InsertRef(p) \/ InsertKey(p) \/ InsertTime(p)

\* One lifetime of the process.
Next ==
    \/ \E p \in Connections, e \in Events : StartAdd(p, e)
    \/ \E e \in Events, n \in Ns : StartExpire(e, n)
    \/ \E p \in Procs : Step(p)

\* Db::new starts the counter after the last key of n_to_event.
FirstN(first) ==
    /\ \A n \in Ns : n_to_event[n] # None => n < first
    /\ first # 1 => n_to_event[first - 1] # None

Restart ==
    /\ \E first \in 1..(MaxN + 1) : FirstN(first) /\ n_count' = first
    /\ proc' = [p \in Procs |-> Idle]
    /\ UNCHANGED <<db, book, owner>>

Spec == Init /\ [][Next]_vars

\* The calls of RocksDB return, and the timer of an expiration fires.
FairSpec ==
    /\ Spec
    /\ \A p \in Procs : WF_vars(Step(p))
    /\ WF_vars(\E e \in Events, n \in Ns : StartExpire(e, n))

\* Any number of lifetimes.
CrashSpec == Init /\ [][Next \/ Restart]_vars
================================================================================
