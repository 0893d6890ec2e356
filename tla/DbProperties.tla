------------------------------ MODULE DbProperties -----------------------------
(*****************************************************************************)
(* What the event store promises.  The first group holds whatever the        *)
(* threads interleave, within one lifetime of the process; the second is     *)
(* about a store that one thread at a time uses; the third about crashes.    *)
(*****************************************************************************)
EXTENDS Db

CONSTANT Filters     \* the filters that queries use

ASSUME FiltersAssumption ==
    \A f \in Filters : \A group \in f.conditions : \A c \in group : IsCondition(c)

Labels == {"idle", "author", "claim", "set_deleted", "set_have", "slot_author",
           "search_tag", "search_author", "search_kind", "scan", "tags",
           "set_requested", "check_author", "remove", "remove_status",
           "remove_keys", "remove_event", "insert", "insert_keys", "insert_key"}

Registers == [
    pc : Labels, event : Events \cup {None}, author : Ns \cup {0}, n : Ns \cup {0},
    miss : BOOLEAN, ref : Ns \cup {0}, tag : Nat, cand : SUBSET Times,
    victim : Ns \cup {0}, status : Status, removed : Events \cup {None},
    by : SUBSET Ns, todo : Seq(AllConditions)]

Entries == [n : Ns, status : Status, by : SUBSET Ns]

\* The types of the databases and of the registers.
TypeOK ==
    /\ n_count \in 1..(MaxN + 1)
    /\ hash_to_n \in [Hashes -> Entries \cup {None}]
    /\ n_to_event \in [Ns -> Events \cup {None}]
    /\ conditions \subseteq CompactConditions \X Times
    /\ time \subseteq Times
    /\ proc \in [Procs -> Registers]
    /\ accepted \subseteq Events \X Ns
    /\ expirations \subseteq accepted
    /\ expired \subseteq Events
    /\ owner \in [Ns -> Hashes \cup {None}]

-------------------------------------------------------------------------------
(* Within one lifetime, under every interleaving of the threads.             *)

\* The events a query returns: handle_req looks ids up in hash_to_n and
\* anything else in the index, whose keys alone decide since and until. With a
\* search field nothing is found in the index.
Served(f) ==
    LET known == {h \in Hashes \cap f.ids : hash_to_n[h] # None /\ hash_to_n[h].status = "Have"}
        found == {t \in (IF f.conditions = {} THEN time ELSE {c[2] : c \in conditions}) :
                     ~f.search /\ \A group \in f.conditions : \E c \in group :
                         <<CompactNow(c), t>> \in conditions}
        ns == IF f.ids # None
              THEN {hash_to_n[h].n : h \in known}
              ELSE {t[2] : t \in {s \in found : f.since <= s[1] /\ s[1] <= f.until}}
    IN  {n_to_event[n] : n \in ns} \ {None}

\* An EVENT sent for a stored query matches the subscription's filter, although
\* the index holds numbers for hashes and is written while queries run.
ServedMatch == \A f \in Filters : \A e \in Served(f) : Matches(f, e)

\* The number of a stored event is never given to another event: a slot of
\* n_to_event changes by being emptied, never by being overwritten.
NeverOverwritten ==
    [][\A n \in Ns : n_to_event[n] # None => n_to_event'[n] \in {n_to_event[n], None}]_vars

\* Numbers are what ties the databases together: none is given out twice, the
\* entry of a hash holds a number that was given out for it, and a stored event
\* has a number of its id.
NumbersOwned ==
    /\ \A n \in Ns : owner[n] # None => n < n_count
    /\ \A h \in Hashes : hash_to_n[h] # None => owner[hash_to_n[h].n] = h
    /\ \A n \in Ns : n_to_event[n] # None => owner[n] = n_to_event[n].id

\* An event leaves the store because it expired or on behalf of its own author,
\* through a newer version or a deletion request.
RemovedForAuthor ==
    [][\A n \in Ns : n_to_event[n] # None /\ n_to_event'[n] # n_to_event[n] =>
          \E p \in Procs :
             /\ proc[p].pc = "remove_event" /\ proc[p].victim = n
             /\ \/ p = Expirer
                \/ proc[p].event.pubkey = n_to_event[n].pubkey]_vars

\* Every call of add_event and remove_event comes to its end: no search or loop
\* over tags runs for ever.
CallsReturn == \A p \in Procs : (proc[p] # Idle) ~> (proc[p] = Idle)

\* An accepted event that expires is gone for good in the end, also when it was
\* replaced, deleted or published again while it expired.
ExpiringGone ==
    \A e \in Events : Expires(e) =>
        ((\E a \in accepted : a[1] = e) ~> [](\A n \in Ns : n_to_event[n] # e))

-------------------------------------------------------------------------------
(* With one thread, between two operations.                                  *)

Quiet == \A p \in Procs : proc[p] = Idle

Stored == {n \in Ns : n_to_event[n] # None}

\* The index is exactly what the stored events call for: nothing dangles after
\* a removal and nothing stored is out of a query's reach.
IndexExact ==
    Quiet =>
      /\ time = {TimeOf(n_to_event[n], n) : n \in Stored}
      /\ conditions =
           UNION {{<<CompactNow(c), TimeOf(n_to_event[n], n)>> :
                      c \in Range(Conditions(n_to_event[n]))} : n \in Stored}

\* A stored event is known under its id, with its number: a deletion request or
\* a query by id reaches it, and publishing it again stores nothing.
StoredIsHave ==
    Quiet => \A n \in Stored : hash_to_n[n_to_event[n].id] = Entry(n, "Have", {})

SameSlot(e, f) ==
    /\ e.pubkey = f.pubkey /\ e.kind = f.kind
    /\ \/ IsReplaceable(e.kind)
       \/ IsAddressable(e.kind) /\ FirstDValue(e) # None /\ FirstDValue(e) = FirstDValue(f)

Beats(e, f) == e.created_at > f.created_at \/ (e.created_at = f.created_at /\ e.id > f.id)

\* At most one version of a replaceable or addressable event is stored.
OneVersion ==
    Quiet => \A m, n \in Stored : SameSlot(n_to_event[m], n_to_event[n]) => m = n

Names(request, e) ==
    /\ request.kind = EVENT_DELETION /\ request.pubkey = e.pubkey
    /\ \E i \in DOMAIN request.tags :
           request.tags[i].name = "e" /\ request.tags[i].value = Hex32(e.id)

NamesAddress(request, e) ==
    /\ request.kind = EVENT_DELETION
    /\ \E i \in DOMAIN request.tags :
           /\ request.tags[i].name = "a"
           /\ request.tags[i].value = Address(e.kind, e.pubkey, FirstDValue(e))

\* Whatever the order in which versions were published, the stored one beats
\* every version accepted, unless the latest of these was deleted or expired:
\* then a version it had replaced or turned down counts no more.
NewestKept ==
    Quiet => \A n \in Stored, a \in accepted :
        SameSlot(n_to_event[n], a[1]) /\ Beats(a[1], n_to_event[n]) =>
            \E b \in accepted :
               /\ SameSlot(b[1], a[1])
               /\ b = a \/ Beats(b[1], a[1])
               /\ \/ hash_to_n[b[1].id].status \in {"Deleted", "Unknown"}
                  \/ \E c \in accepted : NamesAddress(c[1], b[1])

\* Once a deletion request is accepted, the events of its author that it names
\* are gone and stay out, published before the request or after it.
DeletionHonoured ==
    Quiet => \A a \in accepted, n \in Stored : ~Names(a[1], n_to_event[n])

\* No accepted event gets lost: it is stored, or its id says that it was deleted
\* or outdated and an accepted event is the reason, or it has expired.
LossJustified ==
    Quiet => \A a \in accepted :
        LET e == a[1]
            status == hash_to_n[e.id].status
        IN  \/ n_to_event[a[2]] = e
            \/ status = "Deleted" /\ \E b \in accepted : Names(b[1], e)
            \/ status = "Outdated" /\ \E b \in accepted :
                   (SameSlot(b[1], e) /\ Beats(b[1], e)) \/ NamesAddress(b[1], e)
            \/ e \in expired

-------------------------------------------------------------------------------
(* With one thread, and with crashes or with the expiration task.  With both *)
(* the code does not keep it: an expiration that outlives a crash may be of  *)
(* a number that belongs to another event by then (ExpirationQueue), whose   *)
(* removal, cut short by a second crash, the task undoes.                    *)

\* An id that was deleted or replaced never comes back to life, whatever a
\* crash has left half done, unless its event has expired: then it may be
\* published again, and is turned down for being expired.
TombstonesFinal ==
    [][\A h \in Hashes : hash_to_n[h] # None /\ hash_to_n[h].status \in {"Deleted", "Outdated"} =>
          \/ hash_to_n'[h].status \in {"Deleted", "Outdated"}
          \/ \E e \in expired : e.id = h]_vars

-------------------------------------------------------------------------------
(* What the comments and the relay information document say of the program   *)
(* and the code does not keep.                                               *)

\* relay.rs:82: status 1 is for "an id of event that we have".
HaveMeansStored ==
    Quiet => \A h \in Hashes : hash_to_n[h] # None /\ hash_to_n[h].status = "Have" =>
        \E n \in Stored : n_to_event[n].id = h
================================================================================
